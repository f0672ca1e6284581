------------------------------ MODULE MCSqlTexts ------------------------------
(***************************************************************************)
(* Model-checking values for SqlTexts: each alphabet brings together the   *)
(* symbols of one kind of construct and something to hide in it, with      *)
(* texts long enough for the construct to open, nest, close and be left.   *)
(***************************************************************************)
EXTENDS SqlTexts

Lengths ==
    << <<{"slash", "star", "semicolon"}, 8>>,
       <<{"dash", "slash", "eol", "insert", "semicolon"}, 6>>,
       <<{"quote", "backslash", "e", "w", "semicolon"}, 6>>,
       <<{"quote", "dquote", "insert", "semicolon"}, 6>>,
       <<{"dollar", "w", "1", "semicolon"}, 7>>,
       <<{"select", "with", "into", "set", "insert", "space", "semicolon"}, 5>>,
       <<{"explain", "analyze", "select", "insert", "space"}, 6>>,
       <<{"quote", "dquote", "dollar", "dash", "star", "slash", "eol"}, 5>> >>

MCAlphabets == {Lengths[n][1] : n \in DOMAIN Lengths}
MCMaxLen ==
    [a \in MCAlphabets |->
        Lengths[CHOOSE n \in DOMAIN Lengths : Lengths[n][1] = a][2]]
=============================================================================
