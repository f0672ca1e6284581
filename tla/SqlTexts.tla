------------------------------- MODULE SqlTexts -------------------------------
(***************************************************************************)
(* What the classification in SqlScan promises, over every short text.     *)
(*                                                                         *)
(* The scanner walks a text by jumping over constructs, and a statement is *)
(* cut out of its text and scanned again.  The reference here is the other *)
(* way to lex: an automaton that reads the whole text once, one symbol at  *)
(* a time and never ahead, and knows after each symbol which construct it  *)
(* is in.  Its rules are those the comments of scanner.go state.           *)
(***************************************************************************)
EXTENDS SqlScan

CONSTANTS
    Alphabets,   \* sets of symbols; a text keeps to one of them
    MaxLen       \* bound: symbols in a text over each of them

ASSUME SqlTextsAssumption ==
    /\ \A a \in Alphabets : a \subseteq Symbols
    /\ MaxLen \in [Alphabets -> Nat]

VARIABLES alphabet, text

vars == <<alphabet, text>>

Init == alphabet \in Alphabets /\ text = <<>>

\* The client's text gets one symbol longer.
Grow(b) ==
    /\ Len(text) < MaxLen[alphabet]
    /\ text' = Append(text, b)
    /\ UNCHANGED alphabet

Next == \E b \in alphabet : Grow(b)

Spec == Init /\ [][Next]_vars

-----------------------------------------------------------------------------
(***************************************************************************)
(* The reference lexer.  mode is the construct the last symbol left it in, *)
(* start where that construct began, mark the last symbol that can no      *)
(* longer be half of a pair, reopens the literal a quote just closed.      *)
(***************************************************************************)

Enter(mode, from, i) ==
    [mode |-> mode, start |-> from, mark |-> i,
     depth |-> IF mode = "block" THEN 1 ELSE 0, tag |-> <<>>, reopens |-> "none"]

Code(i) == Enter("code", i, i)

Nested(q, depth, i) == [[q EXCEPT !.depth = depth] EXCEPT !.mark = i]

StartsToken(s, i) == i = 1 \/ s[i - 1] \notin WordSymbols

\* The "$" at i ends a tag that began in ordinary text after position m.
TagStarts(s, m, i) ==
    {o \in m + 1 .. i - 1 :
        /\ s[o] = "dollar" /\ StartsToken(s, o)
        /\ \A k \in o + 1 .. i - 1 : s[k] \in WordSymbols
        /\ o + 1 < i => s[o + 1] # "1"}

QuoteModes == [quote |-> {"single", "escape"}, dquote |-> {"ident"}]
Quotes == DOMAIN QuoteModes

FromCode(s, q, i) ==
    LET b    == s[i]
        pair == IF i - 1 > q.mark THEN <<s[i - 1], b>> ELSE <<"none", b>>
        tags == TagStarts(s, q.mark, i)
    IN  CASE pair = <<"dash", "dash">>  -> Enter("line", i - 1, i)
          [] pair = <<"slash", "star">> -> Enter("block", i - 1, i)
          [] b \in Quotes /\ i - 1 = q.mark /\ q.reopens \in QuoteModes[b] ->
               Enter(q.reopens, i, i)
          [] pair = <<"e", "quote">> /\ StartsToken(s, i - 1) ->
               Enter("escape", i - 1, i)
          [] b \in Quotes /\ ~ (i - 1 = q.mark /\ q.reopens \in QuoteModes[b])
               /\ ~ (pair = <<"e", "quote">> /\ StartsToken(s, i - 1)) ->
               Enter(IF b = "quote" THEN "single" ELSE "ident", i, i)
          [] b = "dollar" /\ tags # {} ->
               [Enter("dollar", Min(tags), i) EXCEPT !.tag = SubSeq(s, Min(tags), i)]
          [] OTHER -> q

FromBlock(s, q, i) ==
    LET pair == IF i - 1 > q.mark THEN <<s[i - 1], s[i]>> ELSE <<"none", s[i]>>
    IN  CASE pair = <<"slash", "star">> -> Nested(q, q.depth + 1, i)
          [] pair = <<"star", "slash">> ->
               IF q.depth = 1 THEN Code(i) ELSE Nested(q, q.depth - 1, i)
          [] OTHER -> q

\* In an escape string, mark is the symbol a backslash has just escaped.
FromLiteral(q, b, i) ==
    LET escaped == q.mode = "escape" /\ q.mark = i
    IN  CASE b \in Quotes /\ q.mode \in QuoteModes[b] /\ ~ escaped ->
               [Code(i) EXCEPT !.reopens = q.mode]
          [] b = "backslash" /\ q.mode = "escape" /\ ~ escaped ->
               [q EXCEPT !.mark = i + 1]
          [] OTHER -> q

FromDollar(s, q, i) ==
    IF \E m \in q.mark + 1 .. i : SubSeq(s, m, i) = q.tag THEN Code(i) ELSE q

After(s, q, i) ==
    CASE q.mode = "code"   -> FromCode(s, q, i)
      [] q.mode = "line"   -> IF s[i] = "eol" THEN Code(i) ELSE q
      [] q.mode = "block"  -> FromBlock(s, q, i)
      [] q.mode = "dollar" -> FromDollar(s, q, i)
      [] OTHER             -> FromLiteral(q, s[i], i)

\* The automaton after each symbol of s.
Lex(s) ==
    LET q[i \in 0 .. Len(s)] == IF i = 0 THEN Code(0) ELSE After(s, q[i - 1], i)
    IN  q

\* The symbols inside a construct, the ones that open and close it included.
Hidden(s) ==
    LET q == Lex(s)
    IN  {i \in 1 .. Len(s) :
            \/ q[i - 1].mode # "code"
            \/ \E j \in i .. Len(s) : q[j].mode # "code" /\ q[j].start <= i}

Visible(s) == (1 .. Len(s)) \ Hidden(s)

-----------------------------------------------------------------------------
(* Properties. *)

(***************************************************************************)
(* Split cuts a text at the semicolons that are SQL and at no other: what  *)
(* it returns is what the automaton, which never jumps, finds between      *)
(* them.                                                                   *)
(***************************************************************************)
SplitsAtVisibleSemicolons ==
    Split(text) = Pieces(text, {i \in Visible(text) : text[i] = "semicolon"})

(***************************************************************************)
(* What literals, quoted identifiers and comments hold never decides:      *)
(* blanking them leaves the verdict as it is, though each statement is     *)
(* scanned a second time out of its context.                               *)
(***************************************************************************)
HiddenTextDecidesNothing ==
    LET hidden  == Hidden(text)
        blanked == [i \in 1 .. Len(text) |-> IF i \in hidden THEN "space" ELSE text[i]]
    IN  ReadOnly(text) = ReadOnly(blanked)

(***************************************************************************)
(* The promise of the package: no statement of a text that counts as       *)
(* read-only has a data-modifying verb among its visible words, and each   *)
(* begins, past the words of an EXPLAIN, with one known to read or to      *)
(* control.                                                                *)
(***************************************************************************)
ReadOnlyTextsOnlyRead ==
    ReadOnly(text) =>
        LET visible == Visible(text)
            semis   == {i \in visible : text[i] = "semicolon"}
            after(a) == {i \in visible : a < i /\ ~ \E k \in semis : a < k /\ k < i}
            known   == {"with"} \cup ReadKeywords \cup ControlKeywords
        IN  \A a \in {0} \cup semis :
              LET words == WordsAmong(text, after(a))
                  plain == {n \in DOMAIN words :
                              ~ Is(words[n], {"explain"} \cup ExplainOptions)}
              IN  /\ \A n \in DOMAIN words : ~ Is(words[n], WriteKeywords)
                  /\ plain # {} => Is(words[Min(plain)], known)

=============================================================================
