------------------------------- MODULE SqlScan -------------------------------
(***************************************************************************)
(* The classification of a query text: ReadOnly, Split and classify in     *)
(* internal/sqlscan/sqlscan.go over the scanner of scanner.go.             *)
(*                                                                         *)
(* A text is a sequence of symbols.  A byte that has a meaning of its own  *)
(* is one symbol ("quote", "dash", ...); so is a whole keyword, in any     *)
(* case, and "w", which stands for letters that spell no keyword.  "e" and *)
(* "1" are a letter E and a digit.  Word symbols side by side are one      *)
(* longer word, which is no keyword.  Positions count symbols from 1.      *)
(***************************************************************************)
EXTENDS Integers, SequencesExt, FiniteSetsExt

Marks == {"quote", "dquote", "backslash", "dollar", "dash", "slash", "star",
          "semicolon", "eol", "space"}

ReadKeywords == {"select", "show", "values", "table", "declare", "fetch",
                 "move", "close"}

ExplainOptions == {"analyze", "verbose", "costs", "settings", "generic_plan",
                   "buffers", "serialize", "wal", "timing", "summary", "memory",
                   "format", "on", "off", "true", "false", "text", "xml", "json",
                   "yaml", "none", "binary"}

WriteKeywords == {"insert", "update", "delete", "merge"}

ControlKeywords == {"begin", "start", "commit", "end", "rollback", "abort",
                    "savepoint", "release", "set", "reset", "discard"}

WordSymbols == ReadKeywords \cup ExplainOptions \cup WriteKeywords
                 \cup ControlKeywords \cup {"with", "into", "explain", "w", "e", "1"}

Symbols == Marks \cup WordSymbols

At(s, i) == IF i \in 1 .. Len(s) THEN s[i] ELSE "end"

\* The first of the positions in S, or the one after the end of s.
FirstOf(S, s) == IF S = {} THEN Len(s) + 1 ELSE Min(S)

IsWordByte(b) == b \in WordSymbols

-----------------------------------------------------------------------------
(* The scanner.  An XEnd is the position after the construct at i. *)

LineCommentEnd(s, i) == FirstOf({k \in i .. Len(s) : s[k] = "eol"}, s)

\* Slip: comments do not nest.
FlatCommentEnd(s, i) ==
    LET stops == {k \in i + 2 .. Len(s) : s[k] = "star" /\ At(s, k + 1) = "slash"}
    IN  IF stops = {} THEN Len(s) + 1 ELSE Min(stops) + 2

\* Past the comment that depth comments are open in at k.
BlockScan(s) ==
    LET scan[at \in Nat \X Int] ==
          LET k     == at[1]
              depth == at[2]
          IN  CASE k > Len(s) -> Len(s) + 1
                [] At(s, k) = "slash" /\ At(s, k + 1) = "star" ->
                     scan[<<k + 2, depth + 1>>]
                [] At(s, k) = "star" /\ At(s, k + 1) = "slash" ->
                     IF depth = 1 THEN k + 2 ELSE scan[<<k + 2, depth - 1>>]
                [] OTHER -> scan[<<k + 1, depth>>]
    IN  scan

BlockCommentEnd(s, i) == BlockScan(s)[<<i, 0>>]

\* Past the quote that closes what is open at k; a doubled one does not.
QuotedScan(s, quote) ==
    LET scan[k \in Nat] ==
          IF k > Len(s) THEN Len(s) + 1
          ELSE IF At(s, k) # quote THEN scan[k + 1]
          ELSE IF At(s, k + 1) = quote THEN scan[k + 2] ELSE k + 1
    IN  scan

SingleQuoteEnd(s, i) == QuotedScan(s, "quote")[i + 1]

QuotedIdentEnd(s, i) == QuotedScan(s, "dquote")[i + 1]

EscapeScan(s) ==
    LET scan[k \in Nat] ==
          CASE k > Len(s)          -> Len(s) + 1
            [] At(s, k) = "backslash" -> scan[k + 2]
            [] At(s, k) = "quote" ->
                 IF At(s, k + 1) = "quote" THEN scan[k + 2] ELSE k + 1
            [] OTHER -> scan[k + 1]
    IN  scan

\* From the opening quote, at i.
EscapeStringEnd(s, i) == EscapeScan(s)[i + 1]

\* Slip: a tag may start with a digit.
DigitTagEnds(s, i) ==
    {j \in i + 1 .. Len(s) :
        /\ s[i] = "dollar" /\ s[j] = "dollar"
        /\ \A k \in i + 1 .. j - 1 : IsWordByte(s[k])}

\* Where the tag that opens at i ends, if one does: a set of at most one.
DollarTagEnds(s, i) ==
    {j \in i + 1 .. Len(s) :
        /\ s[i] = "dollar" /\ s[j] = "dollar"
        /\ \A k \in i + 1 .. j - 1 : IsWordByte(s[k])
        /\ s[i + 1] # "1"}

DollarQuoteEnd(s, i, j) ==
    LET width  == j - i + 1
        closes == {k \in j + 1 .. Len(s) + 1 - width :
                     SubSeq(s, k, k + width - 1) = SubSeq(s, i, j)}
    IN  IF closes = {} THEN Len(s) + 1 ELSE Min(closes) + width

\* Slip: the E at the end of any word makes an escape string.
AnyPosition(s, i) == TRUE

AtTokenStart(s, i) == i = 1 \/ ~ IsWordByte(s[i - 1])

\* skippableLen: i itself when s[i] is an ordinary byte.
SkippableEnd(s, i) ==
    LET b    == s[i]
        next == At(s, i + 1)
        tags == DollarTagEnds(s, i)
    IN  CASE b = "dash" /\ next = "dash"  -> LineCommentEnd(s, i)
          [] b = "slash" /\ next = "star" -> BlockCommentEnd(s, i)
          [] b = "quote"  -> SingleQuoteEnd(s, i)
          [] b = "dquote" -> QuotedIdentEnd(s, i)
          [] b = "e" /\ next = "quote" /\ AtTokenStart(s, i) ->
               EscapeStringEnd(s, i + 1)
          [] b = "dollar" /\ AtTokenStart(s, i) /\ tags # {} ->
               DollarQuoteEnd(s, i, Min(tags))
          [] OTHER -> i

\* The positions the cursor stops at from i on, outside every construct.
Walk(s) ==
    LET walk[i \in 1 .. Len(s) + 1] ==
          IF i > Len(s) THEN {}
          ELSE LET end == SkippableEnd(s, i)
               IN  IF end > i THEN walk[end] ELSE {i} \cup walk[i + 1]
    IN  walk

Ordinary(s) == Walk(s)[1]

-----------------------------------------------------------------------------
(* Statements and their words. *)

Blank == {"space", "eol"}

TrimSpace(s) ==
    LET kept == {i \in 1 .. Len(s) : s[i] \notin Blank}
    IN  IF kept = {} THEN <<>> ELSE SubSeq(s, Min(kept), Max(kept))

\* The elements of a finite set of numbers, in order.
InOrder(S) ==
    [n \in 1 .. Cardinality(S) |-> CHOOSE i \in S : Cardinality({j \in S : j <= i}) = n]

\* The pieces of s between the positions in cuts, trimmed, the empty ones left out.
Pieces(s, cuts) ==
    LET bounds   == InOrder({0, Len(s) + 1} \cup cuts)
        piece(n) == TrimSpace(SubSeq(s, bounds[n] + 1, bounds[n + 1] - 1))
        kept     == InOrder({n \in 1 .. Len(bounds) - 1 : piece(n) # <<>>})
    IN  [m \in 1 .. Len(kept) |-> piece(kept[m])]

Split(s) == Pieces(s, {i \in Ordinary(s) : s[i] = "semicolon"})

\* The runs of word bytes among the positions in seen, in order.
WordsAmong(s, seen) ==
    LET inWord == {i \in seen : IsWordByte(s[i])}
        starts == InOrder({i \in inWord : i - 1 \notin inWord})
        last(i) == Min({j \in inWord : j >= i /\ j + 1 \notin inWord})
    IN  [n \in 1 .. Len(starts) |-> SubSeq(s, starts[n], last(starts[n]))]

\* Slip: words are looked for in literals and comments too.
EveryWord(s) == WordsAmong(s, 1 .. Len(s))

SignificantWords(s) == WordsAmong(s, Ordinary(s))

Is(w, keywords) == Len(w) = 1 /\ w[1] \in keywords

\* The word that says what a statement does, past an EXPLAIN and its options.
HeadAt(ws) ==
    IF ws # <<>> /\ Is(ws[1], {"explain"})
    THEN FirstOf({n \in 2 .. Len(ws) : ~ Is(ws[n], ExplainOptions)}, ws)
    ELSE 1

\* Slip: a statement is judged by its head alone.
ClassifyByHead(stmt) ==
    LET ws   == SignificantWords(stmt)
        head == HeadAt(ws)
    IN  IF head > Len(ws) \/ Is(ws[head], {"with"} \cup ReadKeywords \cup ControlKeywords)
        THEN "read" ELSE "write"

\* What a statement with these words does.
Verdict(ws) ==
    LET head     == HeadAt(ws)
        rest     == head .. Len(ws)
        verb     == \E n \in rest : Is(ws[n], WriteKeywords)
        intoNew  == \E n \in rest : /\ Is(ws[head], {"select", "with"})
                                    /\ Is(ws[n], {"into"})
        known    == {"with"} \cup ReadKeywords \cup ControlKeywords
    IN  IF rest # {} /\ (verb \/ intoNew \/ ~ Is(ws[head], known)) THEN "write" ELSE "read"

Classify(stmt) == Verdict(SignificantWords(stmt))

ReadOnly(s) == \A stmt \in Range(Split(s)) : Classify(stmt) = "read"

=============================================================================
