---------------------------- MODULE SqlTextsProofs ----------------------------
(***************************************************************************)
(* Proofs about the classification of query texts, for texts of every      *)
(* length over every symbol.                                               *)
(*                                                                         *)
(* The scanner and the automaton are recursive functions, so what they     *)
(* compute is learnt by induction.  The induction theorems of the library  *)
(* take an operator as a parameter; here induction is stated about a set   *)
(* (Induct, InductDown) and follows from the least element of a set of     *)
(* naturals.  A recursive function must also be shown to exist before its  *)
(* equation can be used: RecursionExists does so for one that calls itself *)
(* at most once, with a rank that shrinks.                                 *)
(*                                                                         *)
(* The argument: at every position where the cursor of the scanner stops,  *)
(* the automaton is Fresh.  Either nothing opens there, and it is Fresh    *)
(* one symbol on; or a construct opens, the automaton hides everything up  *)
(* to the position the scanner jumps to, and is Fresh again there          *)
(* (Covered).  CursorAgrees is the induction over the jumps.               *)
(*                                                                         *)
(* A statement is cut out of its text and scanned again.  SimHolds runs    *)
(* the automaton over the two side by side: it does the same in both, as   *)
(* nothing reaches across a cut.  Hence StmtWords, the words a statement   *)
(* is judged by are those its text shows there, and ReadOnlyIs, the        *)
(* verdict on a text in terms of the automaton alone; what ReadOnly        *)
(* promises and what blanking changes are read off that.                   *)
(***************************************************************************)
EXTENDS SqlTexts, TLAPS, WellFoundedInduction, SequenceTheorems, FiniteSetTheorems

-----------------------------------------------------------------------------
(* Induction and recursion. *)

\* Induction over the naturals, about a set.
LEMMA Induct ==
    ASSUME NEW S, 0 \in S, \A n \in Nat : n \in S => n + 1 \in S
    PROVE  Nat \subseteq S
<1> DEFINE R == OpToRel(<, Nat)
           T == Nat \ S
<1>1. SUFFICES ASSUME T # {} PROVE FALSE
  OBVIOUS
<1>2. IsWellFoundedOn(R, Nat)
  BY NatLessThanWellFounded
<1>3. T \subseteq Nat
  OBVIOUS
<1> HIDE DEF T, R
<1>4. PICK x \in T : \A y \in T : ~ (<<y, x>> \in R)
  BY <1>1, <1>2, <1>3, WFMin
<1>5. x \in Nat /\ x \notin S
  BY <1>4 DEF T
<1>6. x # 0
  BY <1>5
<1>7. x - 1 \in Nat /\ x - 1 < x /\ (x - 1) + 1 = x
  BY <1>5, <1>6
<1>8. x - 1 \notin S
  BY <1>5, <1>7
<1>9. <<x - 1, x>> \in R
  BY <1>5, <1>7 DEF R, OpToRel
<1>10. x - 1 \in T
  BY <1>7, <1>8 DEF T
<1> QED
  BY <1>4, <1>9, <1>10

\* Data from which f[x] is computed: val[x], or on go comb of x and f[nx[x]].
IsRecursion(S, V, rank, go, nx, val, comb) ==
    /\ rank \in [S -> Nat] /\ go \in SUBSET S /\ nx \in [go -> S]
    /\ \A x \in go : rank[nx[x]] < rank[x]
    /\ val \in [S -> V] /\ comb \in [S \X V -> V]

Solves(f, S, go, nx, val, comb) ==
    f = [x \in S |-> IF x \in go THEN comb[<<x, f[nx[x]]>>] ELSE val[x]]

\* Such a function exists: it is the limit of those right below a rank.
LEMMA RecursionExists ==
    ASSUME NEW S, NEW V, NEW rank, NEW go, NEW nx, NEW val, NEW comb,
           IsRecursion(S, V, rank, go, nx, val, comb)
    PROVE  \E f \in [S -> V] : Solves(f, S, go, nx, val, comb)
<1> USE DEF IsRecursion
<1> DEFINE Step(g, x) == IF x \in go THEN comb[<<x, g[nx[x]]>>] ELSE val[x]
           Sat(n, g) == g \in [S -> V] /\ \A x \in S : rank[x] < n => g[x] = Step(g, x)
<1>1. ASSUME NEW g \in [S -> V], NEW x \in S PROVE Step(g, x) \in V
  OBVIOUS
<1>2. \A n \in Nat : \E g : Sat(n, g)
  <2> DEFINE U == {n \in Nat : \E g : Sat(n, g)}
  <2>1. 0 \in U
    <3>1. Sat(0, val)
      OBVIOUS
    <3> HIDE DEF Sat
    <3> QED
      BY <3>1
  <2>2. ASSUME NEW n \in Nat, n \in U PROVE n + 1 \in U
    <3>1. PICK g : Sat(n, g)
      BY <2>2
    <3> DEFINE h == [x \in S |-> Step(g, x)]
    <3>2. g \in [S -> V]
      BY <3>1
    <3>3. h \in [S -> V]
      BY <1>1, <3>2
    <3>4. ASSUME NEW x \in S, rank[x] < n + 1 PROVE h[x] = Step(h, x)
      <4>1. CASE x \in go
        <5>1. rank[nx[x]] < n /\ nx[x] \in S
          BY <3>4, <4>1
        <5>2. h[nx[x]] = g[nx[x]]
          BY <5>1, <3>1
        <5> QED
          BY <5>2, <4>1
      <4>2. CASE x \notin go
        BY <4>2
      <4> QED
        BY <4>1, <4>2
    <3>5. Sat(n + 1, h)
      BY <3>3, <3>4
    <3> HIDE DEF Sat, h
    <3> QED
      BY <3>5
  <2> HIDE DEF U
  <2>3. Nat \subseteq U
    BY <2>1, <2>2, Induct
  <2> QED
    BY <2>3 DEF U
<1>3. ASSUME NEW n \in Nat, NEW m \in Nat, m <= n, NEW g, Sat(n, g) PROVE Sat(m, g)
  BY <1>3
<1>4. \A n \in Nat : \A g, h : Sat(n, g) /\ Sat(n, h) => \A x \in S : rank[x] < n => g[x] = h[x]
  <2> DEFINE U == {n \in Nat : \A g, h : Sat(n, g) /\ Sat(n, h) => \A x \in S : rank[x] < n => g[x] = h[x]}
  <2>1. 0 \in U
    OBVIOUS
  <2>2. ASSUME NEW n \in Nat, n \in U PROVE n + 1 \in U
    <3>1. SUFFICES ASSUME NEW g, NEW h, Sat(n + 1, g), Sat(n + 1, h), NEW x \in S, rank[x] < n + 1
                   PROVE  g[x] = h[x]
      OBVIOUS
    <3>2. g[x] = Step(g, x) /\ h[x] = Step(h, x)
      BY <3>1
    <3>3. CASE x \in go
      <4>1. nx[x] \in S /\ rank[nx[x]] < n
        BY <3>1, <3>3
      <4>2. Sat(n, g) /\ Sat(n, h)
        <5> HIDE DEF Sat
        <5> QED
          BY <3>1, <1>3
      <4>3. g[nx[x]] = h[nx[x]]
        <5> HIDE DEF Sat
        <5> QED
        BY <4>1, <4>2, <2>2
      <4> QED
        BY <3>2, <3>3, <4>3
    <3>4. CASE x \notin go
      BY <3>2, <3>4
    <3> QED
      BY <3>3, <3>4
  <2> HIDE DEF U
  <2>3. Nat \subseteq U
    BY <2>1, <2>2, Induct
  <2> QED
    BY <2>3 DEF U
<1> DEFINE G(n) == CHOOSE g : Sat(n, g)
           f == [x \in S |-> G(rank[x] + 1)[x]]
<1>5. ASSUME NEW n \in Nat PROVE Sat(n, G(n))
  <2> HIDE DEF Sat
  <2> QED
    BY <1>2
<1>6. ASSUME NEW n \in Nat PROVE G(n) \in [S -> V]
  BY <1>5
<1> HIDE DEF G
<1>7. f \in [S -> V]
  BY <1>6
<1>8. ASSUME NEW x \in S PROVE f[x] = Step(f, x)
  <2> DEFINE n == rank[x] + 1
  <2>1. n \in Nat /\ rank[x] < n
    OBVIOUS
  <2>2. Sat(n, G(n))
    BY <2>1, <1>5
  <2>3. f[x] = Step(G(n), x)
    BY <2>1, <2>2
  <2>4. CASE x \in go
    <3> DEFINE m == rank[nx[x]] + 1
    <3>1. nx[x] \in S /\ m \in Nat /\ m <= n /\ rank[nx[x]] < m
      BY <2>4
    <3>2. Sat(m, G(m)) /\ Sat(m, G(n))
      <4> HIDE DEF Sat, n, m
      <4> QED
        BY <3>1, <2>1, <2>2, <1>3, <1>5
    <3>3. G(m)[nx[x]] = G(n)[nx[x]]
      <4> HIDE DEF Sat, n
      <4> QED
        BY <3>1, <3>2, <1>4
    <3>4. f[nx[x]] = G(n)[nx[x]]
      BY <3>1, <3>3
    <3> HIDE DEF f, n, m
    <3> QED
      BY <2>3, <2>4, <3>4
  <2>5. CASE x \notin go
    BY <2>3, <2>5
  <2> QED
    BY <2>4, <2>5
<1> HIDE DEF f
<1>9. f = [x \in S |-> Step(f, x)]
  BY <1>7, <1>8
<1> QED
  BY <1>7, <1>9 DEF Solves

\* The recursion of a scan, which passes on what it finds further on.
IsScan(S, rank, go, nx, val) ==
    /\ rank \in [S -> Nat] /\ go \in SUBSET S /\ nx \in [go -> S] /\ val \in [S -> Nat]
    /\ \A x \in go : rank[nx[x]] < rank[x]

\* RecursionExists for a scan.
LEMMA ScanExists ==
    ASSUME NEW S, NEW rank, NEW go, NEW nx, NEW val, IsScan(S, rank, go, nx, val)
    PROVE  \E f \in [S -> Nat] : f = [x \in S |-> IF x \in go THEN f[nx[x]] ELSE val[x]]
<1> USE DEF IsScan
<1> DEFINE comb == [x \in S \X Nat |-> x[2]]
<1>1. comb \in [S \X Nat -> Nat]
  OBVIOUS
<1>2. ASSUME NEW x \in S, NEW v \in Nat PROVE comb[<<x, v>>] = v
  <2>1. <<x, v>> \in S \X Nat
    OBVIOUS
  <2>2. comb[<<x, v>>] = <<x, v>>[2]
    BY <2>1
  <2> QED
    BY <2>2
<1> HIDE DEF comb
<1>3. IsRecursion(S, Nat, rank, go, nx, val, comb)
  BY <1>1 DEF IsRecursion
<1>4. PICK f \in [S -> Nat] : Solves(f, S, go, nx, val, comb)
  BY <1>3, RecursionExists
<1>5. ASSUME NEW x \in go PROVE comb[<<x, f[nx[x]]>>] = f[nx[x]]
  <2>1. nx[x] \in S /\ x \in S
    BY <1>5
  <2>2. f[nx[x]] \in Nat
    BY <2>1
  <2> QED
    BY <1>2, <2>1, <2>2
<1>6. f = [x \in S |-> IF x \in go THEN f[nx[x]] ELSE val[x]]
  BY <1>4, <1>5 DEF Solves
<1> QED
  BY <1>6

\* What is left of a text of N symbols at position k.
Left(N) == [k \in Nat |-> IF k > N THEN 0 ELSE N + 1 - k]

\* A scan that moves on has less left, so Left is a rank for it.
LEMMA LeftShrinks ==
    ASSUME NEW N \in Nat
    PROVE  /\ Left(N) \in [Nat -> Nat]
           /\ \A k, m \in Nat : k <= N /\ k < m => Left(N)[m] < Left(N)[k]
<1>1. Left(N) \in [Nat -> Nat]
  BY DEF Left
<1>2. ASSUME NEW k \in Nat, NEW m \in Nat, k <= N, k < m PROVE Left(N)[m] < Left(N)[k]
  <2>1. Left(N)[k] = N + 1 - k
    BY <1>2 DEF Left
  <2>2. Left(N)[m] = IF m > N THEN 0 ELSE N + 1 - m
    BY <1>2 DEF Left
  <2> QED
    BY <1>2, <2>1, <2>2
<1> QED
  BY <1>1, <1>2

\* The right-hand side of QuotedScan, of any function f.
QuotedBody(s, c, f, k) ==
    IF k > Len(s) THEN Len(s) + 1
    ELSE IF At(s, k) # c THEN f[k + 1]
    ELSE IF At(s, k + 1) = c THEN f[k + 2] ELSE k + 1

\* QuotedScan satisfies its equation (singleQuoteLen, quotedIdentLen).
LEMMA QuotedScanDef ==
    ASSUME NEW s \in Seq(Symbols), NEW c, NEW n \in Nat
    PROVE  QuotedScan(s, c)[n] = QuotedBody(s, c, QuotedScan(s, c), n)
<1> DEFINE N == Len(s)
           go == {k \in Nat : k <= N /\ (At(s, k) = c => At(s, k + 1) = c)}
           nx == [k \in go |-> IF At(s, k) # c THEN k + 1 ELSE k + 2]
           val == [k \in Nat |-> IF k > N THEN N + 1 ELSE k + 1]
<1>1. N \in Nat
  OBVIOUS
<1>2. go \in SUBSET Nat /\ nx \in [go -> Nat] /\ val \in [Nat -> Nat]
  OBVIOUS
<1>3. \A k \in go : k \in Nat /\ k <= N /\ nx[k] \in Nat /\ k < nx[k]
  OBVIOUS
<1>4. ASSUME NEW f, NEW k \in Nat
      PROVE  (IF k \in go THEN f[nx[k]] ELSE val[k]) = QuotedBody(s, c, f, k)
  <2>1. CASE k > N
    <3>1. k \notin go
      BY <2>1
    <3>2. val[k] = N + 1
      BY <2>1
    <3> HIDE DEF val, go
    <3> QED
      BY <2>1, <3>1, <3>2 DEF QuotedBody
  <2>2. CASE k <= N /\ At(s, k) # c
    <3>1. k \in go
      BY <2>2
    <3>2. nx[k] = k + 1
      BY <2>2, <3>1
    <3> HIDE DEF nx, go
    <3> QED
      BY <2>2, <3>1, <3>2 DEF QuotedBody
  <2>3. CASE k <= N /\ At(s, k) = c /\ At(s, k + 1) = c
    <3>1. k \in go
      BY <2>3
    <3>2. nx[k] = k + 2
      BY <2>3, <3>1
    <3> HIDE DEF nx, go
    <3> QED
      BY <2>3, <3>1, <3>2 DEF QuotedBody
  <2>4. CASE k <= N /\ At(s, k) = c /\ At(s, k + 1) # c
    <3>1. k \notin go
      BY <2>4
    <3>2. val[k] = k + 1
      BY <2>4
    <3> HIDE DEF val, go
    <3> QED
      BY <2>4, <3>1, <3>2 DEF QuotedBody
  <2> QED
    BY <2>1, <2>2, <2>3, <2>4
<1> HIDE DEF go, nx, val, N
<1>5. IsScan(Nat, Left(N), go, nx, val)
  BY <1>1, <1>2, <1>3, LeftShrinks DEF IsScan
<1>6. PICK f \in [Nat -> Nat] : f = [k \in Nat |-> IF k \in go THEN f[nx[k]] ELSE val[k]]
  BY <1>5, ScanExists
<1>7. f = [k \in Nat |-> QuotedBody(s, c, f, k)]
  BY <1>4, <1>6
<1>8. QuotedScan(s, c) = CHOOSE g : g = [k \in Nat |-> QuotedBody(s, c, g, k)]
  BY DEF QuotedScan, QuotedBody
<1>9. QuotedScan(s, c) = [k \in Nat |-> QuotedBody(s, c, QuotedScan(s, c), k)]
  BY <1>7, <1>8, Zenon
<1> QED
  BY <1>9

\* The right-hand side of EscapeScan, of any function f.
EscapeBody(s, f, k) ==
    CASE k > Len(s)          -> Len(s) + 1
      [] At(s, k) = "backslash" -> f[k + 2]
      [] At(s, k) = "quote" ->
           IF At(s, k + 1) = "quote" THEN f[k + 2] ELSE k + 1
      [] OTHER -> f[k + 1]

\* EscapeScan satisfies its equation (escapeStringLen).
LEMMA EscapeScanDef ==
    ASSUME NEW s \in Seq(Symbols), NEW n \in Nat
    PROVE  EscapeScan(s)[n] = EscapeBody(s, EscapeScan(s), n)
<1> DEFINE N == Len(s)
           go == {k \in Nat : k <= N /\ (At(s, k) = "quote" => At(s, k + 1) = "quote")}
           nx == [k \in go |-> IF At(s, k) \in {"backslash", "quote"} THEN k + 2 ELSE k + 1]
           val == [k \in Nat |-> IF k > N THEN N + 1 ELSE k + 1]
<1>1. N \in Nat
  OBVIOUS
<1>2. go \in SUBSET Nat /\ nx \in [go -> Nat] /\ val \in [Nat -> Nat]
  OBVIOUS
<1>3. \A k \in go : k \in Nat /\ k <= N /\ nx[k] \in Nat /\ k < nx[k]
  OBVIOUS
<1>4. ASSUME NEW f, NEW k \in Nat
      PROVE  (IF k \in go THEN f[nx[k]] ELSE val[k]) = EscapeBody(s, f, k)
  <2>1. CASE k > N
    <3>1. k \notin go
      BY <2>1
    <3>2. val[k] = N + 1
      BY <2>1
    <3>3. At(s, k) = "end"
      BY <2>1 DEF At
    <3> HIDE DEF val, go
    <3> QED
      BY <2>1, <3>1, <3>2, <3>3 DEF EscapeBody
  <2>2. CASE k <= N /\ At(s, k) = "backslash"
    <3>1. k \in go
      BY <2>2
    <3>2. nx[k] = k + 2
      BY <2>2, <3>1
    <3> HIDE DEF nx, go
    <3> QED
      BY <2>2, <3>1, <3>2 DEF EscapeBody
  <2>3. CASE k <= N /\ At(s, k) = "quote" /\ At(s, k + 1) = "quote"
    <3>1. k \in go
      BY <2>3
    <3>2. nx[k] = k + 2
      BY <2>3, <3>1
    <3> HIDE DEF nx, go
    <3> QED
      BY <2>3, <3>1, <3>2 DEF EscapeBody
  <2>4. CASE k <= N /\ At(s, k) = "quote" /\ At(s, k + 1) # "quote"
    <3>1. k \notin go
      BY <2>4
    <3>2. val[k] = k + 1
      BY <2>4
    <3> HIDE DEF val, go
    <3> QED
      BY <2>4, <3>1, <3>2 DEF EscapeBody
  <2>5. CASE k <= N /\ At(s, k) \notin {"backslash", "quote"}
    <3>1. k \in go
      BY <2>5
    <3>2. nx[k] = k + 1
      BY <2>5, <3>1
    <3> HIDE DEF nx, go
    <3> QED
      BY <2>5, <3>1, <3>2 DEF EscapeBody
  <2> QED
    BY <2>1, <2>2, <2>3, <2>4, <2>5
<1> HIDE DEF go, nx, val, N
<1>5. IsScan(Nat, Left(N), go, nx, val)
  BY <1>1, <1>2, <1>3, LeftShrinks DEF IsScan
<1>6. PICK f \in [Nat -> Nat] : f = [k \in Nat |-> IF k \in go THEN f[nx[k]] ELSE val[k]]
  BY <1>5, ScanExists
<1>7. f = [k \in Nat |-> EscapeBody(s, f, k)]
  BY <1>4, <1>6
<1>8. EscapeScan(s) = CHOOSE g : g = [k \in Nat |-> EscapeBody(s, g, k)]
  BY DEF EscapeScan, EscapeBody
<1>9. EscapeScan(s) = [k \in Nat |-> EscapeBody(s, EscapeScan(s), k)]
  BY <1>7, <1>8, Zenon
<1> QED
  BY <1>9

\* The right-hand side of BlockScan, of any function f.
BlockBody(s, f, k, depth) ==
    CASE k > Len(s) -> Len(s) + 1
      [] At(s, k) = "slash" /\ At(s, k + 1) = "star" -> f[<<k + 2, depth + 1>>]
      [] At(s, k) = "star" /\ At(s, k + 1) = "slash" ->
           IF depth = 1 THEN k + 2 ELSE f[<<k + 2, depth - 1>>]
      [] OTHER -> f[<<k + 1, depth>>]

\* BlockScan satisfies its equation (blockCommentLen).
LEMMA BlockScanDef ==
    ASSUME NEW s \in Seq(Symbols), NEW n \in Nat, NEW d \in Int
    PROVE  BlockScan(s)[<<n, d>>] = BlockBody(s, BlockScan(s), n, d)
<1> DEFINE N == Len(s)
           S == Nat \X Int
           opens(k) == At(s, k) = "slash" /\ At(s, k + 1) = "star"
           closes(k) == At(s, k) = "star" /\ At(s, k + 1) = "slash"
           go == {x \in S : x[1] <= N /\ ~ (closes(x[1]) /\ x[2] = 1)}
           step(x) == IF opens(x[1]) THEN <<x[1] + 2, x[2] + 1>>
                      ELSE IF closes(x[1]) THEN <<x[1] + 2, x[2] - 1>>
                      ELSE <<x[1] + 1, x[2]>>
           nx == [x \in go |-> step(x)]
           val == [x \in S |-> IF x[1] > N THEN N + 1 ELSE x[1] + 2]
           rank == [x \in S |-> Left(N)[x[1]]]
<1>1. N \in Nat
  OBVIOUS
<1>2. ASSUME NEW x \in S PROVE step(x) \in S /\ x[1] < step(x)[1]
  OBVIOUS
<1>3. go \in SUBSET S /\ val \in [S -> Nat]
  OBVIOUS
<1>4. nx \in [go -> S]
  BY <1>2
<1>5. rank \in [S -> Nat]
  BY <1>1, LeftShrinks
<1>6. ASSUME NEW x \in go PROVE rank[nx[x]] < rank[x]
  <2>1. x \in S /\ x[1] <= N /\ nx[x] = step(x)
    OBVIOUS
  <2> HIDE DEF nx, step, N
  <2>2. step(x) \in S /\ x[1] \in Nat /\ step(x)[1] \in Nat /\ x[1] < step(x)[1]
    BY <2>1, <1>2
  <2> QED
    BY <2>1, <2>2, <1>1, LeftShrinks
<1>7. ASSUME NEW f, NEW k \in Nat, NEW b \in Int
      PROVE  (IF <<k, b>> \in go THEN f[nx[<<k, b>>]] ELSE val[<<k, b>>]) = BlockBody(s, f, k, b)
  <2>0. <<k, b>> \in S /\ <<k, b>>[1] = k /\ <<k, b>>[2] = b
    OBVIOUS
  <2>1. CASE k > N
    <3>1. <<k, b>> \notin go
      BY <2>0, <2>1
    <3>2. val[<<k, b>>] = N + 1
      BY <2>0, <2>1
    <3>3. At(s, k) = "end"
      BY <2>1 DEF At
    <3> HIDE DEF val, go
    <3> QED
      BY <2>1, <3>1, <3>2, <3>3 DEF BlockBody
  <2>2. CASE k <= N /\ opens(k)
    <3>1. <<k, b>> \in go
      BY <2>0, <2>2
    <3>2. nx[<<k, b>>] = <<k + 2, b + 1>>
      BY <2>0, <2>2, <3>1
    <3> HIDE DEF nx, go
    <3> QED
      BY <2>2, <3>1, <3>2 DEF BlockBody
  <2>3. CASE k <= N /\ closes(k) /\ b # 1
    <3>1. <<k, b>> \in go
      BY <2>0, <2>3
    <3>2. nx[<<k, b>>] = <<k + 2, b - 1>>
      BY <2>0, <2>3, <3>1
    <3> HIDE DEF nx, go
    <3> QED
      BY <2>3, <3>1, <3>2 DEF BlockBody
  <2>4. CASE k <= N /\ closes(k) /\ b = 1
    <3>1. <<k, b>> \notin go
      BY <2>0, <2>4
    <3>2. val[<<k, b>>] = k + 2
      BY <2>0, <2>4
    <3> HIDE DEF val, go
    <3> QED
      BY <2>4, <3>1, <3>2 DEF BlockBody
  <2>5. CASE k <= N /\ ~ opens(k) /\ ~ closes(k)
    <3>1. <<k, b>> \in go
      BY <2>0, <2>5
    <3>2. nx[<<k, b>>] = <<k + 1, b>>
      BY <2>0, <2>5, <3>1
    <3> HIDE DEF nx, go
    <3> QED
      BY <2>5, <3>1, <3>2 DEF BlockBody
  <2> QED
    BY <2>1, <2>2, <2>3, <2>4, <2>5
<1> HIDE DEF go, nx, val, N, rank
<1>8. IsScan(S, rank, go, nx, val)
  BY <1>3, <1>4, <1>5, <1>6 DEF IsScan
<1>9. PICK f \in [S -> Nat] : f = [x \in S |-> IF x \in go THEN f[nx[x]] ELSE val[x]]
  <2> HIDE DEF S
  <2> QED
    BY <1>8, ScanExists
<1>10. f = [x \in S |-> BlockBody(s, f, x[1], x[2])]
  <2>1. ASSUME NEW x \in S PROVE f[x] = BlockBody(s, f, x[1], x[2])
    <3>1. x = <<x[1], x[2]>> /\ x[1] \in Nat /\ x[2] \in Int
      OBVIOUS
    <3>2. (IF x \in go THEN f[nx[x]] ELSE val[x]) = BlockBody(s, f, x[1], x[2])
      BY <1>7, <3>1
    <3> QED
      BY <1>9, <3>2
  <2> QED
    BY <1>9, <2>1
<1>11. BlockScan(s) = CHOOSE g : g = [x \in S |-> BlockBody(s, g, x[1], x[2])]
  BY DEF BlockScan, BlockBody
<1>12. BlockScan(s) = [x \in S |-> BlockBody(s, BlockScan(s), x[1], x[2])]
  BY <1>10, <1>11, Zenon
<1>13. <<n, d>> \in S /\ <<n, d>>[1] = n /\ <<n, d>>[2] = d
  OBVIOUS
<1> QED
  BY <1>12, <1>13

-----------------------------------------------------------------------------
(* The scanner moves on and ends. *)

\* Induction from the end of a text to its beginning.
LEMMA InductDown ==
    ASSUME NEW N \in Nat, NEW S,
           \A k \in 1 .. N + 1 : (\A m \in k + 1 .. N + 1 : m \in S) => k \in S
    PROVE  1 .. N + 1 \subseteq S
<1> DEFINE U == {n \in Nat : \A k \in 1 .. N + 1 : N + 1 - k < n => k \in S}
<1>1. 0 \in U
  OBVIOUS
<1>2. ASSUME NEW n \in Nat, n \in U PROVE n + 1 \in U
  <2>1. SUFFICES ASSUME NEW k \in 1 .. N + 1, N + 1 - k < n + 1 PROVE k \in S
    OBVIOUS
  <2>2. ASSUME NEW m \in k + 1 .. N + 1 PROVE m \in S
    <3>1. m \in 1 .. N + 1 /\ N + 1 - m < n
      BY <2>1
    <3> QED
      BY <1>2, <3>1
  <2> QED
    BY <2>2
<1> HIDE DEF U
<1>3. Nat \subseteq U
  BY <1>1, <1>2, Induct
<1>4. ASSUME NEW k \in 1 .. N + 1 PROVE k \in S
  <2>1. N + 2 \in U
    BY <1>3
  <2> QED
    BY <2>1 DEF U
<1> QED
  BY <1>4

\* What At returns inside a text and outside it.
LEMMA AtBytes ==
    ASSUME NEW s \in Seq(Symbols), NEW k \in Nat
    PROVE  /\ k \in 1 .. Len(s) => At(s, k) = s[k] /\ s[k] \in Symbols
           /\ k \notin 1 .. Len(s) => At(s, k) = "end"
BY DEF At

\* The scan of a quoted literal moves on and ends in the text or right after it.
LEMMA QuotedScanBounds ==
    ASSUME NEW s \in Seq(Symbols), NEW c \in Quotes, NEW k \in 1 .. Len(s) + 1
    PROVE  QuotedScan(s, c)[k] \in k .. Len(s) + 1
<1> DEFINE N == Len(s)
           scan == QuotedScan(s, c)
           S == {n \in 1 .. N + 1 : scan[n] \in n .. N + 1}
<1>0. N \in Nat
  OBVIOUS
<1>1. c # "end"
  BY DEF Quotes, QuoteModes
<1>2. ASSUME NEW n \in 1 .. N + 1, \A m \in n + 1 .. N + 1 : m \in S PROVE n \in S
  <2>1. n \in Nat
    OBVIOUS
  <2>2. scan[n] = QuotedBody(s, c, scan, n)
    BY <2>1, QuotedScanDef
  <2> HIDE DEF scan
  <2>3. CASE n > N
    BY <2>2, <2>3 DEF QuotedBody
  <2>4. CASE n <= N /\ At(s, n) # c
    <3>1. scan[n] = scan[n + 1]
      BY <2>2, <2>4 DEF QuotedBody
    <3>2. n + 1 \in S
      BY <1>2, <2>4
    <3> QED
      BY <3>1, <3>2
  <2>5. CASE n <= N /\ At(s, n) = c /\ At(s, n + 1) = c
    <3>1. scan[n] = scan[n + 2]
      BY <2>2, <2>5 DEF QuotedBody
    <3>2. n + 1 <= N
      BY <1>1, <2>1, <2>5 DEF At
    <3>3. n + 2 \in S
      BY <1>2, <3>2
    <3> QED
      BY <3>1, <3>3
  <2>6. CASE n <= N /\ At(s, n) = c /\ At(s, n + 1) # c
    <3>1. scan[n] = n + 1
      BY <2>2, <2>6 DEF QuotedBody
    <3> QED
      BY <3>1, <2>6
  <2> QED
    BY <2>3, <2>4, <2>5, <2>6
<1> HIDE DEF S, scan, N
<1>3. 1 .. N + 1 \subseteq S
  BY <1>0, <1>2, InductDown
<1> QED
  BY <1>3 DEF S, N, scan

\* The scan of an escape string moves on, and a backslash at the end of the text
\* does not take it past the end.
LEMMA EscapeScanBounds ==
    ASSUME NEW s \in Seq(Symbols), NEW k \in 1 .. Len(s) + 1
    PROVE  EscapeScan(s)[k] \in k .. Len(s) + 1
<1> DEFINE N == Len(s)
           scan == EscapeScan(s)
           S == {n \in 1 .. N + 1 : scan[n] \in n .. N + 1}
<1>0. N \in Nat
  OBVIOUS
<1>2. ASSUME NEW n \in 1 .. N + 1, \A m \in n + 1 .. N + 1 : m \in S PROVE n \in S
  <2>1. n \in Nat /\ n + 2 \in Nat
    OBVIOUS
  <2>2. scan[n] = EscapeBody(s, scan, n) /\ scan[n + 2] = EscapeBody(s, scan, n + 2)
    BY <2>1, EscapeScanDef
  <2> HIDE DEF scan
  <2>3. CASE n > N
    <3>1. At(s, n) = "end"
      BY <2>3 DEF At
    <3> QED
      BY <2>2, <2>3, <3>1 DEF EscapeBody
  <2>4. CASE n <= N /\ At(s, n) \notin {"backslash", "quote"}
    <3>1. scan[n] = scan[n + 1]
      BY <2>2, <2>4 DEF EscapeBody
    <3>2. n + 1 \in S
      BY <1>2, <2>4
    <3> QED
      BY <3>1, <3>2
  <2>5. CASE n <= N /\ At(s, n) = "quote" /\ At(s, n + 1) = "quote"
    <3>1. scan[n] = scan[n + 2]
      BY <2>2, <2>5 DEF EscapeBody
    <3>2. n + 1 <= N
      BY <2>1, <2>5 DEF At
    <3>3. n + 2 \in S
      BY <1>2, <3>2
    <3> QED
      BY <3>1, <3>3
  <2>6. CASE n <= N /\ At(s, n) = "quote" /\ At(s, n + 1) # "quote"
    <3>1. scan[n] = n + 1
      BY <2>2, <2>6 DEF EscapeBody
    <3> QED
      BY <3>1, <2>6
  <2>7. CASE n <= N /\ At(s, n) = "backslash"
    <3>1. scan[n] = scan[n + 2]
      BY <2>2, <2>7 DEF EscapeBody
    <3>2. CASE n + 1 <= N
      <4>1. n + 2 \in S
        BY <1>2, <3>2
      <4> QED
        BY <3>1, <4>1
    <3>3. CASE n = N
      <4>1. At(s, n + 2) = "end"
        BY <3>3 DEF At
      <4>2. scan[n + 2] = N + 1
        BY <2>2, <3>3, <4>1 DEF EscapeBody
      <4> QED
        BY <3>1, <4>2, <3>3
    <3> QED
      BY <3>2, <3>3, <2>7
  <2> QED
    BY <2>3, <2>4, <2>5, <2>6, <2>7
<1> HIDE DEF S, scan, N
<1>3. 1 .. N + 1 \subseteq S
  BY <1>0, <1>2, InductDown
<1> QED
  BY <1>3 DEF S, N, scan

\* The scan of a block comment moves on, at every depth.
LEMMA BlockScanBounds ==
    ASSUME NEW s \in Seq(Symbols), NEW k \in 1 .. Len(s) + 1, NEW d \in Int
    PROVE  BlockScan(s)[<<k, d>>] \in k .. Len(s) + 1
<1> DEFINE N == Len(s)
           scan == BlockScan(s)
           S == {n \in 1 .. N + 1 : \A b \in Int : scan[<<n, b>>] \in n .. N + 1}
<1>0. N \in Nat
  OBVIOUS
<1>2. ASSUME NEW n \in 1 .. N + 1, \A m \in n + 1 .. N + 1 : m \in S PROVE n \in S
  <2>0. SUFFICES ASSUME NEW b \in Int PROVE scan[<<n, b>>] \in n .. N + 1
    OBVIOUS
  <2>1. n \in Nat
    OBVIOUS
  <2>2. scan[<<n, b>>] = BlockBody(s, scan, n, b)
    BY <2>1, BlockScanDef
  <2> HIDE DEF scan
  <2>3. CASE n > N
    <3>1. At(s, n) = "end"
      BY <2>3 DEF At
    <3> QED
      BY <2>2, <2>3, <3>1 DEF BlockBody
  <2> DEFINE opens == At(s, n) = "slash" /\ At(s, n + 1) = "star"
             closes == At(s, n) = "star" /\ At(s, n + 1) = "slash"
  <2>4. CASE n <= N /\ opens
    <3>1. scan[<<n, b>>] = scan[<<n + 2, b + 1>>]
      BY <2>2, <2>4 DEF BlockBody
    <3>2. n + 1 <= N
      BY <2>1, <2>4 DEF At
    <3>3. n + 2 \in S
      BY <1>2, <3>2
    <3> QED
      BY <3>1, <3>3
  <2>5. CASE n <= N /\ closes /\ b # 1
    <3>1. scan[<<n, b>>] = scan[<<n + 2, b - 1>>]
      BY <2>2, <2>5 DEF BlockBody
    <3>2. n + 1 <= N
      BY <2>1, <2>5 DEF At
    <3>3. n + 2 \in S
      BY <1>2, <3>2
    <3> QED
      BY <3>1, <3>3
  <2>6. CASE n <= N /\ closes /\ b = 1
    <3>1. scan[<<n, b>>] = n + 2
      BY <2>2, <2>6 DEF BlockBody
    <3>2. n + 1 <= N
      BY <2>1, <2>6 DEF At
    <3> QED
      BY <3>1, <3>2
  <2>7. CASE n <= N /\ ~ opens /\ ~ closes
    <3>1. scan[<<n, b>>] = scan[<<n + 1, b>>]
      BY <2>2, <2>7 DEF BlockBody
    <3>2. n + 1 \in S
      BY <1>2, <2>7
    <3> QED
      BY <3>1, <3>2
  <2> QED
    BY <2>3, <2>4, <2>5, <2>6, <2>7
<1> HIDE DEF S, scan, N
<1>3. 1 .. N + 1 \subseteq S
  BY <1>0, <1>2, InductDown
<1> QED
  BY <1>3 DEF S, N, scan

\* A nonempty set of naturals has a least element.
LEMMA MinOf ==
    ASSUME NEW S \in SUBSET Nat, S # {}
    PROVE  Min(S) \in S /\ \A y \in S : Min(S) <= y
<1> DEFINE R == OpToRel(<, Nat)
<1>1. IsWellFoundedOn(R, Nat)
  BY NatLessThanWellFounded
<1>2. PICK x \in S : \A y \in S : ~ (<<y, x>> \in R)
  <2> HIDE DEF R
  <2> QED
    BY <1>1, WFMin
<1>3. ASSUME NEW y \in S PROVE x <= y
  <2>1. SUFFICES ASSUME y < x PROVE FALSE
    OBVIOUS
  <2>2. x \in Nat /\ y \in Nat
    OBVIOUS
  <2>3. <<y, x>> \in R
    BY <2>1, <2>2 DEF OpToRel
  <2> HIDE DEF R
  <2> QED
    BY <1>2, <2>3
<1> QED
  BY <1>3 DEF Min

\* The constructs that may begin at i, quoted literals aside.
OpensLine(s, i)   == s[i] = "dash" /\ At(s, i + 1) = "dash"
OpensBlock(s, i)  == s[i] = "slash" /\ At(s, i + 1) = "star"
OpensEscape(s, i) == s[i] = "e" /\ At(s, i + 1) = "quote" /\ AtTokenStart(s, i)
OpensDollar(s, i) == s[i] = "dollar" /\ AtTokenStart(s, i) /\ DollarTagEnds(s, i) # {}

\* Which construct opens at a position says where SkippableEnd jumps.
LEMMA SkippableEndCases ==
    ASSUME NEW s \in Seq(Symbols), NEW i \in 1 .. Len(s)
    PROVE  /\ OpensLine(s, i)    => SkippableEnd(s, i) = LineCommentEnd(s, i)
           /\ OpensBlock(s, i)   => SkippableEnd(s, i) = BlockCommentEnd(s, i)
           /\ s[i] = "quote"     => SkippableEnd(s, i) = SingleQuoteEnd(s, i)
           /\ s[i] = "dquote"    => SkippableEnd(s, i) = QuotedIdentEnd(s, i)
           /\ OpensEscape(s, i)  => SkippableEnd(s, i) = EscapeStringEnd(s, i + 1)
           /\ OpensDollar(s, i)  =>
                SkippableEnd(s, i) = DollarQuoteEnd(s, i, Min(DollarTagEnds(s, i)))
           /\ \/ OpensLine(s, i) \/ OpensBlock(s, i) \/ s[i] \in Quotes
              \/ OpensEscape(s, i) \/ OpensDollar(s, i) \/ SkippableEnd(s, i) = i
BY DEF SkippableEnd, OpensLine, OpensBlock, OpensEscape, OpensDollar, Quotes, QuoteModes

\* A line comment ends at the first end of line, or with the text.
LEMMA LineCommentEndBounds ==
    ASSUME NEW s \in Seq(Symbols), NEW i \in 1 .. Len(s)
    PROVE  /\ LineCommentEnd(s, i) \in i .. Len(s) + 1
           /\ LineCommentEnd(s, i) <= Len(s) => s[LineCommentEnd(s, i)] = "eol"
           /\ \A k \in i .. LineCommentEnd(s, i) - 1 : s[k] # "eol"
<1> DEFINE S == {k \in i .. Len(s) : s[k] = "eol"}
<1>1. LineCommentEnd(s, i) = IF S = {} THEN Len(s) + 1 ELSE Min(S)
  BY DEF LineCommentEnd, FirstOf
<1>2. S # {} => Min(S) \in S /\ \A y \in S : Min(S) <= y
  <2>1. S \in SUBSET Nat
    OBVIOUS
  <2> HIDE DEF S
  <2> QED
    BY <2>1, MinOf
<1>3. CASE S = {}
  BY <1>1, <1>3
<1>4. CASE S # {}
  <2> DEFINE m == Min(S)
  <2>1. LineCommentEnd(s, i) = m /\ m \in S /\ \A y \in S : m <= y
    BY <1>1, <1>2, <1>4
  <2> HIDE DEF m
  <2> QED
    BY <2>1
<1> QED
  BY <1>3, <1>4

\* Where the bytes of the tag at i .. j stand again after it.
Closes(s, i, j) ==
    {k \in j + 1 .. Len(s) + 1 - (j - i + 1) :
        SubSeq(s, k, k + (j - i + 1) - 1) = SubSeq(s, i, j)}

\* A dollar-quoted string ends after the first copy of its tag, or with the text.
LEMMA DollarQuoteEndBounds ==
    ASSUME NEW s \in Seq(Symbols), NEW i \in 1 .. Len(s), NEW j \in i + 1 .. Len(s)
    PROVE  \/ /\ Closes(s, i, j) = {}
              /\ DollarQuoteEnd(s, i, j) = Len(s) + 1
           \/ \E c \in Closes(s, i, j) :
                 /\ \A y \in Closes(s, i, j) : c <= y
                 /\ DollarQuoteEnd(s, i, j) = c + (j - i + 1)
<1> DEFINE S == Closes(s, i, j)
<1>1. DollarQuoteEnd(s, i, j) = IF S = {} THEN Len(s) + 1 ELSE Min(S) + (j - i + 1)
  BY DEF DollarQuoteEnd, Closes
<1>2. S \in SUBSET Nat
  BY DEF Closes
<1> HIDE DEF S
<1>3. S # {} => Min(S) \in S /\ \A y \in S : Min(S) <= y
  BY <1>2, MinOf
<1>4. S = {} \/ \E c \in S : (\A y \in S : c <= y) /\ DollarQuoteEnd(s, i, j) = c + (j - i + 1)
  BY <1>1, <1>3
<1> QED
  BY <1>1, <1>4 DEF S

\* A tag has one end.
LEMMA DollarTagEnd ==
    ASSUME NEW s \in Seq(Symbols), NEW i \in 1 .. Len(s), DollarTagEnds(s, i) # {}
    PROVE  LET j == Min(DollarTagEnds(s, i))
           IN  /\ j \in i + 1 .. Len(s) /\ s[i] = "dollar" /\ s[j] = "dollar"
               /\ \A k \in i + 1 .. j - 1 : s[k] \in WordSymbols
               /\ s[i + 1] # "1"
<1> DEFINE S == DollarTagEnds(s, i)
<1>1. S \in SUBSET Nat
  BY DEF DollarTagEnds
<1> HIDE DEF S
<1>2. S # {}
  BY DEF S
<1>3. Min(S) \in S
  BY <1>1, <1>2, MinOf
<1> QED
  BY <1>3 DEF S, DollarTagEnds, IsWordByte

\* The cursor never moves back, and it jumps exactly where a construct opens.
LEMMA SkippableEndBounds ==
    ASSUME NEW s \in Seq(Symbols), NEW i \in 1 .. Len(s)
    PROVE  /\ SkippableEnd(s, i) \in i .. Len(s) + 1
           /\ OpensLine(s, i) \/ OpensBlock(s, i) \/ s[i] \in Quotes
                \/ OpensEscape(s, i) \/ OpensDollar(s, i)
              <=> SkippableEnd(s, i) # i
<1> DEFINE N == Len(s)
<1>0. N \in Nat /\ i \in Nat
  OBVIOUS
<1>1. CASE OpensLine(s, i)
  <2>1. LineCommentEnd(s, i) \in i .. N + 1 /\ LineCommentEnd(s, i) # i
    BY <1>0, <1>1, LineCommentEndBounds DEF OpensLine
  <2> QED
    BY <1>1, <2>1, SkippableEndCases
<1>2. CASE OpensBlock(s, i)
  <2>1. i + 1 <= N
    BY <1>0, <1>2 DEF OpensBlock, At
  <2>2. At(s, i) = "slash" /\ At(s, i + 1) = "star"
    BY <1>0, <1>2 DEF OpensBlock, At
  <2>3. BlockScan(s)[<<i, 0>>] = BlockScan(s)[<<i + 2, 0 + 1>>]
    <3>1. BlockScan(s)[<<i, 0>>] = BlockBody(s, BlockScan(s), i, 0)
      BY <1>0, BlockScanDef
    <3>2. ~ (i > Len(s))
      BY <1>0
    <3> QED
      BY <2>2, <3>1, <3>2 DEF BlockBody
  <2>4. i + 2 \in 1 .. N + 1
    BY <1>0, <2>1
  <2>5. BlockScan(s)[<<i + 2, 0 + 1>>] \in i + 2 .. N + 1
    BY <2>4, BlockScanBounds
  <2>6. BlockCommentEnd(s, i) \in i + 2 .. N + 1
    BY <2>3, <2>5 DEF BlockCommentEnd
  <2> QED
    BY <1>2, <2>6, SkippableEndCases
<1>3. CASE s[i] \in Quotes
  <2>1. i + 1 \in 1 .. N + 1
    BY <1>0
  <2>2. "quote" \in Quotes /\ "dquote" \in Quotes /\ s[i] \in {"quote", "dquote"}
    BY <1>3 DEF Quotes, QuoteModes
  <2>3. SingleQuoteEnd(s, i) \in i + 1 .. N + 1 /\ QuotedIdentEnd(s, i) \in i + 1 .. N + 1
    BY <2>1, <2>2, QuotedScanBounds DEF SingleQuoteEnd, QuotedIdentEnd
  <2> QED
    BY <1>3, <2>2, <2>3, SkippableEndCases
<1>4. CASE OpensEscape(s, i)
  <2>1. i + 1 <= N
    BY <1>0, <1>4 DEF OpensEscape, At
  <2>2. (i + 1) + 1 \in 1 .. N + 1
    BY <1>0, <2>1
  <2>3. EscapeStringEnd(s, i + 1) \in i + 2 .. N + 1
    BY <2>2, EscapeScanBounds DEF EscapeStringEnd
  <2> QED
    BY <1>4, <2>3, SkippableEndCases
<1>5. CASE OpensDollar(s, i)
  <2> DEFINE j == Min(DollarTagEnds(s, i))
  <2>1. j \in i + 1 .. N
    BY <1>5, DollarTagEnd DEF OpensDollar
  <2>2. SkippableEnd(s, i) = DollarQuoteEnd(s, i, j)
    BY <1>5, SkippableEndCases
  <2> HIDE DEF j
  <2>3. DollarQuoteEnd(s, i, j) \in i + 1 .. N + 1
    BY <2>1, DollarQuoteEndBounds DEF Closes
  <2> QED
    BY <1>5, <2>2, <2>3
<1>6. CASE ~ (OpensLine(s, i) \/ OpensBlock(s, i) \/ s[i] \in Quotes
                \/ OpensEscape(s, i) \/ OpensDollar(s, i))
  BY <1>6, SkippableEndCases
<1> QED
  BY <1>1, <1>2, <1>3, <1>4, <1>5, <1>6

-----------------------------------------------------------------------------
(* The automaton. *)

\* The quotes, and the literals each closes.
LEMMA QuotesAre ==
    /\ Quotes = {"quote", "dquote"}
    /\ QuoteModes["quote"] = {"single", "escape"}
    /\ QuoteModes["dquote"] = {"ident"}
BY DEF Quotes, QuoteModes

LexModes == {"code", "line", "block", "dollar", "single", "escape", "ident"}

\* The states of the automaton.
LexState ==
    [mode : LexModes, start : Nat, mark : Nat, depth : Int, tag : Seq(Symbols),
     reopens : {"none", "single", "escape", "ident"}]

\* What Code builds is a state of the automaton.
LEMMA CodeIs ==
    ASSUME NEW i \in Nat
    PROVE  /\ Code(i) \in LexState
           /\ Code(i).mode = "code" /\ Code(i).start = i /\ Code(i).mark = i
           /\ Code(i).depth = 0 /\ Code(i).reopens = "none"
<1>1. << >> \in Seq(Symbols)
  OBVIOUS
<1> QED
  BY <1>1 DEF Code, Enter, LexState, LexModes

\* What Enter builds is a state of the automaton.
LEMMA EnterIs ==
    ASSUME NEW mode \in LexModes, NEW from \in Nat, NEW i \in Nat
    PROVE  /\ Enter(mode, from, i) \in LexState
           /\ Enter(mode, from, i).mode = mode /\ Enter(mode, from, i).start = from
           /\ Enter(mode, from, i).mark = i
           /\ mode = "block" => Enter(mode, from, i).depth = 1
           /\ Enter(mode, from, i).reopens = "none"
<1>1. << >> \in Seq(Symbols)
  OBVIOUS
<1> DEFINE d == IF mode = "block" THEN 1 ELSE 0
           r == [mode |-> mode, start |-> from, mark |-> i, depth |-> d, tag |-> << >>,
                 reopens |-> "none"]
<1>2. Enter(mode, from, i) = r
  BY DEF Enter
<1>3. d \in Int
  OBVIOUS
<1>4. r \in LexState
  <2> HIDE DEF d
  <2> QED
    BY <1>1, <1>3 DEF LexState
<1> QED
  BY <1>2, <1>4

\* A step of the automaton leaves it in one of its states.
LEMMA AfterTyped ==
    ASSUME NEW s \in Seq(Symbols), NEW q \in LexState, NEW i \in 1 .. Len(s)
    PROVE  After(s, q, i) \in LexState
<1>1. i \in Nat /\ i - 1 \in Nat
  OBVIOUS
<1>2. FromCode(s, q, i) \in LexState
  <2> DEFINE b    == s[i]
             pair == IF i - 1 > q.mark THEN <<s[i - 1], b>> ELSE <<"none", b>>
             tags == TagStarts(s, q.mark, i)
             again == b \in Quotes /\ i - 1 = q.mark /\ q.reopens \in QuoteModes[b]
             quoteE == pair = <<"e", "quote">> /\ StartsToken(s, i - 1)
  <2>1. CASE pair = <<"dash", "dash">>
    <3>1. FromCode(s, q, i) = Enter("line", i - 1, i)
      BY <2>1, QuotesAre DEF FromCode
    <3> QED
      BY <1>1, <3>1, EnterIs DEF LexModes
  <2>2. CASE pair = <<"slash", "star">>
    <3>1. FromCode(s, q, i) = Enter("block", i - 1, i)
      BY <2>2, QuotesAre DEF FromCode
    <3> QED
      BY <1>1, <3>1, EnterIs DEF LexModes
  <2>3. CASE again
    <3>1. FromCode(s, q, i) = Enter(q.reopens, i, i)
      BY <2>3, QuotesAre DEF FromCode
    <3>2. q.reopens \in LexModes
      BY <2>3, QuotesAre DEF LexModes
    <3> QED
      BY <1>1, <3>1, <3>2, EnterIs
  <2>4. CASE quoteE
    <3>1. FromCode(s, q, i) = Enter("escape", i - 1, i)
      BY <2>4, QuotesAre DEF FromCode
    <3> QED
      BY <1>1, <3>1, EnterIs DEF LexModes
  <2>5. CASE b \in Quotes /\ ~ again /\ ~ quoteE
    <3>1. FromCode(s, q, i) = Enter(IF b = "quote" THEN "single" ELSE "ident", i, i)
      BY <2>5, QuotesAre DEF FromCode
    <3> QED
      BY <1>1, <3>1, EnterIs DEF LexModes
  <2>6. CASE b = "dollar" /\ tags # {}
    <3>1. FromCode(s, q, i) = [Enter("dollar", Min(tags), i) EXCEPT !.tag = SubSeq(s, Min(tags), i)]
      BY <2>6, QuotesAre DEF FromCode
    <3>2. Min(tags) \in tags
      <4>1. tags \in SUBSET Nat
        BY DEF TagStarts, LexState
      <4> HIDE DEF tags
      <4> QED
        BY <2>6, <4>1, MinOf
    <3>3. Min(tags) \in 1 .. Len(s)
      BY <3>2 DEF TagStarts, LexState
    <3> HIDE DEF tags
    <3>4. Enter("dollar", Min(tags), i) \in LexState
      BY <1>1, <3>3, EnterIs DEF LexModes
    <3>5. SubSeq(s, Min(tags), i) \in Seq(Symbols)
      BY <3>3
    <3> QED
      BY <3>1, <3>4, <3>5 DEF LexState
  <2>7. CASE ~ (\/ pair = <<"dash", "dash">> \/ pair = <<"slash", "star">> \/ again \/ quoteE
                \/ b \in Quotes \/ (b = "dollar" /\ tags # {}))
    <3>1. FromCode(s, q, i) = q
      BY <2>7, QuotesAre DEF FromCode
    <3> QED
      BY <3>1
  <2> QED
    BY <2>1, <2>2, <2>3, <2>4, <2>5, <2>6, <2>7
<1>3. FromBlock(s, q, i) \in LexState
  <2>1. ASSUME NEW d \in Int PROVE Nested(q, d, i) \in LexState
    BY <1>1 DEF LexState, Nested
  <2>2. q.depth + 1 \in Int /\ q.depth - 1 \in Int
    BY DEF LexState
  <2>3. Code(i) \in LexState
    BY <1>1, CodeIs
  <2> QED
    BY <2>1, <2>2, <2>3 DEF FromBlock
<1>4. ASSUME q.mode \in {"single", "escape", "ident"}
      PROVE  FromLiteral(q, s[i], i) \in LexState
  <2>1. Code(i) \in LexState
    BY <1>1, CodeIs
  <2>2. [Code(i) EXCEPT !.reopens = q.mode] \in LexState
    BY <1>4, <2>1 DEF LexState
  <2>3. [q EXCEPT !.mark = i + 1] \in LexState
    BY SMTT(30), <1>1 DEF LexState
  <2> QED
    BY <2>2, <2>3 DEF FromLiteral
<1>5. FromDollar(s, q, i) \in LexState
  BY <1>1, CodeIs DEF FromDollar
<1>6. q.mode \in LexModes
  BY DEF LexState
<1> QED
  BY <1>1, <1>2, <1>3, <1>4, <1>5, <1>6, CodeIs DEF After, LexModes

\* Lex satisfies its equation.
LEMMA LexDef ==
    ASSUME NEW s \in Seq(Symbols)
    PROVE  /\ Lex(s)[0] = Code(0)
           /\ \A i \in 1 .. Len(s) : Lex(s)[i] = After(s, Lex(s)[i - 1], i)
           /\ \A i \in 0 .. Len(s) : Lex(s)[i] \in LexState
<1> DEFINE N == Len(s)
           S == 0 .. N
           go == 1 .. N
           rank == [i \in S |-> i]
           nx == [i \in go |-> i - 1]
           val == [i \in S |-> Code(0)]
           comb == [x \in S \X LexState |->
                      IF x[1] = 0 THEN Code(0) ELSE After(s, x[2], x[1])]
<1>1. N \in Nat
  OBVIOUS
<1>2. Code(0) \in LexState
  BY CodeIs
<1>3. rank \in [S -> Nat] /\ go \in SUBSET S /\ nx \in [go -> S] /\ val \in [S -> LexState]
  BY <1>2
<1>4. comb \in [S \X LexState -> LexState]
  <2>1. ASSUME NEW x \in S \X LexState
        PROVE  (IF x[1] = 0 THEN Code(0) ELSE After(s, x[2], x[1])) \in LexState
    BY <1>2, AfterTyped
  <2> QED
    BY <2>1
<1>5. \A x \in go : rank[nx[x]] < rank[x]
  OBVIOUS
<1>6. ASSUME NEW i \in go, NEW v \in LexState PROVE comb[<<i, v>>] = After(s, v, i)
  <2>1. <<i, v>> \in S \X LexState /\ <<i, v>>[1] = i /\ <<i, v>>[2] = v
    OBVIOUS
  <2> QED
    BY <2>1
<1>7. \A i \in go : i \in S /\ nx[i] = i - 1 /\ i - 1 \in S /\ i # 0
  OBVIOUS
<1>8. \A i \in S \ go : val[i] = Code(0) /\ i = 0
  OBVIOUS
<1> HIDE DEF rank, nx, val, comb
<1>9. IsRecursion(S, LexState, rank, go, nx, val, comb)
  BY <1>3, <1>4, <1>5 DEF IsRecursion
<1>10. PICK f \in [S -> LexState] : Solves(f, S, go, nx, val, comb)
  <2> HIDE DEF S, go
  <2> QED
    BY <1>9, RecursionExists
<1>11. f = [i \in S |-> IF i = 0 THEN Code(0) ELSE After(s, f[i - 1], i)]
  <2>1. ASSUME NEW i \in go PROVE comb[<<i, f[nx[i]]>>] = After(s, f[i - 1], i)
    <3>1. f[i - 1] \in LexState
      BY <1>7
    <3> QED
      BY <1>6, <1>7, <3>1
  <2>2. f = [i \in S |-> IF i \in go THEN comb[<<i, f[nx[i]]>>] ELSE val[i]]
    BY <1>10 DEF Solves
  <2> QED
    BY <2>1, <2>2, <1>7, <1>8
<1>12. Lex(s) = CHOOSE q : q = [i \in S |-> IF i = 0 THEN Code(0) ELSE After(s, q[i - 1], i)]
  BY DEF Lex
<1>13. Lex(s) = [i \in S |-> IF i = 0 THEN Code(0) ELSE After(s, Lex(s)[i - 1], i)]
  <2> HIDE DEF S
  <2> QED
    BY <1>11, <1>12, Zenon
<1>14. Lex(s)[0] = Code(0)
  BY <1>1, <1>13
<1>15. ASSUME NEW i \in 1 .. N PROVE Lex(s)[i] = After(s, Lex(s)[i - 1], i)
  BY <1>13
<1>16. ASSUME NEW i \in 0 .. N PROVE Lex(s)[i] \in LexState
  <2> DEFINE U == {n \in Nat : n <= N => Lex(s)[n] \in LexState}
  <2>1. 0 \in U
    BY <1>2, <1>14
  <2>2. ASSUME NEW n \in Nat, n \in U PROVE n + 1 \in U
    <3>1. SUFFICES ASSUME n + 1 <= N PROVE Lex(s)[n + 1] \in LexState
      OBVIOUS
    <3>2. Lex(s)[n] \in LexState /\ n + 1 \in 1 .. N /\ (n + 1) - 1 = n
      BY <2>2, <3>1
    <3>3. Lex(s)[n + 1] = After(s, Lex(s)[n], n + 1)
      BY <1>15, <3>2
    <3> QED
      BY <3>2, <3>3, AfterTyped
  <2> HIDE DEF U
  <2>3. Nat \subseteq U
    BY <2>1, <2>2, Induct
  <2> QED
    BY <2>3 DEF U
<1> QED
  BY <1>14, <1>15, <1>16

-----------------------------------------------------------------------------
(* Where the cursor may stop, and what it jumps over. *)

\* The automaton is in code before i and owes nothing to the symbols it has read:
\* no construct opened since mark, and the quote at i reopens no literal.
Fresh(s, i) ==
    LET p == Lex(s)[i - 1]
    IN  /\ p.mode = "code" /\ p.mark <= i - 1
        /\ \A o \in p.mark + 1 .. i - 1 : SkippableEnd(s, o) = o
        /\ i <= Len(s) /\ p.mark = i - 1 /\ s[i] \in Quotes
             => p.reopens \notin QuoteModes[s[i]]

\* The automaton has yet to read the end of line where the scanner already is.
AtEol(s, i) == i > 1 /\ s[i] = "eol" /\ Lex(s)[i - 1].mode = "line"

\* From k to before e everything is hidden, no construct there began before i,
\* and the cursor may stop at e.
Covered(s, i, k, e) ==
    /\ e \in k .. Len(s) + 1
    /\ \A m \in k .. e - 1 :
          /\ m \in Hidden(s)
          /\ Lex(s)[m].mode # "code" => Lex(s)[m].start >= i
    /\ e <= Len(s) => Fresh(s, e) \/ AtEol(s, e)

\* A symbol is hidden when a construct was open before it or one covers it.
LEMMA HiddenIf ==
    ASSUME NEW s \in Seq(Symbols), NEW m \in 1 .. Len(s),
           \/ Lex(s)[m - 1].mode # "code"
           \/ \E j \in m .. Len(s) : Lex(s)[j].mode # "code" /\ Lex(s)[j].start <= m
    PROVE  m \in Hidden(s)
BY DEF Hidden

\* A stretch of hidden symbols before a covered one is covered.
LEMMA CoveredFrom ==
    ASSUME NEW s \in Seq(Symbols), NEW i \in 1 .. Len(s), NEW k \in i .. Len(s) + 1,
           NEW n \in k .. Len(s) + 1, NEW e, Covered(s, i, n, e),
           \A m \in k .. n - 1 :
              /\ m \in Hidden(s)
              /\ Lex(s)[m].mode # "code" => Lex(s)[m].start >= i
    PROVE  Covered(s, i, k, e)
<1>1. e \in k .. Len(s) + 1
  BY DEF Covered
<1>2. ASSUME NEW m \in k .. e - 1
      PROVE  /\ m \in Hidden(s)
             /\ Lex(s)[m].mode # "code" => Lex(s)[m].start >= i
  <2>1. m \in k .. n - 1 \/ m \in n .. e - 1
    BY <1>1
  <2> QED
    BY <2>1 DEF Covered
<1> QED
  BY <1>1, <1>2 DEF Covered

\* The symbols that open a construct are covered once the construct is.
LEMMA CoveredFromOpening ==
    ASSUME NEW s \in Seq(Symbols), NEW i \in 1 .. Len(s), NEW o \in i .. Len(s), NEW e,
           Lex(s)[o].mode # "code", Lex(s)[o].start = i,
           \A j \in i .. o - 1 : Lex(s)[j].mode = "code",
           Covered(s, i, o + 1, e)
    PROVE  Covered(s, i, i, e)
<1>1. ASSUME NEW m \in i .. (o + 1) - 1
      PROVE  /\ m \in Hidden(s)
             /\ Lex(s)[m].mode # "code" => Lex(s)[m].start >= i
  <2>1. m \in i .. o - 1 \/ m = o
    OBVIOUS
  <2>2. m \in 1 .. Len(s) /\ o \in m .. Len(s)
    OBVIOUS
  <2>3. m \in Hidden(s)
    BY <2>2, HiddenIf
  <2> QED
    BY <2>1, <2>3
<1>2. o + 1 \in i .. Len(s) + 1 /\ i \in i .. Len(s) + 1
  OBVIOUS
<1> QED
  BY <1>1, <1>2, CoveredFrom

\* Where nothing can be pending, a symbol other than a quote that opens nothing
\* leaves the automaton where it is.
LEMMA FreshStays ==
    ASSUME NEW s \in Seq(Symbols), NEW i \in 1 .. Len(s), Fresh(s, i), s[i] \notin Quotes
    PROVE  Lex(s)[i] = Lex(s)[i - 1]
<1> DEFINE p == Lex(s)[i - 1]
           b == s[i]
           pair == IF i - 1 > p.mark THEN <<s[i - 1], b>> ELSE <<"none", b>>
           tags == TagStarts(s, p.mark, i)
<1>1. p \in LexState /\ p.mode = "code" /\ p.mark <= i - 1 /\ Lex(s)[i] = After(s, p, i)
  BY LexDef DEF Fresh
<1>2. Lex(s)[i] = FromCode(s, p, i)
  BY <1>1 DEF After
<1>3. p.mark \in Nat
  BY <1>1 DEF LexState
<1>4. ASSUME NEW o \in p.mark + 1 .. i - 1
      PROVE  /\ o \in 1 .. Len(s)
             /\ ~ OpensLine(s, o) /\ ~ OpensBlock(s, o) /\ ~ OpensEscape(s, o)
             /\ ~ OpensDollar(s, o)
  <2>1. o \in 1 .. Len(s)
    BY <1>3
  <2>2. SkippableEnd(s, o) = o
    BY DEF Fresh
  <2> QED
    BY <2>1, <2>2, SkippableEndBounds
<1> HIDE DEF p
<1>5. i - 1 > p.mark => /\ i - 1 \in p.mark + 1 .. i - 1 /\ At(s, (i - 1) + 1) = b
  BY <1>3 DEF At
<1>6. pair # <<"dash", "dash">>
  BY <1>4, <1>5 DEF OpensLine
<1>7. pair # <<"slash", "star">>
  BY <1>4, <1>5 DEF OpensBlock
<1>8. ~ (b = "dollar" /\ tags # {})
  <2>1. SUFFICES ASSUME b = "dollar", NEW o \in tags PROVE FALSE
    OBVIOUS
  <2>2. o \in p.mark + 1 .. i - 1 /\ s[o] = "dollar" /\ StartsToken(s, o)
    BY <2>1 DEF TagStarts
  <2>3. \A k \in o + 1 .. i - 1 : s[k] \in WordSymbols
    BY <2>1 DEF TagStarts
  <2>4. s[o + 1] # "1"
    <3>1. CASE o + 1 < i
      BY <2>1, <3>1 DEF TagStarts
    <3>2. CASE o + 1 = i
      BY <2>1, <3>2
    <3> QED
      BY <1>3, <2>2, <3>1, <3>2
  <2>5. i \in o + 1 .. Len(s)
    BY <1>3, <2>2
  <2>6. i \in DollarTagEnds(s, o)
    BY <2>1, <2>2, <2>3, <2>4, <2>5 DEF DollarTagEnds, IsWordByte
  <2>7. AtTokenStart(s, o)
    BY <2>2 DEF AtTokenStart, StartsToken, IsWordByte
  <2> QED
    BY <1>4, <2>2, <2>6, <2>7 DEF OpensDollar
<1>9. "quote" \in Quotes
  BY QuotesAre
<1>10. FromCode(s, p, i) = p
  <2> HIDE DEF tags
  <2> QED
    BY <1>6, <1>7, <1>8, <1>9 DEF FromCode, tags
<1> QED
  BY <1>2, <1>10 DEF p

\* Where the cursor moves on by one symbol, so does the automaton.
LEMMA FreshNext ==
    ASSUME NEW s \in Seq(Symbols), NEW i \in 1 .. Len(s), Fresh(s, i), SkippableEnd(s, i) = i
    PROVE  Lex(s)[i] = Lex(s)[i - 1] /\ Fresh(s, i + 1)
<1>1. s[i] \notin Quotes
  BY SkippableEndBounds
<1>2. Lex(s)[i] = Lex(s)[i - 1]
  BY <1>1, FreshStays
<1>3. Lex(s)[i - 1].mark \in Nat
  BY LexDef DEF LexState
<1>4. (i + 1) - 1 = i
  OBVIOUS
<1>5. Fresh(s, i + 1)
  <2> DEFINE p == Lex(s)[i - 1]
  <2>1. p.mode = "code" /\ p.mark <= i - 1 /\ \A o \in p.mark + 1 .. i - 1 : SkippableEnd(s, o) = o
    BY DEF Fresh
  <2>2. Lex(s)[(i + 1) - 1] = p
    BY <1>2, <1>4
  <2>3. p.mark \in Nat
    BY <1>3
  <2> HIDE DEF p
  <2>4. \A o \in p.mark + 1 .. i : SkippableEnd(s, o) = o
    BY <2>1, <2>3
  <2>5. p.mark # i
    BY <2>1, <2>3
  <2>6. /\ p.mark <= (i + 1) - 1 /\ p.mark # (i + 1) - 1
        /\ \A o \in p.mark + 1 .. (i + 1) - 1 : SkippableEnd(s, o) = o
    BY <1>4, <2>1, <2>3, <2>4, <2>5
  <2> QED
    BY <2>1, <2>2, <2>6 DEF Fresh
<1> QED
  BY <1>2, <1>5

\* Right after a construct that leaves no literal to reopen.
LEMMA FreshAfter ==
    ASSUME NEW s \in Seq(Symbols), NEW e \in 2 .. Len(s) + 1,
           Lex(s)[e - 1].mode = "code", Lex(s)[e - 1].mark = e - 1,
           e <= Len(s) /\ s[e] \in Quotes => Lex(s)[e - 1].reopens \notin QuoteModes[s[e]]
    PROVE  Fresh(s, e)
<1>1. \A o \in Lex(s)[e - 1].mark + 1 .. e - 1 : SkippableEnd(s, o) = o
  OBVIOUS
<1> QED
  BY <1>1 DEF Fresh

\* The automaton is Fresh after a construct that ended for good.
LEMMA FreshAfterCode ==
    ASSUME NEW s \in Seq(Symbols), NEW e \in 2 .. Len(s) + 1, Lex(s)[e - 1] = Code(e - 1)
    PROVE  Fresh(s, e)
<1>1. Lex(s)[e - 1].mode = "code" /\ Lex(s)[e - 1].mark = e - 1 /\ Lex(s)[e - 1].reopens = "none"
  BY CodeIs
<1>2. "none" \notin QuoteModes["quote"] /\ "none" \notin QuoteModes["dquote"]
  BY QuotesAre
<1> QED
  BY <1>1, <1>2, QuotesAre, FreshAfter

\* Nothing is left to cover where the cursor may stop.
LEMMA CoveredEnd ==
    ASSUME NEW s \in Seq(Symbols), NEW i \in 1 .. Len(s), NEW e \in 1 .. Len(s) + 1,
           e <= Len(s) => Fresh(s, e) \/ AtEol(s, e)
    PROVE  Covered(s, i, e, e)
BY DEF Covered

\* The line comment the scanner jumps over is the one the automaton sees.
LEMMA LineCovered ==
    ASSUME NEW s \in Seq(Symbols), NEW i \in 1 .. Len(s), Fresh(s, i), OpensLine(s, i)
    PROVE  Covered(s, i, i, LineCommentEnd(s, i))
<1> DEFINE N == Len(s)
           q == Lex(s)
           e == LineCommentEnd(s, i)
<1>0. N \in Nat /\ i \in Nat
  OBVIOUS
<1>1. i + 1 <= N /\ s[i] = "dash" /\ s[i + 1] = "dash"
  BY <1>0 DEF OpensLine, At
<1>2. q[i] = q[i - 1]
  BY <1>1, FreshStays, QuotesAre
<1>3. q[i].mode = "code" /\ q[i].mark <= i - 1 /\ q[i] \in LexState
  BY <1>0, <1>2, LexDef DEF Fresh
<1>4. q[i + 1] = Enter("line", i, i + 1)
  <2>1. q[i + 1] = After(s, q[i], i + 1)
    <3>1. i + 1 \in 1 .. N /\ (i + 1) - 1 = i
      BY <1>0, <1>1
    <3> QED
      BY <3>1, LexDef
  <2>2. (i + 1) - 1 = i /\ i > q[i].mark
    BY <1>0, <1>3 DEF LexState
  <2>3. q[i + 1] = FromCode(s, q[i], i + 1)
    BY <1>3, <2>1 DEF After
  <2> HIDE DEF q
  <2> QED
    BY <1>1, <2>2, <2>3, QuotesAre DEF FromCode
<1>5. e \in i + 2 .. N + 1 /\ (e <= N => s[e] = "eol") /\ \A k \in i .. e - 1 : s[k] # "eol"
  <2>1. e \in i .. N + 1 /\ (e <= N => s[e] = "eol") /\ \A k \in i .. e - 1 : s[k] # "eol"
    BY LineCommentEndBounds
  <2> HIDE DEF e
  <2>2. e # i /\ e # i + 1
    BY <1>0, <1>1, <2>1
  <2> QED
    BY <1>0, <2>1, <2>2
<1> HIDE DEF e
<1>6. \A n \in i + 1 .. e - 1 : q[n] = Enter("line", i, i + 1)
  <2> DEFINE U == {n \in Nat : n + i + 1 <= e - 1 => q[n + i + 1] = Enter("line", i, i + 1)}
  <2>1. 0 \in U
    BY <1>0, <1>4
  <2>2. ASSUME NEW n \in Nat, n \in U PROVE n + 1 \in U
    <3>1. SUFFICES ASSUME n + 1 + i + 1 <= e - 1
                   PROVE  q[n + 1 + i + 1] = Enter("line", i, i + 1)
      OBVIOUS
    <3> DEFINE k == n + 1 + i + 1
    <3>2. k \in 1 .. N /\ k - 1 = n + i + 1 /\ k \in i .. e - 1 /\ k - 1 <= e - 1
      BY <1>0, <1>5, <3>1
    <3>3. q[k] = After(s, q[k - 1], k)
      BY <3>2, LexDef
    <3>4. q[k - 1] = Enter("line", i, i + 1)
      BY <2>2, <3>2
    <3>5. Enter("line", i, i + 1).mode = "line"
      BY <1>0, EnterIs DEF LexModes
    <3>6. s[k] # "eol"
      BY <1>5, <3>2
    <3> HIDE DEF k, q
    <3>7. q[k] = q[k - 1]
      BY <3>3, <3>4, <3>5, <3>6 DEF After
    <3> QED
      BY <3>4, <3>7 DEF k
  <2> HIDE DEF U
  <2>3. Nat \subseteq U
    BY <2>1, <2>2, Induct
  <2>4. ASSUME NEW n \in i + 1 .. e - 1 PROVE q[n] = Enter("line", i, i + 1)
    <3>1. n - (i + 1) \in U /\ (n - (i + 1)) + i + 1 = n /\ n <= e - 1
      BY <1>0, <1>5, <2>3
    <3> QED
      BY <3>1 DEF U
  <2> QED
    BY <2>4
<1>7. Enter("line", i, i + 1).mode = "line" /\ Enter("line", i, i + 1).start = i
  BY <1>0, EnterIs DEF LexModes
<1>8. Covered(s, i, e, e)
  <2>1. e \in 1 .. N + 1 /\ e > 1 /\ e - 1 \in i + 1 .. e - 1
    BY <1>0, <1>5
  <2>2. e <= N => AtEol(s, e)
    BY <1>5, <1>6, <1>7, <2>1 DEF AtEol
  <2> QED
    BY <2>1, <2>2, CoveredEnd
<1>9. Covered(s, i, i + 2, e)
  <2>1. ASSUME NEW m \in i + 2 .. e - 1 PROVE m \in Hidden(s) /\ q[m].start >= i
    <3>1. m \in 1 .. N /\ m - 1 \in i + 1 .. e - 1 /\ m \in i + 1 .. e - 1
      BY <1>0, <1>5
    <3>2. q[m - 1].mode # "code" /\ q[m].start = i
      BY <1>6, <1>7, <3>1
    <3> QED
      BY <1>0, <3>1, <3>2, HiddenIf
  <2>2. i + 2 \in i .. N + 1 /\ e \in i + 2 .. N + 1
    BY <1>0, <1>1, <1>5
  <2> QED
    BY <1>8, <2>1, <2>2, CoveredFrom
<1>10. \A j \in i .. (i + 1) - 1 : q[j].mode = "code"
  BY <1>0, <1>3
<1>11. i + 1 \in i .. N /\ (i + 1) + 1 = i + 2 /\ q[i + 1].mode # "code" /\ q[i + 1].start = i
  BY <1>0, <1>1, <1>4, <1>7
<1> QED
  BY <1>9, <1>10, <1>11, CoveredFromOpening DEF e

\* Nested changes the depth and the mark alone.
LEMMA NestedIs ==
    ASSUME NEW q \in LexState, NEW d \in Int, NEW i \in Nat
    PROVE  /\ Nested(q, d, i).mode = q.mode /\ Nested(q, d, i).start = q.start
           /\ Nested(q, d, i).depth = d /\ Nested(q, d, i).mark = i
BY DEF Nested, LexState

\* The automaton is d comments deep, and k is where the scan looks next.
InBlock(s, i, k, d) ==
    LET p == Lex(s)[k - 1]
    IN  /\ p.mode = "block" /\ p.start = i /\ p.depth = d /\ p.mark <= k - 1
        /\ k <= Len(s) /\ p.mark < k - 1 =>
             <<s[k - 1], s[k]>> \notin {<<"slash", "star">>, <<"star", "slash">>}

\* Inside a block comment the scanner counts the depth the automaton is at.
LEMMA BlockScanCovers ==
    ASSUME NEW s \in Seq(Symbols), NEW i \in 1 .. Len(s), NEW k \in i + 1 .. Len(s) + 1,
           NEW d \in Int, InBlock(s, i, k, d)
    PROVE  Covered(s, i, k, BlockScan(s)[<<k, d>>])
<1> DEFINE N == Len(s)
           q == Lex(s)
           scan == BlockScan(s)
           S == {n \in 1 .. N + 1 : n > i => \A b \in Int :
                   InBlock(s, i, n, b) => Covered(s, i, n, scan[<<n, b>>])}
<1>0. N \in Nat /\ i \in Nat
  OBVIOUS
<1>1. ASSUME NEW n \in 1 .. N + 1, \A m \in n + 1 .. N + 1 : m \in S PROVE n \in S
  <2>0. SUFFICES ASSUME n > i, NEW b \in Int, InBlock(s, i, n, b)
                 PROVE  Covered(s, i, n, scan[<<n, b>>])
    OBVIOUS
  <2>1. n \in Nat /\ n - 1 \in 0 .. N
    BY <1>0
  <2>2. scan[<<n, b>>] = BlockBody(s, scan, n, b)
    BY <2>1, BlockScanDef
  <2> DEFINE p == q[n - 1]
             opens == At(s, n) = "slash" /\ At(s, n + 1) = "star"
             closes == At(s, n) = "star" /\ At(s, n + 1) = "slash"
  <2>3. p \in LexState /\ p.mode = "block" /\ p.start = i /\ p.depth = b /\ p.mark <= n - 1
    BY <2>0, <2>1, LexDef DEF InBlock
  <2>4. p.mark \in Nat
    BY <2>3 DEF LexState
  <2>5. n <= N /\ p.mark < n - 1 =>
          <<s[n - 1], s[n]>> \notin {<<"slash", "star">>, <<"star", "slash">>}
    BY <2>0 DEF InBlock
  <2>6. n <= N => q[n] = After(s, p, n)
    BY <2>1, LexDef
  <2>7. n + 1 <= N => q[n + 1] = After(s, q[n], n + 1)
    <3>1. n + 1 <= N => n + 1 \in 1 .. N /\ (n + 1) - 1 = n
      BY <2>1
    <3> QED
      BY <3>1, LexDef
  <2> HIDE DEF p, scan
  <2>8. ASSUME n <= N PROVE q[n] = p /\ n \in Hidden(s)
    <3>1. q[n] = FromBlock(s, p, n)
      BY <2>3, <2>6, <2>8 DEF After
    <3>2. FromBlock(s, p, n) = p
      BY <2>1, <2>4, <2>5, <2>8 DEF FromBlock
    <3>3. n \in 1 .. N /\ q[n - 1].mode # "code"
      BY <2>1, <2>3, <2>8 DEF p
    <3> QED
      BY <3>1, <3>2, <3>3, HiddenIf
  <2>9. ASSUME n + 1 <= N
        PROVE  q[n + 1] = FromBlock(s, p, n + 1) /\ n + 1 \in Hidden(s)
    <3>1. n <= N /\ n + 1 \in 1 .. N /\ (n + 1) - 1 = n
      BY <2>1, <2>9
    <3>2. q[n] = p
      BY <2>8, <3>1
    <3>3. q[(n + 1) - 1].mode # "code"
      BY <2>3, <3>1, <3>2
    <3>4. n + 1 \in Hidden(s)
      BY <3>1, <3>3, HiddenIf
    <3> QED
      BY <2>3, <2>7, <2>9, <3>2, <3>4 DEF After
  <2>10. (n + 1) - 1 = n /\ n > p.mark
    BY <2>1, <2>3, <2>4
  <2> HIDE DEF q
  <2>11. CASE n > N
    <3>1. At(s, n) = "end" /\ n = N + 1
      BY <2>11 DEF At
    <3>2. scan[<<n, b>>] = n
      BY <2>2, <2>11, <3>1 DEF BlockBody
    <3> QED
      BY <2>11, <3>2, CoveredEnd
  <2>12. CASE n <= N /\ opens
    <3>1. scan[<<n, b>>] = scan[<<n + 2, b + 1>>]
      BY <2>2, <2>12 DEF BlockBody
    <3>2. n + 1 <= N /\ s[n] = "slash" /\ s[n + 1] = "star"
      BY <2>1, <2>12 DEF At
    <3>3. q[n + 1] = Nested(p, b + 1, n + 1)
      BY <2>3, <2>9, <2>10, <3>2 DEF FromBlock
    <3>4. /\ q[n + 1].mode = "block" /\ q[n + 1].start = i
          /\ q[n + 1].depth = b + 1 /\ q[n + 1].mark = n + 1
      <4>1. b + 1 \in Int /\ n + 1 \in Nat
        BY <2>1
      <4> QED
        BY <2>3, <3>3, <4>1, NestedIs
    <3>5. (n + 2) - 1 = n + 1 /\ n + 2 \in n + 1 .. N + 1 /\ n + 2 > i /\ b + 1 \in Int
      BY <2>0, <2>1, <3>2, <1>0
    <3>6. InBlock(s, i, n + 2, b + 1)
      <4>1. ~ (n + 1 < n + 1) /\ n + 1 <= n + 1
        BY <2>1
      <4> QED
        BY <3>4, <3>5, <4>1 DEF InBlock, q
    <3>7. Covered(s, i, n + 2, scan[<<n + 2, b + 1>>])
      BY <1>1, <3>5, <3>6
    <3>8. ASSUME NEW m \in n .. (n + 2) - 1
          PROVE  m \in Hidden(s) /\ (q[m].mode # "code" => q[m].start >= i)
      <4>1. m = n \/ m = n + 1
        BY <2>1
      <4> QED
        BY <1>0, <2>3, <2>8, <2>9, <3>2, <3>4, <4>1, <2>12
    <3>9. n \in i .. N + 1 /\ n + 2 \in n .. N + 1
      BY <1>0, <2>0, <2>1, <3>5
    <3>10. Covered(s, i, n, scan[<<n + 2, b + 1>>])
      BY <3>7, <3>8, <3>9, CoveredFrom DEF q
    <3> QED
      BY <3>1, <3>10
  <2>13. CASE n <= N /\ closes /\ b # 1
    <3>1. scan[<<n, b>>] = scan[<<n + 2, b - 1>>]
      BY <2>2, <2>13 DEF BlockBody
    <3>2. n + 1 <= N /\ s[n] = "star" /\ s[n + 1] = "slash"
      BY <2>1, <2>13 DEF At
    <3>3. q[n + 1] = Nested(p, b - 1, n + 1)
      BY <2>3, <2>9, <2>10, <2>13, <3>2 DEF FromBlock
    <3>4. /\ q[n + 1].mode = "block" /\ q[n + 1].start = i
          /\ q[n + 1].depth = b - 1 /\ q[n + 1].mark = n + 1
      <4>1. b - 1 \in Int /\ n + 1 \in Nat
        BY <2>1
      <4> QED
        BY <2>3, <3>3, <4>1, NestedIs
    <3>5. (n + 2) - 1 = n + 1 /\ n + 2 \in n + 1 .. N + 1 /\ n + 2 > i /\ b - 1 \in Int
      BY <2>0, <2>1, <3>2, <1>0
    <3>6. InBlock(s, i, n + 2, b - 1)
      <4>1. ~ (n + 1 < n + 1) /\ n + 1 <= n + 1
        BY <2>1
      <4> QED
        BY <3>4, <3>5, <4>1 DEF InBlock, q
    <3>7. Covered(s, i, n + 2, scan[<<n + 2, b - 1>>])
      BY <1>1, <3>5, <3>6
    <3>8. ASSUME NEW m \in n .. (n + 2) - 1
          PROVE  m \in Hidden(s) /\ (q[m].mode # "code" => q[m].start >= i)
      <4>1. m = n \/ m = n + 1
        BY <2>1
      <4> QED
        BY <1>0, <2>3, <2>8, <2>9, <3>2, <3>4, <4>1, <2>13
    <3>9. n \in i .. N + 1 /\ n + 2 \in n .. N + 1
      BY <1>0, <2>0, <2>1, <3>5
    <3>10. Covered(s, i, n, scan[<<n + 2, b - 1>>])
      BY <3>7, <3>8, <3>9, CoveredFrom DEF q
    <3> QED
      BY <3>1, <3>10
  <2>14. CASE n <= N /\ closes /\ b = 1
    <3>1. scan[<<n, b>>] = n + 2
      BY <2>2, <2>14 DEF BlockBody
    <3>2. n + 1 <= N /\ s[n] = "star" /\ s[n + 1] = "slash"
      BY <2>1, <2>14 DEF At
    <3>3. q[n + 1] = Code(n + 1)
      BY <2>3, <2>9, <2>10, <2>14, <3>2 DEF FromBlock
    <3>4. q[n + 1].mode = "code"
      BY <2>1, <3>3, CodeIs
    <3>5. (n + 2) - 1 = n + 1 /\ n + 2 \in n + 1 .. N + 1 /\ n + 2 \in 2 .. N + 1 /\ n + 2 > i
      BY <2>0, <2>1, <3>2, <1>0
    <3>6. Fresh(s, n + 2)
      BY <3>3, <3>5, FreshAfterCode DEF q
    <3>7. Covered(s, i, n + 2, n + 2)
      BY <3>5, <3>6, CoveredEnd
    <3>8. ASSUME NEW m \in n .. (n + 2) - 1
          PROVE  m \in Hidden(s) /\ (q[m].mode # "code" => q[m].start >= i)
      <4>1. m = n \/ m = n + 1
        BY <2>1
      <4> QED
        BY <1>0, <2>3, <2>8, <2>9, <3>2, <3>4, <4>1, <2>14
    <3>9. n \in i .. N + 1 /\ n + 2 \in n .. N + 1
      BY <1>0, <2>0, <2>1, <3>5
    <3>10. Covered(s, i, n, n + 2)
      BY <3>7, <3>8, <3>9, CoveredFrom DEF q
    <3> QED
      BY <3>1, <3>10
  <2>15. CASE n <= N /\ ~ opens /\ ~ closes
    <3>1. scan[<<n, b>>] = scan[<<n + 1, b>>]
      BY <2>2, <2>15 DEF BlockBody
    <3>2. n + 1 \in n + 1 .. N + 1 /\ n + 1 > i
      BY <2>0, <2>1, <2>15
    <3>3. q[(n + 1) - 1] = p /\ p.mark <= (n + 1) - 1
      BY <2>1, <2>3, <2>4, <2>8, <2>10, <2>15
    <3>4. n + 1 <= N => At(s, n) = s[n] /\ At(s, n + 1) = s[n + 1]
      BY <2>1 DEF At
    <3>5. n + 1 <= N =>
            <<s[(n + 1) - 1], s[n + 1]>> \notin {<<"slash", "star">>, <<"star", "slash">>}
      BY <2>10, <2>15, <3>4
    <3>6. InBlock(s, i, n + 1, b)
      BY <2>3, <3>3, <3>5 DEF InBlock, q
    <3>7. Covered(s, i, n + 1, scan[<<n + 1, b>>])
      BY <1>1, <3>2, <3>6
    <3>8. ASSUME NEW m \in n .. (n + 1) - 1
          PROVE  m \in Hidden(s) /\ (q[m].mode # "code" => q[m].start >= i)
      <4>1. m = n
        BY <2>1
      <4> QED
        BY <1>0, <2>3, <2>8, <4>1, <2>15
    <3> QED
      BY SMTT(30), <1>0, <2>0, <2>1, <3>1, <3>2, <3>7, <3>8, CoveredFrom DEF q
  <2> QED
    BY <2>1, <2>11, <2>12, <2>13, <2>14, <2>15
<1> HIDE DEF S, scan, N
<1>3. 1 .. N + 1 \subseteq S
  BY <1>0, <1>1, InductDown
<1> QED
  BY <1>0, <1>3 DEF S, N, scan

\* The block comment the scanner jumps over is the one the automaton sees.
LEMMA BlockCovered ==
    ASSUME NEW s \in Seq(Symbols), NEW i \in 1 .. Len(s), Fresh(s, i), OpensBlock(s, i)
    PROVE  Covered(s, i, i, BlockCommentEnd(s, i))
<1> DEFINE N == Len(s)
           q == Lex(s)
<1>0. N \in Nat /\ i \in Nat
  OBVIOUS
<1>1. i + 1 <= N /\ s[i] = "slash" /\ s[i + 1] = "star"
  BY <1>0 DEF OpensBlock, At
<1>2. q[i] = q[i - 1]
  BY <1>1, FreshStays, QuotesAre
<1>3. q[i].mode = "code" /\ q[i].mark <= i - 1 /\ q[i] \in LexState
  BY <1>0, <1>2, LexDef DEF Fresh
<1>4. q[i + 1] = Enter("block", i, i + 1)
  <2>1. q[i + 1] = After(s, q[i], i + 1)
    <3>1. i + 1 \in 1 .. N /\ (i + 1) - 1 = i
      BY <1>0, <1>1
    <3> QED
      BY <3>1, LexDef
  <2>2. (i + 1) - 1 = i /\ i > q[i].mark
    BY <1>0, <1>3 DEF LexState
  <2>3. q[i + 1] = FromCode(s, q[i], i + 1)
    BY <1>3, <2>1 DEF After
  <2> HIDE DEF q
  <2> QED
    BY <1>1, <2>2, <2>3, QuotesAre DEF FromCode
<1>5. /\ q[i + 1].mode = "block" /\ q[i + 1].start = i /\ q[i + 1].depth = 1
      /\ q[i + 1].mark = i + 1
  BY <1>0, <1>4, EnterIs DEF LexModes
<1>6. BlockCommentEnd(s, i) = BlockScan(s)[<<i + 2, 1>>]
  <2>1. BlockScan(s)[<<i, 0>>] = BlockBody(s, BlockScan(s), i, 0)
    BY <1>0, BlockScanDef
  <2>2. ~ (i > Len(s)) /\ At(s, i) = "slash" /\ At(s, i + 1) = "star" /\ 0 + 1 = 1
    BY <1>0, <1>1 DEF At
  <2> QED
    BY <2>1, <2>2 DEF BlockBody, BlockCommentEnd
<1>7. i + 2 \in i + 1 .. N + 1 /\ (i + 2) - 1 = i + 1 /\ 1 \in Int
  BY <1>0, <1>1
<1>8. InBlock(s, i, i + 2, 1)
  <2>1. ~ (i + 1 < i + 1) /\ i + 1 <= i + 1
    BY <1>0
  <2> QED
    BY <1>5, <1>7, <2>1 DEF InBlock
<1>9. Covered(s, i, i + 2, BlockCommentEnd(s, i))
  BY <1>6, <1>7, <1>8, BlockScanCovers
<1>10. \A j \in i .. (i + 1) - 1 : q[j].mode = "code"
  BY <1>0, <1>3
<1>11. i + 1 \in i .. N /\ (i + 1) + 1 = i + 2 /\ q[i + 1].mode # "code"
  BY <1>0, <1>1, <1>5
<1> QED
  BY <1>5, <1>9, <1>10, <1>11, CoveredFromOpening

\* A quote has just closed a literal, and reopens it if doubled.
LEMMA ClosedIs ==
    ASSUME NEW s \in Seq(Symbols), NEW k \in 1 .. Len(s), NEW c \in Quotes,
           NEW mode \in QuoteModes[c],
           Lex(s)[k] = [Code(k) EXCEPT !.reopens = mode]
    PROVE  /\ Lex(s)[k].mode = "code" /\ Lex(s)[k].mark = k /\ Lex(s)[k].reopens = mode
           /\ k + 1 <= Len(s) /\ s[k + 1] = c => Lex(s)[k + 1] = Enter(mode, k + 1, k + 1)
           /\ At(s, k + 1) # c => Fresh(s, k + 1)
<1> DEFINE q == Lex(s)
<1>0. k \in Nat /\ (k + 1) - 1 = k /\ Len(s) \in Nat
  OBVIOUS
<1>1. q[k].mode = "code" /\ q[k].mark = k /\ q[k].reopens = mode
  BY <1>0, CodeIs DEF LexState
<1>2. ASSUME k + 1 <= Len(s), s[k + 1] = c PROVE q[k + 1] = Enter(mode, k + 1, k + 1)
  <2>1. k + 1 \in 1 .. Len(s)
    BY <1>0, <1>2
  <2>2. q[k + 1] = After(s, q[(k + 1) - 1], k + 1)
    BY <2>1, LexDef
  <2>3. q[k + 1] = FromCode(s, q[k], k + 1)
    BY <1>0, <1>1, <2>2 DEF After
  <2> HIDE DEF q
  <2>4. ~ (k > q[k].mark)
    BY <1>0, <1>1
  <2> QED
    BY <1>0, <1>1, <1>2, <2>3, <2>4, QuotesAre DEF FromCode
<1>3. ASSUME At(s, k + 1) # c PROVE Fresh(s, k + 1)
  <2>1. k + 1 \in 2 .. Len(s) + 1
    BY <1>0
  <2>2. k + 1 <= Len(s) => s[k + 1] # c
    BY <1>0, <1>3 DEF At
  <2>3. k + 1 <= Len(s) /\ s[k + 1] \in Quotes => mode \notin QuoteModes[s[k + 1]]
    BY <2>2, QuotesAre
  <2> QED
    BY <1>0, <1>1, <2>1, <2>3, FreshAfter
<1> QED
  BY <1>1, <1>2, <1>3

\* The literals with no escapes, by the quote that closes them.
PlainMode(c) == IF c = "quote" THEN "single" ELSE "ident"

\* Inside a quoted literal the scanner and the automaton meet the same closing
\* quote; what a doubled quote closes for the automaton it reopens.
LEMMA QuotedScanCovers ==
    ASSUME NEW s \in Seq(Symbols), NEW i \in 1 .. Len(s), NEW k \in i + 1 .. Len(s) + 1,
           NEW c \in Quotes, Lex(s)[k - 1].mode = PlainMode(c), Lex(s)[k - 1].start >= i
    PROVE  Covered(s, i, k, QuotedScan(s, c)[k])
<1> DEFINE N == Len(s)
           q == Lex(s)
           scan == QuotedScan(s, c)
           mode == PlainMode(c)
           S == {n \in 1 .. N + 1 :
                   n > i /\ q[n - 1].mode = mode /\ q[n - 1].start >= i
                     => Covered(s, i, n, scan[n])}
<1>0. N \in Nat /\ i \in Nat
  OBVIOUS
<1>a. /\ c \in {"quote", "dquote"} /\ mode \in {"single", "ident"}
      /\ \A b \in Quotes : mode \in QuoteModes[b] <=> b = c
  BY QuotesAre DEF PlainMode
<1> HIDE DEF mode
<1>1. ASSUME NEW n \in 1 .. N + 1, \A m \in n + 1 .. N + 1 : m \in S PROVE n \in S
  <2>0. SUFFICES ASSUME n > i, q[n - 1].mode = mode, q[n - 1].start >= i
                 PROVE  Covered(s, i, n, scan[n])
    OBVIOUS
  <2>1. n \in Nat /\ n - 1 \in 0 .. N
    BY <1>0
  <2>2. scan[n] = QuotedBody(s, c, scan, n)
    BY <2>1, QuotedScanDef
  <2> DEFINE p == q[n - 1]
  <2>3. p \in LexState /\ p.mode = mode /\ p.start >= i
    BY <2>0, <2>1, LexDef
  <2>4. n <= N => q[n] = After(s, p, n)
    BY <2>1, LexDef
  <2>5. n <= N => n \in Hidden(s)
    <3>1. n <= N => n \in 1 .. N /\ q[n - 1].mode # "code"
      BY <1>a, <2>0, <2>1
    <3> QED
      BY <3>1, HiddenIf
  <2> HIDE DEF p, scan
  <2>6. n <= N => q[n] = FromLiteral(p, s[n], n)
    BY <1>a, <2>3, <2>4 DEF After
  <2>7. n <= N => At(s, n) = s[n]
    BY <2>1 DEF At
  <2>8. (n + 1) - 1 = n /\ (n + 2) - 1 = n + 1
    BY <2>1
  <2>9. n \in i .. N + 1
    BY <1>0, <2>0
  <2>10. CASE n > N
    <3>1. scan[n] = n
      BY <2>1, <2>2, <2>10 DEF QuotedBody
    <3> QED
      BY <2>10, <3>1, CoveredEnd
  <2>11. CASE n <= N /\ s[n] # c
    <3>1. scan[n] = scan[n + 1]
      BY <2>2, <2>7, <2>11 DEF QuotedBody
    <3>2. q[n] = p
      <4>1. ~ (s[n] \in Quotes /\ p.mode \in QuoteModes[s[n]])
        BY <1>a, <2>3, <2>11
      <4>2. p.mode # "escape"
        BY <1>a, <2>3
      <4> QED
        BY <2>6, <2>11, <4>1, <4>2 DEF FromLiteral
    <3>3. n + 1 \in n + 1 .. N + 1 /\ n + 1 > i
      BY <2>0, <2>1, <2>11
    <3>4. Covered(s, i, n + 1, scan[n + 1])
      BY <1>1, <2>3, <2>8, <3>2, <3>3
    <3>5. ASSUME NEW m \in n .. (n + 1) - 1
          PROVE  m \in Hidden(s) /\ (q[m].mode # "code" => q[m].start >= i)
      <4>1. m = n
        BY <2>1
      <4> QED
        BY <2>3, <2>5, <2>11, <3>2, <4>1
    <3>6. n + 1 \in n .. N + 1
      BY <2>1, <2>11
    <3>7. Covered(s, i, n, scan[n + 1])
      BY <2>9, <3>4, <3>5, <3>6, CoveredFrom
    <3> QED
      BY <3>1, <3>7
  <2>12. ASSUME n <= N, s[n] = c
         PROVE  /\ q[n] = [Code(n) EXCEPT !.reopens = mode]
                /\ n \in 1 .. N /\ c \in Quotes /\ mode \in QuoteModes[c]
                /\ q[n].mode = "code"
    <3>1. s[n] \in Quotes /\ p.mode \in QuoteModes[s[n]] /\ p.mode # "escape"
      BY <1>a, <2>3, <2>12
    <3>2. q[n] = [Code(n) EXCEPT !.reopens = mode]
      BY <2>3, <2>6, <2>12, <3>1 DEF FromLiteral
    <3>3. mode \in QuoteModes[c]
      BY <1>a
    <3>4. n \in 1 .. N
      BY <2>1, <2>12
    <3>5. q[n].mode = "code"
      BY ZenonT(30), <3>2, <3>3, <3>4, ClosedIs
    <3> QED
      BY <3>2, <3>3, <3>4, <3>5
  <2>13. CASE n <= N /\ s[n] = c /\ At(s, n + 1) = c
    <3>1. scan[n] = scan[n + 2]
      BY <2>2, <2>7, <2>13 DEF QuotedBody
    <3>2. n + 1 <= N /\ s[n + 1] = c
      BY <1>a, <2>1, <2>13 DEF At
    <3>3. q[n + 1] = Enter(mode, n + 1, n + 1)
      BY <2>12, <2>13, <3>2, ClosedIs
    <3>4. q[n + 1].mode = mode /\ q[n + 1].start = n + 1
      <4> HIDE DEF q, N
      <4>1. n + 1 \in Nat /\ mode \in LexModes
        BY <1>a, <2>1 DEF LexModes
      <4>2. /\ Enter(mode, n + 1, n + 1).mode = mode
            /\ Enter(mode, n + 1, n + 1).start = n + 1
        BY <4>1, EnterIs
      <4> QED
        BY <3>3, <4>2
    <3>5. n + 2 \in n + 1 .. N + 1 /\ n + 2 > i /\ n + 1 >= i
      BY <1>0, <2>0, <2>1, <3>2
    <3>6. Covered(s, i, n + 2, scan[n + 2])
      BY <1>1, <2>8, <3>4, <3>5
    <3>7. n + 1 \in Hidden(s)
      <4>1. n + 1 \in 1 .. N /\ n + 1 \in n + 1 .. N /\ q[n + 1].mode # "code"
            /\ q[n + 1].start <= n + 1
        BY <1>a, <2>1, <3>2, <3>4
      <4> QED
        BY <4>1, HiddenIf
    <3>8. ASSUME NEW m \in n .. (n + 2) - 1
          PROVE  m \in Hidden(s) /\ (q[m].mode # "code" => q[m].start >= i)
      <4>1. m = n \/ m = n + 1
        BY <2>1
      <4> QED
        BY <2>5, <2>12, <2>13, <3>4, <3>5, <3>7, <4>1
    <3>9. n + 2 \in n .. N + 1
      BY <2>1, <3>2
    <3>10. Covered(s, i, n, scan[n + 2])
      BY <2>9, <3>6, <3>8, <3>9, CoveredFrom
    <3> QED
      BY <3>1, <3>10
  <2>14. CASE n <= N /\ s[n] = c /\ At(s, n + 1) # c
    <3>1. scan[n] = n + 1
      BY <2>2, <2>7, <2>14 DEF QuotedBody
    <3>2. Fresh(s, n + 1)
      BY <2>12, <2>14, ClosedIs
    <3>3. n + 1 \in n .. N + 1 /\ n + 1 \in 1 .. N + 1
      BY <2>1, <2>14
    <3>4. Covered(s, i, n + 1, n + 1)
      BY <3>2, <3>3, CoveredEnd
    <3>5. ASSUME NEW m \in n .. (n + 1) - 1
          PROVE  m \in Hidden(s) /\ (q[m].mode # "code" => q[m].start >= i)
      <4>1. m = n
        BY <2>1
      <4> QED
        BY <2>5, <2>12, <2>14, <4>1
    <3>6. Covered(s, i, n, n + 1)
      BY <2>9, <3>3, <3>4, <3>5, CoveredFrom
    <3> QED
      BY <3>1, <3>6
  <2> QED
    BY <2>1, <2>10, <2>11, <2>13, <2>14
<1> HIDE DEF S, scan, N, q
<1>2. 1 .. N + 1 \subseteq S
  BY <1>0, <1>1, InductDown
<1> QED
  BY <1>0, <1>2 DEF S, N, scan, q, mode

\* The quoted literal the scanner jumps over is the one the automaton sees.
LEMMA QuotedCovered ==
    ASSUME NEW s \in Seq(Symbols), NEW i \in 1 .. Len(s), Fresh(s, i), s[i] \in Quotes
    PROVE  Covered(s, i, i, QuotedScan(s, s[i])[i + 1])
<1> DEFINE N == Len(s)
           q == Lex(s)
           p == q[i - 1]
           mode == PlainMode(s[i])
           pair == IF i - 1 > p.mark THEN <<s[i - 1], s[i]>> ELSE <<"none", s[i]>>
<1>0. N \in Nat /\ i \in Nat /\ i \in 1 .. N
  OBVIOUS
<1>1. p \in LexState /\ p.mode = "code" /\ p.mark <= i - 1 /\ p.mark \in Nat
  BY <1>0, LexDef DEF Fresh, LexState
<1>2. q[i] = FromCode(s, p, i)
  BY <1>0, <1>1, LexDef DEF After
<1>3. ~ (i - 1 = p.mark /\ p.reopens \in QuoteModes[s[i]])
  BY <1>0 DEF Fresh
<1>4. ASSUME i - 1 > p.mark, s[i - 1] = "e", s[i] = "quote", StartsToken(s, i - 1) PROVE FALSE
  <2>1. i - 1 \in p.mark + 1 .. i - 1 /\ i - 1 \in 1 .. N /\ (i - 1) + 1 = i
    BY <1>0, <1>1, <1>4
  <2>2. SkippableEnd(s, i - 1) = i - 1
    BY <2>1 DEF Fresh
  <2>3. At(s, (i - 1) + 1) = "quote" /\ AtTokenStart(s, i - 1)
    BY <1>0, <1>4, <2>1 DEF At, AtTokenStart, StartsToken, IsWordByte
  <2>4. OpensEscape(s, i - 1)
    BY <1>4, <2>3 DEF OpensEscape
  <2> QED
    BY <2>1, <2>2, <2>4, SkippableEndBounds
<1>5. q[i] = Enter(mode, i, i)
  <2> HIDE DEF p
  <2>1. ~ (pair = <<"e", "quote">> /\ StartsToken(s, i - 1))
    BY <1>4
  <2>2. pair # <<"dash", "dash">> /\ pair # <<"slash", "star">>
    BY QuotesAre
  <2> QED
    BY <1>2, <1>3, <2>1, <2>2, QuotesAre DEF FromCode, PlainMode
<1>6. mode \in {"single", "ident"}
  BY DEF PlainMode
<1>7. q[i].mode = mode /\ q[i].start = i
  BY <1>0, <1>5, <1>6, EnterIs DEF LexModes
<1>8. i + 1 \in i + 1 .. N + 1 /\ (i + 1) - 1 = i
  BY <1>0
<1>9. Covered(s, i, i + 1, QuotedScan(s, s[i])[i + 1])
  BY <1>0, <1>7, <1>8, QuotedScanCovers
<1>10. i \in i .. N /\ q[i].mode # "code" /\ \A j \in i .. i - 1 : q[j].mode = "code"
  BY <1>0, <1>6, <1>7
<1> QED
  BY <1>7, <1>9, <1>10, CoveredFromOpening

\* Inside an escape string the scanner jumps over what the automaton has marked
\* as escaped.
LEMMA EscapeScanCovers ==
    ASSUME NEW s \in Seq(Symbols), NEW i \in 1 .. Len(s), NEW k \in i + 1 .. Len(s) + 1,
           Lex(s)[k - 1].mode = "escape", Lex(s)[k - 1].start >= i, Lex(s)[k - 1].mark < k
    PROVE  Covered(s, i, k, EscapeScan(s)[k])
<1> DEFINE N == Len(s)
           q == Lex(s)
           scan == EscapeScan(s)
           S == {n \in 1 .. N + 1 :
                   n > i /\ q[n - 1].mode = "escape" /\ q[n - 1].start >= i /\ q[n - 1].mark < n
                     => Covered(s, i, n, scan[n])}
<1>0. N \in Nat /\ i \in Nat
  OBVIOUS
<1>a. "quote" \in Quotes /\ \A b \in Quotes : "escape" \in QuoteModes[b] <=> b = "quote"
  BY QuotesAre
<1>1. ASSUME NEW n \in 1 .. N + 1, \A m \in n + 1 .. N + 1 : m \in S PROVE n \in S
  <2>0. SUFFICES ASSUME n > i, q[n - 1].mode = "escape", q[n - 1].start >= i, q[n - 1].mark < n
                 PROVE  Covered(s, i, n, scan[n])
    OBVIOUS
  <2>1. n \in Nat /\ n - 1 \in 0 .. N
    BY <1>0
  <2>2. scan[n] = EscapeBody(s, scan, n) /\ scan[n + 2] = EscapeBody(s, scan, n + 2)
    BY <2>1, EscapeScanDef
  <2> DEFINE p == q[n - 1]
  <2>3. p \in LexState /\ p.mode = "escape" /\ p.start >= i /\ p.mark < n /\ p.mark \in Nat
    BY <2>0, <2>1, LexDef DEF LexState
  <2>4. n <= N => q[n] = After(s, p, n)
    BY <2>1, LexDef
  <2>5. n <= N => n \in Hidden(s)
    <3>1. n <= N => n \in 1 .. N /\ q[n - 1].mode # "code"
      BY <1>a, <2>0, <2>1
    <3> QED
      BY <3>1, HiddenIf
  <2> HIDE DEF p, scan
  <2>6. n <= N => q[n] = FromLiteral(p, s[n], n)
    BY <1>a, <2>3, <2>4 DEF After
  <2>7. n <= N => At(s, n) = s[n]
    BY <2>1 DEF At
  <2>8. (n + 1) - 1 = n /\ (n + 2) - 1 = n + 1
    BY <2>1
  <2>9. n \in i .. N + 1
    BY <1>0, <2>0
  <2>10. CASE n > N
    <3>1. scan[n] = n
      <4>1. At(s, n) = "end"
        BY <2>10 DEF At
      <4> QED
        BY <2>1, <2>2, <2>10, <4>1 DEF EscapeBody
    <3> QED
      BY <2>10, <3>1, CoveredEnd
  <2>11. CASE n <= N /\ s[n] \notin {"quote", "backslash"}
    <3>1. scan[n] = scan[n + 1]
      BY <2>2, <2>7, <2>11 DEF EscapeBody
    <3>2. q[n] = p
      <4>1. ~ (s[n] \in Quotes /\ p.mode \in QuoteModes[s[n]])
        BY <1>a, <2>3, <2>11
      <4> QED
        BY <2>6, <2>11, <4>1 DEF FromLiteral
    <3>3. n + 1 \in n + 1 .. N + 1 /\ n + 1 > i
      BY <2>0, <2>1, <2>11
    <3>4. Covered(s, i, n + 1, scan[n + 1])
      <4>1. p.mark < n + 1
        BY <2>1, <2>3
      <4> QED
        BY <1>1, <2>3, <2>8, <3>2, <3>3, <4>1
    <3>5. ASSUME NEW m \in n .. (n + 1) - 1
          PROVE  m \in Hidden(s) /\ (q[m].mode # "code" => q[m].start >= i)
      <4>1. m = n
        BY <2>1
      <4> QED
        BY <2>3, <2>5, <2>11, <3>2, <4>1
    <3>6. n + 1 \in n .. N + 1
      BY <2>1, <2>11
    <3>7. Covered(s, i, n, scan[n + 1])
      BY <2>9, <3>4, <3>5, <3>6, CoveredFrom
    <3> QED
      BY <3>1, <3>7
  <2>12. ASSUME n <= N, s[n] = "quote"
         PROVE  /\ q[n] = [Code(n) EXCEPT !.reopens = "escape"]
                /\ n \in 1 .. N /\ "quote" \in Quotes /\ "escape" \in QuoteModes["quote"]
                /\ q[n].mode = "code"
    <3>1. s[n] \in Quotes /\ p.mode \in QuoteModes[s[n]] /\ p.mark # n
      BY <1>a, <2>3, <2>12
    <3>2. q[n] = [Code(n) EXCEPT !.reopens = "escape"]
      BY <2>3, <2>6, <2>12, <3>1 DEF FromLiteral
    <3>3. "escape" \in QuoteModes["quote"]
      BY <1>a
    <3>4. n \in 1 .. N
      BY <2>1, <2>12
    <3>5. q[n].mode = "code"
      BY <3>2, <3>4, CodeIs DEF LexState
    <3> QED
      BY <1>a, <3>2, <3>3, <3>4, <3>5
  <2>13. CASE n <= N /\ s[n] = "quote" /\ At(s, n + 1) = "quote"
    <3>1. scan[n] = scan[n + 2]
      BY <2>2, <2>7, <2>13 DEF EscapeBody
    <3>2. n + 1 <= N /\ s[n + 1] = "quote"
      BY <1>a, <2>1, <2>13 DEF At
    <3>3. q[n + 1] = Enter("escape", n + 1, n + 1)
      BY <2>12, <2>13, <3>2, ClosedIs
    <3>4. q[n + 1].mode = "escape" /\ q[n + 1].start = n + 1 /\ q[n + 1].mark = n + 1
      <4>1. n + 1 \in Nat /\ "escape" \in LexModes
        BY <1>a, <2>1 DEF LexModes
      <4> QED
        BY <3>3, <4>1, EnterIs
    <3>5. n + 2 \in n + 1 .. N + 1 /\ n + 2 > i /\ n + 1 >= i
      BY <1>0, <2>0, <2>1, <3>2
    <3>6. Covered(s, i, n + 2, scan[n + 2])
      <4>1. n + 1 < n + 2
        BY <2>1
      <4> QED
        BY <1>1, <2>8, <3>4, <3>5, <4>1
    <3>7. n + 1 \in Hidden(s)
      <4>1. n + 1 \in 1 .. N /\ n + 1 \in n + 1 .. N /\ q[n + 1].mode # "code"
            /\ q[n + 1].start <= n + 1
        BY <1>a, <2>1, <3>2, <3>4
      <4> QED
        BY <4>1, HiddenIf
    <3>8. ASSUME NEW m \in n .. (n + 2) - 1
          PROVE  m \in Hidden(s) /\ (q[m].mode # "code" => q[m].start >= i)
      <4>1. m = n \/ m = n + 1
        BY <2>1
      <4> QED
        BY <2>5, <2>12, <2>13, <3>4, <3>5, <3>7, <4>1
    <3>9. n + 2 \in n .. N + 1
      BY <2>1, <3>2
    <3>10. Covered(s, i, n, scan[n + 2])
      BY <2>9, <3>6, <3>8, <3>9, CoveredFrom
    <3> QED
      BY <3>1, <3>10
  <2>14. CASE n <= N /\ s[n] = "quote" /\ At(s, n + 1) # "quote"
    <3>1. scan[n] = n + 1
      BY <2>2, <2>7, <2>14 DEF EscapeBody
    <3>2. Fresh(s, n + 1)
      BY <2>12, <2>14, ClosedIs
    <3>3. n + 1 \in n .. N + 1 /\ n + 1 \in 1 .. N + 1
      BY <2>1, <2>14
    <3>4. Covered(s, i, n + 1, n + 1)
      BY <3>2, <3>3, CoveredEnd
    <3>5. ASSUME NEW m \in n .. (n + 1) - 1
          PROVE  m \in Hidden(s) /\ (q[m].mode # "code" => q[m].start >= i)
      <4>1. m = n
        BY <2>1
      <4> QED
        BY <2>5, <2>12, <2>14, <4>1
    <3>6. Covered(s, i, n, n + 1)
      BY <2>9, <3>3, <3>4, <3>5, CoveredFrom
    <3> QED
      BY <3>1, <3>6
  <2>15. CASE n <= N /\ s[n] = "backslash"
    <3>1. scan[n] = scan[n + 2]
      BY <2>2, <2>7, <2>15 DEF EscapeBody
    <3>2. q[n] = [p EXCEPT !.mark = n + 1]
      <4>1. s[n] \notin Quotes /\ p.mark # n
        BY <2>1, <2>3, <2>15, QuotesAre
      <4> QED
        BY <2>3, <2>6, <2>15, <4>1 DEF FromLiteral
    <3>3. q[n].mode = "escape" /\ q[n].start >= i /\ q[n].mark = n + 1
      BY <2>3, <3>2 DEF LexState
    <3>4. CASE n = N
      <4>1. scan[n + 2] = n + 1
        <5>1. At(s, n + 2) = "end" /\ n + 2 > N
          BY <2>1, <3>4 DEF At
        <5> QED
          BY <2>2, <3>4, <5>1 DEF EscapeBody
      <4>2. n + 1 \in n .. N + 1 /\ n + 1 \in 1 .. N + 1 /\ ~ (n + 1 <= N)
        BY <2>1, <3>4
      <4>3. Covered(s, i, n + 1, n + 1)
        BY <4>2, CoveredEnd
      <4>4. ASSUME NEW m \in n .. (n + 1) - 1
            PROVE  m \in Hidden(s) /\ (q[m].mode # "code" => q[m].start >= i)
        <5>1. m = n
          BY <2>1
        <5> QED
          BY <2>5, <2>15, <3>3, <5>1
      <4>5. Covered(s, i, n, n + 1)
        BY <2>9, <4>2, <4>3, <4>4, CoveredFrom
      <4> QED
        BY <3>1, <4>1, <4>5
    <3>5. CASE n + 1 <= N
      <4>1. n + 1 \in 1 .. N
        BY <2>1, <3>5
      <4>2. q[n + 1] = After(s, q[(n + 1) - 1], n + 1)
        BY <4>1, LexDef
      <4>3. q[n + 1] = FromLiteral(q[n], s[n + 1], n + 1)
        BY <2>8, <3>3, <4>2 DEF After
      <4>4. q[n + 1] = q[n]
        BY <3>3, <4>3 DEF FromLiteral
      <4>5. n + 2 \in n + 1 .. N + 1 /\ n + 2 > i /\ n + 1 < n + 2
        BY <1>0, <2>0, <2>1, <3>5
      <4>6. Covered(s, i, n + 2, scan[n + 2])
        BY <1>1, <2>8, <3>3, <4>4, <4>5
      <4>7. n + 1 \in Hidden(s)
        BY <2>8, <3>3, <4>1, HiddenIf
      <4>8. ASSUME NEW m \in n .. (n + 2) - 1
            PROVE  m \in Hidden(s) /\ (q[m].mode # "code" => q[m].start >= i)
        <5>1. m = n \/ m = n + 1
          BY <2>1
        <5> QED
          BY <2>5, <2>15, <3>3, <4>4, <4>7, <5>1
      <4>9. n + 2 \in n .. N + 1
        BY <2>1, <3>5
      <4>10. Covered(s, i, n, scan[n + 2])
        BY <2>9, <4>6, <4>8, <4>9, CoveredFrom
      <4> QED
        BY <3>1, <4>10
    <3> QED
      BY <2>1, <2>15, <3>4, <3>5
  <2> QED
    BY <2>1, <2>10, <2>11, <2>13, <2>14, <2>15
<1> HIDE DEF S, scan, N, q
<1>2. 1 .. N + 1 \subseteq S
  BY <1>0, <1>1, InductDown
<1> QED
  BY <1>0, <1>2 DEF S, N, scan, q


\* The escape string the scanner jumps over is the one the automaton sees.
LEMMA EscapeCovered ==
    ASSUME NEW s \in Seq(Symbols), NEW i \in 1 .. Len(s), Fresh(s, i), OpensEscape(s, i)
    PROVE  Covered(s, i, i, EscapeStringEnd(s, i + 1))
<1> DEFINE N == Len(s)
           q == Lex(s)
<1>0. N \in Nat /\ i \in Nat
  OBVIOUS
<1>1. i + 1 <= N /\ s[i] = "e" /\ s[i + 1] = "quote" /\ StartsToken(s, i)
  BY <1>0 DEF OpensEscape, At, AtTokenStart, StartsToken, IsWordByte
<1>2. q[i] = q[i - 1]
  BY <1>1, FreshStays, QuotesAre
<1>3. q[i].mode = "code" /\ q[i].mark <= i - 1 /\ q[i] \in LexState
  BY <1>0, <1>2, LexDef DEF Fresh
<1>4. q[i + 1] = Enter("escape", i, i + 1)
  <2>1. q[i + 1] = After(s, q[i], i + 1)
    <3>1. i + 1 \in 1 .. N /\ (i + 1) - 1 = i
      BY <1>0, <1>1
    <3> QED
      BY <3>1, LexDef
  <2>2. (i + 1) - 1 = i /\ i > q[i].mark /\ i # q[i].mark
    BY <1>0, <1>3 DEF LexState
  <2>3. q[i + 1] = FromCode(s, q[i], i + 1)
    BY <1>3, <2>1 DEF After
  <2> HIDE DEF q
  <2> QED
    BY <1>1, <2>2, <2>3, QuotesAre DEF FromCode
<1>5. q[i + 1].mode = "escape" /\ q[i + 1].start = i /\ q[i + 1].mark = i + 1
  BY <1>0, <1>4, EnterIs DEF LexModes
<1>6. /\ (i + 1) + 1 \in i + 1 .. N + 1 /\ ((i + 1) + 1) - 1 = i + 1
      /\ i + 1 < (i + 1) + 1 /\ i >= i
  BY <1>0, <1>1
<1>7. Covered(s, i, (i + 1) + 1, EscapeStringEnd(s, i + 1))
  BY <1>5, <1>6, EscapeScanCovers DEF EscapeStringEnd
<1>8. \A j \in i .. (i + 1) - 1 : q[j].mode = "code"
  BY <1>0, <1>3
<1>9. i + 1 \in i .. N
  BY <1>0, <1>1
<1> QED
  BY <1>5, <1>7, <1>8, <1>9, CoveredFromOpening

\* The tag the scanner reads ahead is the one the automaton finds behind it.
LEMMA DollarOpens ==
    ASSUME NEW s \in Seq(Symbols), NEW i \in 1 .. Len(s), Fresh(s, i), OpensDollar(s, i)
    PROVE  LET j == Min(DollarTagEnds(s, i))
           IN  /\ Lex(s)[j].mode = "dollar" /\ Lex(s)[j].start = i /\ Lex(s)[j].mark = j
               /\ Lex(s)[j].tag = SubSeq(s, i, j)
               /\ \A n \in i .. j - 1 : Lex(s)[n].mode = "code"
<1> DEFINE N == Len(s)
           q == Lex(s)
           j == Min(DollarTagEnds(s, i))
<1>0. N \in Nat /\ i \in Nat
  OBVIOUS
<1>1. /\ j \in i + 1 .. N /\ s[i] = "dollar" /\ s[j] = "dollar"
      /\ \A k \in i + 1 .. j - 1 : s[k] \in WordSymbols
      /\ s[i + 1] # "1"
  BY DollarTagEnd DEF OpensDollar
<1>2. StartsToken(s, i)
  BY DEF OpensDollar, AtTokenStart, StartsToken, IsWordByte
<1> HIDE DEF j
<1>3. q[i] = q[i - 1]
  BY <1>1, FreshStays, QuotesAre
<1>4. q[i].mode = "code" /\ q[i].mark <= i - 1 /\ q[i] \in LexState /\ q[i].mark \in Nat
  BY <1>0, <1>3, LexDef DEF Fresh, LexState
<1>5. \A n \in i .. j - 1 : q[n] = q[i]
  <2> DEFINE U == {n \in Nat : n + i <= j - 1 => q[n + i] = q[i]}
  <2>1. 0 \in U
    BY <1>0
  <2>2. ASSUME NEW n \in Nat, n \in U PROVE n + 1 \in U
    <3>1. SUFFICES ASSUME n + 1 + i <= j - 1 PROVE q[n + 1 + i] = q[i]
      OBVIOUS
    <3> DEFINE k == n + 1 + i
    <3>2. k \in 1 .. N /\ k - 1 = n + i /\ k \in i + 1 .. j - 1 /\ n + i <= j - 1
      BY <1>0, <1>1, <3>1
    <3>3. q[k] = After(s, q[k - 1], k) /\ q[k - 1] = q[i]
      BY <2>2, <3>2, LexDef
    <3>4. s[k] \in WordSymbols
      BY <1>1, <3>2
    <3> HIDE DEF k, q
    <3>5. q[k] = FromCode(s, q[i], k)
      BY <1>4, <3>3 DEF After
    <3>6. /\ s[k] \notin Quotes /\ s[k] # "dash" /\ s[k] # "star" /\ s[k] # "dollar"
          /\ s[k] # "quote"
      BY <3>4, QuotesAre DEF WordSymbols, ReadKeywords, ExplainOptions, WriteKeywords,
                             ControlKeywords
    <3>7. q[k] = q[i]
      BY <3>5, <3>6 DEF FromCode
    <3> QED
      BY <3>7 DEF k
  <2> HIDE DEF U
  <2>3. Nat \subseteq U
    BY <2>1, <2>2, Induct
  <2>4. ASSUME NEW n \in i .. j - 1 PROVE q[n] = q[i]
    <3>1. n - i \in U /\ (n - i) + i = n /\ n <= j - 1
      BY <1>0, <1>1, <2>3
    <3> QED
      BY <3>1 DEF U
  <2> QED
    BY <2>4
<1>6. TagStarts(s, q[i].mark, j) = {i}
  <2>1. ASSUME NEW o \in TagStarts(s, q[i].mark, j) PROVE o = i
    <3>1. o \in q[i].mark + 1 .. j - 1 /\ s[o] = "dollar"
          /\ \A k \in o + 1 .. j - 1 : s[k] \in WordSymbols
      BY <2>1 DEF TagStarts
    <3>2. "dollar" \notin WordSymbols
      BY DEF WordSymbols, ReadKeywords, ExplainOptions, WriteKeywords, ControlKeywords
    <3>3. ~ (o < i)
      BY SMTT(30), <1>0, <1>1, <1>4, <3>1, <3>2
    <3>4. ~ (i < o)
      BY <1>0, <1>1, <1>4, <3>1, <3>2
    <3> QED
      BY <1>0, <1>4, <3>1, <3>3, <3>4
  <2>2. i \in TagStarts(s, q[i].mark, j)
    <3>1. i \in q[i].mark + 1 .. j - 1
      BY <1>0, <1>1, <1>4
    <3> QED
      BY <1>1, <1>2, <3>1 DEF TagStarts
  <2> QED
    BY <2>1, <2>2
<1>7. Min({i}) = i
  <2>1. {i} \in SUBSET Nat /\ {i} # {}
    BY <1>0
  <2> QED
    BY <2>1, MinOf
<1>8. q[j] = [Enter("dollar", i, j) EXCEPT !.tag = SubSeq(s, i, j)]
  <2>1. j \in 1 .. N /\ j - 1 \in i .. j - 1
    BY <1>0, <1>1
  <2>2. q[j] = After(s, q[j - 1], j) /\ q[j - 1] = q[i]
    BY <1>5, <2>1, LexDef
  <2> HIDE DEF q
  <2>3. q[j] = FromCode(s, q[i], j)
    BY <1>4, <2>2 DEF After
  <2>4. "dollar" \notin Quotes
    BY QuotesAre
  <2>5. {i} # {}
    OBVIOUS
  <2> QED
    BY <1>1, <1>6, <1>7, <2>3, <2>4, <2>5 DEF FromCode
<1>9. Enter("dollar", i, j) \in LexState /\ Enter("dollar", i, j).mode = "dollar"
      /\ Enter("dollar", i, j).start = i /\ Enter("dollar", i, j).mark = j
  <2>1. j \in Nat /\ "dollar" \in LexModes
    BY <1>0, <1>1 DEF LexModes
  <2> QED
    BY <1>0, <2>1, EnterIs
<1>10. q[j].mode = "dollar" /\ q[j].start = i /\ q[j].mark = j /\ q[j].tag = SubSeq(s, i, j)
  BY <1>8, <1>9 DEF LexState
<1>11. \A n \in i .. j - 1 : q[n].mode = "code"
  BY <1>4, <1>5
<1> QED
  BY <1>10, <1>11 DEF j

\* While the tag has not come again the automaton stays in the string.
LEMMA DollarStays ==
    ASSUME NEW s \in Seq(Symbols), NEW j \in 1 .. Len(s), NEW e \in j + 1 .. Len(s) + 1,
           Lex(s)[j].mode = "dollar", Lex(s)[j].mark = j,
           \A n \in j + 1 .. e - 1 : \A m \in j + 1 .. n : SubSeq(s, m, n) # Lex(s)[j].tag
    PROVE  \A n \in j .. e - 1 : Lex(s)[n] = Lex(s)[j]
<1> DEFINE N == Len(s)
           q == Lex(s)
           U == {n \in Nat : n + j <= e - 1 => q[n + j] = q[j]}
<1>0. N \in Nat /\ j \in Nat /\ e \in Nat
  OBVIOUS
<1>1. 0 \in U
  BY <1>0
<1>2. ASSUME NEW n \in Nat, n \in U PROVE n + 1 \in U
  <2>1. SUFFICES ASSUME n + 1 + j <= e - 1 PROVE q[n + 1 + j] = q[j]
    OBVIOUS
  <2> DEFINE k == n + 1 + j
  <2>2. k \in 1 .. N /\ k - 1 = n + j /\ k \in j + 1 .. e - 1 /\ n + j <= e - 1
    BY <1>0, <2>1
  <2>3. q[k] = After(s, q[k - 1], k) /\ q[k - 1] = q[j]
    BY <1>2, <2>2, LexDef
  <2>4. \A m \in j + 1 .. k : SubSeq(s, m, k) # q[j].tag
    BY <2>2
  <2> HIDE DEF k, q
  <2>5. q[k] = FromDollar(s, q[j], k)
    BY <2>3 DEF After, q
  <2>6. q[k] = q[j]
    BY <2>4, <2>5 DEF FromDollar, q
  <2> QED
    BY <2>6 DEF k
<1> HIDE DEF U
<1>3. Nat \subseteq U
  BY <1>1, <1>2, Induct
<1>4. ASSUME NEW n \in j .. e - 1 PROVE q[n] = q[j]
  <2>1. n - j \in U /\ (n - j) + j = n /\ n <= e - 1
    BY <1>0, <1>3
  <2> QED
    BY <2>1 DEF U
<1> QED
  BY <1>4

\* A copy of the tag that ends at n begins where the tag's width says.
LEMMA CopyOfTag ==
    ASSUME NEW s \in Seq(Symbols), NEW i \in 1 .. Len(s), NEW j \in i + 1 .. Len(s),
           NEW n \in j + 1 .. Len(s), NEW m \in j + 1 .. n,
           SubSeq(s, m, n) = SubSeq(s, i, j)
    PROVE  m \in Closes(s, i, j) /\ n = m + (j - i + 1) - 1
<1>1. Len(SubSeq(s, m, n)) = n - m + 1
  OBVIOUS
<1>2. Len(SubSeq(s, i, j)) = j - i + 1
  OBVIOUS
<1>3. n = m + (j - i + 1) - 1
  BY <1>1, <1>2
<1>4. m \in j + 1 .. Len(s) + 1 - (j - i + 1)
  BY <1>3
<1> QED
  BY <1>3, <1>4 DEF Closes

\* The dollar-quoted string the scanner jumps over is the one the automaton sees.
LEMMA DollarCovered ==
    ASSUME NEW s \in Seq(Symbols), NEW i \in 1 .. Len(s), Fresh(s, i), OpensDollar(s, i)
    PROVE  Covered(s, i, i, DollarQuoteEnd(s, i, Min(DollarTagEnds(s, i))))
<1> DEFINE N == Len(s)
           q == Lex(s)
           j == Min(DollarTagEnds(s, i))
           width == j - i + 1
           e == DollarQuoteEnd(s, i, j)
<1>0. N \in Nat /\ i \in Nat
  OBVIOUS
<1>1. j \in i + 1 .. N
  BY DollarTagEnd DEF OpensDollar
<1>2. /\ q[j].mode = "dollar" /\ q[j].start = i /\ q[j].mark = j /\ q[j].tag = SubSeq(s, i, j)
      /\ \A n \in i .. j - 1 : q[n].mode = "code"
  BY DollarOpens
<1> HIDE DEF j
<1>3. ASSUME NEW l \in j + 1 .. N + 1, \A n \in j .. l - 1 : q[n] = q[j]
      PROVE  \A m \in j + 1 .. l - 1 : m \in Hidden(s) /\ q[m].start >= i
  <2>1. SUFFICES ASSUME NEW m \in j + 1 .. l - 1 PROVE m \in Hidden(s) /\ q[m].start >= i
    OBVIOUS
  <2>2. m \in 1 .. N /\ m - 1 \in j .. l - 1 /\ m \in j .. l - 1
    BY <1>0, <1>1
  <2>3. q[m - 1].mode # "code" /\ q[m].start = i
    BY <1>2, <1>3, <2>2
  <2> QED
    BY <1>0, <2>2, <2>3, HiddenIf
<1>4. CASE Closes(s, i, j) = {} /\ e = N + 1
  <2>1. \A n \in j + 1 .. e - 1 : \A m \in j + 1 .. n : SubSeq(s, m, n) # q[j].tag
    <3>1. SUFFICES ASSUME NEW n \in j + 1 .. N, NEW m \in j + 1 .. n,
                          SubSeq(s, m, n) = SubSeq(s, i, j)
                   PROVE  FALSE
      <4> HIDE DEF e
      <4>1. e - 1 = N
        BY <1>0, <1>4
      <4> QED
        BY <1>2, <4>1
    <3> QED
      BY <1>1, <1>4, <3>1, CopyOfTag
  <2>2. e \in j + 1 .. N + 1 /\ j \in 1 .. N /\ e \in 1 .. N + 1 /\ ~ (e <= N)
    BY <1>0, <1>1, <1>4
  <2> HIDE DEF e
  <2>3. \A n \in j .. e - 1 : q[n] = q[j]
    BY <1>2, <2>1, <2>2, DollarStays
  <2>4. Covered(s, i, e, e)
    BY <2>2, CoveredEnd
  <2>5. Covered(s, i, j + 1, e)
    <3>1. j + 1 \in i .. N + 1 /\ e \in j + 1 .. N + 1
      BY <1>0, <1>1, <2>2
    <3>2. \A m \in j + 1 .. e - 1 : m \in Hidden(s) /\ q[m].start >= i
      BY <1>3, <2>2, <2>3
    <3> QED
      BY <2>4, <3>1, <3>2, CoveredFrom
  <2>6. j \in i .. N
    BY <1>0, <1>1
  <2> QED
    BY <1>2, <2>5, <2>6, CoveredFromOpening DEF e, j
<1>5. ASSUME NEW c \in Closes(s, i, j), \A y \in Closes(s, i, j) : c <= y, e = c + width
      PROVE  Covered(s, i, i, e)
  <2> DEFINE l == c + width - 1
  <2>1. c \in j + 1 .. N + 1 - width /\ SubSeq(s, c, l) = SubSeq(s, i, j)
    BY DEF Closes
  <2>2. /\ width \in Nat /\ width > 1 /\ l \in j + 1 .. N /\ c \in j + 1 .. l /\ e = l + 1
        /\ l \in j + 1 .. N + 1 /\ j \in 1 .. N
    BY <1>0, <1>1, <1>5, <2>1
  <2> HIDE DEF e
  <2>3. \A n \in j + 1 .. l - 1 : \A m \in j + 1 .. n : SubSeq(s, m, n) # q[j].tag
    <3>1. SUFFICES ASSUME NEW n \in j + 1 .. l - 1, NEW m \in j + 1 .. n,
                          SubSeq(s, m, n) = SubSeq(s, i, j)
                   PROVE  FALSE
      BY <1>2
    <3>2. n \in j + 1 .. N
      BY <1>0, <1>1, <2>2
    <3>3. m \in Closes(s, i, j) /\ n = m + width - 1
      BY <1>1, <3>1, <3>2, CopyOfTag
    <3>4. c <= m
      BY <1>5, <3>3
    <3> QED
      BY <1>0, <1>1, <2>1, <2>2, <3>3, <3>4
  <2> HIDE DEF width
  <2>4. \A n \in j .. l - 1 : q[n] = q[j]
    <3> HIDE DEF l
    <3> QED
      BY <1>2, <2>2, <2>3, DollarStays
  <2>5. q[l] = Code(l)
    <3> HIDE DEF l
    <3>1. l \in 1 .. N /\ l - 1 \in j .. l - 1
      BY <1>0, <1>1, <2>2
    <3>2. q[l] = After(s, q[l - 1], l) /\ q[l - 1] = q[j]
      BY <2>4, <3>1, LexDef
    <3>3. SubSeq(s, c, l) = q[j].tag /\ c \in q[j].mark + 1 .. l
      BY <1>2, <2>1, <2>2 DEF l
    <3> HIDE DEF q
    <3>4. q[l] = FromDollar(s, q[j], l)
      BY <1>2, <3>2 DEF After
    <3> QED
      BY <3>3, <3>4 DEF FromDollar
  <2> HIDE DEF l
  <2>6. q[l].mode = "code"
    <3>1. l \in Nat
      BY <1>0, <1>1, <2>2
    <3> QED
      BY <2>5, <3>1, CodeIs
  <2>7. Covered(s, i, e, e)
    <3>1. e \in 2 .. N + 1 /\ e - 1 = l /\ e \in 1 .. N + 1
      BY <1>0, <1>1, <2>2
    <3>2. Fresh(s, e)
      BY <2>5, <3>1, FreshAfterCode
    <3> QED
      BY <3>1, <3>2, CoveredEnd
  <2>8. \A m \in j + 1 .. e - 1 : m \in Hidden(s) /\ (q[m].mode # "code" => q[m].start >= i)
    <3>1. SUFFICES ASSUME NEW m \in j + 1 .. e - 1
                   PROVE  m \in Hidden(s) /\ (q[m].mode # "code" => q[m].start >= i)
      OBVIOUS
    <3>2. m \in j + 1 .. l - 1 \/ m = l
      BY <1>0, <1>1, <2>2
    <3>3. CASE m \in j + 1 .. l - 1
      BY <1>3, <2>2, <2>4, <3>3
    <3>4. CASE m = l
      <4>1. l \in 1 .. N /\ l - 1 \in j .. l - 1
        BY <1>0, <1>1, <2>2
      <4>2. l \in Hidden(s)
        BY <1>2, <2>4, <4>1, HiddenIf
      <4> QED
        BY <2>6, <3>4, <4>2
    <3> QED
      BY <3>2, <3>3, <3>4
  <2>9. Covered(s, i, j + 1, e)
    <3>1. j + 1 \in i .. N + 1 /\ e \in j + 1 .. N + 1
      BY <1>0, <1>1, <2>2
    <3> QED
      BY <2>7, <2>8, <3>1, CoveredFrom
  <2>10. j \in i .. N
    BY <1>0, <1>1
  <2> QED
    BY <1>2, <2>9, <2>10, CoveredFromOpening
<1> QED
  BY <1>1, <1>4, <1>5, DollarQuoteEndBounds DEF e, j

-----------------------------------------------------------------------------
(* The cursor and the automaton. *)

\* Whatever construct the scanner jumps over, the automaton sees it.
LEMMA SkippableCovers ==
    ASSUME NEW s \in Seq(Symbols), NEW i \in 1 .. Len(s), Fresh(s, i), SkippableEnd(s, i) # i
    PROVE  Covered(s, i, i, SkippableEnd(s, i))
<1>1. CASE OpensLine(s, i)
  BY <1>1, SkippableEndCases, LineCovered
<1>2. CASE OpensBlock(s, i)
  BY <1>2, SkippableEndCases, BlockCovered
<1>3. CASE s[i] \in Quotes
  <2>1. SkippableEnd(s, i) = QuotedScan(s, s[i])[i + 1]
    BY <1>3, SkippableEndCases, QuotesAre DEF SingleQuoteEnd, QuotedIdentEnd
  <2> QED
    BY <1>3, <2>1, QuotedCovered
<1>4. CASE OpensEscape(s, i)
  BY <1>4, SkippableEndCases, EscapeCovered
<1>5. CASE OpensDollar(s, i)
  BY <1>5, SkippableEndCases, DollarCovered
<1> QED
  BY <1>1, <1>2, <1>3, <1>4, <1>5, SkippableEndBounds

\* The right-hand side of Walk, of any function f.
WalkBody(s, f, i) ==
    IF i > Len(s) THEN {}
    ELSE IF SkippableEnd(s, i) > i THEN f[SkippableEnd(s, i)] ELSE {i} \cup f[i + 1]

\* Walk satisfies its equation (Split, significantWords).
LEMMA WalkDef ==
    ASSUME NEW s \in Seq(Symbols), NEW n \in 1 .. Len(s) + 1
    PROVE  Walk(s)[n] = WalkBody(s, Walk(s), n)
<1> DEFINE N == Len(s)
           S == 1 .. N + 1
           V == SUBSET Nat
           jumps(i) == SkippableEnd(s, i) > i
           go == 1 .. N
           rank == [i \in S |-> N + 1 - i]
           nx == [i \in go |-> IF jumps(i) THEN SkippableEnd(s, i) ELSE i + 1]
           val == [i \in S |-> {}]
           comb == [x \in S \X V |-> IF x[1] \in go /\ jumps(x[1]) THEN x[2] ELSE {x[1]} \cup x[2]]
<1>0. N \in Nat
  OBVIOUS
<1>1. \A i \in go : SkippableEnd(s, i) \in i .. N + 1
  BY SkippableEndBounds
<1>2. ASSUME NEW i \in go PROVE nx[i] \in S /\ rank[nx[i]] < rank[i]
  <2>1. nx[i] \in i + 1 .. N + 1
    BY <1>0, <1>1
  <2> HIDE DEF nx
  <2> QED
    BY <1>0, <2>1
<1>3. rank \in [S -> Nat]
  OBVIOUS
<1>4. go \in SUBSET S /\ val \in [S -> V]
  OBVIOUS
<1>5. nx \in [go -> S]
  BY <1>2
<1>6. comb \in [S \X V -> V]
  OBVIOUS
<1>7. ASSUME NEW i \in go, NEW v \in V
      PROVE  comb[<<i, v>>] = IF jumps(i) THEN v ELSE {i} \cup v
  <2>1. <<i, v>> \in S \X V /\ <<i, v>>[1] = i /\ <<i, v>>[2] = v
    <3>1. i \in S
      OBVIOUS
    <3> HIDE DEF S, V, go
    <3> QED
      BY <3>1
  <2> QED
    BY <2>1
<1> HIDE DEF comb, rank
<1>8. IsRecursion(S, V, rank, go, nx, val, comb)
  BY <1>2, <1>3, <1>4, <1>5, <1>6 DEF IsRecursion
<1>9. PICK f \in [S -> V] : Solves(f, S, go, nx, val, comb)
  <2> HIDE DEF S, V, go, nx, val
  <2> QED
    BY <1>8, RecursionExists
<1>10. ASSUME NEW i \in S PROVE f[i] = WalkBody(s, f, i)
  <2>1. f[i] = IF i \in go THEN comb[<<i, f[nx[i]]>>] ELSE val[i]
    <3> HIDE DEF S, V, go, nx, val
    <3> QED
      BY <1>9 DEF Solves
  <2>2. CASE i > N
    BY <2>1, <2>2 DEF WalkBody
  <2>3. CASE i \in go
    <3>1. nx[i] \in S
      BY <1>2, <2>3
    <3>2. f[nx[i]] \in V
      <4> HIDE DEF nx, S, V
      <4> QED
        BY <3>1
    <3>3. f[i] = IF jumps(i) THEN f[nx[i]] ELSE {i} \cup f[nx[i]]
      <4> HIDE DEF nx, jumps, V, go
      <4> QED
        BY <1>7, <2>1, <2>3, <3>2
    <3>4. nx[i] = IF jumps(i) THEN SkippableEnd(s, i) ELSE i + 1
      BY <2>3
    <3> HIDE DEF nx
    <3> QED
      BY <2>3, <3>3, <3>4 DEF WalkBody
  <2> QED
    BY <1>0, <2>2, <2>3
<1>11. f = [i \in S |-> WalkBody(s, f, i)]
  <2> HIDE DEF S
  <2> QED
    BY <1>10
<1>12. Walk(s) = CHOOSE g : g = [i \in S |-> WalkBody(s, g, i)]
  BY DEF Walk, WalkBody
<1>13. Walk(s) = [i \in S |-> WalkBody(s, Walk(s), i)]
  <2> HIDE DEF S
  <2> QED
    BY <1>11, <1>12, Zenon
<1> QED
  BY <1>13

(***************************************************************************)
(* The cursor that jumps and the automaton that does not agree from any    *)
(* position the cursor stops at.                                           *)
(***************************************************************************)
Agree(s, i) ==
    /\ Walk(s)[i] \subseteq i .. Len(s)
    /\ \A k \in i .. Len(s) :
          /\ s[k] # "eol" => (k \in Walk(s)[i] <=> k \in Visible(s))
          /\ Lex(s)[k].mode # "code" => Lex(s)[k].start >= i

\* The cursor agrees with the automaton from wherever it stops.
LEMMA CursorAgrees ==
    ASSUME NEW s \in Seq(Symbols), NEW i \in 1 .. Len(s) + 1,
           i <= Len(s) => Fresh(s, i) \/ AtEol(s, i)
    PROVE  Agree(s, i)
<1> DEFINE N == Len(s)
           q == Lex(s)
           S == {n \in 1 .. N + 1 : (n <= N => Fresh(s, n) \/ AtEol(s, n)) => Agree(s, n)}
<1>0. N \in Nat
  OBVIOUS
<1>1. ASSUME NEW n \in 1 .. N + 1, \A m \in n + 1 .. N + 1 : m \in S PROVE n \in S
  <2>0. SUFFICES ASSUME n <= N => Fresh(s, n) \/ AtEol(s, n) PROVE Agree(s, n)
    OBVIOUS
  <2>1. n \in Nat /\ Walk(s)[n] = WalkBody(s, Walk(s), n)
    BY <1>0, WalkDef
  <2>2. CASE n > N
    <3>1. Walk(s)[n] = {} /\ n .. N = {}
      BY <1>0, <2>1, <2>2 DEF WalkBody
    <3> QED
      BY <3>1 DEF Agree
  <2>3. CASE n <= N /\ Fresh(s, n) /\ SkippableEnd(s, n) = n
    <3>1. Walk(s)[n] = {n} \cup Walk(s)[n + 1]
      BY <2>1, <2>3 DEF WalkBody
    <3>2. n \in 1 .. N /\ n + 1 \in n + 1 .. N + 1
      BY <2>1, <2>3
    <3>3. q[n] = q[n - 1] /\ Fresh(s, n + 1)
      BY <2>3, <3>2, FreshNext
    <3>4. Agree(s, n + 1)
      BY <1>1, <3>2, <3>3
    <3>5. q[n].mode = "code" /\ q[n - 1].mode = "code"
      BY <2>3, <3>3 DEF Fresh
    <3>6. \A j \in n + 1 .. N : q[j].mode # "code" => q[j].start >= n + 1
      BY <3>4 DEF Agree
    <3>7. \A j \in 0 .. N : q[j].start \in Nat
      BY LexDef DEF LexState
    <3>8. n \in Visible(s)
      <4>1. SUFFICES ASSUME NEW j \in n .. N, q[j].mode # "code", q[j].start <= n PROVE FALSE
        BY <3>2, <3>5 DEF Visible, Hidden
      <4>2. j \in n + 1 .. N /\ j \in 0 .. N
        BY <2>1, <3>5, <4>1
      <4> QED
        BY <2>1, <3>6, <3>7, <4>1, <4>2
    <3>9. Walk(s)[n] \subseteq n .. N
      BY <2>1, <2>3, <3>1, <3>4 DEF Agree
    <3>10. n \notin Walk(s)[n + 1]
      BY <2>1, <3>4 DEF Agree
    <3>11. ASSUME NEW k \in n .. N
           PROVE  /\ s[k] # "eol" => (k \in Walk(s)[n] <=> k \in Visible(s))
                  /\ q[k].mode # "code" => q[k].start >= n
      <4>1. k = n \/ k \in n + 1 .. N
        BY <2>1
      <4>2. CASE k = n
        BY <3>1, <3>5, <3>8, <4>2
      <4>3. CASE k \in n + 1 .. N
        <5>1. k # n /\ k \in 0 .. N
          BY <2>1, <4>3
        <5>2. s[k] # "eol" => (k \in Walk(s)[n + 1] <=> k \in Visible(s))
          BY <3>4, <4>3 DEF Agree
        <5>3. q[k].mode # "code" => q[k].start >= n
          BY <2>1, <3>6, <3>7, <4>3, <5>1
        <5> QED
          BY <3>1, <5>1, <5>2, <5>3
      <4> QED
        BY <4>1, <4>2, <4>3
    <3> QED
      BY <3>9, <3>11 DEF Agree
  <2>4. CASE n <= N /\ Fresh(s, n) /\ SkippableEnd(s, n) # n
    <3> DEFINE e == SkippableEnd(s, n)
    <3>1. n \in 1 .. N
      BY <2>1, <2>4
    <3>2. e \in n + 1 .. N + 1
      BY <2>4, <3>1, SkippableEndBounds
    <3>3. Walk(s)[n] = Walk(s)[e]
      BY <2>1, <2>4, <3>2 DEF WalkBody
    <3>4. Covered(s, n, n, e)
      BY <2>4, <3>1, SkippableCovers
    <3> HIDE DEF e
    <3>5. Agree(s, e)
      BY <1>1, <3>2, <3>4 DEF Covered
    <3>6. Walk(s)[n] \subseteq n .. N
      BY <2>1, <3>2, <3>3, <3>5 DEF Agree
    <3>7. ASSUME NEW k \in n .. N
          PROVE  /\ s[k] # "eol" => (k \in Walk(s)[n] <=> k \in Visible(s))
                 /\ q[k].mode # "code" => q[k].start >= n
      <4>1. k \in n .. e - 1 \/ k \in e .. N
        BY <2>1, <3>2
      <4>2. CASE k \in n .. e - 1
        <5>1. k \in Hidden(s) /\ (q[k].mode # "code" => q[k].start >= n)
          BY <3>4, <4>2 DEF Covered
        <5>2. k \notin Walk(s)[e]
          <6>1. ~ (e <= k)
            BY <2>1, <3>2, <4>2
          <6> QED
            BY <3>5, <6>1 DEF Agree
        <5> QED
          BY <3>3, <5>1, <5>2 DEF Visible
      <4>3. CASE k \in e .. N
        <5>1. /\ s[k] # "eol" => (k \in Walk(s)[e] <=> k \in Visible(s))
              /\ q[k].mode # "code" => q[k].start >= e
          BY <3>5, <4>3 DEF Agree
        <5>2. q[k].start \in Nat
          <6>1. k \in 0 .. N
            BY <2>1
          <6> QED
            BY <6>1, LexDef DEF LexState
        <5>3. q[k].mode # "code" => q[k].start >= n
          BY <2>1, <3>2, <5>1, <5>2
        <5> QED
          BY <3>3, <5>1, <5>3
      <4> QED
        BY <4>1, <4>2, <4>3
    <3> QED
      BY <3>6, <3>7 DEF Agree
  <2>5. CASE n <= N /\ AtEol(s, n)
    <3>1. n \in 1 .. N /\ s[n] = "eol" /\ q[n - 1].mode = "line"
      BY <2>1, <2>5 DEF AtEol
    <3>2. SkippableEnd(s, n) = n
      BY <3>1, SkippableEndBounds, QuotesAre
             DEF OpensLine, OpensBlock, OpensEscape, OpensDollar
    <3>3. Walk(s)[n] = {n} \cup Walk(s)[n + 1]
      BY <2>1, <2>5, <3>2 DEF WalkBody
    <3>4. q[n] = Code(n)
      BY <3>1, LexDef DEF After
    <3>5. q[n].mode = "code"
      BY <2>1, <3>4, CodeIs
    <3>6. n + 1 \in n + 1 .. N + 1 /\ n + 1 \in 2 .. N + 1 /\ (n + 1) - 1 = n
      BY <2>1, <3>1
    <3>7. Fresh(s, n + 1)
      BY <3>4, <3>6, FreshAfterCode
    <3>8. Agree(s, n + 1)
      BY <1>1, <3>6, <3>7
    <3>9. Walk(s)[n] \subseteq n .. N
      BY <2>1, <2>5, <3>3, <3>8 DEF Agree
    <3>10. ASSUME NEW k \in n .. N
           PROVE  /\ s[k] # "eol" => (k \in Walk(s)[n] <=> k \in Visible(s))
                  /\ q[k].mode # "code" => q[k].start >= n
      <4>1. k = n \/ k \in n + 1 .. N
        BY <2>1
      <4>2. CASE k = n
        BY <3>1, <3>5, <4>2
      <4>3. CASE k \in n + 1 .. N
        <5>1. k # n /\ k \in 0 .. N
          BY <2>1, <4>3
        <5>2. /\ s[k] # "eol" => (k \in Walk(s)[n + 1] <=> k \in Visible(s))
              /\ q[k].mode # "code" => q[k].start >= n + 1
          BY <3>8, <4>3 DEF Agree
        <5>3. q[k].start \in Nat
          BY <5>1, LexDef DEF LexState
        <5>4. q[k].mode # "code" => q[k].start >= n
          BY <2>1, <5>2, <5>3
        <5> QED
          BY <3>3, <5>1, <5>2, <5>4
      <4> QED
        BY <4>1, <4>2, <4>3
    <3> QED
      BY <3>9, <3>10 DEF Agree
  <2> QED
    BY <2>0, <2>1, <2>2, <2>3, <2>4, <2>5
<1> HIDE DEF S, N
<1>2. 1 .. N + 1 \subseteq S
  BY <1>0, <1>1, InductDown
<1> QED
  BY <1>2 DEF S, N

\* The automaton starts Fresh.
LEMMA FreshAtFirst ==
    ASSUME NEW s \in Seq(Symbols)
    PROVE  Fresh(s, 1)
<1>1. 1 - 1 = 0
  OBVIOUS
<1>2. Lex(s)[0] = Code(0)
  BY LexDef
<1>3. /\ Lex(s)[0].mode = "code" /\ Lex(s)[0].mark = 0 /\ Lex(s)[0].reopens = "none"
  BY <1>2, CodeIs
<1>4. \A o \in 0 + 1 .. 1 - 1 : SkippableEnd(s, o) = o
  OBVIOUS
<1>5. "none" \notin QuoteModes["quote"] /\ "none" \notin QuoteModes["dquote"]
  BY QuotesAre
<1> QED
  BY <1>1, <1>3, <1>4, <1>5, QuotesAre DEF Fresh

\* The cursor stops at the visible symbols, and at ends of line the automaton hides.
LEMMA OrdinaryIsVisible ==
    ASSUME NEW s \in Seq(Symbols)
    PROVE  /\ Ordinary(s) \subseteq 1 .. Len(s) /\ Visible(s) \subseteq 1 .. Len(s)
           /\ \A k \in 1 .. Len(s) : s[k] # "eol" => (k \in Ordinary(s) <=> k \in Visible(s))
<1>1. 1 \in 1 .. Len(s) + 1
  OBVIOUS
<1>2. Agree(s, 1)
  BY <1>1, FreshAtFirst, CursorAgrees
<1> QED
  BY <1>2 DEF Agree, Ordinary, Visible

(***************************************************************************)
(* The semicolons the scanner of the code stops at are those the automaton *)
(* sees outside every literal, quoted identifier and comment, in every     *)
(* text.                                                                   *)
(***************************************************************************)
THEOREM OrdinarySemicolonsAreVisible ==
    ASSUME NEW s \in Seq(Symbols)
    PROVE  {i \in Ordinary(s) : s[i] = "semicolon"} = {i \in Visible(s) : s[i] = "semicolon"}
BY OrdinaryIsVisible

\* The text is over the symbols.
TextTyped == alphabet \subseteq Symbols /\ text \in Seq(Symbols)

\* The text stays over the symbols.
LEMMA AlwaysTyped == Spec => []TextTyped
<1>1. Init => TextTyped
  <2>1. << >> \in Seq(Symbols)
    OBVIOUS
  <2> QED
    BY <2>1, SqlTextsAssumption DEF Init, TextTyped
<1>2. TextTyped /\ [Next]_vars => TextTyped'
  <2>1. ASSUME TextTyped, NEW b \in alphabet, Grow(b) PROVE TextTyped'
    <3>1. b \in Symbols
      BY <2>1 DEF TextTyped
    <3> QED
      BY <2>1, <3>1 DEF TextTyped, Grow
  <2> QED
    BY <2>1 DEF Next, vars, TextTyped
<1> QED
  BY <1>1, <1>2, PTL DEF Spec

(***************************************************************************)
(* Split cuts every text a client may send at its visible semicolons.      *)
(***************************************************************************)
THEOREM SplitIsRight == Spec => []SplitsAtVisibleSemicolons
<1>1. TextTyped => SplitsAtVisibleSemicolons
  BY OrdinarySemicolonsAreVisible DEF TextTyped, SplitsAtVisibleSemicolons, Split
<1> QED
  BY <1>1, AlwaysTyped, PTL

-----------------------------------------------------------------------------
(* The elements of a set in order. *)

\* How many elements of S are no greater than i.
Rank(S, i) == Cardinality({j \in S : j <= i})

\* The ranks of the elements are the numbers up to how many there are.
LEMMA RankIs ==
    ASSUME NEW S \in SUBSET Nat, IsFiniteSet(S)
    PROVE  /\ Cardinality(S) \in Nat
           /\ \A i \in S : Rank(S, i) \in 1 .. Cardinality(S)
           /\ \A i, k \in S : i < k => Rank(S, i) < Rank(S, k)
           /\ \A n \in 1 .. Cardinality(S) : \E i \in S : Rank(S, i) = n
<1> DEFINE below(i) == {j \in S : j <= i}
           C == Cardinality(S)
           f == [i \in S |-> Rank(S, i)]
<1>1. C \in Nat
  BY FS_CardinalityType
<1>2. ASSUME NEW i \in S PROVE IsFiniteSet(below(i)) /\ Rank(S, i) \in 1 .. C
  <2>1. below(i) \in SUBSET S /\ i \in below(i)
    OBVIOUS
  <2> DEFINE B == below(i)
  <2>2. Rank(S, i) = Cardinality(B)
    BY DEF Rank
  <2> HIDE DEF B
  <2>3. IsFiniteSet(B) /\ Cardinality(B) <= C
    BY <2>1, FS_Subset DEF B
  <2>4. Cardinality(B) \in Nat /\ Cardinality(B) # 0
    BY <2>1, <2>3, FS_CardinalityType, FS_EmptySet DEF B
  <2> QED
    BY <1>1, <2>2, <2>3, <2>4 DEF B
<1>3. ASSUME NEW i \in S, NEW k \in S, i < k PROVE Rank(S, i) < Rank(S, k)
  <2> DEFINE B == below(i)
             D == below(k)
  <2>0. i \in Nat /\ k \in Nat
    OBVIOUS
  <2>1. B \in SUBSET D
    <3>1. ASSUME NEW j \in S, j <= i PROVE j <= k
      <4>1. j \in Nat
        OBVIOUS
      <4> QED
        BY <1>3, <2>0, <3>1, <4>1
    <3> QED
      BY <3>1
  <2>2. k \in D /\ k \notin B
    BY <1>3, <2>0
  <2>3. Rank(S, i) = Cardinality(B) /\ Rank(S, k) = Cardinality(D)
    BY DEF Rank
  <2>4. IsFiniteSet(D)
    BY <1>2
  <2> HIDE DEF B, D
  <2>5. Cardinality(B) <= Cardinality(D) /\ Cardinality(B) # Cardinality(D)
    BY <2>1, <2>2, <2>4, FS_Subset
  <2>6. Rank(S, i) \in 1 .. C /\ Rank(S, k) \in 1 .. C
    BY <1>2
  <2> QED
    BY <1>1, <2>3, <2>5, <2>6
<1>4. f \in Injection(S, 1 .. C)
  <2>1. f \in [S -> 1 .. C]
    BY <1>2
  <2>2. ASSUME NEW i \in S, NEW k \in S, f[i] = f[k] PROVE i = k
    <3>1. f[i] = Rank(S, i) /\ f[k] = Rank(S, k)
      OBVIOUS
    <3>2. Rank(S, i) \in Nat /\ Rank(S, k) \in Nat
      <4>1. Rank(S, i) \in 1 .. C /\ Rank(S, k) \in 1 .. C
        BY <1>2
      <4> HIDE DEF C, f
      <4> QED
        BY <1>1, <4>1
    <3>3. i \in Nat /\ k \in Nat
      OBVIOUS
    <3>4. ~ (i < k) /\ ~ (k < i)
      BY <1>3, <2>2, <3>1, <3>2
    <3> QED
      BY <3>3, <3>4
  <2> HIDE DEF f
  <2> QED
    BY <2>1, <2>2 DEF Injection, IsInjective
<1>5. IsFiniteSet(1 .. C) /\ Cardinality(1 .. C) = C
  BY <1>1, FS_Interval
<1>6. f \in Surjection(S, 1 .. C)
  <2> HIDE DEF f, C
  <2> QED
    BY <1>4, <1>5, FS_Injection DEF C
<1>7. \A n \in 1 .. C : \E i \in S : f[i] = n
  <2> HIDE DEF f
  <2> QED
    BY <1>6 DEF Surjection
<1> QED
  BY <1>1, <1>2, <1>3, <1>7

\* The n-th element is the one of rank n.
LEMMA InOrderIs ==
    ASSUME NEW S \in SUBSET Nat, IsFiniteSet(S)
    PROVE  /\ InOrder(S) \in Seq(S) /\ Len(InOrder(S)) = Cardinality(S)
           /\ \A n \in 1 .. Len(InOrder(S)) :
                 /\ InOrder(S)[n] \in S /\ Rank(S, InOrder(S)[n]) = n
           /\ \A i \in S : /\ Rank(S, i) \in 1 .. Len(InOrder(S))
                           /\ InOrder(S)[Rank(S, i)] = i
<1> DEFINE C == Cardinality(S)
           f == InOrder(S)
<1>1. /\ C \in Nat
      /\ \A i \in S : Rank(S, i) \in 1 .. C
      /\ \A i, k \in S : i < k => Rank(S, i) < Rank(S, k)
      /\ \A n \in 1 .. C : \E i \in S : Rank(S, i) = n
  BY RankIs
<1>2. f = [n \in 1 .. C |-> CHOOSE i \in S : Rank(S, i) = n]
  BY DEF InOrder, Rank
<1> HIDE DEF C, f
<1>3. ASSUME NEW n \in 1 .. C PROVE f[n] \in S /\ Rank(S, f[n]) = n
  BY <1>1, <1>2
<1>4. f \in Seq(S) /\ Len(f) = C
  BY <1>1, <1>2, <1>3
<1>5. ASSUME NEW i \in S PROVE f[Rank(S, i)] = i
  <2> DEFINE n == Rank(S, i)
             k == f[n]
  <2>1. n \in 1 .. C
    BY <1>1
  <2>2. k \in S /\ Rank(S, k) = n
    BY <1>3, <2>1
  <2> HIDE DEF k
  <2>3. ~ (i < k) /\ ~ (k < i)
    BY <1>1, <2>1, <2>2
  <2>4. i \in Nat /\ k \in Nat
    BY <2>2
  <2> QED
    BY <2>3, <2>4 DEF k
<1> QED
  BY <1>1, <1>3, <1>4, <1>5 DEF f, C

Moved(S, off) == {i + off : i \in S}

\* A set that is moved as a whole keeps its order.
LEMMA InOrderMoved ==
    ASSUME NEW S \in SUBSET Nat, IsFiniteSet(S), NEW off \in Nat,
           NEW T, T = Moved(S, off)
    PROVE  /\ T \in SUBSET Nat /\ IsFiniteSet(T)
           /\ Len(InOrder(T)) = Len(InOrder(S))
           /\ \A n \in 1 .. Len(InOrder(S)) : InOrder(T)[n] = InOrder(S)[n] + off
<1>1. T \in SUBSET Nat
  <2>1. \A i \in S : i + off \in Nat
    OBVIOUS
  <2> QED
    BY <2>1 DEF Moved
<1>2. ASSUME NEW A \in SUBSET Nat, IsFiniteSet(A), NEW B, B = Moved(A, off)
      PROVE  IsFiniteSet(B) /\ Cardinality(B) = Cardinality(A)
  <2> DEFINE g == [i \in A |-> i + off]
  <2>1. g \in [A -> B] /\ \A i \in A : g[i] = i + off
    BY <1>2 DEF Moved
  <2>2. \A b \in B : \E i \in A : g[i] = b
    BY <1>2, <2>1 DEF Moved
  <2>3. \A i, k \in A : g[i] = g[k] => i = k
    BY <2>1
  <2> HIDE DEF g
  <2>4. g \in Bijection(A, B)
    BY <2>1, <2>2, <2>3 DEF Bijection, Injection, IsInjective, Surjection
  <2> QED
    BY <1>2, <2>4, FS_Bijection DEF ExistsBijection
<1>3. IsFiniteSet(T) /\ Cardinality(T) = Cardinality(S)
  BY <1>2
<1>4. ASSUME NEW i \in S PROVE i + off \in T /\ Rank(T, i + off) = Rank(S, i)
  <2> USE DEF Moved
  <2> DEFINE A == {j \in S : j <= i}
             B == {j \in T : j <= i + off}
  <2>1. A \in SUBSET Nat
    OBVIOUS
  <2>2. IsFiniteSet(A)
    <3>1. A \in SUBSET S
      OBVIOUS
    <3> HIDE DEF A
    <3> QED
      BY <3>1, FS_Subset
  <2>3. B = Moved(A, off)
    BY DEF Moved
  <2> HIDE DEF A, B
  <2>4. Cardinality(B) = Cardinality(A)
    BY <1>2, <2>1, <2>2, <2>3
  <2> QED
    BY <2>4 DEF A, B, Rank
<1> DEFINE f == InOrder(S)
           g == InOrder(T)
<1>5. /\ Len(f) = Cardinality(S) /\ Len(f) \in Nat
      /\ \A n \in 1 .. Len(f) : f[n] \in S /\ Rank(S, f[n]) = n
  BY InOrderIs
<1>6. /\ Len(g) = Cardinality(T)
      /\ \A i \in T : g[Rank(T, i)] = i
  BY <1>1, <1>3, InOrderIs
<1> HIDE DEF f, g
<1>7. \A n \in 1 .. Len(f) : g[n] = f[n] + off
  BY <1>4, <1>5, <1>6
<1> QED
  BY <1>1, <1>3, <1>5, <1>6, <1>7 DEF f, g

-----------------------------------------------------------------------------
(* The words among some positions. *)

\* A nonempty set of positions has a last one.
LEMMA MaxOf ==
    ASSUME NEW N \in Nat, NEW S \in SUBSET (0 .. N), S # {}
    PROVE  Max(S) \in S /\ \A y \in S : y <= Max(S)
<1> DEFINE T == {N - y : y \in S}
<1>1. T \in SUBSET Nat /\ T # {}
  <2>1. \A y \in S : N - y \in Nat
    OBVIOUS
  <2> QED
    BY <2>1
<1> HIDE DEF T
<1>2. PICK m \in T : \A y \in T : m <= y
  BY <1>1, MinOf
<1>3. PICK x \in S : m = N - x
  BY DEF T
<1>4. ASSUME NEW y \in S PROVE x >= y
  <2>1. N - y \in T
    BY DEF T
  <2> QED
    BY <1>2, <1>3, <2>1
<1>5. \E z \in S : \A y \in S : z >= y
  BY <1>4
<1>6. /\ (CHOOSE z \in S : \A y \in S : z >= y) \in S
      /\ \A y \in S : (CHOOSE z \in S : \A v \in S : z >= v) >= y
  BY <1>5
<1> QED
  BY <1>6 DEF Max

\* The runs of neighbouring positions in W: where each begins and ends.
StartsOf(W)  == {i \in W : i - 1 \notin W}
LastOf(W, i) == Min({j \in W : j >= i /\ j + 1 \notin W})
WordsOf(s, W) ==
    [n \in 1 .. Len(InOrder(StartsOf(W))) |->
        SubSeq(s, InOrder(StartsOf(W))[n], LastOf(W, InOrder(StartsOf(W))[n]))]

\* The word positions among those in seen decide which words there are.
LEMMA WordsAmongDef ==
    ASSUME NEW s, NEW seen
    PROVE  WordsAmong(s, seen) = WordsOf(s, {i \in seen : IsWordByte(s[i])})
BY DEF WordsAmong, WordsOf, StartsOf, LastOf

\* A run is all in W.
LEMMA RunIs ==
    ASSUME NEW N \in Nat, NEW W \in SUBSET (1 .. N), NEW i \in W
    PROVE  /\ LastOf(W, i) \in W /\ LastOf(W, i) >= i /\ LastOf(W, i) + 1 \notin W
           /\ i .. LastOf(W, i) \subseteq W
<1> DEFINE E == {j \in W : j >= i /\ j + 1 \notin W}
           e == Min(E)
           U == {j \in W : j >= i}
<1>0. i \in Nat /\ \A j \in W : j \in Nat /\ j \in 0 .. N
  OBVIOUS
<1>1. E \in SUBSET Nat
  BY <1>0
<1>2. E # {}
  <2>1. U \in SUBSET (0 .. N) /\ i \in U
    <3>1. U \in SUBSET W /\ i \in U
      BY <1>0
    <3> HIDE DEF U
    <3> QED
      BY <1>0, <3>1
  <2>2. Max(U) \in U /\ \A y \in U : y <= Max(U)
    <3> HIDE DEF U
    <3> QED
      BY <2>1, MaxOf
  <2> DEFINE m == Max(U)
  <2>3. m \in W /\ m >= i /\ m \in Nat
    BY <1>0, <2>2
  <2>4. m + 1 \notin W
    <3>1. SUFFICES ASSUME m + 1 \in W PROVE FALSE
      OBVIOUS
    <3> HIDE DEF m
    <3>2. m + 1 \in U
      BY <2>3, <3>1
    <3> QED
      BY <2>2, <2>3, <3>2 DEF m
  <2> HIDE DEF m
  <2> QED
    BY <2>3, <2>4
<1>3. e \in E /\ \A j \in E : e <= j
  <2> HIDE DEF E
  <2> QED
    BY <1>1, <1>2, MinOf
<1>4. LastOf(W, i) = e
  BY DEF LastOf
<1>5. e \in W /\ e >= i /\ e + 1 \notin W /\ e \in Nat
  <2> HIDE DEF e
  <2> QED
    BY <1>0, <1>3
<1>6. \A k \in i .. e : k \in W
  <2> DEFINE G == {k \in i .. e : k \notin W}
  <2>1. SUFFICES ASSUME G # {} PROVE FALSE
    OBVIOUS
  <2>2. G \in SUBSET Nat
    OBVIOUS
  <2>3. PICK k \in G : \A y \in G : k <= y
    <3> HIDE DEF G
    <3> QED
      BY <2>1, <2>2, MinOf
  <2>4. k \in i .. e /\ k \notin W /\ k # i /\ k \in Nat
    BY <2>3
  <2> HIDE DEF e, E
  <2>5. k - 1 \in i .. e /\ k - 1 \in W
    <3>1. k - 1 \in i .. e /\ ~ (k <= k - 1)
      BY <1>5, <2>4
    <3> QED
      BY <2>3, <3>1
  <2>6. k - 1 \in E
    BY <2>4, <2>5 DEF E
  <2>7. e <= k - 1
    BY <1>3, <2>6
  <2> QED
    BY <1>5, <2>4, <2>7
<1> HIDE DEF e
<1> QED
  BY <1>4, <1>5, <1>6

\* Word positions that are moved as a whole, with the same symbols, make the same words.
LEMMA WordsMoved ==
    ASSUME NEW p \in Seq(Symbols), NEW s \in Seq(Symbols), NEW off \in Nat,
           NEW V \in SUBSET (1 .. Len(p)), NEW W \in SUBSET (1 .. Len(s)),
           W = Moved(V, off), \A i \in V : s[i + off] = p[i]
    PROVE  WordsOf(p, V) = WordsOf(s, W)
<1> DEFINE A == StartsOf(V)
           B == StartsOf(W)
           f == InOrder(A)
           g == InOrder(B)
<1>0. Len(p) \in Nat /\ Len(s) \in Nat
  OBVIOUS
<1>1. ASSUME NEW i \in Int PROVE i \in V <=> i + off \in W
  BY DEF Moved
<1>2. A \in SUBSET Nat /\ IsFiniteSet(A)
  <2>1. A \in SUBSET (1 .. Len(p))
    BY DEF StartsOf
  <2>2. IsFiniteSet(1 .. Len(p))
    BY <1>0, FS_Interval
  <2> HIDE DEF A
  <2>3. IsFiniteSet(A)
    BY <2>1, <2>2, FS_Subset
  <2> QED
    BY <2>1, <2>3
<1>3. B = Moved(A, off)
  <2>1. ASSUME NEW i \in V PROVE i - 1 \in V <=> (i + off) - 1 \in W
    <3>1. i - 1 \in Int /\ (i - 1) + off = (i + off) - 1
      OBVIOUS
    <3> QED
      BY <1>1, <3>1
  <2> QED
    BY <2>1 DEF StartsOf, Moved
<1>4. Len(g) = Len(f) /\ \A n \in 1 .. Len(f) : g[n] = f[n] + off
  <2> HIDE DEF A, B
  <2>1. /\ Len(InOrder(B)) = Len(InOrder(A))
        /\ \A n \in 1 .. Len(InOrder(A)) : InOrder(B)[n] = InOrder(A)[n] + off
    BY <1>2, <1>3, InOrderMoved
  <2> QED
    BY <2>1
<1>5. \A n \in 1 .. Len(f) : f[n] \in V
  <2>1. \A n \in 1 .. Len(f) : f[n] \in A
    <3> HIDE DEF A
    <3> QED
      BY <1>2, InOrderIs
  <2> QED
    BY <2>1 DEF StartsOf
<1>6. ASSUME NEW i \in V PROVE SubSeq(p, i, LastOf(V, i)) = SubSeq(s, i + off, LastOf(W, i + off))
  <2> DEFINE e == LastOf(V, i)
             h == LastOf(W, i + off)
  <2>1. e \in V /\ e >= i /\ e + 1 \notin V /\ i .. e \subseteq V
    BY <1>0, RunIs
  <2>2. i + off \in W
    BY DEF Moved
  <2>3. h \in W /\ h >= i + off /\ h + 1 \notin W /\ i + off .. h \subseteq W
    BY <1>0, <2>2, RunIs
  <2> HIDE DEF e, h
  <2>4. i \in Nat /\ e \in Nat /\ h \in Nat
    BY <2>1, <2>3
  <2>5. ~ (h < e + off)
    <3>1. SUFFICES ASSUME h < e + off PROVE FALSE
      OBVIOUS
    <3>2. (h + 1) - off \in i .. e /\ (h + 1) - off \in Int /\ ((h + 1) - off) + off = h + 1
      BY <2>3, <2>4, <3>1
    <3>3. (h + 1) - off \in V
      BY <2>1, <3>2
    <3> QED
      BY <1>1, <2>3, <3>2, <3>3
  <2>6. ~ (h > e + off)
    <3>1. SUFFICES ASSUME h > e + off PROVE FALSE
      OBVIOUS
    <3>2. (e + 1) + off \in i + off .. h /\ e + 1 \in Int
      BY <2>1, <2>4, <3>1
    <3>3. (e + 1) + off \in W
      BY <2>3, <3>2
    <3> QED
      BY <1>1, <2>1, <3>2, <3>3
  <2>7. h = e + off
    BY <2>4, <2>5, <2>6
  <2> DEFINE x == SubSeq(p, i, e)
             y == SubSeq(s, i + off, e + off)
  <2>8. i \in 1 .. Len(p) /\ e \in 1 .. Len(p) /\ i + off \in 1 .. Len(s) /\ e + off \in 1 .. Len(s)
    BY <2>1, <2>2, <2>3, <2>7
  <2>9. /\ x \in Seq(Symbols) /\ Len(x) = e - i + 1
        /\ \A m \in 1 .. e - i + 1 : x[m] = p[i + m - 1]
    BY <2>1, <2>4, <2>8, SubSeqProperties
  <2>10. /\ y \in Seq(Symbols) /\ Len(y) = e - i + 1
         /\ \A m \in 1 .. e - i + 1 : y[m] = s[(i + off) + m - 1]
    BY <2>1, <2>4, <2>8, SubSeqProperties
  <2>11. ASSUME NEW m \in 1 .. e - i + 1 PROVE x[m] = y[m]
    <3>1. i + m - 1 \in i .. e /\ (i + off) + m - 1 = (i + m - 1) + off
      BY <2>4
    <3>2. i + m - 1 \in V
      BY <2>1, <3>1
    <3>3. s[(i + m - 1) + off] = p[i + m - 1]
      BY <3>2
    <3> HIDE DEF x, y
    <3> QED
      BY <2>9, <2>10, <3>1, <3>3
  <2> HIDE DEF x, y
  <2>12. x = y
    BY <2>9, <2>10, <2>11, SeqEqual
  <2> QED
    BY <2>7, <2>12 DEF x, y, e, h
<1>7. WordsOf(p, V) = [n \in 1 .. Len(f) |-> SubSeq(p, f[n], LastOf(V, f[n]))]
  BY DEF WordsOf
<1>8. WordsOf(s, W) = [n \in 1 .. Len(g) |-> SubSeq(s, g[n], LastOf(W, g[n]))]
  BY DEF WordsOf
<1> HIDE DEF f, g
<1>9. \A n \in 1 .. Len(f) :
         SubSeq(p, f[n], LastOf(V, f[n])) = SubSeq(s, g[n], LastOf(W, g[n]))
  BY <1>4, <1>5, <1>6
<1> QED
  BY <1>4, <1>7, <1>8, <1>9

-----------------------------------------------------------------------------
(* The statements of a text. *)

\* s between a and b is l .. r and blanks around it.
Trims(s, a, b, l, r) ==
    /\ l \in a + 1 .. b - 1 /\ r \in l .. b - 1
    /\ s[l] \notin Blank /\ s[r] \notin Blank
    /\ \A i \in a + 1 .. l - 1 : s[i] \in Blank
    /\ \A i \in r + 1 .. b - 1 : s[i] \in Blank

\* What TrimSpace leaves of the symbols between a and b.
Stmt(s, a, b) == TrimSpace(SubSeq(s, a + 1, b - 1))

LEMMA StmtIs ==
    ASSUME NEW s \in Seq(Symbols), NEW a \in 0 .. Len(s), NEW b \in a + 1 .. Len(s) + 1
    PROVE  \/ Stmt(s, a, b) = << >> /\ \A i \in a + 1 .. b - 1 : s[i] \in Blank
           \/ \E l, r \in Nat : Trims(s, a, b, l, r) /\ Stmt(s, a, b) = SubSeq(s, l, r)
<1> DEFINE p == SubSeq(s, a + 1, b - 1)
           M == b - 1 - a
           kept == {i \in 1 .. Len(p) : p[i] \notin Blank}
<1>0. a \in Nat /\ b \in Nat /\ M \in Nat /\ Len(s) \in Nat
  OBVIOUS
<1>1. p \in Seq(Symbols) /\ Len(p) = M /\ \A i \in 1 .. M : p[i] = s[a + i]
  <2>1. a + 1 \in Int /\ b - 1 \in Int /\ \A i \in a + 1 .. b - 1 : s[i] \in Symbols
    OBVIOUS
  <2>2. /\ p \in Seq(Symbols)
        /\ Len(p) = IF a + 1 <= b - 1 THEN (b - 1) - (a + 1) + 1 ELSE 0
        /\ \A i \in 1 .. (b - 1) - (a + 1) + 1 : p[i] = s[(a + 1) + i - 1]
    BY <2>1, SubSeqProperties
  <2> HIDE DEF p
  <2> QED
    BY <1>0, <2>2
<1>2. Stmt(s, a, b) = IF kept = {} THEN << >> ELSE SubSeq(p, Min(kept), Max(kept))
  BY DEF Stmt, TrimSpace
<1> HIDE DEF p, M
<1>3. CASE kept = {}
  <2>1. ASSUME NEW i \in a + 1 .. b - 1 PROVE s[i] \in Blank
    <3>1. i - a \in 1 .. M /\ a + (i - a) = i
      BY <1>0 DEF M
    <3>2. p[i - a] \in Blank
      BY <1>1, <1>3, <3>1
    <3> QED
      BY <1>1, <3>1, <3>2
  <2> QED
    BY <1>2, <1>3, <2>1
<1>4. CASE kept # {}
  <2> DEFINE x == Min(kept)
             y == Max(kept)
             l == a + x
             r == a + y
  <2>1. kept \in SUBSET Nat /\ kept \in SUBSET (0 .. M)
    BY <1>0, <1>1
  <2>2. /\ x \in kept /\ y \in kept
        /\ \A k \in kept : x <= k /\ k <= y
    <3> HIDE DEF kept
    <3> QED
      BY <1>0, <1>4, <2>1, MinOf, MaxOf
  <2>3. \A k \in 1 .. M : k \in kept <=> s[a + k] \notin Blank
    BY <1>1
  <2>4. x \in 1 .. M /\ y \in x .. M
    BY <1>0, <1>1, <2>2
  <2> HIDE DEF x, y, kept
  <2>5. l \in a + 1 .. b - 1 /\ r \in l .. b - 1 /\ l \in Nat /\ r \in Nat
    BY <1>0, <2>4 DEF M
  <2>6. s[l] \notin Blank /\ s[r] \notin Blank
    BY <1>0, <2>2, <2>3, <2>4
  <2>7. ASSUME NEW i \in a + 1 .. b - 1, i < l \/ i > r PROVE s[i] \in Blank
    <3>1. i - a \in 1 .. M /\ a + (i - a) = i /\ ~ (x <= i - a /\ i - a <= y)
      BY <1>0, <2>4, <2>7 DEF M
    <3> QED
      BY <2>2, <2>3, <3>1
  <2>8. Trims(s, a, b, l, r)
    <3>1. \A i \in a + 1 .. l - 1 : i \in a + 1 .. b - 1 /\ i < l
      BY <1>0, <2>5
    <3>2. \A i \in r + 1 .. b - 1 : i \in a + 1 .. b - 1 /\ i > r
      BY <1>0, <2>5
    <3> HIDE DEF l, r
    <3> QED
      BY <2>5, <2>6, <2>7, <3>1, <3>2 DEF Trims
  <2>9. SubSeq(p, x, y) = SubSeq(s, l, r)
    <3> DEFINE u == SubSeq(p, x, y)
               v == SubSeq(s, l, r)
    <3>1. \A i \in x .. y : p[i] \in Symbols
      BY <1>1, <2>4
    <3>2. /\ u \in Seq(Symbols) /\ Len(u) = y - x + 1
          /\ \A i \in 1 .. y - x + 1 : u[i] = p[x + i - 1]
      BY <1>0, <2>4, <3>1, SubSeqProperties
    <3>3. \A i \in l .. r : s[i] \in Symbols
      BY <1>0, <2>5
    <3>4. /\ v \in Seq(Symbols) /\ Len(v) = r - l + 1
          /\ \A i \in 1 .. r - l + 1 : v[i] = s[l + i - 1]
      BY SMTT(30), <1>0, <2>5, <3>3, SubSeqProperties
    <3>5. ASSUME NEW i \in 1 .. y - x + 1 PROVE u[i] = v[i]
      <4>1. x + i - 1 \in 1 .. M /\ a + (x + i - 1) = l + i - 1 /\ i \in 1 .. r - l + 1
        BY <1>0, <2>4
      <4> HIDE DEF u, v, l, r
      <4> QED
        BY <1>1, <3>2, <3>4, <4>1
    <3>6. y - x + 1 = r - l + 1
      BY <1>0, <2>4
    <3> HIDE DEF u, v, l, r
    <3>7. u = v
      BY <3>2, <3>4, <3>5, <3>6, SeqEqual
    <3> QED
      BY <3>7 DEF u, v
  <2>10. Stmt(s, a, b) = SubSeq(s, l, r)
    BY <1>2, <1>4, <2>9 DEF kept, x, y
  <2> HIDE DEF l, r
  <2> QED
    BY <2>5, <2>8, <2>10
<1> QED
  BY <1>3, <1>4

\* No cut lies between the cuts, or ends of a text of N symbols, a and b.
Adjacent(N, cuts, a, b) ==
    /\ a \in {0} \cup cuts /\ b \in cuts \cup {N + 1} /\ a < b
    /\ \A k \in cuts : ~ (a < k /\ k < b)

\* Pieces are the statements between neighbouring cuts, the empty ones left out.
LEMMA PiecesAre ==
    ASSUME NEW s \in Seq(Symbols), NEW cuts \in SUBSET (1 .. Len(s))
    PROVE  /\ \A stmt \in Range(Pieces(s, cuts)) :
                 \E a, b : Adjacent(Len(s), cuts, a, b) /\ stmt = Stmt(s, a, b)
           /\ \A a, b : Adjacent(Len(s), cuts, a, b) /\ Stmt(s, a, b) # << >>
                 => Stmt(s, a, b) \in Range(Pieces(s, cuts))
<1> DEFINE N == Len(s)
           D == {0, N + 1} \cup cuts
           bounds == InOrder(D)
           m == Len(bounds)
           piece(n) == TrimSpace(SubSeq(s, bounds[n] + 1, bounds[n + 1] - 1))
           K == {n \in 1 .. m - 1 : piece(n) # << >>}
           kept == InOrder(K)
<1>0. N \in Nat /\ \A k \in cuts : k \in Nat /\ 1 <= k /\ k <= N
  OBVIOUS
<1>1. D \in SUBSET Nat /\ IsFiniteSet(D)
  <2>1. D \in SUBSET (0 .. N + 1)
    <3> HIDE DEF N
    <3>1. /\ 0 \in 0 .. N + 1 /\ N + 1 \in 0 .. N + 1
          /\ \A k \in cuts : k \in 0 .. N + 1
      BY <1>0
    <3> QED
      BY <3>1
  <2>2. IsFiniteSet(0 .. N + 1)
    BY <1>0, FS_Interval
  <2> HIDE DEF D
  <2>3. IsFiniteSet(D)
    BY <2>1, <2>2, FS_Subset
  <2> QED
    BY <1>0, <2>1, <2>3
<1>2. \A i, k \in D : i < k => Rank(D, i) < Rank(D, k)
  <2> HIDE DEF D
  <2> QED
    BY <1>1, RankIs
<1>3. /\ m \in Nat
      /\ \A n \in 1 .. m : bounds[n] \in D /\ Rank(D, bounds[n]) = n
      /\ \A i \in D : Rank(D, i) \in 1 .. m /\ bounds[Rank(D, i)] = i
  <2> HIDE DEF D
  <2> QED
    BY <1>1, InOrderIs
<1>4. Pieces(s, cuts) = [n \in 1 .. Len(kept) |-> piece(kept[n])]
  BY DEF Pieces
<1>5. \A i \in D : i \in Nat /\ i <= N + 1 /\ (i = 0 \/ i = N + 1 \/ i \in cuts)
  BY <1>0
<1>6. 0 \in D /\ N + 1 \in D /\ cuts \subseteq D
  OBVIOUS
<1> HIDE DEF m, bounds, D
<1>7. K \in SUBSET Nat /\ IsFiniteSet(K)
  <2>1. K \in SUBSET (1 .. m - 1)
    OBVIOUS
  <2>2. IsFiniteSet(1 .. m - 1)
    BY <1>3, FS_Interval
  <2> HIDE DEF K
  <2>3. IsFiniteSet(K)
    BY <2>1, <2>2, FS_Subset
  <2> QED
    BY <1>3, <2>1, <2>3
<1>8. /\ \A n \in 1 .. Len(kept) : kept[n] \in K
      /\ \A i \in K : Rank(K, i) \in 1 .. Len(kept) /\ kept[Rank(K, i)] = i
  <2> HIDE DEF K
  <2> QED
    BY <1>7, InOrderIs
<1> HIDE DEF kept
<1>9. Range(Pieces(s, cuts)) = {piece(kept[n]) : n \in 1 .. Len(kept)}
  <2> HIDE DEF piece
  <2> QED
    BY <1>4 DEF Range
<1>10. ASSUME NEW n \in 1 .. m - 1
       PROVE  /\ Adjacent(N, cuts, bounds[n], bounds[n + 1])
              /\ piece(n) = Stmt(s, bounds[n], bounds[n + 1])
  <2> DEFINE a == bounds[n]
             b == bounds[n + 1]
  <2>1. n \in 1 .. m /\ n + 1 \in 1 .. m /\ n \in Nat
    BY <1>3
  <2>2. a \in D /\ b \in D /\ Rank(D, a) = n /\ Rank(D, b) = n + 1
    BY <1>3, <2>1
  <2>3. a \in Nat /\ b \in Nat /\ a <= N + 1 /\ b <= N + 1
    BY <1>5, <2>2
  <2> HIDE DEF a, b, N
  <2>4. a < b
    <3>1. ~ (b < a) /\ a # b
      BY <1>2, <2>1, <2>2
    <3> QED
      BY <2>3, <3>1
  <2>5. a \in {0} \cup cuts /\ b \in cuts \cup {N + 1}
    BY <1>0, <1>5, <2>2, <2>3, <2>4 DEF N
  <2>6. ASSUME NEW k \in cuts, a < k, k < b PROVE FALSE
    <3>1. k \in D /\ Rank(D, k) \in 1 .. m
      BY <1>3, <1>6
    <3>2. n < Rank(D, k) /\ Rank(D, k) < n + 1
      BY <1>2, <2>2, <2>6, <3>1
    <3> QED
      BY <2>1, <3>1, <3>2, <1>3
  <2> QED
    BY <2>4, <2>5, <2>6 DEF Adjacent, a, b, Stmt
<1>11. ASSUME NEW a, NEW b, Adjacent(N, cuts, a, b)
       PROVE  \E n \in 1 .. m - 1 : bounds[n] = a /\ bounds[n + 1] = b
  <2> DEFINE n == Rank(D, a)
             c == bounds[n + 1]
  <2>1. a \in D /\ b \in D /\ a < b /\ \A k \in cuts : ~ (a < k /\ k < b)
    BY <1>11, <1>6 DEF Adjacent
  <2>2. n \in 1 .. m /\ bounds[n] = a /\ Rank(D, b) \in 1 .. m /\ n < Rank(D, b)
    BY <1>2, <1>3, <2>1
  <2> HIDE DEF n
  <2>3. n + 1 \in 1 .. m /\ n \in 1 .. m - 1
    BY <1>3, <2>2
  <2>4. c \in D /\ Rank(D, c) = n + 1
    BY <1>3, <2>3
  <2> HIDE DEF c, N
  <2>5. a \in Nat /\ b \in Nat /\ c \in Nat /\ n \in Nat
    BY <1>3, <1>5, <2>1, <2>3, <2>4
  <2>6. a < c
    <3>1. ~ (c < a) /\ c # a
      BY <1>2, <2>1, <2>2, <2>4, <2>5 DEF n
    <3> QED
      BY <2>5, <3>1
  <2>7. ~ (b < c)
    <3>1. SUFFICES ASSUME b < c PROVE FALSE
      OBVIOUS
    <3>2. Rank(D, b) < n + 1
      BY <1>2, <2>1, <2>4, <3>1
    <3> QED
      BY <1>3, <2>2, <2>5, <3>2
  <2>8. ~ (c < b)
    <3>1. SUFFICES ASSUME c < b PROVE FALSE
      OBVIOUS
    <3>2. c # 0 /\ c # N + 1
      BY <1>5, <2>1, <2>4, <2>5, <2>6, <3>1
    <3> QED
      BY <1>5, <2>1, <2>4, <2>6, <3>1, <3>2
  <2>9. c = b
    BY <2>5, <2>7, <2>8
  <2> QED
    BY <2>2, <2>3, <2>9 DEF c
<1>12. ASSUME NEW stmt \in Range(Pieces(s, cuts))
       PROVE  \E a, b : Adjacent(N, cuts, a, b) /\ stmt = Stmt(s, a, b)
  <2>1. PICK n \in 1 .. Len(kept) : stmt = piece(kept[n])
    <3> HIDE DEF piece
    <3> QED
      BY <1>9
  <2>2. kept[n] \in 1 .. m - 1
    BY <1>8
  <2> HIDE DEF piece, N
  <2> QED
    BY <1>10, <2>1, <2>2
<1>13. ASSUME NEW a, NEW b, Adjacent(N, cuts, a, b), Stmt(s, a, b) # << >>
       PROVE  Stmt(s, a, b) \in Range(Pieces(s, cuts))
  <2>1. PICK n \in 1 .. m - 1 : bounds[n] = a /\ bounds[n + 1] = b
    BY <1>11, <1>13
  <2>2. piece(n) = Stmt(s, a, b)
    BY <1>10, <2>1
  <2>3. n \in K
    BY <1>13, <2>2
  <2> HIDE DEF piece, K
  <2>4. Rank(K, n) \in 1 .. Len(kept) /\ kept[Rank(K, n)] = n
    BY <1>8, <2>3
  <2> QED
    BY <1>9, <2>2, <2>4
<1> QED
  BY <1>12, <1>13

-----------------------------------------------------------------------------
(* A text and a part of it that is cut out. *)

\* p stands in s after position off, and nothing reaches into it from before.
Window(p, s, off) ==
    /\ off + Len(p) <= Len(s)
    /\ \A k \in 1 .. Len(p) : s[off + k] = p[k]
    /\ off > 0 => s[off] \in {"semicolon", "space", "eol"}

\* The automaton in s and in p, in the same construct.
Same(x, y, off) ==
    /\ x.mode = y.mode /\ x.depth = y.depth /\ x.tag = y.tag /\ x.reopens = y.reopens
    /\ x.start = y.start + off /\ x.mark = y.mark + off

\* The automaton in p has met no construct yet, and the one in s none since before p.
Untouched(p, x, y, off, k) ==
    /\ y = Code(0) /\ x.mode = "code" /\ x.mark <= off
    /\ k = 0 /\ Len(p) > 0 /\ p[1] \in Quotes /\ x.mark = off
         => x.reopens \notin QuoteModes[p[1]]

Sim(p, x, y, off, k) == Same(x, y, off) \/ Untouched(p, x, y, off, k)

\* What FromCode tells apart.
PairIs(s, q, i, x, y) == i - 1 > q.mark /\ s[i - 1] = x /\ s[i] = y
Reopens(s, q, i)      == s[i] \in Quotes /\ i - 1 = q.mark /\ q.reopens \in QuoteModes[s[i]]
Escapes(s, q, i)      == PairIs(s, q, i, "e", "quote") /\ StartsToken(s, i - 1)
TagsAt(s, q, i)       == TagStarts(s, q.mark, i)
Tagged(s, q, i)       == s[i] = "dollar" /\ TagsAt(s, q, i) # {}

\* The automaton in code, by what it reads.
LEMMA FromCodeIs ==
    ASSUME NEW s \in Seq(Symbols), NEW i \in 1 .. Len(s), NEW q \in LexState
    PROVE  /\ PairIs(s, q, i, "dash", "dash")  => FromCode(s, q, i) = Enter("line", i - 1, i)
           /\ PairIs(s, q, i, "slash", "star") => FromCode(s, q, i) = Enter("block", i - 1, i)
           /\ Reopens(s, q, i) => FromCode(s, q, i) = Enter(q.reopens, i, i)
           /\ Escapes(s, q, i) => FromCode(s, q, i) = Enter("escape", i - 1, i)
           /\ s[i] \in Quotes /\ ~ Reopens(s, q, i) /\ ~ Escapes(s, q, i)
                => FromCode(s, q, i) = Enter(IF s[i] = "quote" THEN "single" ELSE "ident", i, i)
           /\ Tagged(s, q, i)
                => FromCode(s, q, i) =
                     [Enter("dollar", Min(TagsAt(s, q, i)), i)
                         EXCEPT !.tag = SubSeq(s, Min(TagsAt(s, q, i)), i)]
           /\ ~ \/ PairIs(s, q, i, "dash", "dash") \/ PairIs(s, q, i, "slash", "star")
                \/ s[i] \in Quotes \/ Tagged(s, q, i)
                => FromCode(s, q, i) = q
<1> DEFINE b == s[i]
           pair == IF i - 1 > q.mark THEN <<s[i - 1], b>> ELSE <<"none", b>>
           tags == TagStarts(s, q.mark, i)
           c1 == pair = <<"dash", "dash">>
           c2 == pair = <<"slash", "star">>
           c3 == b \in Quotes /\ i - 1 = q.mark /\ q.reopens \in QuoteModes[b]
           c4 == pair = <<"e", "quote">> /\ StartsToken(s, i - 1)
           c5 == b \in Quotes /\ ~ c3 /\ ~ c4
           c6 == b = "dollar" /\ tags # {}
           f1 == Enter("line", i - 1, i)
           f2 == Enter("block", i - 1, i)
           f3 == Enter(q.reopens, i, i)
           f4 == Enter("escape", i - 1, i)
           f5 == Enter(IF b = "quote" THEN "single" ELSE "ident", i, i)
           f6 == [Enter("dollar", Min(tags), i) EXCEPT !.tag = SubSeq(s, Min(tags), i)]
<1>1. FromCode(s, q, i) =
        CASE c1 -> f1 [] c2 -> f2 [] c3 -> f3 [] c4 -> f4 [] c5 -> f5 [] c6 -> f6 [] OTHER -> q
  BY DEF FromCode
<1>2. /\ c1 <=> PairIs(s, q, i, "dash", "dash")
      /\ c2 <=> PairIs(s, q, i, "slash", "star")
      /\ c3 <=> Reopens(s, q, i)
      /\ c4 <=> Escapes(s, q, i)
  BY DEF PairIs, Reopens, Escapes
<1>3. /\ c1 => b = "dash"
      /\ c2 => b = "star"
      /\ c4 => b = "quote" /\ i - 1 > q.mark
  OBVIOUS
<1>4. b \in Quotes <=> b = "quote" \/ b = "dquote"
  BY QuotesAre
<1>5. q.mark \in Nat /\ i \in Nat
  BY DEF LexState
<1>6. c4 => b \in Quotes /\ ~ c3
  BY <1>3, <1>4, <1>5
<1>7. (c1 \/ c2 \/ c6) => b \notin Quotes
  BY <1>3, <1>4
<1> HIDE DEF f1, f2, f3, f4, f5, f6
<1>8. c3 => b \in Quotes
  OBVIOUS
<1>9. c5 <=> b \in Quotes /\ ~ c3 /\ ~ c4
  OBVIOUS
<1>10. (c1 => ~ c2 /\ ~ c6) /\ (c2 => ~ c6)
  BY <1>3
<1> HIDE DEF c1, c2, c3, c4, c5, c6
<1>11. /\ c1 => FromCode(s, q, i) = f1
       /\ c2 => FromCode(s, q, i) = f2
       /\ c3 => FromCode(s, q, i) = f3
       /\ c4 => FromCode(s, q, i) = f4
       /\ c5 => FromCode(s, q, i) = f5
       /\ c6 => FromCode(s, q, i) = f6
       /\ ~ (c1 \/ c2 \/ b \in Quotes \/ c6) => FromCode(s, q, i) = q
  BY <1>1, <1>6, <1>7, <1>8, <1>9, <1>10
<1>12. /\ PairIs(s, q, i, "dash", "dash")  => FromCode(s, q, i) = f1
       /\ PairIs(s, q, i, "slash", "star") => FromCode(s, q, i) = f2
       /\ Reopens(s, q, i) => FromCode(s, q, i) = f3
       /\ Escapes(s, q, i) => FromCode(s, q, i) = f4
       /\ b \in Quotes /\ ~ Reopens(s, q, i) /\ ~ Escapes(s, q, i) => FromCode(s, q, i) = f5
       /\ c6 => FromCode(s, q, i) = f6
       /\ ~ \/ PairIs(s, q, i, "dash", "dash") \/ PairIs(s, q, i, "slash", "star")
            \/ b \in Quotes \/ c6
            => FromCode(s, q, i) = q
  <2> HIDE DEF b
  <2> QED
    BY <1>2, <1>9, <1>11
<1>13. (c6 <=> Tagged(s, q, i)) /\ tags = TagsAt(s, q, i)
  BY DEF c6, Tagged, TagsAt
<1> HIDE DEF tags
<1> QED
  BY <1>12, <1>13 DEF f1, f2, f3, f4, f5, f6

\* What Enter, Code and Nested build moves with the text.
LEMMA BuiltMoved ==
    ASSUME NEW off \in Nat, NEW i \in Nat, NEW from \in Nat
    PROVE  /\ \A mode \in LexModes : Same(Enter(mode, off + from, off + i), Enter(mode, from, i), off)
           /\ Same(Code(off + i), Code(i), off)
           /\ \A mode \in LexModes : Same([Code(off + i) EXCEPT !.reopens = mode],
                                          [Code(i) EXCEPT !.reopens = mode], off)
           /\ \A t \in Seq(Symbols) : Same([Enter("dollar", off + from, off + i) EXCEPT !.tag = t],
                                           [Enter("dollar", from, i) EXCEPT !.tag = t], off)
<1> USE DEF Enter, Code, Same
<1>1. \A mode \in LexModes : Same(Enter(mode, off + from, off + i), Enter(mode, from, i), off)
  OBVIOUS
<1>2. Same(Code(off + i), Code(i), off)
  OBVIOUS
<1>3. \A mode \in LexModes : Same([Code(off + i) EXCEPT !.reopens = mode],
                                  [Code(i) EXCEPT !.reopens = mode], off)
  OBVIOUS
<1>4. \A t \in Seq(Symbols) : Same([Enter("dollar", off + from, off + i) EXCEPT !.tag = t],
                                   [Enter("dollar", from, i) EXCEPT !.tag = t], off)
  OBVIOUS
<1> QED
  BY <1>1, <1>2, <1>3, <1>4

\* The least element moves with the set.
LEMMA MinMoved ==
    ASSUME NEW T \in SUBSET Nat, T # {}, NEW off \in Nat
    PROVE  Min(Moved(T, off)) = off + Min(T)
<1> DEFINE U == Moved(T, off)
           m == Min(T)
           n == Min(U)
<1>1. m \in T /\ \A t \in T : m <= t
  BY MinOf
<1>2. U \in SUBSET Nat /\ U # {}
  <2>1. \A i \in T : i + off \in Nat
    OBVIOUS
  <2> QED
    BY <2>1 DEF Moved
<1>3. n \in U /\ \A u \in U : n <= u
  <2> HIDE DEF U
  <2> QED
    BY <1>2, MinOf
<1> HIDE DEF m, n
<1>4. m + off \in U
  BY <1>1 DEF Moved
<1>5. PICK t \in T : n = t + off
  BY <1>3 DEF Moved
<1>6. m \in Nat /\ t \in Nat /\ n <= m + off /\ m <= t
  BY <1>1, <1>3, <1>4, <1>5
<1> QED
  BY <1>5, <1>6 DEF m, n

\* What a cut-out text shares with the text it is cut out of.
LEMMA WindowShares ==
    ASSUME NEW s \in Seq(Symbols), NEW p \in Seq(Symbols), NEW off \in Nat, Window(p, s, off)
    PROVE  /\ \A k \in 1 .. Len(p) : off + k \in 1 .. Len(s) /\ s[off + k] = p[k]
           /\ off > 0 => s[off] \notin WordSymbols \cup {"dollar", "dash", "slash"}
           /\ \A k \in 1 .. Len(p) : StartsToken(s, off + k) <=> StartsToken(p, k)
           /\ \A m, n \in 1 .. Len(p) : m <= n => SubSeq(s, off + m, off + n) = SubSeq(p, m, n)
<1>0. Len(p) \in Nat /\ Len(s) \in Nat
  OBVIOUS
<1>1. \A k \in 1 .. Len(p) : off + k \in 1 .. Len(s) /\ s[off + k] = p[k]
  BY <1>0 DEF Window
<1>2. {"semicolon", "space", "eol"} \cap (WordSymbols \cup {"dollar", "dash", "slash"}) = {}
  BY DEF WordSymbols, ReadKeywords, ExplainOptions, WriteKeywords, ControlKeywords
<1>3. off > 0 => s[off] \notin WordSymbols \cup {"dollar", "dash", "slash"}
  BY <1>2 DEF Window
<1>4. ASSUME NEW k \in 1 .. Len(p) PROVE StartsToken(s, off + k) <=> StartsToken(p, k)
  <2>1. CASE k = 1
    <3>1. StartsToken(p, k)
      BY <2>1 DEF StartsToken
    <3>2. (off + k) - 1 = off
      BY <2>1
    <3>3. StartsToken(s, off + k)
      BY <1>3, <2>1, <3>2 DEF StartsToken
    <3> QED
      BY <3>1, <3>3
  <2>2. CASE k # 1
    <3>1. k - 1 \in 1 .. Len(p) /\ off + (k - 1) = (off + k) - 1 /\ off + k # 1
      BY <1>0, <2>2
    <3>2. s[(off + k) - 1] = p[k - 1]
      BY <1>1, <3>1
    <3> QED
      BY <2>2, <3>1, <3>2 DEF StartsToken
  <2> QED
    BY <2>1, <2>2
<1>5. ASSUME NEW m \in 1 .. Len(p), NEW n \in 1 .. Len(p), m <= n
      PROVE  SubSeq(s, off + m, off + n) = SubSeq(p, m, n)
  <2> DEFINE u == SubSeq(s, off + m, off + n)
             v == SubSeq(p, m, n)
  <2>1. m \in Nat /\ n \in Nat /\ off + m \in Nat /\ off + n \in Nat
        /\ (off + n) - (off + m) + 1 = n - m + 1
    OBVIOUS
  <2>2. \A i \in off + m .. off + n : s[i] \in Symbols
    <3>1. \A i \in off + m .. off + n : i \in 1 .. Len(s)
      BY <1>0, <1>1, <2>1
    <3> QED
      BY <3>1
  <2>3. /\ u \in Seq(Symbols) /\ Len(u) = n - m + 1
        /\ \A i \in 1 .. n - m + 1 : u[i] = s[(off + m) + i - 1]
    BY <1>5, <2>1, <2>2, SubSeqProperties
  <2>4. \A i \in m .. n : p[i] \in Symbols
    BY <1>0, <2>1
  <2>5. /\ v \in Seq(Symbols) /\ Len(v) = n - m + 1
        /\ \A i \in 1 .. n - m + 1 : v[i] = p[m + i - 1]
    BY <1>5, <2>1, <2>4, SubSeqProperties
  <2>6. ASSUME NEW i \in 1 .. n - m + 1 PROVE u[i] = v[i]
    <3>1. m + i - 1 \in 1 .. Len(p) /\ (off + m) + i - 1 = off + (m + i - 1)
      BY <1>0, <2>1
    <3> HIDE DEF u, v
    <3> QED
      BY <1>1, <2>3, <2>5, <3>1
  <2> HIDE DEF u, v
  <2>7. u = v
    BY <2>3, <2>5, <2>6, SeqEqual
  <2> QED
    BY <2>7 DEF u, v
<1> QED
  BY <1>1, <1>3, <1>4, <1>5

\* In code the automaton takes the same turn in s and in p.
LEMMA SimCode ==
    ASSUME NEW s \in Seq(Symbols), NEW p \in Seq(Symbols), NEW off \in Nat, Window(p, s, off),
           NEW k \in 1 .. Len(p), NEW x \in LexState, NEW y \in LexState,
           x.mode = "code", Sim(p, x, y, off, k - 1)
    PROVE  Sim(p, FromCode(s, x, off + k), FromCode(p, y, k), off, k)
<1> DEFINE i == off + k
<1>0. /\ k \in Nat /\ i \in 1 .. Len(s) /\ i \in Nat /\ s[i] = p[k]
      /\ x.mark \in Nat /\ y.mark \in Nat /\ x.start \in Nat /\ y.start \in Nat
      /\ Len(p) \in Nat /\ Len(s) \in Nat
  BY WindowShares DEF LexState
<1>0a. i = off + k /\ k <= Len(p) /\ k >= 1 /\ k \in Nat /\ Len(p) \in Nat /\ off \in Nat
  BY <1>0
<1> HIDE DEF i
<1>1. k > 1 => k - 1 \in 1 .. Len(p) /\ off + (k - 1) = i - 1 /\ s[i - 1] = p[k - 1]
  <2>1. k > 1 => k - 1 \in 1 .. Len(p) /\ off + (k - 1) = i - 1
    BY <1>0a
  <2>2. k > 1 => s[off + (k - 1)] = p[k - 1]
    BY SMTT(30), <2>1, WindowShares
  <2> QED
    BY <2>1, <2>2
<1>2. ASSUME Untouched(p, x, y, off, k - 1)
      PROVE  /\ y.mark = 0 /\ y.reopens = "none" /\ x.mark <= off
             /\ k = 1 /\ p[1] \in Quotes /\ x.mark = off => x.reopens \notin QuoteModes[p[1]]
  <2>1. y = Code(0) /\ Code(0).mark = 0 /\ Code(0).reopens = "none"
    BY <1>2, CodeIs DEF Untouched
  <2>2. k = 1 => k - 1 = 0 /\ Len(p) > 0
    BY <1>0, <1>0a
  <2> QED
    BY <1>2, <2>1, <2>2 DEF Untouched
<1>3. Same(x, y, off) => x.mark = y.mark + off /\ x.reopens = y.reopens
  BY DEF Same
<1>4. \/ x.mark = y.mark + off /\ x.reopens = y.reopens
      \/ /\ y.mark = 0 /\ y.reopens = "none" /\ x.mark <= off
         /\ k = 1 /\ p[1] \in Quotes /\ x.mark = off => x.reopens \notin QuoteModes[p[1]]
  BY <1>2, <1>3 DEF Sim
<1>4a. x.mark = y.mark + off \/ (y.mark = 0 /\ x.mark <= off)
  BY <1>4
<1>4b. k > 1 => (i - 1 > x.mark <=> k - 1 > y.mark)
  <2> DEFINE u == x.mark
             v == y.mark
  <2>1. u \in Nat /\ v \in Nat /\ (u = v + off \/ (v = 0 /\ u <= off))
    BY <1>0, <1>0a, <1>4a
  <2> HIDE DEF u, v
  <2>2. k > 1 => (i - 1 > u <=> k - 1 > v)
    BY <1>0a, <2>1
  <2> QED
    BY <2>2 DEF u, v
<1>5. ASSUME NEW a \in {"dash", "slash", "e"}, NEW b
      PROVE  PairIs(s, x, i, a, b) <=> PairIs(p, y, k, a, b)
  <2>1. CASE k = 1
    <3>1. i - 1 = off /\ ~ (k - 1 > y.mark)
      <4> DEFINE v == y.mark
      <4>1. v \in Nat
        BY <1>0
      <4> HIDE DEF v
      <4>2. i - 1 = off /\ ~ (k - 1 > v)
        BY <1>0a, <2>1, <4>1
      <4> QED
        BY <4>2 DEF v
    <3>2. "e" \in WordSymbols
      BY DEF WordSymbols
    <3>3. off > 0 => s[off] # a
      BY <3>2, WindowShares
    <3> QED
      BY <1>0, <1>0a, <1>4, <3>1, <3>3 DEF PairIs
  <2>2. CASE k > 1
    <3> QED
      BY <1>0, <1>0a, <1>1, <1>4b, <2>2 DEF PairIs
  <2> QED
    BY <1>0, <1>0a, <2>1, <2>2
<1>6. Reopens(s, x, i) <=> Reopens(p, y, k)
  <2>1. "none" \notin QuoteModes["quote"] /\ "none" \notin QuoteModes["dquote"]
    BY QuotesAre
  <2>2. CASE x.mark = y.mark + off /\ x.reopens = y.reopens
    <3>1. i - 1 = x.mark <=> k - 1 = y.mark
      <4> DEFINE u == x.mark
                 v == y.mark
      <4>1. u \in Nat /\ v \in Nat /\ u = v + off
        BY <1>0, <1>0a, <2>2
      <4> HIDE DEF u, v
      <4>2. i - 1 = u <=> k - 1 = v
        BY <1>0a, <4>1
      <4> QED
        BY <4>2 DEF u, v
    <3> QED
      BY <1>0, <1>0a, <2>2, <3>1 DEF Reopens
  <2>3. CASE /\ y.mark = 0 /\ y.reopens = "none" /\ x.mark <= off
             /\ k = 1 /\ p[1] \in Quotes /\ x.mark = off => x.reopens \notin QuoteModes[p[1]]
    <3>1. ~ Reopens(p, y, k)
      BY <2>1, <2>3, QuotesAre DEF Reopens
    <3>2. i - 1 = x.mark => k = 1 /\ x.mark = off
      BY <1>0, <1>0a, <2>3
    <3>3. ~ Reopens(s, x, i)
      BY <1>0, <1>0a, <2>3, <3>2 DEF Reopens
    <3> QED
      BY <3>1, <3>3
  <2> QED
    BY <1>4, <2>2, <2>3
<1>7. Escapes(s, x, i) <=> Escapes(p, y, k)
  <2>1. PairIs(s, x, i, "e", "quote") <=> PairIs(p, y, k, "e", "quote")
    BY <1>5
  <2>2. PairIs(p, y, k, "e", "quote") => k > 1
    BY <1>0, <1>0a DEF PairIs
  <2>3. k > 1 => (StartsToken(s, off + (k - 1)) <=> StartsToken(p, k - 1))
    BY <1>1, WindowShares
  <2> QED
    BY <1>1, <2>1, <2>2, <2>3 DEF Escapes
<1> DEFINE S == TagsAt(s, x, i)
           T == TagsAt(p, y, k)
<1>8. T \in SUBSET (1 .. k - 1)
  BY <1>0, <1>0a DEF TagsAt, TagStarts
<1>9. \A o \in 1 .. k - 1 : o \in T <=>
         /\ o > y.mark /\ p[o] = "dollar" /\ StartsToken(p, o)
         /\ \A j \in o + 1 .. k - 1 : p[j] \in WordSymbols
         /\ o + 1 < k => p[o + 1] # "1"
  BY SMTT(30), <1>0, <1>0a DEF TagsAt, TagStarts
<1>10. \A o \in 1 .. i - 1 : o \in S <=>
         /\ o > x.mark /\ s[o] = "dollar" /\ StartsToken(s, o)
         /\ \A j \in o + 1 .. i - 1 : s[j] \in WordSymbols
         /\ o + 1 < i => s[o + 1] # "1"
  BY SMTT(30), <1>0, <1>0a DEF TagsAt, TagStarts
<1>11. S \in SUBSET (1 .. i - 1)
  BY <1>0, <1>0a DEF TagsAt, TagStarts
<1> HIDE DEF S, T
<1>12. ASSUME NEW o \in S PROVE o > off
  <2>1. SUFFICES ASSUME o <= off PROVE FALSE
    BY <1>0, <1>0a, <1>11
  <2>2. o \in 1 .. i - 1 /\ off > 0 /\ off \in o .. i - 1
    BY <1>0, <1>0a, <1>11, <2>1
  <2>3. s[off] \notin WordSymbols /\ s[off] # "dollar"
    BY <2>2, WindowShares
  <2>4. off # o
    BY <1>10, <2>2, <2>3
  <2>5. off \in o + 1 .. i - 1
    BY <1>0, <1>0a, <2>2, <2>4
  <2> QED
    BY <1>10, <2>2, <2>3, <2>5
<1>13. ASSUME NEW o \in 1 .. k - 1 PROVE o \in T <=> o + off \in S
  <2>1. o + off \in 1 .. i - 1 /\ o \in 1 .. Len(p) /\ o + off = off + o /\ o \in Nat
    BY <1>0a
  <2>2. o > y.mark <=> o + off > x.mark
    <3> DEFINE u == x.mark
               v == y.mark
    <3>1. u \in Nat /\ v \in Nat /\ (u = v + off \/ (v = 0 /\ u <= off))
      BY <1>0, <1>4a
    <3> HIDE DEF u, v
    <3>2. o > v <=> o + off > u
      BY <1>0a, <3>1
    <3> QED
      BY <3>2 DEF u, v
  <2>3. s[o + off] = p[o] /\ (StartsToken(s, o + off) <=> StartsToken(p, o))
    BY <2>1, WindowShares
  <2>4. (\A j \in o + 1 .. k - 1 : p[j] \in WordSymbols)
          <=> \A j \in (o + off) + 1 .. i - 1 : s[j] \in WordSymbols
    <3>1. ASSUME NEW j \in o + 1 .. k - 1
          PROVE  off + j \in (o + off) + 1 .. i - 1 /\ s[off + j] = p[j]
      <4>1. j \in 1 .. Len(p) /\ off + j \in (o + off) + 1 .. i - 1
        BY <1>0a, <2>1
      <4> QED
        BY <4>1, WindowShares
    <3>2. ASSUME NEW j \in (o + off) + 1 .. i - 1
          PROVE  j - off \in o + 1 .. k - 1 /\ s[j] = p[j - off]
      <4>1. j - off \in o + 1 .. k - 1 /\ off + (j - off) = j
        BY <1>0a, <2>1
      <4> QED
        BY <3>1, <4>1
    <3> QED
      BY <3>1, <3>2
  <2>5. (o + 1 < k => p[o + 1] # "1") <=> ((o + off) + 1 < i => s[(o + off) + 1] # "1")
    <3>1. o + 1 < k <=> (o + off) + 1 < i
      BY <1>0, <1>0a
    <3>2. o + 1 < k => o + 1 \in 1 .. Len(p) /\ off + (o + 1) = (o + off) + 1
      BY <1>0a, <2>1
    <3>4. ASSUME o + 1 < k PROVE s[off + (o + 1)] = p[o + 1]
      <4>1. o + 1 \in 1 .. Len(p)
        BY <3>2, <3>4
      <4> QED
        BY SMTT(30), <4>1, WindowShares
    <3>3. o + 1 < k => s[(o + off) + 1] = p[o + 1]
      BY <3>2, <3>4
    <3> QED
      BY <3>1, <3>3
  <2> QED
    BY <1>9, <1>10, <2>1, <2>2, <2>3, <2>4, <2>5
<1>14. S = Moved(T, off)
  <2>1. ASSUME NEW o \in S PROVE o - off \in T /\ o = (o - off) + off
    <3>1. o - off \in 1 .. k - 1 /\ o = (o - off) + off
      BY <1>0, <1>0a, <1>11, <1>12
    <3> QED
      BY <1>13, <3>1
  <2>2. ASSUME NEW o \in T PROVE o + off \in S
    BY <1>8, <1>13
  <2> QED
    BY <2>1, <2>2 DEF Moved
<1>15. ASSUME T # {} PROVE /\ Min(S) = off + Min(T) /\ Min(T) \in 1 .. k - 1
                           /\ SubSeq(s, Min(S), i) = SubSeq(p, Min(T), k)
                           /\ SubSeq(p, Min(T), k) \in Seq(Symbols)
  <2>1. T \in SUBSET Nat
    BY <1>8
  <2>2. Min(S) = off + Min(T) /\ Min(T) \in T
    BY <1>14, <1>15, <2>1, MinMoved, MinOf
  <2> DEFINE n == Min(T)
  <2>3. n \in 1 .. k - 1 /\ n \in 1 .. Len(p) /\ n <= k
    <3> HIDE DEF n
    <3>1. n \in 1 .. k - 1
      BY <1>8, <2>2 DEF n
    <3> QED
      BY <1>0a, <3>1
  <2>4. SubSeq(s, Min(S), i) = SubSeq(p, n, k)
    <3> HIDE DEF n
    <3>1. SubSeq(s, off + n, off + k) = SubSeq(p, n, k)
      BY <2>3, WindowShares
    <3> QED
      BY <1>0a, <2>2, <3>1 DEF n
  <2>5. SubSeq(p, Min(T), k) \in Seq(Symbols)
    BY <2>3
  <2> QED
    BY <2>2, <2>3, <2>4, <2>5
<1>16. Tagged(s, x, i) <=> Tagged(p, y, k)
  <2>1. S # {} <=> T # {}
    BY <1>14 DEF Moved
  <2> QED
    BY <1>0, <1>0a, <2>1 DEF Tagged, S, T
<1> DEFINE X == FromCode(s, x, i)
           Y == FromCode(p, y, k)
<1>17. CASE PairIs(p, y, k, "dash", "dash") \/ PairIs(p, y, k, "slash", "star") \/ Escapes(p, y, k)
  <2>1. k - 1 \in Nat /\ i - 1 = off + (k - 1)
    BY <1>0, <1>0a
  <2>2. \E mode \in LexModes : X = Enter(mode, i - 1, i) /\ Y = Enter(mode, k - 1, k)
    <3>1. "line" \in LexModes /\ "block" \in LexModes /\ "escape" \in LexModes
      BY DEF LexModes
    <3>2. /\ PairIs(s, x, i, "dash", "dash") <=> PairIs(p, y, k, "dash", "dash")
          /\ PairIs(s, x, i, "slash", "star") <=> PairIs(p, y, k, "slash", "star")
      BY <1>5
    <3> HIDE DEF i
    <3> QED
      BY <1>0, <1>0a, <1>7, <1>17, <3>1, <3>2, FromCodeIs
  <2> HIDE DEF X, Y
  <2>3. Same(X, Y, off)
    BY <1>0, <1>0a, <2>1, <2>2, BuiltMoved
  <2> QED
    BY <2>3 DEF Sim, X, Y, i
<1>18. CASE p[k] \in Quotes /\ ~ Escapes(p, y, k)
  <2>1. \E mode \in LexModes : X = Enter(mode, i, i) /\ Y = Enter(mode, k, k)
    <3>1. CASE Reopens(p, y, k)
      <4>1. y.reopens \in LexModes /\ x.reopens = y.reopens
        <5>1. y.reopens # "none" /\ y.reopens \in LexModes
          BY <3>1, QuotesAre DEF Reopens, LexModes
        <5> QED
          BY <1>4, <5>1
      <4> HIDE DEF i
      <4> QED
        BY <1>0, <1>0a, <1>6, <3>1, <4>1, FromCodeIs
    <3>2. CASE ~ Reopens(p, y, k)
      <4> DEFINE mode == IF p[k] = "quote" THEN "single" ELSE "ident"
      <4>1. mode \in LexModes
        BY DEF LexModes
      <4> HIDE DEF i
      <4>2. X = Enter(mode, i, i)
        BY <1>0, <1>0a, <1>6, <1>7, <1>18, <3>2, FromCodeIs
      <4>3. Y = Enter(mode, k, k)
        BY <1>0, <1>0a, <1>18, <3>2, FromCodeIs
      <4> QED
        BY <4>1, <4>2, <4>3
    <3> QED
      BY <3>1, <3>2
  <2> HIDE DEF X, Y
  <2>2. Same(X, Y, off)
    BY <1>0, <1>0a, <2>1, BuiltMoved
  <2> QED
    BY <2>2 DEF Sim, X, Y, i
<1>19. CASE Tagged(p, y, k)
  <2>1. T # {}
    BY <1>19 DEF Tagged, T
  <2> DEFINE n == Min(T)
             t == SubSeq(p, n, k)
  <2>2. n \in Nat /\ Min(S) = off + n /\ SubSeq(s, Min(S), i) = t /\ t \in Seq(Symbols)
    <3>1. n \in 1 .. k - 1 /\ Min(S) = off + n /\ SubSeq(s, Min(S), i) = t /\ t \in Seq(Symbols)
      BY <1>15, <2>1
    <3> HIDE DEF n, t
    <3> QED
      BY <3>1
  <2>3. Y = [Enter("dollar", n, k) EXCEPT !.tag = t]
    BY <1>0, <1>0a, <1>19, FromCodeIs DEF T
  <2>4. X = [Enter("dollar", Min(S), i) EXCEPT !.tag = SubSeq(s, Min(S), i)]
    <3> HIDE DEF i
    <3> QED
      BY ZenonT(30), <1>0, <1>0a, <1>16, <1>19, FromCodeIs DEF S
  <2> HIDE DEF n, t, X, Y
  <2>5. X = [Enter("dollar", off + n, off + k) EXCEPT !.tag = t]
    BY <1>0a, <2>2, <2>4
  <2>6. Same(X, Y, off)
    BY <1>0, <1>0a, <2>2, <2>3, <2>5, BuiltMoved
  <2> QED
    BY <2>6 DEF Sim, X, Y, i
<1>20. CASE ~ \/ PairIs(p, y, k, "dash", "dash") \/ PairIs(p, y, k, "slash", "star")
              \/ p[k] \in Quotes \/ Tagged(p, y, k)
  <2>1. Y = y
    BY <1>0, <1>0a, <1>20, FromCodeIs
  <2>2. /\ PairIs(s, x, i, "dash", "dash") <=> PairIs(p, y, k, "dash", "dash")
        /\ PairIs(s, x, i, "slash", "star") <=> PairIs(p, y, k, "slash", "star")
    BY <1>5
  <2>3. X = x
    <3> HIDE DEF i
    <3> QED
      BY <1>0, <1>0a, <1>16, <1>20, <2>2, FromCodeIs
  <2>4. Untouched(p, x, y, off, k - 1) => Untouched(p, x, y, off, k)
    BY <1>0, <1>0a DEF Untouched
  <2> QED
    BY <2>1, <2>3, <2>4 DEF Sim, i
<1> QED
  BY <1>17, <1>18, <1>19, <1>20

\* A pair of symbols is one in both texts.
LEMMA PairMoved ==
    ASSUME NEW s \in Seq(Symbols), NEW p \in Seq(Symbols), NEW off \in Nat, Window(p, s, off),
           NEW k \in 1 .. Len(p), NEW x \in LexState, NEW y \in LexState, Same(x, y, off)
    PROVE  /\ \A a, b : PairIs(s, x, off + k, a, b) <=> PairIs(p, y, k, a, b)
           /\ x.mark = off + k <=> y.mark = k
<1> DEFINE u == x.mark
           v == y.mark
           i == off + k
<1>1. u \in Nat /\ v \in Nat /\ u = v + off
  BY DEF LexState, Same
<1>2. k \in Nat /\ Len(p) \in Nat /\ k <= Len(p) /\ k >= 1
  OBVIOUS
<1> HIDE DEF u, v
<1>3. i - 1 > u <=> k - 1 > v
  BY <1>1, <1>2
<1>4. u = off + k <=> v = k
  BY <1>1, <1>2
<1>5. s[i] = p[k]
  BY WindowShares
<1>6. k - 1 > v => k - 1 \in 1 .. Len(p) /\ off + (k - 1) = i - 1
  BY <1>1, <1>2
<1>7. k - 1 > v => s[i - 1] = p[k - 1]
  <2>1. ASSUME k - 1 > v PROVE s[off + (k - 1)] = p[k - 1]
    <3>1. k - 1 \in 1 .. Len(p)
      BY <1>6, <2>1
    <3>2. \A j \in 1 .. Len(p) : s[off + j] = p[j]
      BY WindowShares
    <3> QED
      BY <3>1, <3>2
  <2> QED
    BY <1>6, <2>1
<1> QED
  BY <1>3, <1>4, <1>5, <1>7 DEF PairIs, u, v

\* In a block comment both go a level up or down, or stay.
LEMMA SimBlock ==
    ASSUME NEW s \in Seq(Symbols), NEW p \in Seq(Symbols), NEW off \in Nat, Window(p, s, off),
           NEW k \in 1 .. Len(p), NEW x \in LexState, NEW y \in LexState, Same(x, y, off)
    PROVE  Same(FromBlock(s, x, off + k), FromBlock(p, y, k), off)
<1>1. ASSUME NEW t \in Seq(Symbols), NEW q \in LexState, NEW i \in Nat
      PROVE  FromBlock(t, q, i) =
               IF PairIs(t, q, i, "slash", "star") THEN Nested(q, q.depth + 1, i)
               ELSE IF PairIs(t, q, i, "star", "slash")
                    THEN IF q.depth = 1 THEN Code(i) ELSE Nested(q, q.depth - 1, i)
                    ELSE q
  BY DEF FromBlock, PairIs
<1> DEFINE i == off + k
<1>2. i \in Nat /\ k \in Nat
  OBVIOUS
<1>3. /\ PairIs(s, x, i, "slash", "star") <=> PairIs(p, y, k, "slash", "star")
      /\ PairIs(s, x, i, "star", "slash") <=> PairIs(p, y, k, "star", "slash")
  BY PairMoved
<1>4. x.depth = y.depth
  BY DEF Same
<1>5. Same(Code(i), Code(k), off)
  BY <1>2, BuiltMoved
<1>6. ASSUME NEW d PROVE Same(Nested(x, d, i), Nested(y, d, k), off)
  BY <1>2 DEF Same, Nested, LexState
<1> HIDE DEF i
<1>7. FromBlock(s, x, i) =
               IF PairIs(s, x, i, "slash", "star") THEN Nested(x, x.depth + 1, i)
               ELSE IF PairIs(s, x, i, "star", "slash")
                    THEN IF x.depth = 1 THEN Code(i) ELSE Nested(x, x.depth - 1, i)
                    ELSE x
  BY <1>1, <1>2
<1>8. FromBlock(p, y, k) =
               IF PairIs(p, y, k, "slash", "star") THEN Nested(y, y.depth + 1, k)
               ELSE IF PairIs(p, y, k, "star", "slash")
                    THEN IF y.depth = 1 THEN Code(k) ELSE Nested(y, y.depth - 1, k)
                    ELSE y
  BY <1>1, <1>2
<1>9. Same(FromBlock(s, x, i), FromBlock(p, y, k), off)
  BY <1>3, <1>4, <1>5, <1>6, <1>7, <1>8
<1> QED
  BY <1>9 DEF i

\* In a literal both end it, escape a symbol, or stay.
LEMMA SimLiteral ==
    ASSUME NEW s \in Seq(Symbols), NEW p \in Seq(Symbols), NEW off \in Nat, Window(p, s, off),
           NEW k \in 1 .. Len(p), NEW x \in LexState, NEW y \in LexState, Same(x, y, off)
    PROVE  Same(FromLiteral(x, s[off + k], off + k), FromLiteral(y, p[k], k), off)
<1> DEFINE i == off + k
           b == p[k]
           closes(q, j) == b \in Quotes /\ q.mode \in QuoteModes[b] /\ ~ (q.mode = "escape" /\ q.mark = j)
           escapes(q, j) == b = "backslash" /\ q.mode = "escape" /\ ~ (q.mode = "escape" /\ q.mark = j)
<1>1. s[i] = b
  BY WindowShares
<1>2. i \in Nat /\ k \in Nat
  OBVIOUS
<1>3. x.mode = y.mode /\ (x.mark = i <=> y.mark = k)
  BY PairMoved DEF Same
<1>4. (closes(x, i) <=> closes(y, k)) /\ (escapes(x, i) <=> escapes(y, k))
  BY <1>3
<1>5. ASSUME NEW q \in LexState, NEW j \in Nat
      PROVE  FromLiteral(q, b, j) =
               IF closes(q, j) THEN [Code(j) EXCEPT !.reopens = q.mode]
               ELSE IF escapes(q, j) THEN [q EXCEPT !.mark = j + 1] ELSE q
  BY QuotesAre DEF FromLiteral
<1>6. x.mode \in LexModes
  BY DEF LexState
<1>7. Same([Code(i) EXCEPT !.reopens = x.mode], [Code(k) EXCEPT !.reopens = y.mode], off)
  BY <1>2, <1>3, <1>6, BuiltMoved
<1>8. Same([x EXCEPT !.mark = i + 1], [y EXCEPT !.mark = k + 1], off)
  BY <1>2 DEF Same, LexState
<1> HIDE DEF i, b, closes, escapes
<1>9. FromLiteral(x, b, i) =
               IF closes(x, i) THEN [Code(i) EXCEPT !.reopens = x.mode]
               ELSE IF escapes(x, i) THEN [x EXCEPT !.mark = i + 1] ELSE x
  BY <1>2, <1>5
<1>10. FromLiteral(y, b, k) =
               IF closes(y, k) THEN [Code(k) EXCEPT !.reopens = y.mode]
               ELSE IF escapes(y, k) THEN [y EXCEPT !.mark = k + 1] ELSE y
  BY <1>2, <1>5
<1>11. Same(FromLiteral(x, b, i), FromLiteral(y, b, k), off)
  BY <1>4, <1>7, <1>8, <1>9, <1>10
<1> QED
  BY <1>1, <1>11 DEF i, b

\* In a dollar-quoted string both meet its tag, or stay.
LEMMA SimDollar ==
    ASSUME NEW s \in Seq(Symbols), NEW p \in Seq(Symbols), NEW off \in Nat, Window(p, s, off),
           NEW k \in 1 .. Len(p), NEW x \in LexState, NEW y \in LexState, Same(x, y, off)
    PROVE  Same(FromDollar(s, x, off + k), FromDollar(p, y, k), off)
<1> DEFINE i == off + k
           u == x.mark
           v == y.mark
<1>1. u \in Nat /\ v \in Nat /\ u = v + off /\ x.tag = y.tag
  BY DEF LexState, Same
<1>2. k \in Nat /\ Len(p) \in Nat /\ k <= Len(p) /\ k >= 1 /\ k \in 1 .. Len(p)
  OBVIOUS
<1>3. Same(Code(i), Code(k), off)
  BY <1>2, BuiltMoved
<1>4. FromDollar(s, x, i) = IF \E m \in u + 1 .. i : SubSeq(s, m, i) = x.tag THEN Code(i) ELSE x
  BY DEF FromDollar
<1>5. FromDollar(p, y, k) = IF \E m \in v + 1 .. k : SubSeq(p, m, k) = y.tag THEN Code(k) ELSE y
  BY DEF FromDollar
<1> HIDE DEF u, v
<1>6. ASSUME NEW m \in v + 1 .. k
      PROVE  off + m \in u + 1 .. i /\ SubSeq(s, off + m, i) = SubSeq(p, m, k)
  <2>1. m \in 1 .. Len(p) /\ m <= k /\ off + m \in u + 1 .. i
    BY <1>1, <1>2
  <2> QED
    BY <1>2, <2>1, WindowShares
<1>7. ASSUME NEW m \in u + 1 .. i PROVE m - off \in v + 1 .. k /\ m = off + (m - off)
  BY <1>1, <1>2
<1>8. (\E m \in u + 1 .. i : SubSeq(s, m, i) = x.tag) <=> (\E m \in v + 1 .. k : SubSeq(p, m, k) = y.tag)
  <2> HIDE DEF i
  <2>1. ASSUME NEW m \in u + 1 .. i, SubSeq(s, m, i) = x.tag
        PROVE  \E n \in v + 1 .. k : SubSeq(p, n, k) = y.tag
    <3> DEFINE n == m - off
    <3>1. n \in v + 1 .. k /\ m = off + n
      BY <1>7
    <3> HIDE DEF n
    <3>2. SubSeq(s, off + n, i) = SubSeq(p, n, k)
      BY <1>6, <3>1
    <3> QED
      BY <1>1, <2>1, <3>1, <3>2
  <2>2. ASSUME NEW n \in v + 1 .. k, SubSeq(p, n, k) = y.tag
        PROVE  \E m \in u + 1 .. i : SubSeq(s, m, i) = x.tag
    BY <1>1, <1>6, <2>2
  <2> QED
    BY <2>1, <2>2
<1>9. Same(FromDollar(s, x, i), FromDollar(p, y, k), off)
  BY <1>3, <1>4, <1>5, <1>8
<1> QED
  BY <1>9

\* The automaton does in p what it does in s.
LEMMA SimHolds ==
    ASSUME NEW s \in Seq(Symbols), NEW p \in Seq(Symbols), NEW off \in Nat, Window(p, s, off),
           off < Len(s), Len(p) > 0, Fresh(s, off + 1), NEW k \in 0 .. Len(p)
    PROVE  Sim(p, Lex(s)[off + k], Lex(p)[k], off, k)
<1> DEFINE M == Len(p)
           U == {n \in Nat : n <= M => Sim(p, Lex(s)[off + n], Lex(p)[n], off, n)}
<1>0. M \in Nat /\ Len(s) \in Nat /\ off + M <= Len(s)
  BY DEF Window
<1>1. 0 \in U
  <2>1. Lex(p)[0] = Code(0)
    BY LexDef
  <2>2. (off + 1) - 1 = off /\ off + 0 = off /\ off + 1 <= Len(s) /\ 1 \in 1 .. Len(p)
    BY <1>0
  <2>3. s[off + 1] = p[1]
    BY <2>2, WindowShares
  <2>4. Untouched(p, Lex(s)[off], Lex(p)[0], off, 0)
    BY <2>1, <2>2, <2>3 DEF Fresh, Untouched
  <2> QED
    BY <2>2, <2>4 DEF Sim
<1>2. ASSUME NEW n \in Nat, n \in U PROVE n + 1 \in U
  <2>0. SUFFICES ASSUME n + 1 <= M PROVE Sim(p, Lex(s)[off + (n + 1)], Lex(p)[n + 1], off, n + 1)
    OBVIOUS
  <2> DEFINE j == n + 1
             x == Lex(s)[off + n]
             y == Lex(p)[n]
  <2>1. /\ j \in 1 .. M /\ j - 1 = n /\ n \in 0 .. M
        /\ off + j \in 1 .. Len(s) /\ (off + j) - 1 = off + n /\ off + n \in 0 .. Len(s)
    BY <1>0, <2>0
  <2>2. x \in LexState /\ y \in LexState
    BY <2>1, LexDef
  <2>3. Lex(s)[off + j] = After(s, x, off + j)
    BY <2>1, LexDef
  <2>4. Lex(p)[j] = After(p, y, j)
    BY <2>1, LexDef
  <2>5. Sim(p, x, y, off, j - 1)
    BY <1>2, <2>1
  <2>6. s[off + j] = p[j]
    BY <2>1, WindowShares
  <2>7. x.mode = y.mode /\ (x.mode # "code" => Same(x, y, off))
    <3>1. Code(0).mode = "code"
      BY CodeIs
    <3> HIDE DEF x, y
    <3> QED
      BY <2>5, <3>1 DEF Sim, Same, Untouched
  <2> HIDE DEF x, y, j
  <2>8. CASE x.mode = "code"
    <3>1. Sim(p, FromCode(s, x, off + j), FromCode(p, y, j), off, j)
      BY <2>1, <2>2, <2>5, <2>8, SimCode
    <3> QED
      BY <2>3, <2>4, <2>7, <2>8, <3>1 DEF After, j
  <2>9. CASE x.mode = "line"
    <3>1. Same(Code(off + j), Code(j), off)
      <4>1. j \in Nat
        BY <2>1
      <4> QED
        BY <4>1, BuiltMoved
    <3>2. Same(After(s, x, off + j), After(p, y, j), off)
      BY <2>6, <2>7, <2>9, <3>1 DEF After
    <3> QED
      BY <2>3, <2>4, <3>2 DEF Sim, j
  <2>10. CASE x.mode = "block"
    <3>1. Same(FromBlock(s, x, off + j), FromBlock(p, y, j), off)
      BY <2>1, <2>2, <2>7, <2>10, SimBlock
    <3> QED
      BY <2>3, <2>4, <2>7, <2>10, <3>1 DEF After, Sim, j
  <2>11. CASE x.mode = "dollar"
    <3>1. Same(FromDollar(s, x, off + j), FromDollar(p, y, j), off)
      BY <2>1, <2>2, <2>7, <2>11, SimDollar
    <3> QED
      BY <2>3, <2>4, <2>7, <2>11, <3>1 DEF After, Sim, j
  <2>12. CASE x.mode \notin {"code", "line", "block", "dollar"}
    <3>1. Same(FromLiteral(x, s[off + j], off + j), FromLiteral(y, p[j], j), off)
      BY <2>1, <2>2, <2>7, <2>12, SimLiteral
    <3> QED
      BY <2>3, <2>4, <2>7, <2>12, <3>1 DEF After, Sim, j
  <2> QED
    BY <2>8, <2>9, <2>10, <2>11, <2>12
<1> HIDE DEF U, M
<1>3. Nat \subseteq U
  BY <1>1, <1>2, Induct
<1>4. k \in Nat /\ k <= M
  BY <1>0 DEF M
<1>5. k \in U
  BY <1>3, <1>4
<1> QED
  BY <1>4, <1>5 DEF U

-----------------------------------------------------------------------------
(* The words of a statement, in the text it is cut out of. *)

Cuts(s) == {i \in Visible(s) : s[i] = "semicolon"}

\* Where the cursor stops nothing opens, and the automaton is Fresh.
LEMMA CursorStops ==
    ASSUME NEW s \in Seq(Symbols), NEW k \in Ordinary(s)
    PROVE  /\ k \in 1 .. Len(s)
           /\ s[k] = "eol" \/ (Fresh(s, k) /\ SkippableEnd(s, k) = k)
<1> DEFINE N == Len(s)
           stops(n) == n \in 1 .. N /\ (s[n] = "eol" \/ (Fresh(s, n) /\ SkippableEnd(s, n) = n))
           S == {n \in 1 .. N + 1 :
                   (n <= N => Fresh(s, n) \/ AtEol(s, n)) => \A m \in Walk(s)[n] : stops(m)}
<1>0. N \in Nat
  OBVIOUS
<1>1. ASSUME NEW n \in 1 .. N + 1, \A m \in n + 1 .. N + 1 : m \in S PROVE n \in S
  <2>0. SUFFICES ASSUME n <= N => Fresh(s, n) \/ AtEol(s, n) PROVE \A m \in Walk(s)[n] : stops(m)
    OBVIOUS
  <2>1. n \in Nat /\ Walk(s)[n] = WalkBody(s, Walk(s), n)
    BY <1>0, WalkDef
  <2>2. CASE n > N
    BY <1>0, <2>1, <2>2 DEF WalkBody
  <2>3. CASE n <= N /\ Fresh(s, n) /\ SkippableEnd(s, n) = n
    <3>1. Walk(s)[n] = {n} \cup Walk(s)[n + 1]
      BY <2>1, <2>3 DEF WalkBody
    <3>2. n \in 1 .. N /\ n + 1 \in n + 1 .. N + 1
      BY <2>1, <2>3
    <3>3. Fresh(s, n + 1)
      BY <2>3, <3>2, FreshNext
    <3>4. \A m \in Walk(s)[n + 1] : stops(m)
      BY <1>1, <3>2, <3>3
    <3> QED
      BY <2>3, <3>1, <3>2, <3>4
  <2>4. CASE n <= N /\ Fresh(s, n) /\ SkippableEnd(s, n) # n
    <3> DEFINE e == SkippableEnd(s, n)
    <3>1. n \in 1 .. N
      BY <2>1, <2>4
    <3>2. e \in n + 1 .. N + 1
      BY <2>4, <3>1, SkippableEndBounds
    <3>3. Walk(s)[n] = Walk(s)[e]
      BY <2>1, <2>4, <3>2 DEF WalkBody
    <3>4. e <= N => Fresh(s, e) \/ AtEol(s, e)
      BY <2>4, <3>1, SkippableCovers DEF Covered
    <3> HIDE DEF e
    <3> QED
      BY <1>1, <3>2, <3>3, <3>4
  <2>5. CASE n <= N /\ AtEol(s, n)
    <3>1. n \in 1 .. N /\ s[n] = "eol" /\ Lex(s)[n - 1].mode = "line"
      BY <2>1, <2>5 DEF AtEol
    <3>2. SkippableEnd(s, n) = n
      BY <3>1, SkippableEndBounds, QuotesAre
             DEF OpensLine, OpensBlock, OpensEscape, OpensDollar
    <3>3. Walk(s)[n] = {n} \cup Walk(s)[n + 1]
      BY <2>1, <2>5, <3>2 DEF WalkBody
    <3>4. Lex(s)[n] = Code(n)
      BY <3>1, LexDef DEF After
    <3>5. n + 1 \in n + 1 .. N + 1 /\ n + 1 \in 2 .. N + 1 /\ (n + 1) - 1 = n
      BY <2>1, <3>1
    <3>6. Fresh(s, n + 1)
      BY <3>4, <3>5, FreshAfterCode
    <3>7. \A m \in Walk(s)[n + 1] : stops(m)
      BY <1>1, <3>5, <3>6
    <3> QED
      BY <3>1, <3>3, <3>7
  <2> QED
    BY <2>0, <2>1, <2>2, <2>3, <2>4, <2>5
<1> HIDE DEF S, N
<1>2. 1 .. N + 1 \subseteq S
  BY <1>0, <1>1, InductDown
<1>3. 1 \in 1 .. N + 1
  BY <1>0
<1>4. \A m \in Walk(s)[1] : stops(m)
  BY <1>2, <1>3, FreshAtFirst DEF S
<1> QED
  BY <1>4 DEF Ordinary, N

\* A blank opens nothing.
LEMMA BlankIsOrdinary ==
    ASSUME NEW s \in Seq(Symbols), NEW i \in 1 .. Len(s), s[i] \in Blank
    PROVE  SkippableEnd(s, i) = i /\ s[i] \notin WordSymbols
<1>1. s[i] = "space" \/ s[i] = "eol"
  BY DEF Blank
<1>2. SkippableEnd(s, i) = i
  BY <1>1, SkippableEndBounds, QuotesAre DEF OpensLine, OpensBlock, OpensEscape, OpensDollar
<1> QED
  BY <1>1, <1>2 DEF WordSymbols, ReadKeywords, ExplainOptions, WriteKeywords, ControlKeywords

\* The automaton is Fresh where a statement begins, past the blanks before it.
LEMMA FreshAfterCut ==
    ASSUME NEW s \in Seq(Symbols), NEW a \in {0} \cup Cuts(s), NEW l \in a + 1 .. Len(s),
           \A i \in a + 1 .. l - 1 : s[i] \in Blank
    PROVE  Fresh(s, l)
<1> DEFINE N == Len(s)
           U == {n \in Nat : a + 1 + n <= l => Fresh(s, a + 1 + n)}
<1>0. N \in Nat /\ a \in Nat /\ (a # 0 => a \in 1 .. N)
  BY DEF Cuts, Visible
<1>0a. l \in Nat /\ l <= N
  BY <1>0
<1>1. 0 \in U
  <2>1. Fresh(s, a + 1)
    <3>1. CASE a = 0
      BY <1>0, <1>0a, <3>1, FreshAtFirst
    <3>2. CASE a \in Cuts(s)
      <4>1. a \in 1 .. N /\ a \in Visible(s) /\ s[a] = "semicolon"
        BY <3>2 DEF Cuts, Visible
      <4>2. a \in Ordinary(s)
        BY <4>1, OrdinaryIsVisible
      <4>3. Fresh(s, a) /\ SkippableEnd(s, a) = a
        BY <4>1, <4>2, CursorStops
      <4> QED
        BY <4>1, <4>3, FreshNext
    <3> QED
      BY <3>1, <3>2
  <2>2. a + 1 + 0 = a + 1
    BY <1>0
  <2> QED
    BY <2>1, <2>2
<1>2. ASSUME NEW n \in Nat, n \in U PROVE n + 1 \in U
  <2> DEFINE i == a + 1 + n
  <2>1. SUFFICES ASSUME a + 1 + (n + 1) <= l PROVE Fresh(s, a + 1 + (n + 1))
    OBVIOUS
  <2>2. i \in 1 .. N /\ i \in a + 1 .. l - 1 /\ i <= l /\ a + 1 + (n + 1) = i + 1
    BY <1>0, <1>0a, <2>1
  <2>3. Fresh(s, i)
    BY <1>2, <2>2
  <2> HIDE DEF i
  <2>4. SkippableEnd(s, i) = i
    BY <2>2, BlankIsOrdinary
  <2> QED
    BY <2>2, <2>3, <2>4, FreshNext
<1> HIDE DEF U, N
<1>3. Nat \subseteq U
  BY <1>1, <1>2, Induct
<1>4. l - (a + 1) \in Nat /\ a + 1 + (l - (a + 1)) = l
  BY <1>0, <1>0a
<1>5. l - (a + 1) \in U
  BY <1>3, <1>4
<1> QED
  BY <1>0a, <1>4, <1>5 DEF U

\* At a blank the automaton stays in its construct or leaves it.
LEMMA BlankStep ==
    ASSUME NEW s \in Seq(Symbols), NEW i \in 1 .. Len(s), s[i] \in Blank,
           Lex(s)[i].mode # "code"
    PROVE  Lex(s)[i - 1].mode # "code" /\ Lex(s)[i - 1].start = Lex(s)[i].start
<1> DEFINE q == Lex(s)[i - 1]
           b == s[i]
<1>1. i - 1 \in 0 .. Len(s) /\ i \in Nat
  OBVIOUS
<1>2. q \in LexState /\ Lex(s)[i] = After(s, q, i)
  BY <1>1, LexDef
<1>3. b = "space" \/ b = "eol"
  BY DEF Blank
<1>4. b \notin Quotes
  BY <1>3, QuotesAre
<1>5. Code(i).mode = "code"
  BY <1>1, CodeIs
<1> HIDE DEF q
<1>6. CASE q.mode = "code"
  <2>1. ~ PairIs(s, q, i, "dash", "dash") /\ ~ PairIs(s, q, i, "slash", "star") /\ ~ Tagged(s, q, i)
    BY <1>3 DEF PairIs, Tagged
  <2>2. FromCode(s, q, i) = q
    BY <1>2, <1>4, <2>1, FromCodeIs
  <2> QED
    BY <1>2, <1>6, <2>2 DEF After
<1>7. CASE q.mode = "line"
  BY <1>2, <1>5, <1>7 DEF After, q
<1>8. CASE q.mode = "block"
  <2>1. FromBlock(s, q, i) = q
    BY <1>3 DEF FromBlock
  <2> QED
    BY <1>2, <1>8, <2>1 DEF After, q
<1>9. CASE q.mode = "dollar"
  BY <1>2, <1>5, <1>9 DEF After, FromDollar, q
<1>10. CASE q.mode \notin {"code", "line", "block", "dollar"}
  <2>1. FromLiteral(q, b, i) = q
    BY <1>3, <1>4 DEF FromLiteral
  <2> QED
    BY <1>2, <1>10, <2>1 DEF After, q
<1> QED
  BY <1>6, <1>7, <1>8, <1>9, <1>10

\* What blanks leave open was open before them.
LEMMA BlanksOpenNothing ==
    ASSUME NEW s \in Seq(Symbols), NEW r \in 1 .. Len(s), NEW j \in r .. Len(s),
           \A i \in r + 1 .. j : s[i] \in Blank, Lex(s)[j].mode # "code"
    PROVE  Lex(s)[r].mode # "code" /\ Lex(s)[r].start = Lex(s)[j].start
<1> DEFINE q == Lex(s)
           N == Len(s)
           U == {n \in Nat : j - n >= r => q[j - n].mode # "code" /\ q[j - n].start = q[j].start}
<1>0. N \in Nat /\ r \in Nat /\ j \in Nat /\ r <= j /\ j <= N /\ r >= 1
  OBVIOUS
<1>1. 0 \in U
  <2>1. j - 0 = j
    BY <1>0
  <2> QED
    BY <2>1
<1>2. ASSUME NEW n \in Nat, n \in U PROVE n + 1 \in U
  <2>1. SUFFICES ASSUME j - (n + 1) >= r
                 PROVE  q[j - (n + 1)].mode # "code" /\ q[j - (n + 1)].start = q[j].start
    OBVIOUS
  <2> DEFINE i == j - n
  <2>2. i \in 1 .. N /\ i \in r + 1 .. j /\ i >= r /\ j - (n + 1) = i - 1
    BY <1>0, <2>1
  <2>3. q[i].mode # "code" /\ q[i].start = q[j].start
    BY <1>2, <2>2
  <2> HIDE DEF i, q
  <2>4. q[i - 1].mode # "code" /\ q[i - 1].start = q[i].start
    BY <2>2, <2>3, BlankStep DEF q
  <2> QED
    BY <2>2, <2>3, <2>4
<1> HIDE DEF U, N
<1>3. Nat \subseteq U
  BY <1>1, <1>2, Induct
<1>4. j - r \in Nat /\ j - (j - r) = r
  BY <1>0
<1>5. j - r \in U
  BY <1>3, <1>4
<1> QED
  BY <1>0, <1>4, <1>5 DEF U

\* A statement of a text stands in it as a window.
LEMMA StmtWindow ==
    ASSUME NEW s \in Seq(Symbols), NEW a \in 0 .. Len(s), NEW b \in a + 1 .. Len(s) + 1,
           Adjacent(Len(s), Cuts(s), a, b), NEW l \in Nat, NEW r \in Nat, Trims(s, a, b, l, r)
    PROVE  /\ SubSeq(s, l, r) \in Seq(Symbols) /\ Len(SubSeq(s, l, r)) = r - l + 1
           /\ l - 1 \in Nat /\ l - 1 < Len(s) /\ Window(SubSeq(s, l, r), s, l - 1)
           /\ Fresh(s, l)
<1> DEFINE p == SubSeq(s, l, r)
           N == Len(s)
<1>0. /\ N \in Nat /\ a \in Nat /\ b \in Nat /\ l \in Nat /\ r \in Nat
      /\ a < l /\ l <= r /\ r < b /\ b <= N + 1 /\ l >= 1
  BY DEF Trims
<1>1. \A i \in l .. r : s[i] \in Symbols
  BY <1>0
<1>2. /\ p \in Seq(Symbols) /\ Len(p) = r - l + 1
      /\ \A k \in 1 .. r - l + 1 : p[k] = s[l + k - 1]
  BY <1>0, <1>1, SubSeqProperties
<1> HIDE DEF p, N
<1>3. l - 1 \in Nat /\ l - 1 < N /\ (l - 1) + Len(p) <= N
  BY <1>0, <1>2
<1>4. \A k \in 1 .. Len(p) : s[(l - 1) + k] = p[k]
  <2>1. \A k \in 1 .. Len(p) : k \in 1 .. r - l + 1 /\ (l - 1) + k = l + k - 1
    BY <1>0, <1>2
  <2> QED
    BY <1>2, <2>1
<1>5. l - 1 > 0 => s[l - 1] \in {"semicolon", "space", "eol"}
  <2>1. CASE l - 1 \in a + 1 .. l - 1
    BY <2>1 DEF Trims, Blank
  <2>2. CASE l - 1 = a /\ a # 0
    BY <2>2 DEF Adjacent, Cuts
  <2> QED
    BY <1>0, <2>1, <2>2
<1>6. Fresh(s, l)
  <2>1. l \in a + 1 .. Len(s)
    BY <1>0 DEF N
  <2>2. a \in {0} \cup Cuts(s) /\ \A i \in a + 1 .. l - 1 : s[i] \in Blank
    BY DEF Adjacent, Trims
  <2> QED
    BY <2>1, <2>2, FreshAfterCut
<1> QED
  BY <1>2, <1>3, <1>4, <1>5, <1>6 DEF Window, p, N

\* What is visible of a statement is visible in its text, and the other way round.
LEMMA VisibleInText ==
    ASSUME NEW s \in Seq(Symbols), NEW a \in 0 .. Len(s), NEW b \in a + 1 .. Len(s) + 1,
           Adjacent(Len(s), Cuts(s), a, b), NEW l \in Nat, NEW r \in Nat, Trims(s, a, b, l, r),
           NEW k \in 1 .. r - l + 1
    PROVE  k \in Visible(SubSeq(s, l, r)) <=> (l - 1) + k \in Visible(s)
<1> DEFINE p == SubSeq(s, l, r)
           N == Len(s)
           M == r - l + 1
           off == l - 1
           x(n) == Lex(s)[off + n]
           y(n) == Lex(p)[n]
<1>0. /\ N \in Nat /\ a \in Nat /\ b \in Nat /\ l \in Nat /\ r \in Nat
      /\ a < l /\ l <= r /\ r < b /\ b <= N + 1 /\ l >= 1
  BY DEF Trims
<1>1. /\ p \in Seq(Symbols) /\ Len(p) = M /\ M > 0 /\ off \in Nat /\ off < N
      /\ Window(p, s, off) /\ Fresh(s, off + 1)
  <2>1. (l - 1) + 1 = l
    BY <1>0
  <2> QED
    BY <1>0, <2>1, StmtWindow
<1>2. ASSUME NEW n \in 0 .. M
      PROVE  /\ x(n).mode = y(n).mode
             /\ x(n).mode # "code" => x(n).start = y(n).start + off
  <2>1. Sim(p, x(n), y(n), off, n)
    <3> HIDE DEF p, M, off
    <3> QED
      BY <1>1, SimHolds
  <2>2. Code(0).mode = "code"
    BY CodeIs
  <2> HIDE DEF x, y, p, off
  <2> QED
    BY <2>1, <2>2 DEF Sim, Same, Untouched
<1>3. \A n \in 0 .. M : y(n).start \in Nat
  BY <1>1, LexDef DEF LexState
<1>4. M = r - l + 1 /\ M \in Nat /\ off = l - 1 /\ off \in Nat /\ off + M = r /\ k \in 1 .. M /\ k \in Nat
  BY <1>0
<1>5. off + k \in 1 .. N /\ (off + k) - 1 = off + (k - 1) /\ k - 1 \in 0 .. M
  BY <1>0, <1>4
<1> HIDE DEF p, N, M, off
<1>6. k \in Hidden(p) <=>
        \/ y(k - 1).mode # "code"
        \/ \E j \in k .. M : y(j).mode # "code" /\ y(j).start <= k
  BY <1>1, <1>4 DEF Hidden
<1>7. off + k \in Hidden(s) <=>
        \/ x(k - 1).mode # "code"
        \/ \E j \in off + k .. N : Lex(s)[j].mode # "code" /\ Lex(s)[j].start <= off + k
  BY <1>5 DEF Hidden, N
<1>8. ASSUME NEW j \in k .. M, y(j).mode # "code", y(j).start <= k PROVE off + k \in Hidden(s)
  <2>1. j \in 0 .. M /\ off + j \in off + k .. N
    BY <1>0, <1>4
  <2>2. x(j).mode # "code" /\ x(j).start = y(j).start + off /\ y(j).start \in Nat
    BY <1>2, <1>3, <1>8, <2>1
  <2>3. x(j).start <= off + k
    <3> HIDE DEF x, y
    <3> QED
      BY <1>4, <1>8, <2>2
  <2> QED
    BY <1>7, <2>1, <2>2, <2>3
<1>9. ASSUME NEW j \in 0 .. M, j >= k, x(j).mode # "code", x(j).start <= off + k PROVE k \in Hidden(p)
  <2>1. j \in k .. M
    BY <1>4, <1>9
  <2>2. y(j).mode # "code" /\ x(j).start = y(j).start + off /\ y(j).start \in Nat
    BY <1>2, <1>3, <1>9
  <2>3. y(j).start <= k
    <3> HIDE DEF x, y
    <3> QED
      BY <1>4, <1>9, <2>2
  <2> QED
    BY <1>6, <2>1, <2>2, <2>3
<1>10. ASSUME NEW j \in off + k .. N, Lex(s)[j].mode # "code", Lex(s)[j].start <= off + k
       PROVE  k \in Hidden(p) \/ off + k \notin 1 .. N
  <2>1. CASE j <= r
    <3> DEFINE n == j - off
    <3>1. n \in 0 .. M /\ n >= k /\ off + n = j
      BY <1>0, <1>4, <2>1
    <3> HIDE DEF n
    <3> QED
      BY <1>9, <1>10, <3>1
  <2>2. CASE j > r /\ j < b
    <3>1. r \in 1 .. Len(s) /\ j \in r .. Len(s) /\ \A i \in r + 1 .. j : i \in r + 1 .. b - 1
      BY <1>0, <1>4, <2>2 DEF N
    <3>2. \A i \in r + 1 .. j : s[i] \in Blank
      BY <3>1 DEF Trims
    <3>3. Lex(s)[r].mode # "code" /\ Lex(s)[r].start = Lex(s)[j].start
      BY <1>10, <3>1, <3>2, BlanksOpenNothing
    <3>4. M \in 0 .. M /\ M >= k /\ off + M = r
      BY <1>4
    <3> QED
      BY <1>9, <1>10, <3>3, <3>4
  <2>3. CASE j >= b
    <3>1. b \in Cuts(s)
      <4>1. b # N + 1
        BY <1>0, <1>4, <2>3
      <4> QED
        BY <4>1 DEF Adjacent, N
    <3>2. b \in 1 .. Len(s) /\ j \in b .. Len(s) /\ b \notin Hidden(s)
      BY <1>0, <1>4, <2>3, <3>1 DEF N, Cuts, Visible
    <3>3. Lex(s)[j].start <= b
      <4> DEFINE z == Lex(s)[j].start
      <4>1. z \in Nat
        <5>1. j \in 0 .. Len(s)
          BY <3>2
        <5> QED
          BY <5>1, LexDef DEF LexState
      <4>2. z <= off + k
        BY <1>10
      <4> HIDE DEF z
      <4>3. z <= b
        BY <1>0, <1>4, <4>1, <4>2
      <4> QED
        BY <4>3 DEF z
    <3> QED
      BY <1>10, <3>2, <3>3, HiddenIf
  <2> QED
    BY <1>0, <1>4, <2>1, <2>2, <2>3
<1>11. k \in Hidden(p) <=> off + k \in Hidden(s)
  <2>1. x(k - 1).mode # "code" <=> y(k - 1).mode # "code"
    BY <1>2, <1>5
  <2> HIDE DEF x, y
  <2> QED
    BY <1>5, <1>6, <1>7, <1>8, <1>10, <2>1
<1>12. k \in 1 .. Len(p) /\ off + k \in 1 .. Len(s)
  BY <1>1, <1>4, <1>5 DEF N
<1> QED
  BY <1>11, <1>12 DEF Visible, p, off

\* The word positions between a and b.
WordsBetween(s, a, b) == {i \in Visible(s) : a < i /\ i < b /\ IsWordByte(s[i])}

\* The words of a statement are those its text shows there.
LEMMA StmtWords ==
    ASSUME NEW s \in Seq(Symbols), NEW a \in 0 .. Len(s), NEW b \in a + 1 .. Len(s) + 1,
           Adjacent(Len(s), Cuts(s), a, b)
    PROVE  \/ Stmt(s, a, b) = << >> /\ WordsBetween(s, a, b) = {}
           \/ /\ Stmt(s, a, b) # << >>
              /\ SignificantWords(Stmt(s, a, b)) = WordsOf(s, WordsBetween(s, a, b))
<1> DEFINE N == Len(s)
           W == WordsBetween(s, a, b)
<1>0. N \in Nat /\ a \in Nat /\ b \in Nat /\ a < b /\ b <= N + 1
  OBVIOUS
<1>1. CASE Stmt(s, a, b) = << >> /\ \A i \in a + 1 .. b - 1 : s[i] \in Blank
  <2>1. ASSUME NEW i \in W PROVE FALSE
    <3>1. i \in 1 .. N /\ a < i /\ i < b /\ s[i] \in WordSymbols
      BY DEF WordsBetween, Visible, IsWordByte
    <3>2. i \in a + 1 .. b - 1
      BY <1>0, <3>1
    <3> QED
      BY <1>1, <3>1, <3>2, BlankIsOrdinary
  <2> QED
    BY <1>1, <2>1
<1>2. ASSUME NEW l \in Nat, NEW r \in Nat, Trims(s, a, b, l, r), Stmt(s, a, b) = SubSeq(s, l, r)
      PROVE  /\ Stmt(s, a, b) # << >>
             /\ SignificantWords(Stmt(s, a, b)) = WordsOf(s, W)
  <2> DEFINE p == SubSeq(s, l, r)
             off == l - 1
             V == {k \in Ordinary(p) : IsWordByte(p[k])}
  <2>0. l >= 1 /\ a < l /\ l <= r /\ r < b
    BY <1>0, <1>2 DEF Trims
  <2>1. /\ p \in Seq(Symbols) /\ Len(p) = r - l + 1 /\ off \in Nat
        /\ Window(p, s, off)
    BY <1>2, StmtWindow
  <2>2. SignificantWords(p) = WordsOf(p, V)
    BY WordsAmongDef DEF SignificantWords
  <2>3. \A k \in 1 .. Len(p) : off + k \in 1 .. N /\ s[off + k] = p[k]
    <3> HIDE DEF p, off
    <3> QED
      BY <2>1, WindowShares
  <2>4. "eol" \notin WordSymbols
    BY DEF WordSymbols, ReadKeywords, ExplainOptions, WriteKeywords, ControlKeywords
  <2>5. \A k \in 1 .. Len(p) : k \in V <=> k \in Visible(p) /\ p[k] \in WordSymbols
    <3> HIDE DEF p
    <3>1. \A k \in 1 .. Len(p) : p[k] \in WordSymbols => (k \in Ordinary(p) <=> k \in Visible(p))
      BY <2>1, <2>4, OrdinaryIsVisible
    <3> QED
      BY <3>1 DEF IsWordByte
  <2>6. V \in SUBSET (1 .. Len(p))
    <3> HIDE DEF p
    <3> QED
      BY <2>1, OrdinaryIsVisible
  <2>7. \A k \in 1 .. Len(p) : k \in Visible(p) <=> off + k \in Visible(s)
    BY <1>2, <2>1, VisibleInText
  <2>8. W \in SUBSET (1 .. N)
    BY DEF WordsBetween, Visible
  <2>9. W = Moved(V, off)
    <3>1. ASSUME NEW i \in W PROVE i - off \in V /\ i = (i - off) + off
      <4>1. i \in 1 .. N /\ i \in Visible(s) /\ a < i /\ i < b /\ s[i] \in WordSymbols
        BY <2>8 DEF WordsBetween, IsWordByte
      <4>2. i >= l
        <5>1. SUFFICES ASSUME i < l PROVE FALSE
          BY <4>1, <2>0
        <5>2. i \in a + 1 .. l - 1
          BY <1>0, <4>1, <5>1
        <5>3. s[i] \in Blank
          BY <1>2, <5>2 DEF Trims
        <5> QED
          BY <4>1, <5>3, BlankIsOrdinary
      <4>3. i <= r
        <5>1. SUFFICES ASSUME i > r PROVE FALSE
          BY <4>1, <2>0
        <5>2. i \in r + 1 .. b - 1
          BY <1>0, <4>1, <5>1
        <5>3. s[i] \in Blank
          BY <1>2, <5>2 DEF Trims
        <5> QED
          BY <4>1, <5>3, BlankIsOrdinary
      <4>4. i - off \in 1 .. Len(p) /\ off + (i - off) = i
        <5> HIDE DEF p
        <5> QED
          BY <2>0, <2>1, <4>1, <4>2, <4>3
      <4>5. i - off \in Visible(p) /\ p[i - off] = s[i]
        BY <2>3, <2>7, <4>1, <4>4
      <4> HIDE DEF V, p, off
      <4>6. i - off \in V
        BY <2>5, <4>1, <4>4, <4>5
      <4> QED
        BY <2>1, <4>1, <4>4, <4>6
    <3>2. ASSUME NEW k \in V PROVE k + off \in W
      <4>1. k \in 1 .. Len(p) /\ k \in Visible(p) /\ p[k] \in WordSymbols
        <5> HIDE DEF V, p
        <5> QED
          BY <2>5, <2>6
      <4>2. off + k \in Visible(s) /\ s[off + k] \in WordSymbols
        BY <2>3, <2>7, <4>1
      <4>3. k + off = off + k /\ a < off + k /\ off + k < b
        <5>1. k \in 1 .. r - l + 1
          BY <2>1, <4>1
        <5> QED
          BY <1>0, <2>0, <5>1
      <4> HIDE DEF off
      <4> QED
        BY <4>2, <4>3 DEF WordsBetween, IsWordByte
    <3> HIDE DEF V, W, off
    <3> QED
      BY <3>1, <3>2 DEF Moved
  <2>10. \A k \in V : s[k + off] = p[k]
    <3>1. \A k \in V : k \in 1 .. Len(p) /\ k + off = off + k
      <4> HIDE DEF V
      <4> QED
        BY <2>1, <2>6
    <3> HIDE DEF V
    <3> QED
      BY <2>3, <3>1
  <2>11. p # << >>
    <3> HIDE DEF p
    <3> QED
      BY <2>0, <2>1
  <2> HIDE DEF V, W, p, off
  <2>12. WordsOf(p, V) = WordsOf(s, W)
    BY <2>1, <2>6, <2>8, <2>9, <2>10, WordsMoved DEF N
  <2> QED
    BY <1>2, <2>2, <2>11, <2>12 DEF p
<1>3. \/ Stmt(s, a, b) = << >> /\ \A i \in a + 1 .. b - 1 : s[i] \in Blank
      \/ \E l, r \in Nat : Trims(s, a, b, l, r) /\ Stmt(s, a, b) = SubSeq(s, l, r)
  BY StmtIs
<1> QED
  BY <1>1, <1>2, <1>3

-----------------------------------------------------------------------------
(* The verdict on a text, by the words the text shows. *)

\* The words among positions of a text are a sequence.
LEMMA WordsTyped ==
    ASSUME NEW s \in Seq(Symbols), NEW W \in SUBSET (1 .. Len(s))
    PROVE  WordsOf(s, W) \in Seq(Seq(Symbols))
<1> DEFINE A == StartsOf(W)
           f == InOrder(A)
           word(i) == SubSeq(s, i, LastOf(W, i))
<1>0. Len(s) \in Nat
  OBVIOUS
<1>1. A \in SUBSET Nat /\ IsFiniteSet(A) /\ A \subseteq W
  <2>1. A \in SUBSET (1 .. Len(s)) /\ A \subseteq W
    BY DEF StartsOf
  <2>2. IsFiniteSet(1 .. Len(s))
    BY FS_Interval
  <2> HIDE DEF A
  <2>3. IsFiniteSet(A)
    BY <2>1, <2>2, FS_Subset
  <2> QED
    BY <2>1, <2>3
<1>2. Len(f) \in Nat /\ \A n \in 1 .. Len(f) : f[n] \in W
  <2> HIDE DEF A
  <2>1. f \in Seq(A) /\ \A n \in 1 .. Len(f) : f[n] \in A
    BY <1>1, InOrderIs
  <2>2. Len(f) \in Nat
    BY <2>1
  <2> HIDE DEF f
  <2> QED
    BY <1>1, <2>1, <2>2
<1>3. ASSUME NEW i \in W PROVE word(i) \in Seq(Symbols)
  <2>1. LastOf(W, i) \in W
    BY <1>0, RunIs
  <2> DEFINE e == LastOf(W, i)
  <2> HIDE DEF e
  <2>2. i \in 1 .. Len(s) /\ e \in 1 .. Len(s)
    BY <2>1 DEF e
  <2>3. \A k \in i .. e : s[k] \in Symbols
    BY <2>2
  <2> QED
    BY <2>2, <2>3, SubSeqProperties DEF e
<1>4. WordsOf(s, W) = [n \in 1 .. Len(f) |-> word(f[n])]
  BY DEF WordsOf
<1> DEFINE T == Seq(Symbols)
<1>5. \A n \in 1 .. Len(f) : word(f[n]) \in T
  BY <1>2, <1>3
<1> HIDE DEF f, word, T
<1>6. WordsOf(s, W) \in Seq(T)
  BY <1>2, <1>4, <1>5
<1> QED
  BY <1>6 DEF T

\* Where there are no words there is nothing to refuse.
LEMMA NoWords ==
    ASSUME NEW s \in Seq(Symbols)
    PROVE  Verdict(WordsOf(s, {})) = "read"
<1>1. StartsOf({}) = {} /\ IsFiniteSet({}) /\ Cardinality({}) = 0
  BY FS_EmptySet DEF StartsOf
<1>2. Len(InOrder({})) = 0
  BY <1>1, InOrderIs
<1> DEFINE ws == WordsOf(s, {})
<1>3. ws \in Seq(Seq(Symbols))
  BY WordsTyped
<1>4. Len(ws) = 0
  <2>1. ws = [n \in 1 .. 0 |->
                SubSeq(s, InOrder(StartsOf({}))[n], LastOf({}, InOrder(StartsOf({}))[n]))]
    BY <1>1, <1>2 DEF WordsOf
  <2>2. DOMAIN ws = 1 .. 0
    BY <2>1
  <2> HIDE DEF ws
  <2> QED
    BY <1>3, <2>2
<1> HIDE DEF ws
<1>5. ws = << >>
  BY <1>3, <1>4
<1>6. HeadAt(ws) = 1
  BY <1>5 DEF HeadAt
<1>7. HeadAt(ws) .. Len(ws) = {}
  BY <1>4, <1>6
<1>8. Verdict(ws) = "read"
  BY <1>7 DEF Verdict
<1> QED
  BY <1>8 DEF ws

\* A text is read-only by the words it shows between neighbouring cuts.
LEMMA ReadOnlyIs ==
    ASSUME NEW s \in Seq(Symbols)
    PROVE  ReadOnly(s) <=>
             \A a, b : Adjacent(Len(s), Cuts(s), a, b)
                         => Verdict(WordsOf(s, WordsBetween(s, a, b))) = "read"
<1> DEFINE N == Len(s)
           C == Cuts(s)
<1>1. C \in SUBSET (1 .. N)
  BY DEF Cuts, Visible
<1>2. Split(s) = Pieces(s, C)
  BY OrdinarySemicolonsAreVisible DEF Split, Cuts
<1> HIDE DEF C
<1>3. ASSUME NEW a, NEW b, Adjacent(N, C, a, b)
      PROVE  a \in 0 .. N /\ b \in a + 1 .. N + 1
  BY <1>1, <1>3 DEF Adjacent
<1>4. ASSUME NEW a, NEW b, Adjacent(N, C, a, b)
      PROVE  IF Stmt(s, a, b) = << >>
             THEN Verdict(WordsOf(s, WordsBetween(s, a, b))) = "read"
             ELSE Classify(Stmt(s, a, b)) = Verdict(WordsOf(s, WordsBetween(s, a, b)))
  <2>1. \/ Stmt(s, a, b) = << >> /\ WordsBetween(s, a, b) = {}
        \/ /\ Stmt(s, a, b) # << >>
           /\ SignificantWords(Stmt(s, a, b)) = WordsOf(s, WordsBetween(s, a, b))
    BY <1>3, <1>4, StmtWords DEF C
  <2>2. CASE Stmt(s, a, b) = << >>
    BY <2>1, <2>2, NoWords
  <2>3. CASE Stmt(s, a, b) # << >>
    BY <2>1, <2>3 DEF Classify
  <2> QED
    BY <2>2, <2>3
<1> HIDE DEF N
<1>5. /\ \A stmt \in Range(Pieces(s, C)) :
            \E a, b : Adjacent(N, C, a, b) /\ stmt = Stmt(s, a, b)
      /\ \A a, b : Adjacent(N, C, a, b) /\ Stmt(s, a, b) # << >>
            => Stmt(s, a, b) \in Range(Pieces(s, C))
  BY <1>1, PiecesAre DEF N
<1>6. ReadOnly(s) <=> \A stmt \in Range(Pieces(s, C)) : Classify(stmt) = "read"
  BY <1>2 DEF ReadOnly
<1>7. ASSUME ReadOnly(s), NEW a, NEW b, Adjacent(N, C, a, b)
      PROVE  Verdict(WordsOf(s, WordsBetween(s, a, b))) = "read"
  BY <1>4, <1>5, <1>6, <1>7
<1>8. ASSUME \A a, b : Adjacent(N, C, a, b)
                => Verdict(WordsOf(s, WordsBetween(s, a, b))) = "read",
             NEW stmt \in Range(Pieces(s, C))
      PROVE  Classify(stmt) = "read"
  <2>1. PICK a, b : Adjacent(N, C, a, b) /\ stmt = Stmt(s, a, b)
    BY <1>5, <1>8
  <2>2. CASE stmt = << >>
    \* Split leaves empty statements out; this one would read too.
    <3>1. SignificantWords(<< >>) = WordsOf(<< >>, {})
      <4>1. << >> \in Seq(Symbols) /\ 1 .. Len(<< >>) = {}
        OBVIOUS
      <4>2. Ordinary(<< >>) = {}
        BY <4>1, OrdinaryIsVisible
      <4>3. {i \in Ordinary(<< >>) : IsWordByte(<< >>[i])} = {}
        BY <4>2
      <4> QED
        BY <4>3, WordsAmongDef DEF SignificantWords
    <3>2. << >> \in Seq(Symbols)
      OBVIOUS
    <3> QED
      BY <2>2, <3>1, <3>2, NoWords DEF Classify
  <2>3. CASE stmt # << >>
    BY <1>4, <1>8, <2>1, <2>3
  <2> QED
    BY <2>2, <2>3
<1> QED
  BY <1>6, <1>7, <1>8 DEF N, C

Known == {"with"} \cup ReadKeywords \cup ControlKeywords

\* What the words of a statement that counts as reading are.
LEMMA ReadingWords ==
    ASSUME NEW ws \in Seq(Seq(Symbols)), Verdict(ws) = "read"
    PROVE  /\ \A n \in DOMAIN ws : ~ Is(ws[n], WriteKeywords)
           /\ \A plain \in SUBSET Nat :
                 /\ plain = {n \in DOMAIN ws : ~ Is(ws[n], {"explain"} \cup ExplainOptions)}
                 /\ plain # {}
                 => Is(ws[Min(plain)], Known)
<1> DEFINE h == HeadAt(ws)
           L == Len(ws)
           skips(n) == Is(ws[n], {"explain"} \cup ExplainOptions)
<1>0. L \in Nat /\ DOMAIN ws = 1 .. L
  OBVIOUS
<1>1. h \in 1 .. L + 1 /\ \A n \in 1 .. h - 1 : skips(n)
  <2>1. CASE ws # << >> /\ Is(ws[1], {"explain"})
    <3> DEFINE E == {n \in 2 .. L : ~ Is(ws[n], ExplainOptions)}
    <3>1. h = IF E = {} THEN L + 1 ELSE Min(E)
      BY <2>1 DEF HeadAt, FirstOf
    <3>2. L >= 1
      BY <2>1
    <3>3. E # {} => Min(E) \in E /\ \A y \in E : Min(E) <= y
      <4>1. E \in SUBSET Nat
        OBVIOUS
      <4> HIDE DEF E
      <4> QED
        BY <4>1, MinOf
    <3>4. h \in 2 .. L + 1 /\ \A n \in E : h <= n
      <4>1. CASE E = {}
        <5>1. h = L + 1 /\ ~ \E n \in E : TRUE
          BY <3>1, <4>1
        <5> HIDE DEF h, E
        <5> QED
          BY <1>0, <3>2, <5>1
      <4>2. CASE E # {}
        <5>1. h \in E /\ \A y \in E : h <= y
          <6> HIDE DEF E, h
          <6> QED
            BY <3>1, <3>3, <4>2
        <5> HIDE DEF h
        <5>2. h \in 2 .. L
          BY <5>1
        <5> QED
          BY <1>0, <5>1, <5>2
      <4> QED
        BY <4>1, <4>2
    <3> HIDE DEF h
    <3>5. ASSUME NEW n \in 2 .. h - 1 PROVE Is(ws[n], ExplainOptions)
      <4>1. n \in 2 .. L /\ ~ (h <= n)
        BY <1>0, <3>4
      <4> QED
        BY <3>4, <4>1
    <3>6. ASSUME NEW n \in 1 .. h - 1 PROVE skips(n)
      <4>1. n = 1 \/ n \in 2 .. h - 1
        BY <1>0, <3>4
      <4> QED
        BY <2>1, <3>5, <4>1 DEF Is
    <3>7. h \in 1 .. L + 1
      BY <1>0, <3>4
    <3> HIDE DEF skips
    <3> QED
      BY <3>6, <3>7
  <2>2. CASE ~ (ws # << >> /\ Is(ws[1], {"explain"}))
    <3>1. h = 1
      BY <2>2 DEF HeadAt
    <3> HIDE DEF h
    <3> QED
      BY <1>0, <3>1
  <2> QED
    BY <2>1, <2>2
<1>2. \A n \in 1 .. L : skips(n) => ~ Is(ws[n], WriteKeywords) /\ ~ Is(ws[n], Known)
  BY DEF Is, Known, WriteKeywords, ReadKeywords, ControlKeywords, ExplainOptions
<1> DEFINE rest == h .. L
           verb == \E n \in rest : Is(ws[n], WriteKeywords)
           into == \E n \in rest : Is(ws[h], {"select", "with"}) /\ Is(ws[n], {"into"})
<1>3. Verdict(ws) = IF rest # {} /\ (verb \/ into \/ ~ Is(ws[h], Known)) THEN "write" ELSE "read"
  BY DEF Verdict, Known
<1> HIDE DEF h
<1>4. rest = {} \/ (~ verb /\ Is(ws[h], Known))
  <2> HIDE DEF rest, verb, into
  <2> QED
    BY <1>3
<1>5. \A n \in 1 .. L : n \in 1 .. h - 1 \/ n \in rest
  BY <1>0, <1>1
<1>6. \A n \in DOMAIN ws : ~ Is(ws[n], WriteKeywords)
  <2> HIDE DEF skips
  <2>1. \A n \in rest : ~ Is(ws[n], WriteKeywords)
    BY <1>4
  <2>2. \A n \in 1 .. h - 1 : n \in 1 .. L /\ skips(n)
    BY <1>0, <1>1
  <2> HIDE DEF rest
  <2> QED
    BY <1>0, <1>2, <1>5, <2>1, <2>2
<1>7. ASSUME NEW plain \in SUBSET Nat, plain = {n \in DOMAIN ws : ~ skips(n)}, plain # {}
      PROVE  Is(ws[Min(plain)], Known)
  <2>1. Min(plain) \in plain /\ \A y \in plain : Min(plain) <= y
    BY <1>7, MinOf
  <2> DEFINE m == Min(plain)
  <2> HIDE DEF m
  <2>2. m \in 1 .. L /\ ~ skips(m)
    BY <1>0, <1>7, <2>1 DEF m
  <2>3. m \in rest
    <3> HIDE DEF skips, rest
    <3> QED
      BY <1>1, <1>5, <2>2
  <2>4. Is(ws[h], Known) /\ h \in 1 .. L /\ h <= m
    <3>1. rest # {} /\ h <= m
      BY <2>3
    <3>2. h \in 1 .. L
      BY <1>0, <1>1, <2>2, <3>1
    <3> HIDE DEF rest
    <3> QED
      BY <1>4, <3>1, <3>2
  <2>5. ~ skips(h)
    BY <1>2, <2>4
  <2>6. h \in plain
    <3> HIDE DEF skips
    <3> QED
      BY <1>0, <1>7, <2>4, <2>5
  <2>7. m <= h
    BY <2>1, <2>6 DEF m
  <2>8. m = h
    BY <2>2, <2>4, <2>7
  <2> QED
    BY <2>4, <2>8 DEF m
<1> QED
  BY <1>6, <1>7

\* After a cut, the words up to the next one are those of a statement that reads.
LEMMA ReadsAfter ==
    ASSUME NEW s \in Seq(Symbols), ReadOnly(s), NEW a \in {0} \cup Cuts(s), NEW seen,
           seen = {i \in Visible(s) : a < i /\ ~ \E k \in Cuts(s) : a < k /\ k < i}
    PROVE  /\ WordsAmong(s, seen) \in Seq(Seq(Symbols))
           /\ Verdict(WordsAmong(s, seen)) = "read"
<1> DEFINE N == Len(s)
           C == Cuts(s)
           later == {k \in C : a < k}
           b == IF later = {} THEN N + 1 ELSE Min(later)
<1>0. /\ N \in Nat
      /\ \A k \in C : k \in 1 .. N /\ k \in Visible(s) /\ s[k] = "semicolon"
  BY DEF Cuts, Visible
<1>1. later # {} => b \in later /\ \A k \in later : b <= k
  <2>1. later \in SUBSET Nat
    BY <1>0
  <2>2. later # {} => Min(later) \in later /\ \A k \in later : Min(later) <= k
    <3> HIDE DEF later
    <3> QED
      BY <2>1, MinOf
  <2> QED
    BY <2>2
<1>2. later = {} => b = N + 1
  OBVIOUS
<1>3. a \in Nat /\ a <= N
  BY <1>0
<1> HIDE DEF b, C
<1>4. a < b /\ b \in C \cup {N + 1}
  <2>1. CASE later = {}
    BY <1>0, <1>2, <1>3, <2>1
  <2>2. CASE later # {}
    BY <1>1, <2>2
  <2> QED
    BY <2>1, <2>2
<1>5. \A k \in C : ~ (a < k /\ k < b)
  <2>1. SUFFICES ASSUME NEW k \in C, a < k, k < b PROVE FALSE
    OBVIOUS
  <2>2. k \in later
    BY <2>1
  <2>3. b <= k /\ b \in Nat /\ k \in Nat
    BY <1>0, <1>1, <2>2
  <2> QED
    BY <2>1, <2>3
<1>6. Adjacent(N, C, a, b)
  BY <1>4, <1>5 DEF Adjacent, C
<1>7. {i \in seen : IsWordByte(s[i])} = WordsBetween(s, a, b)
  <2>1. ASSUME NEW i \in seen, IsWordByte(s[i]) PROVE i < b
    <3>1. i \in 1 .. N /\ a < i /\ \A k \in C : ~ (a < k /\ k < i)
      BY DEF Visible, C
    <3>2. s[i] # "semicolon"
      BY <2>1 DEF IsWordByte, WordSymbols, ReadKeywords, ExplainOptions, WriteKeywords,
                  ControlKeywords
    <3>3. CASE b = N + 1
      BY <1>0, <3>1, <3>3
    <3>4. CASE b \in C
      <4>1. b # i /\ ~ (b < i) /\ b \in Nat
        BY <1>0, <1>4, <3>1, <3>2, <3>4
      <4> QED
        BY <3>1, <4>1
    <3> QED
      BY <1>4, <3>3, <3>4
  <2>2. ASSUME NEW i \in Visible(s), a < i, i < b PROVE i \in seen
    <3>1. ASSUME NEW k \in C, a < k, k < i PROVE FALSE
      <4>1. k \in Nat /\ b \in Nat /\ i \in Nat
        BY <1>0, <1>4 DEF Visible
      <4>2. k < b
        BY <2>2, <3>1, <4>1
      <4> QED
        BY <1>5, <3>1, <4>2
    <3> QED
      BY <2>2, <3>1 DEF C
  <2> QED
    BY <2>1, <2>2 DEF WordsBetween
<1>8. WordsAmong(s, seen) = WordsOf(s, WordsBetween(s, a, b))
  BY <1>7, WordsAmongDef
<1>9. WordsBetween(s, a, b) \in SUBSET (1 .. Len(s))
  BY DEF WordsBetween, Visible
<1> QED
  BY <1>6, <1>8, <1>9, WordsTyped, ReadOnlyIs DEF N, C

(***************************************************************************)
(* The promise of the package, for every text: what ReadOnly lets through  *)
(* has no data-modifying verb among its visible words, and each statement  *)
(* begins, past an EXPLAIN, with a word known to read or to control.       *)
(***************************************************************************)
THEOREM ReadOnlyReads == Spec => []ReadOnlyTextsOnlyRead
<1>1. ASSUME TextTyped PROVE ReadOnlyTextsOnlyRead
  <2> DEFINE semis == {i \in Visible(text) : text[i] = "semicolon"}
             after(a) == {i \in Visible(text) : a < i /\ ~ \E k \in semis : a < k /\ k < i}
             words(a) == WordsAmong(text, after(a))
             plain(a) == {n \in DOMAIN words(a) :
                            ~ Is(words(a)[n], {"explain"} \cup ExplainOptions)}
  <2>1. ASSUME ReadOnly(text), NEW a \in {0} \cup semis
        PROVE  /\ \A n \in DOMAIN words(a) : ~ Is(words(a)[n], WriteKeywords)
               /\ plain(a) # {} => Is(words(a)[Min(plain(a))], Known)
    <3>1. semis = Cuts(text)
      BY DEF Cuts
    <3> DEFINE ws == words(a)
               P == {n \in DOMAIN ws : ~ Is(ws[n], {"explain"} \cup ExplainOptions)}
    <3>2. ws \in Seq(Seq(Symbols)) /\ Verdict(ws) = "read"
      <4> HIDE DEF semis
      <4> QED
        BY <1>1, <2>1, <3>1, ReadsAfter DEF TextTyped
    <3> HIDE DEF ws
    <3>3. P \in SUBSET Nat
      BY <3>2
    <3>4. /\ \A n \in DOMAIN ws : ~ Is(ws[n], WriteKeywords)
          /\ P # {} => Is(ws[Min(P)], Known)
      BY <3>2, <3>3, ReadingWords
    <3> QED
      BY <3>4 DEF ws
  <2> QED
    BY <2>1 DEF ReadOnlyTextsOnlyRead, Known
<1> QED
  BY <1>1, AlwaysTyped, PTL

-----------------------------------------------------------------------------
(* Blanking what the automaton hides. *)

\* A dollar quote's tag ends in a dollar.
LEMMA TagEndsInDollar ==
    ASSUME NEW s \in Seq(Symbols), NEW i \in 0 .. Len(s), Lex(s)[i].mode = "dollar"
    PROVE  Len(Lex(s)[i].tag) \in Nat \ {0} /\ Lex(s)[i].tag[Len(Lex(s)[i].tag)] = "dollar"
<1> DEFINE N == Len(s)
           good(q) == q.mode = "dollar" => Len(q.tag) \in Nat \ {0} /\ q.tag[Len(q.tag)] = "dollar"
           U == {n \in Nat : n <= N => good(Lex(s)[n])}
<1>0. N \in Nat
  OBVIOUS
<1>1. 0 \in U
  <2>1. good(Lex(s)[0])
    BY LexDef, CodeIs
  <2> QED
    BY <2>1
<1>2. ASSUME NEW n \in Nat, n \in U PROVE n + 1 \in U
  <2> DEFINE k == n + 1
             q == Lex(s)[n]
  <2>1. SUFFICES ASSUME k <= N PROVE good(Lex(s)[k])
    OBVIOUS
  <2>2. k \in 1 .. N /\ n \in 0 .. N /\ n <= N /\ k - 1 = n /\ k \in Nat
    BY <1>0, <2>1
  <2>3. q \in LexState /\ Lex(s)[k] = After(s, q, k) /\ good(q)
    BY <1>2, <2>2, LexDef
  <2>4. good(Code(k))
    BY <2>2, CodeIs
  <2> HIDE DEF k, q
  <2>5. CASE q.mode = "code"
    <3>1. \A mode \in LexModes, from \in Nat : mode # "dollar" => good(Enter(mode, from, k))
      BY <2>2, EnterIs
    <3>2. k - 1 \in Nat /\ q.reopens \in {"none", "single", "escape", "ident"}
      BY <2>2, <2>3 DEF LexState
    <3>3. CASE Tagged(s, q, k)
      <4> DEFINE o == Min(TagsAt(s, q, k))
                 t == SubSeq(s, o, k)
      <4>1. o \in 1 .. k - 1
        <5>1. q.mark \in Nat
          BY <2>3 DEF LexState
        <5>2. TagsAt(s, q, k) \in SUBSET Nat /\ \A m \in TagsAt(s, q, k) : m \in 1 .. k - 1
          BY <2>2, <5>1 DEF TagsAt, TagStarts
        <5>3. Min(TagsAt(s, q, k)) \in TagsAt(s, q, k)
          BY <3>3, <5>2, MinOf DEF Tagged
        <5> QED
          BY <5>2, <5>3
      <4>2. Lex(s)[k] = [Enter("dollar", o, k) EXCEPT !.tag = t]
        BY <2>2, <2>3, <2>5, <3>3, FromCodeIs DEF After
      <4>3. Lex(s)[k].tag = t
        BY <4>2 DEF Enter
      <4> HIDE DEF o
      <4>4. \A m \in o .. k : s[m] \in Symbols
        BY <2>2, <4>1
      <4>5. /\ t \in Seq(Symbols) /\ Len(t) = k - o + 1
            /\ \A m \in 1 .. k - o + 1 : t[m] = s[o + m - 1]
        BY <2>2, <4>1, <4>4, SubSeqProperties
      <4>6. k - o + 1 \in 1 .. k - o + 1 /\ o + (k - o + 1) - 1 = k /\ k - o + 1 \in Nat \ {0}
        BY <2>2, <4>1
      <4>7. s[k] = "dollar"
        BY <3>3 DEF Tagged
      <4> HIDE DEF t
      <4>8. t[k - o + 1] = s[o + (k - o + 1) - 1]
        BY <4>5, <4>6
      <4> QED
        BY <4>3, <4>5, <4>6, <4>7, <4>8
    <3>4. CASE Reopens(s, q, k)
      <4>1. q.reopens \in LexModes /\ q.reopens # "dollar"
        BY <3>2, <3>4, QuotesAre DEF Reopens, LexModes
      <4>2. Lex(s)[k] = Enter(q.reopens, k, k)
        BY <2>2, <2>3, <2>5, <3>4, FromCodeIs DEF After
      <4> HIDE DEF good
      <4> QED
        BY <2>2, <3>1, <4>1, <4>2
    <3>5. CASE s[k] \in Quotes /\ ~ Reopens(s, q, k) /\ ~ Escapes(s, q, k)
      <4> DEFINE mode == IF s[k] = "quote" THEN "single" ELSE "ident"
      <4>1. mode \in LexModes /\ mode # "dollar"
        BY DEF LexModes
      <4>2. Lex(s)[k] = Enter(mode, k, k)
        BY <2>2, <2>3, <2>5, <3>5, FromCodeIs DEF After
      <4> HIDE DEF good, mode
      <4> QED
        BY <2>2, <3>1, <4>1, <4>2
    <3>6. CASE \/ PairIs(s, q, k, "dash", "dash") \/ PairIs(s, q, k, "slash", "star")
               \/ Escapes(s, q, k)
      <4>1. Lex(s)[k] \in {Enter(mode, k - 1, k) : mode \in {"line", "block", "escape"}}
        BY <2>2, <2>3, <2>5, <3>6, FromCodeIs DEF After
      <4>2. {"line", "block", "escape"} \subseteq LexModes
        BY DEF LexModes
      <4> HIDE DEF good
      <4> QED
        BY <3>1, <3>2, <4>1, <4>2
    <3>7. CASE ~ \/ PairIs(s, q, k, "dash", "dash") \/ PairIs(s, q, k, "slash", "star")
                 \/ s[k] \in Quotes \/ Tagged(s, q, k)
      <4>1. Lex(s)[k] = q
        BY <2>2, <2>3, <2>5, <3>7, FromCodeIs DEF After
      <4> QED
        BY <2>3, <4>1
    <3> HIDE DEF good
    <3> QED
      BY <3>3, <3>4, <3>5, <3>6, <3>7
  <2>6. CASE q.mode = "line"
    <3> HIDE DEF good
    <3> QED
      BY <2>3, <2>4, <2>6 DEF After
  <2>7. CASE q.mode = "block"
    <3>1. \A d \in Int : good(Nested(q, d, k))
      BY <2>2, <2>3, <2>7, NestedIs
    <3>2. q.depth \in Int
      BY <2>3 DEF LexState
    <3>3. q.depth + 1 \in Int /\ q.depth - 1 \in Int
      BY <3>2
    <3>4. Lex(s)[k] \in {q, Code(k), Nested(q, q.depth + 1, k), Nested(q, q.depth - 1, k)}
      BY <2>3, <2>7 DEF After, FromBlock
    <3> HIDE DEF good
    <3> QED
      BY <2>3, <2>4, <3>1, <3>3, <3>4
  <2>8. CASE q.mode = "dollar"
    <3> HIDE DEF good
    <3> QED
      BY <2>3, <2>4, <2>8 DEF After, FromDollar
  <2>9. CASE q.mode \notin {"code", "line", "block", "dollar"}
    <3>1. Lex(s)[k] = FromLiteral(q, s[k], k)
      BY <2>3, <2>9 DEF After
    <3>2. Lex(s)[k] \in {q, [Code(k) EXCEPT !.reopens = q.mode], [q EXCEPT !.mark = k + 1]}
      BY <3>1 DEF FromLiteral
    <3>3. good([Code(k) EXCEPT !.reopens = q.mode])
      BY DEF Code, Enter
    <3>4. good([q EXCEPT !.mark = k + 1])
      BY <2>3, <2>9 DEF LexState
    <3> HIDE DEF good
    <3> QED
      BY <2>3, <3>2, <3>3, <3>4
  <2> HIDE DEF good
  <2> QED
    BY <2>5, <2>6, <2>7, <2>8, <2>9
<1> HIDE DEF U
<1>3. Nat \subseteq U
  BY <1>1, <1>2, Induct
<1>4. i \in Nat /\ i <= N
  BY <1>0
<1>5. i \in U
  BY <1>3, <1>4
<1> QED
  BY <1>4, <1>5 DEF U

\* The symbol that ends a construct belongs to no word.
LEMMA NoWordCloses ==
    ASSUME NEW s \in Seq(Symbols), NEW i \in 1 .. Len(s),
           Lex(s)[i - 1].mode # "code", Lex(s)[i].mode = "code"
    PROVE  s[i] \notin WordSymbols
<1> DEFINE q == Lex(s)[i - 1]
<1>1. i - 1 \in 0 .. Len(s) /\ i \in Nat
  OBVIOUS
<1>2. q \in LexState /\ Lex(s)[i] = After(s, q, i)
  BY <1>1, LexDef
<1>3. {"eol", "slash", "quote", "dquote", "dollar"} \cap WordSymbols = {}
  BY DEF WordSymbols, ReadKeywords, ExplainOptions, WriteKeywords, ControlKeywords
<1>4. q.mode = "dollar" => Len(q.tag) \in Nat \ {0} /\ q.tag[Len(q.tag)] = "dollar"
  BY <1>1, TagEndsInDollar
<1>5. q.mode # "code" /\ q.mode \in LexModes
  BY <1>2 DEF LexState
<1> HIDE DEF q
<1>6. CASE q.mode = "line"
  <2>1. s[i] = "eol"
    BY <1>2, <1>6 DEF After, q
  <2> QED
    BY <1>3, <2>1
<1>7. CASE q.mode = "block"
  <2>1. \A d \in Int : Nested(q, d, i).mode = "block"
    BY <1>1, <1>2, <1>7, NestedIs
  <2>2. q.depth + 1 \in Int /\ q.depth - 1 \in Int
    <3>1. q.depth \in Int
      BY <1>2 DEF LexState
    <3> QED
      BY <3>1
  <2>3. Lex(s)[i] = FromBlock(s, q, i)
    BY <1>2, <1>7 DEF After
  <2>4. s[i] = "slash"
    <3>1. SUFFICES ASSUME s[i] # "slash" PROVE FALSE
      OBVIOUS
    <3>2. FromBlock(s, q, i) \in {q, Nested(q, q.depth + 1, i)}
      BY <3>1 DEF FromBlock
    <3>3. FromBlock(s, q, i).mode = "block"
      BY <1>7, <2>1, <2>2, <3>2
    <3> QED
      BY <2>3, <3>3
  <2> QED
    BY <1>3, <2>4
<1>8. CASE q.mode = "dollar"
  <2>1. \E m \in q.mark + 1 .. i : SubSeq(s, m, i) = q.tag
    BY <1>2, <1>8 DEF After, FromDollar, q
  <2>2. PICK m \in q.mark + 1 .. i : SubSeq(s, m, i) = q.tag
    BY <2>1
  <2>3. m \in 1 .. i
    <3>1. q.mark \in Nat
      BY <1>2 DEF LexState
    <3> QED
      BY <1>1, <3>1
  <2> DEFINE t == SubSeq(s, m, i)
  <2>4. \A k \in m .. i : s[k] \in Symbols
    BY <2>3
  <2>5. /\ Len(t) = i - m + 1
        /\ \A k \in 1 .. i - m + 1 : t[k] = s[m + k - 1]
    BY <1>1, <2>3, <2>4, SubSeqProperties
  <2>6. i - m + 1 \in 1 .. i - m + 1 /\ m + (i - m + 1) - 1 = i
    BY <1>1, <2>3
  <2>7. t[i - m + 1] = s[m + (i - m + 1) - 1]
    BY <2>5, <2>6
  <2> HIDE DEF t
  <2>8. s[i] = "dollar"
    BY <1>4, <1>8, <2>2, <2>5, <2>6, <2>7 DEF t
  <2> QED
    BY <1>3, <2>8
<1>9. CASE q.mode \notin {"code", "line", "block", "dollar"}
  <2>1. Lex(s)[i] = FromLiteral(q, s[i], i)
    BY <1>2, <1>9 DEF After
  <2>2. s[i] \in Quotes
    <3>1. SUFFICES ASSUME s[i] \notin Quotes PROVE FALSE
      OBVIOUS
    <3>2. FromLiteral(q, s[i], i) \in {q, [q EXCEPT !.mark = i + 1]}
      BY <3>1 DEF FromLiteral
    <3>3. [q EXCEPT !.mark = i + 1].mode = q.mode
      BY <1>2 DEF LexState
    <3> QED
      BY <1>5, <2>1, <3>2, <3>3
  <2> QED
    BY <1>3, <2>2, QuotesAre
<1> QED
  BY <1>5, <1>6, <1>7, <1>8, <1>9

\* A word symbol right before a visible symbol is visible too.
LEMMA WordBeforeVisible ==
    ASSUME NEW s \in Seq(Symbols), NEW i \in Visible(s), i - 1 \in Hidden(s)
    PROVE  s[i - 1] \notin WordSymbols
<1> DEFINE q == Lex(s)
           N == Len(s)
<1>1. i \in 1 .. N /\ i \notin Hidden(s) /\ i - 1 \in 1 .. N /\ N \in Nat
  BY DEF Visible, Hidden
<1>2. q[i - 1].mode = "code" /\ \A j \in i .. N : ~ (q[j].mode # "code" /\ q[j].start <= i)
  BY <1>1, HiddenIf
<1>3. q[(i - 1) - 1].mode # "code"
  <2>1. SUFFICES ASSUME NEW j \in i - 1 .. N, q[j].mode # "code", q[j].start <= i - 1
                 PROVE  FALSE
    BY DEF Hidden
  <2>2. j # i - 1
    BY <1>2, <2>1
  <2>3. j \in i .. N /\ j \in 0 .. Len(s)
    BY <1>1, <2>1, <2>2
  <2>4. q[j].start \in Nat
    BY <2>3, LexDef DEF LexState
  <2>5. q[j].start <= i
    <3> DEFINE u == q[j].start
    <3> HIDE DEF u
    <3>1. u \in Nat /\ u <= i - 1
      BY <2>1, <2>4 DEF u
    <3>2. u <= i
      BY <1>1, <3>1
    <3> QED
      BY <3>2 DEF u
  <2> QED
    BY <1>2, <2>1, <2>3, <2>5
<1> QED
  BY <1>1, <1>2, <1>3, NoWordCloses

\* s with a space for everything that is hidden.
Blanked(s) == [i \in 1 .. Len(s) |-> IF i \in Hidden(s) THEN "space" ELSE s[i]]

LEMMA BlankedIs ==
    ASSUME NEW s \in Seq(Symbols)
    PROVE  /\ Blanked(s) \in Seq(Symbols) /\ Len(Blanked(s)) = Len(s)
           /\ \A i \in 1 .. Len(s) :
                 \/ i \in Hidden(s) /\ Blanked(s)[i] = "space"
                 \/ i \in Visible(s) /\ Blanked(s)[i] = s[i]
<1>1. "space" \in Symbols
  BY DEF Symbols, Marks
<1>2. Len(s) \in Nat /\ \A i \in 1 .. Len(s) : s[i] \in Symbols
  OBVIOUS
<1> QED
  BY <1>1, <1>2 DEF Blanked, Visible

\* In what is left nothing opens.
LEMMA BlankedOpensNothing ==
    ASSUME NEW s \in Seq(Symbols), NEW i \in 1 .. Len(s)
    PROVE  SkippableEnd(Blanked(s), i) = i
<1> DEFINE b == Blanked(s)
           N == Len(s)
<1>1. b \in Seq(Symbols) /\ Len(b) = N /\ N \in Nat /\ i \in 1 .. Len(b) /\ i \in Nat
  BY BlankedIs
<1>2. \A k \in 1 .. N : \/ k \in Hidden(s) /\ b[k] = "space"
                        \/ k \in Visible(s) /\ b[k] = s[k]
  BY BlankedIs
<1> HIDE DEF b, N
<1>3. CASE b[i] \in Blank
  BY <1>1, <1>3, BlankIsOrdinary DEF b
<1>4. CASE b[i] \notin Blank
  <2>1. i \in Visible(s) /\ b[i] = s[i] /\ s[i] # "eol"
    BY <1>1, <1>2, <1>4 DEF Blank, N
  <2>2. ASSUME NEW k \in Visible(s), s[k] # "eol"
        PROVE  ~ \/ OpensLine(s, k) \/ OpensBlock(s, k) \/ s[k] \in Quotes
                 \/ OpensEscape(s, k) \/ OpensDollar(s, k)
    <3>1. k \in 1 .. Len(s) /\ k \in Ordinary(s)
      BY <2>2, OrdinaryIsVisible
    <3>2. SkippableEnd(s, k) = k
      BY <2>2, <3>1, CursorStops
    <3> QED
      BY <3>1, <3>2, SkippableEndBounds
  <2>3. ASSUME NEW k \in Nat, At(b, k) \notin {"space", "end"}
        PROVE  k \in 1 .. N /\ k \in Visible(s) /\ b[k] = s[k] /\ At(s, k) = At(b, k)
    BY <1>1, <1>2, <2>3 DEF At, N
  <2>4. ~ OpensLine(b, i) /\ ~ OpensBlock(b, i)
    <3>1. SUFFICES ASSUME OpensLine(b, i) \/ OpensBlock(b, i) PROVE FALSE
      OBVIOUS
    <3>2. At(b, i + 1) \in {"dash", "star"} /\ i + 1 \in Nat
      BY <1>1, <3>1 DEF OpensLine, OpensBlock
    <3>3. At(s, i + 1) = At(b, i + 1)
      BY <2>3, <3>2
    <3>4. OpensLine(s, i) \/ OpensBlock(s, i)
      BY <2>1, <3>1, <3>3 DEF OpensLine, OpensBlock
    <3> QED
      BY <2>1, <2>2, <3>4
  <2>5. b[i] \notin Quotes
    BY <2>1, <2>2
  <2>6. ~ OpensEscape(b, i)
    <3>1. SUFFICES ASSUME OpensEscape(b, i) PROVE FALSE
      OBVIOUS
    <3>2. At(b, i + 1) = "quote" /\ i + 1 \in Nat
      BY <1>1, <3>1 DEF OpensEscape
    <3>3. i + 1 \in 1 .. N /\ i + 1 \in Visible(s) /\ At(s, i + 1) = "quote"
      BY <2>3, <3>2
    <3>4. s[i + 1] = "quote"
      BY <3>3 DEF At, N
    <3> QED
      BY <2>2, <3>3, <3>4, QuotesAre
  <2>7. ~ OpensDollar(b, i)
    <3>1. SUFFICES ASSUME OpensDollar(b, i) PROVE FALSE
      OBVIOUS
    <3>2. PICK j \in i + 1 .. Len(b) :
             /\ b[i] = "dollar" /\ b[j] = "dollar"
             /\ \A k \in i + 1 .. j - 1 : IsWordByte(b[k])
             /\ b[i + 1] # "1"
      BY <3>1 DEF OpensDollar, DollarTagEnds
    <3>3. "space" \notin WordSymbols
      BY DEF WordSymbols, ReadKeywords, ExplainOptions, WriteKeywords, ControlKeywords
    <3>4. \A k \in i + 1 .. j : b[k] = s[k]
      <4>1. \A k \in i + 1 .. j : k \in 1 .. N /\ (k \in i + 1 .. j - 1 \/ k = j)
        BY <1>1
      <4>2. \A k \in i + 1 .. j : b[k] # "space"
        BY <3>2, <3>3, <4>1 DEF IsWordByte
      <4> QED
        BY <1>2, <4>1, <4>2
    <3>5. i + 1 \in i + 1 .. j /\ j \in i + 1 .. j /\ \A k \in i + 1 .. j - 1 : k \in i + 1 .. j
      BY <1>1
    <3>6. /\ s[i] = "dollar" /\ s[j] = "dollar"
          /\ \A k \in i + 1 .. j - 1 : IsWordByte(s[k])
          /\ s[i + 1] # "1"
      BY <2>1, <3>2, <3>4, <3>5
    <3>7. DollarTagEnds(s, i) # {}
      <4>1. j \in i + 1 .. Len(s)
        BY <1>1 DEF N
      <4>2. j \in DollarTagEnds(s, i)
        BY <3>6, <4>1 DEF DollarTagEnds
      <4> QED
        BY <4>2
    <3>8. AtTokenStart(s, i)
      <4>1. SUFFICES ASSUME i # 1, IsWordByte(s[i - 1]) PROVE FALSE
        BY DEF AtTokenStart
      <4>2. i - 1 \in 1 .. N
        BY <1>1, <4>1
      <4>3. i - 1 \notin Hidden(s)
        BY <2>1, <4>1, WordBeforeVisible DEF IsWordByte
      <4>4. b[i - 1] = s[i - 1]
        BY <1>2, <4>2, <4>3
      <4> QED
        BY <3>1, <4>1, <4>4 DEF OpensDollar, AtTokenStart
    <3> QED
      BY <2>1, <2>2, <3>6, <3>7, <3>8 DEF OpensDollar
  <2>8. SkippableEnd(b, i) = i
    BY <1>1, <2>4, <2>5, <2>6, <2>7, SkippableEndBounds
  <2> QED
    BY <2>8 DEF b
<1> QED
  BY <1>3, <1>4

\* The cursor stops at every symbol of a blanked text, so all of it is visible.
LEMMA BlankedIsVisible ==
    ASSUME NEW s \in Seq(Symbols), NEW k \in 1 .. Len(s), Blanked(s)[k] # "eol"
    PROVE  k \in Visible(Blanked(s))
<1> DEFINE b == Blanked(s)
           N == Len(s)
           S == {n \in 1 .. N + 1 : Walk(b)[n] = n .. N}
<1>1. b \in Seq(Symbols) /\ Len(b) = N /\ N \in Nat
  BY BlankedIs
<1>2. \A i \in 1 .. N : SkippableEnd(b, i) = i
  BY BlankedOpensNothing
<1> HIDE DEF b
<1>3. ASSUME NEW n \in 1 .. N + 1, \A m \in n + 1 .. N + 1 : m \in S PROVE n \in S
  <2>1. Walk(b)[n] = WalkBody(b, Walk(b), n) /\ n \in Nat
    BY <1>1, WalkDef
  <2>2. CASE n > N
    <3>1. Walk(b)[n] = {} /\ n .. N = {}
      BY <1>1, <2>1, <2>2 DEF WalkBody
    <3> QED
      BY <3>1
  <2>3. CASE n <= N
    <3>1. n \in 1 .. N /\ n + 1 \in n + 1 .. N + 1 /\ n + 1 \in S
      BY <1>1, <1>3, <2>1, <2>3
    <3>2. SkippableEnd(b, n) = n
      BY <1>2, <3>1
    <3>3. ~ (n > Len(b)) /\ ~ (n > n)
      BY <1>1, <2>1, <2>3
    <3>4. Walk(b)[n] = {n} \cup Walk(b)[n + 1]
      BY <2>1, <3>2, <3>3 DEF WalkBody
    <3>5. Walk(b)[n + 1] = n + 1 .. N
      BY <3>1
    <3>6. {n} \cup (n + 1 .. N) = n .. N
      BY <1>1, <2>1, <2>3
    <3> QED
      BY <3>4, <3>5, <3>6
  <2> QED
    BY <1>1, <2>1, <2>2, <2>3
<1>4. 1 .. N + 1 \subseteq S
  <2> HIDE DEF S, N
  <2> QED
    BY <1>1, <1>3, InductDown
<1>5. Ordinary(b) = 1 .. N
  <2>1. 1 \in S
    BY <1>1, <1>4
  <2> QED
    BY <2>1 DEF Ordinary
<1> QED
  BY <1>1, <1>5, OrdinaryIsVisible DEF b

\* Blanking what is hidden leaves the verdict as it is.
LEMMA BlankingIsNeutral ==
    ASSUME NEW s \in Seq(Symbols)
    PROVE  ReadOnly(s) <=> ReadOnly(Blanked(s))
<1> DEFINE b == Blanked(s)
           N == Len(s)
<1>1. b \in Seq(Symbols) /\ Len(b) = N /\ N \in Nat
  BY BlankedIs
<1>2. \A i \in 1 .. N : \/ i \in Hidden(s) /\ b[i] = "space"
                        \/ i \in Visible(s) /\ b[i] = s[i]
  BY BlankedIs
<1>3. \A i \in 1 .. N : b[i] # "eol" => i \in Visible(b)
  BY BlankedIsVisible
<1>4. Visible(b) \subseteq 1 .. N /\ Visible(s) \subseteq 1 .. N
  BY <1>1, OrdinaryIsVisible
<1>5. \A i \in 1 .. N : i \in Visible(s) <=> i \notin Hidden(s)
  BY DEF Visible
<1>6. {"space", "eol", "semicolon"} \cap WordSymbols = {}
  BY DEF WordSymbols, ReadKeywords, ExplainOptions, WriteKeywords, ControlKeywords
<1> HIDE DEF b, N
<1>7. \A i \in 1 .. N : b[i] \notin Blank =>
         i \in Visible(b) /\ i \in Visible(s) /\ b[i] = s[i]
  BY <1>2, <1>3 DEF Blank
<1>8. \A i \in Visible(s) : i \in 1 .. N /\ b[i] = s[i]
  BY <1>2, <1>4, <1>5
<1>9. Cuts(b) = Cuts(s)
  <2>1. \A i \in 1 .. N : b[i] = "semicolon" => b[i] \notin Blank
    BY DEF Blank
  <2> QED
    BY <1>4, <1>7, <1>8, <2>1 DEF Cuts
<1>10. \A x, y : WordsBetween(b, x, y) = WordsBetween(s, x, y)
  <2>1. \A i \in 1 .. N : b[i] \in WordSymbols => b[i] \notin Blank
    BY <1>6 DEF Blank
  <2> QED
    BY <1>4, <1>7, <1>8, <2>1 DEF WordsBetween, IsWordByte
<1>11. ASSUME NEW x, NEW y
       PROVE  WordsOf(b, WordsBetween(b, x, y)) = WordsOf(s, WordsBetween(s, x, y))
  <2> DEFINE W == WordsBetween(s, x, y)
  <2>1. W \in SUBSET (1 .. N) /\ \A i \in W : i \in Nat /\ b[i] = s[i]
    BY <1>1, <1>4, <1>8 DEF WordsBetween
  <2> HIDE DEF W
  <2>2. W = Moved(W, 0) /\ 0 \in Nat
    <3>1. \A i \in W : i + 0 = i
      BY <2>1
    <3> QED
      BY <3>1 DEF Moved
  <2>3. \A i \in W : s[i + 0] = b[i]
    <3>1. \A i \in W : i + 0 = i
      BY <2>1
    <3> QED
      BY <2>1, <3>1
  <2>4. W \in SUBSET (1 .. Len(b)) /\ W \in SUBSET (1 .. Len(s))
    BY <1>1, <2>1 DEF N
  <2>5. WordsOf(b, W) = WordsOf(s, W)
    BY <1>1, <2>2, <2>3, <2>4, WordsMoved
  <2> QED
    BY <1>10, <2>5 DEF W
<1>12. ReadOnly(b) <=>
         \A x, y : Adjacent(N, Cuts(s), x, y)
                     => Verdict(WordsOf(s, WordsBetween(s, x, y))) = "read"
  <2>1. ReadOnly(b) <=>
          \A x, y : Adjacent(Len(b), Cuts(b), x, y)
                      => Verdict(WordsOf(b, WordsBetween(b, x, y))) = "read"
    BY <1>1, ReadOnlyIs
  <2> QED
    BY <1>1, <1>9, <1>11, <2>1
<1> QED
  BY <1>12, ReadOnlyIs DEF b, N

(***************************************************************************)
(* What literals, quoted identifiers and comments hold never decides, in   *)
(* any text: blanking them leaves the verdict as it is.                    *)
(***************************************************************************)
THEOREM HiddenDecidesNothing == Spec => []HiddenTextDecidesNothing
<1>1. ASSUME TextTyped PROVE HiddenTextDecidesNothing
  <2>1. ReadOnly(text) <=> ReadOnly(Blanked(text))
    BY <1>1, BlankingIsNeutral DEF TextTyped
  <2>2. ReadOnly(text) \in BOOLEAN /\ ReadOnly(Blanked(text)) \in BOOLEAN
    BY DEF ReadOnly
  <2>3. ReadOnly(text) = ReadOnly(Blanked(text))
    BY <2>1, <2>2
  <2> QED
    BY <2>3 DEF HiddenTextDecidesNothing, Blanked
<1> QED
  BY <1>1, AlwaysTyped, PTL
=============================================================================
