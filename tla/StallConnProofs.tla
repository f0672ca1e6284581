--------------------------- MODULE StallConnProofs ---------------------------
(***************************************************************************)
(* The write guard never tears down a client that takes a chunk in every   *)
(* window, for transfers, chunks and socket buffers of any size.  What the *)
(* client has taken in a window and what the socket still holds came from  *)
(* the buffer the window began with or from the part of the chunk that has *)
(* been written; and a write has a unit left to write while it is under    *)
(* way, so that time only passes while the socket is full.                 *)
(***************************************************************************)
EXTENDS StallConn, TLAPS

ChunkOK == pc = "copy" => chunkLeft > 0 /\ written + chunkLeft <= Total

WindowOK ==
    op = "Write" =>
        /\ arrived = Total
        /\ pc = "copy" /\ elapsed < Timeout =>
              taken + buffered <= SockCap + (ChunkSize - chunkLeft)
        /\ pc = "copy" /\ elapsed = Timeout => taken <= ChunkSize - chunkLeft

IInv == TypeOK /\ ChunkOK /\ WindowOK /\ ProgressSurvives

\* A transfer starts before its first chunk.
LEMMA InitIInv == Init => IInv
  BY StallAssumption DEF Init, IInv, TypeOK, ChunkOK, WindowOK, ProgressSurvives

\* Every step of the copy, the clock, the upstream and the client keeps IInv.
LEMMA StepIInv == IInv /\ [Next]_vars => IInv'
<1> SUFFICES ASSUME IInv, [Next]_vars PROVE IInv'
  OBVIOUS
<1> USE StallAssumption
    DEF IInv, TypeOK, ChunkOK, WindowOK, ProgressSurvives, Expired, windowVars
<1>1. CASE Arm
  BY <1>1 DEF Arm, Smaller
<1>2. CASE Copy
  BY <1>2 DEF Copy
<1>3. CASE Stall
  BY <1>3 DEF Stall
<1>4. CASE SourceDelivers
  BY <1>4 DEF SourceDelivers
<1>5. CASE ClientTakes
  BY <1>5 DEF ClientTakes
<1>6. CASE Tick
  BY <1>6 DEF Tick
<1>7. CASE UNCHANGED vars
  BY <1>7 DEF vars
<1> QED
  BY <1>1, <1>2, <1>3, <1>4, <1>5, <1>6, <1>7 DEF Next

\* So IInv holds of every state of a transfer.
LEMMA AlwaysIInv == Spec => []IInv
  BY InitIInv, StepIInv, PTL DEF Spec

\* Every variable of a transfer keeps its type: no chunk is overrun.
THEOREM TypeCorrect == Spec => []TypeOK
<1>1. IInv => TypeOK
  BY DEF IInv
<1> QED
  BY <1>1, AlwaysIInv, PTL

\* A stalled Write means a client that took less than a chunk in a window.
THEOREM ProgressIsEnough == Spec => []ProgressSurvives
<1>1. IInv => ProgressSurvives
  BY DEF IInv
<1> QED
  BY <1>1, AlwaysIInv, PTL
=============================================================================
