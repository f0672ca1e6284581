----------------------------- MODULE FramingProofs -----------------------------
(***************************************************************************)
(* Framing's safety properties hold for every size of length field, buffer *)
(* and message limit.  IInv says where each kind of read ends; that is     *)
(* what keeps the reader inside the client's message.                      *)
(***************************************************************************)
EXTENDS Framing, TLAPS

\* A read has taken what it has taken from what was sent, and no more than it wants.
SpanOK ==
    /\ from <= pos /\ pos <= target /\ pos <= sent

\* Where the read under way ends, and what it is part of.
TargetOK ==
    /\ stage = "startupHead" => from = 0 /\ target = 8
    /\ stage = "startupBody" => target = boundary
    /\ stage = "head" => from = boundary /\ target = from + 5
    /\ stage \in {"take", "grow", "chunk", "fill", "stream"} =>
          base <= pos /\ boundary = base + size
    /\ stage = "take" => pos = base
    /\ stage = "grow" => pos <= base + capacity /\ capacity <= size
    /\ stage = "chunk" => target = base + capacity /\ capacity <= size
    /\ stage \in {"fill", "stream"} => target = base + size

IInv ==
    /\ TypeOK
    /\ SpanOK
    /\ TargetOK
    /\ CleanCloseOnlyBetweenMessages
    /\ BufferFollowsBytes
    /\ outcome # "none" <=> stage = "ended"

\* Any behaviour starts with the read of a startup packet's head.
LEMMA InitIInv == Init => IInv
<1> SUFFICES ASSUME Init PROVE IInv
  OBVIOUS
<1> USE FramingAssumption DEF Init
<1>1. TypeOK
  BY DEF TypeOK, Stage, Outcome
<1>2. SpanOK /\ TargetOK
  BY DEF SpanOK, TargetOK
<1>3. CleanCloseOnlyBetweenMessages /\ BufferFollowsBytes
  BY DEF CleanCloseOnlyBetweenMessages, BufferFollowsBytes
<1> QED
  BY <1>1, <1>2, <1>3 DEF IInv

\* Whatever the client sends or not, and whatever is read next, IInv stays.
LEMMA StepIInv == IInv /\ [Next]_vars => IInv'
<1> SUFFICES ASSUME IInv, [Next]_vars PROVE IInv'
  OBVIOUS
<1> USE FramingAssumption
    DEF IInv, TypeOK, SpanOK, TargetOK, CleanCloseOnlyBetweenMessages,
        BufferFollowsBytes, Stage, Outcome, Full
<1>1. CASE Send
  BY <1>1 DEF Send, readVars, messageVars
<1>2. CASE HangUp
  BY <1>2 DEF HangUp, readVars, messageVars
<1>3. CASE ReadOn
  BY <1>3 DEF ReadOn, Reading, Least, clientVars, messageVars
<1>4. ASSUME NEW length \in Lengths, ReadStartupHead(length) PROVE IInv'
  BY <1>4 DEF ReadStartupHead, End, Begin, Lengths, clientVars, readVars, messageVars
<1>5. ASSUME NEW length \in Lengths, ReadHeader(length) PROVE IInv'
  BY <1>5 DEF ReadHeader, End, PayloadLen, Lengths, clientVars, readVars, messageVars
<1>6. CASE ReadStartupBody
  BY <1>6 DEF ReadStartupBody, Begin, clientVars, messageVars
<1>7. CASE NoStartup
  BY <1>7 DEF NoStartup, End, clientVars, readVars, messageVars
<1>8. CASE NoHeader
  BY <1>8 DEF NoHeader, Starved, End, clientVars, readVars, messageVars
<1>9. ASSUME NEW room \in {ScratchMax, MaxHeld}, TakeInto(room) PROVE IInv'
  BY <1>9 DEF TakeInto, Begin, clientVars
<1>10. CASE TakeStreaming
  BY <1>10 DEF TakeStreaming, Begin, clientVars, messageVars
<1>11. CASE TakeGrowing
  BY <1>11 DEF TakeGrowing, Least, clientVars, readVars
<1>12. CASE GrowOrReturn
  BY <1>12 DEF GrowOrReturn, Grown, Least, Begin, clientVars, messageVars
<1>13. CASE ChunkRead
  BY <1>13 DEF ChunkRead, clientVars, readVars, messageVars
<1>14. CASE PayloadTaken
  BY <1>14 DEF PayloadTaken, Begin, clientVars, messageVars
<1>15. CASE PayloadTorn
  BY <1>15 DEF PayloadTorn, End, clientVars, readVars, messageVars
<1>16. CASE UNCHANGED vars
  BY <1>16 DEF vars, clientVars, readVars, messageVars
<1> QED
  BY <1>1, <1>2, <1>3, <1>4, <1>5, <1>6, <1>7, <1>8, <1>9, <1>10, <1>11,
     <1>12, <1>13, <1>14, <1>15, <1>16 DEF Next, Reader

\* IInv holds throughout.
LEMMA AlwaysIInv == Spec => []IInv
  BY InitIInv, StepIInv, PTL DEF Spec

\* The reader's state keeps its types, whatever lengths are announced.
THEOREM TypeCorrect == Spec => []TypeOK
<1>1. IInv => TypeOK
  BY DEF IInv
<1> QED
  BY <1>1, AlwaysIInv, PTL

\* A header is looked for exactly where the message before it ended.
THEOREM StaysInStep == Spec => []InStep
<1>1. IInv => InStep
  BY DEF IInv, InStep, TypeOK, SpanOK, TargetOK, Stage
<1> QED
  BY <1>1, AlwaysIInv, PTL

\* Only a stream that ended between two messages counts as closed cleanly.
THEOREM CleanCloseIsClean == Spec => []CleanCloseOnlyBetweenMessages
<1>1. IInv => CleanCloseOnlyBetweenMessages
  BY DEF IInv
<1> QED
  BY <1>1, AlwaysIInv, PTL

\* No buffer beyond the budgets outgrows twice the bytes that have arrived.
THEOREM BufferStaysBounded == Spec => []BufferFollowsBytes
<1>1. IInv => BufferFollowsBytes
  BY DEF IInv
<1> QED
  BY <1>1, AlwaysIInv, PTL
=============================================================================
