----------------------------- MODULE RelayProofs -----------------------------
(***************************************************************************)
(* The teardown of a session is right for sockets of any size and clients  *)
(* that send any number of messages.  IInv accounts for the pumps' results *)
(* and the lock, says what every result stands for, and follows a session  *)
(* in which nothing goes wrong to its end.                                 *)
(***************************************************************************)
EXTENDS Relay, TLAPS

Ended(pump) == IF pump = "done" THEN 1 ELSE 0

\* The results relay has taken from the channel.
Received ==
    CASE main = "first"    -> 0
      [] main = "returned" -> 2
      [] OTHER             -> 1

\* Each pump reports once, when it ends, and holds the lock only to write.
PumpsOK ==
    /\ Len(done) + Received = Ended(request) + Ended(response)
    /\ lock = "request"  <=> request = "reply"
    /\ lock = "response" <=> response \in Writing

\* relay closes the connections before it waits for the pump still running.
ConnsOK ==
    /\ main \in {"drain", "returned"} <=> clientConn = "closed"
    /\ main \in {"drain", "returned"} <=> upstreamConn = "closed"

\* Every error that is on its way to relay's caller has a fault behind it.
ErrorsOK ==
    /\ \A i \in DOMAIN done : done[i].err = "error" => "fault" \in upset
    /\ firstErr = "error" => "fault" \in upset
    /\ result = "error" => "fault" \in upset

\* A session without upsets: the half-close comes first, the backend's EOF second.
SmoothOK ==
    upset = {} =>
        /\ client # "gone" /\ vanished = {}
        /\ main \in {"first", "second", "returned"}
        /\ main = "first" =>
              /\ upstreamConn = "open" /\ backend # "closed"
              /\ response # "done"
              /\ \A i \in DOMAIN done : done[i].halfClose
        /\ main # "first" => request = "done"
        /\ request = "done" => client = "halfClosed" /\ fromClient = <<>>
        /\ backend = "closed" => request = "done" /\ toBackend = 0
        /\ response = "done" => backend = "closed" /\ fromBackend = <<>>

IInv == RelayTypeOK /\ PumpsOK /\ ConnsOK /\ ErrorsOK /\ SmoothOK

-----------------------------------------------------------------------------

\* A session starts with nothing reported, locked or closed.
LEMMA InitIInv == RelayInit => IInv
<1> SUFFICES ASSUME RelayInit PROVE IInv
  OBVIOUS
<1> USE RelayAssumption DEF RelayInit
<1>1. Len(fromClient) = 0 /\ Len(fromBackend) = 0 /\ Len(done) = 0 /\ DOMAIN done = {}
  OBVIOUS
<1>2. fromClient \in Seq(Kind) /\ fromBackend \in Seq(Part) /\ done \in Seq(Result)
  OBVIOUS
<1>3. RelayTypeOK
  BY <1>1, <1>2
  DEF RelayTypeOK, RequestPC, ResponsePC, MainPC, Err, Upset
<1> QED
  BY <1>1, <1>3
  DEF IInv, PumpsOK, ConnsOK, ErrorsOK, SmoothOK, Received, Ended, Writing

\* What a pump's last step does to the channel.
LEMMA ReportAdds ==
    ASSUME IInv, NEW pump \in {"request", "response"},
           NEW halfClose \in BOOLEAN, NEW err \in Err,
           Report(pump, halfClose, err)
    PROVE  /\ done' \in Seq(Result) /\ Len(done') = Len(done) + 1
           /\ Len(done') <= 2
           /\ DOMAIN done' = 1 .. Len(done) + 1
           /\ \A i \in DOMAIN done : done'[i] = done[i]
           /\ done'[Len(done) + 1] = [halfClose |-> halfClose, err |-> err]
<1>1. [halfClose |-> halfClose, err |-> err] \in Result
  BY DEF Result
<1> QED
  BY <1>1 DEF Report, IInv, RelayTypeOK

\* What relay takes from the channel, and what is left there.
LEMMA ReceiveTakes ==
    ASSUME IInv, done # <<>>, done' = Tail(done)
    PROVE  /\ Head(done) \in Result /\ Head(done) = done[1] /\ 1 \in DOMAIN done
           /\ done' \in Seq(Result) /\ Len(done') = Len(done) - 1
           /\ \A i \in DOMAIN done' : i + 1 \in DOMAIN done /\ done'[i] = done[i + 1]
  BY DEF IInv, RelayTypeOK

\* The peers may do anything.
LEMMA PeersIInv ==
    ASSUME IInv,
           \/ \E kind \in Kind : ClientSends(kind)
           \/ ClientHalfCloses \/ ClientDies \/ ClientVanishes \/ ClientStalls
           \/ ClientDrains \/ BackendAnswers \/ BackendFinishes
           \/ BackendEOF \/ BackendDies \/ BackendVanishes
    PROVE  IInv'
<1> USE DEF peerVars, sockVars, connVars, mainVars
<1>1. RelayTypeOK'
  <2> USE RelayAssumption DEF IInv, RelayTypeOK, Upset
  <2>1. ASSUME NEW kind \in Kind, ClientSends(kind) PROVE RelayTypeOK'
    BY <2>1 DEF ClientSends
  <2>2. CASE ClientHalfCloses
    BY <2>2 DEF ClientHalfCloses
  <2>3. CASE ClientDies
    BY <2>3 DEF ClientDies
  <2>4. CASE ClientVanishes
    BY <2>4 DEF ClientVanishes
  <2>5. CASE ClientStalls
    BY <2>5 DEF ClientStalls
  <2>6. CASE ClientDrains
    BY <2>6 DEF ClientDrains
  <2>7. CASE BackendAnswers
    BY <2>7 DEF BackendAnswers, BackendSends, Part
  <2>8. CASE BackendFinishes
    BY <2>8 DEF BackendFinishes, BackendSends, Part
  <2>9. CASE BackendEOF
    BY <2>9 DEF BackendEOF
  <2>10. CASE BackendDies
    BY <2>10 DEF BackendDies
  <2>11. CASE BackendVanishes
    BY <2>11 DEF BackendVanishes
  <2> QED
    BY <2>1, <2>2, <2>3, <2>4, <2>5, <2>6, <2>7, <2>8, <2>9, <2>10, <2>11
<1>2. /\ UNCHANGED <<connVars, request, response, lock, done, mainVars>>
      /\ upset \subseteq upset'
  BY DEF ClientSends, ClientHalfCloses, ClientDies, ClientVanishes, ClientStalls,
         ClientDrains, BackendAnswers, BackendFinishes, BackendSends, BackendEOF,
         BackendDies, BackendVanishes
<1>3. PumpsOK' /\ ConnsOK' /\ ErrorsOK'
  BY <1>2 DEF IInv, PumpsOK, ConnsOK, ErrorsOK, Received, Ended
<1>4. SmoothOK'
  <2> USE DEF IInv, RelayTypeOK, ConnsOK, SmoothOK
  <2>1. ASSUME NEW kind \in Kind, ClientSends(kind) PROVE SmoothOK'
    BY <2>1 DEF ClientSends
  <2>2. CASE ClientHalfCloses
    BY <2>2 DEF ClientHalfCloses
  <2>3. CASE ClientDies
    BY <2>3 DEF ClientDies
  <2>4. CASE ClientVanishes
    BY <2>4 DEF ClientVanishes
  <2>5. CASE ClientStalls
    BY <2>5 DEF ClientStalls
  <2>6. CASE ClientDrains
    BY <2>6 DEF ClientDrains
  <2>7. CASE BackendAnswers
    BY <2>7 DEF BackendAnswers, BackendSends
  <2>8. CASE BackendFinishes
    BY <2>8 DEF BackendFinishes, BackendSends
  <2>9. CASE BackendEOF
    BY <2>9 DEF BackendEOF
  <2>10. CASE BackendDies
    BY <2>10 DEF BackendDies
  <2>11. CASE BackendVanishes
    BY <2>11 DEF BackendVanishes
  <2> QED
    BY <2>1, <2>2, <2>3, <2>4, <2>5, <2>6, <2>7, <2>8, <2>9, <2>10, <2>11
<1> QED
  BY <1>1, <1>3, <1>4 DEF IInv

\* The end of the client-to-upstream pump, with a result it may report.
LEMMA RequestEndIInv ==
    ASSUME IInv, request # "done",
           NEW halfClose \in BOOLEAN, NEW err \in Err, RequestEnds(halfClose, err),
           upset \subseteq upset', upset' \subseteq Upset,
           err = "error" => "fault" \in upset',
           upset' = {} => /\ halfClose /\ main = "first"
                          /\ client = "halfClosed" /\ fromClient = <<>>
    PROVE  IInv'
<1> USE RelayAssumption
    DEF RequestEnds, peerVars, sockVars, connVars, mainVars
<1>1. Report("request", halfClose, err)
  OBVIOUS
<1>2. /\ done' \in Seq(Result) /\ Len(done') = Len(done) + 1 /\ Len(done') <= 2
      /\ DOMAIN done' = 1 .. Len(done) + 1
      /\ \A i \in DOMAIN done : done'[i] = done[i]
      /\ done'[Len(done) + 1] = [halfClose |-> halfClose, err |-> err]
  BY <1>1, ReportAdds
<1>3. \A i \in DOMAIN done' : i \in DOMAIN done \/ i = Len(done) + 1
  BY <1>2 DEF IInv, RelayTypeOK
<1>4. RelayTypeOK'
  BY <1>1, <1>2 DEF IInv, RelayTypeOK, Report, RequestPC
<1>5. PumpsOK' /\ ConnsOK'
  BY <1>1, <1>2
  DEF IInv, RelayTypeOK, PumpsOK, ConnsOK, Received, Ended, Report, Writing
<1>6. ErrorsOK'
  BY <1>2, <1>3 DEF IInv, ErrorsOK
<1>7. SmoothOK'
  BY <1>2, <1>3 DEF IInv, SmoothOK
<1> QED
  BY <1>4, <1>5, <1>6, <1>7 DEF IInv

\* The client-to-upstream pump, also when it panics.
LEMMA RequestIInv ==
    ASSUME IInv, RequestPump \/ RequestPanics PROVE IInv'
<1> USE RelayAssumption DEF Upset, Err
<1>1. CASE ReadRequest
  BY <1>1
  DEF ReadRequest, IInv, RelayTypeOK, PumpsOK, ConnsOK, ErrorsOK, SmoothOK,
      Received, Ended, RequestPC, peerVars, connVars, mainVars
<1>2. CASE Forward
  BY <1>2
  DEF Forward, BackendUnreachable, IInv, RelayTypeOK, PumpsOK, ConnsOK,
      ErrorsOK, SmoothOK, Received, Ended, RequestPC, peerVars,
      connVars, mainVars
<1>3. CASE LockForReply
  BY <1>3
  DEF LockForReply, IInv, RelayTypeOK, PumpsOK, ConnsOK, ErrorsOK, SmoothOK,
      Received, Ended, RequestPC, peerVars, sockVars, connVars, mainVars
<1>4. CASE WriteReply
  BY <1>4
  DEF WriteReply, WriteClient, IInv, RelayTypeOK, PumpsOK, ConnsOK, ErrorsOK,
      SmoothOK, Received, Ended, RequestPC, peerVars, connVars, mainVars
<1>5. CASE ReadInvalid
  <2>1. "fault" \in upset' /\ upset' \subseteq Upset
    BY <1>5 DEF ReadInvalid, IInv, RelayTypeOK
  <2> QED
    BY <1>5, <2>1, RequestEndIInv DEF ReadInvalid
<1>6. CASE ReplyStalls
  <2>1. "fault" \in upset' /\ upset' \subseteq Upset
    BY <1>6 DEF ReplyStalls, IInv, RelayTypeOK
  <2> QED
    BY <1>6, <2>1, RequestEndIInv DEF ReplyStalls
<1>7. CASE RequestPanics
  <2>1. "fault" \in upset' /\ upset' \subseteq Upset
    BY <1>7 DEF RequestPanics, IInv, RelayTypeOK
  <2> QED
    BY <1>7, <2>1, RequestEndIInv DEF RequestPanics
<1>8. CASE ReadEOF
  <2>1. upset' \subseteq Upset /\ main \notin {"drain", "returned"}
    BY <1>8 DEF ReadEOF, IInv, RelayTypeOK, ConnsOK
  <2>2. upset' = {} => main = "first"
    BY <1>8, <2>1 DEF ReadEOF, IInv, SmoothOK
  <2> QED
    BY <1>8, <2>1, <2>2, RequestEndIInv DEF ReadEOF
<1>9. CASE RequestDisconnected
  <2>1. upset' \subseteq Upset /\ upset # {} /\ request # "done"
    BY <1>9
    DEF RequestDisconnected, ClientUnreachable, BackendUnreachable, IInv,
        RelayTypeOK, SmoothOK, ConnsOK
  <2> QED
    BY <1>9, <2>1, RequestEndIInv DEF RequestDisconnected
<1>10. CASE RequestTimesOut
  <2>1. "fault" \in upset' /\ upset' \subseteq Upset /\ request # "done"
    BY <1>10 DEF RequestTimesOut, IInv, RelayTypeOK
  <2> QED
    BY <1>10, <2>1, RequestEndIInv DEF RequestTimesOut
<1> QED
  BY <1>1, <1>2, <1>3, <1>4, <1>5, <1>6, <1>7, <1>8, <1>9, <1>10 DEF RequestPump

\* The end of the upstream-to-client pump, with a result it may report.
LEMMA ResponseEndIInv ==
    ASSUME IInv, response # "done", NEW err \in Err, ResponseEnds(err),
           upset \subseteq upset', upset' \subseteq Upset,
           err = "error" => "fault" \in upset',
           upset' = {} => /\ main # "first"
                          /\ backend = "closed" /\ fromBackend = <<>>
    PROVE  IInv'
<1> USE RelayAssumption
    DEF ResponseEnds, peerVars, sockVars, connVars, mainVars
<1>1. Report("response", FALSE, err)
  OBVIOUS
<1>2. /\ done' \in Seq(Result) /\ Len(done') = Len(done) + 1 /\ Len(done') <= 2
      /\ DOMAIN done' = 1 .. Len(done) + 1
      /\ \A i \in DOMAIN done : done'[i] = done[i]
      /\ done'[Len(done) + 1] = [halfClose |-> FALSE, err |-> err]
  BY <1>1, ReportAdds
<1>3. \A i \in DOMAIN done' : i \in DOMAIN done \/ i = Len(done) + 1
  BY <1>2 DEF IInv, RelayTypeOK
<1>4. RelayTypeOK'
  BY <1>1, <1>2 DEF IInv, RelayTypeOK, Report, ResponsePC, Writing
<1>5. PumpsOK' /\ ConnsOK'
  BY <1>1, <1>2
  DEF IInv, RelayTypeOK, PumpsOK, ConnsOK, Received, Ended, Report, Writing
<1>6. ErrorsOK'
  BY <1>2, <1>3 DEF IInv, ErrorsOK
<1>7. SmoothOK'
  BY <1>2, <1>3 DEF IInv, SmoothOK
<1> QED
  BY <1>4, <1>5, <1>6, <1>7 DEF IInv

\* The upstream-to-client pump, also when it panics.
LEMMA ResponseIInv ==
    ASSUME IInv, ResponsePump \/ CopyRunsLate \/ ResponsePanics PROVE IInv'
<1> USE RelayAssumption DEF Upset, Err
<1>1. CASE ReadResponse
  BY <1>1
  DEF ReadResponse, IInv, RelayTypeOK, PumpsOK, ConnsOK, ErrorsOK, SmoothOK,
      Received, Ended, ResponsePC, Writing, peerVars, connVars, mainVars
<1>2. CASE LockForResponse
  BY <1>2
  DEF LockForResponse, IInv, RelayTypeOK, PumpsOK, ConnsOK, ErrorsOK, SmoothOK,
      Received, Ended, ResponsePC, Writing, peerVars, sockVars, connVars, mainVars
<1>3. CASE WriteWhole
  BY <1>3
  DEF WriteWhole, WriteClient, IInv, RelayTypeOK, PumpsOK, ConnsOK,
      ErrorsOK, SmoothOK, Received, Ended, ResponsePC, Writing, peerVars,
      connVars, mainVars
<1>4. CASE WriteHeader
  BY <1>4
  DEF WriteHeader, WriteClient, IInv, RelayTypeOK, PumpsOK, ConnsOK,
      ErrorsOK, SmoothOK, Received, Ended, ResponsePC, Writing, peerVars,
      connVars, mainVars
<1>5. CASE CopyPayload
  BY <1>5
  DEF CopyPayload, WriteClient, IInv, RelayTypeOK, PumpsOK, ConnsOK,
      ErrorsOK, SmoothOK, Received, Ended, ResponsePC, Writing, peerVars,
      connVars, mainVars
<1>6. CASE CopyRunsLate
  BY <1>6
  DEF CopyRunsLate, IInv, RelayTypeOK, PumpsOK, ConnsOK,
      ErrorsOK, SmoothOK, Received, Ended, ResponsePC, Writing, peerVars,
      sockVars, connVars, mainVars
<1>7. CASE ResponseStalls
  <2>1. "fault" \in upset' /\ upset' \subseteq Upset
    BY <1>7 DEF ResponseStalls, IInv, RelayTypeOK
  <2> QED
    BY <1>7, <2>1, ResponseEndIInv DEF ResponseStalls
<1>8. CASE ResponsePanics
  <2>1. "fault" \in upset' /\ upset' \subseteq Upset
    BY <1>8 DEF ResponsePanics, IInv, RelayTypeOK
  <2> QED
    BY <1>8, <2>1, ResponseEndIInv DEF ResponsePanics
<1>9. CASE ResponseDisconnected
  <2>1. upset' \subseteq Upset /\ response # "done"
    BY <1>9 DEF ResponseDisconnected, IInv, RelayTypeOK
  <2>2. ASSUME upset = {} PROVE main \notin {"drain", "returned"}
    <3>1. main # "returned"
      BY <2>1 DEF IInv, RelayTypeOK, PumpsOK, Received, Ended
    <3> QED
      BY <2>2, <3>1 DEF IInv, SmoothOK
  <2>3. upset = {} => backend = "closed" /\ fromBackend = <<>> /\ main # "first"
    BY <1>9, <2>2
    DEF ResponseDisconnected, UpstreamEnds, ClientUnreachable, IInv, SmoothOK,
        ConnsOK
  <2> QED
    BY <1>9, <2>1, <2>3, ResponseEndIInv DEF ResponseDisconnected
<1>10. CASE ReadInvalidResponse
  <2>1. "fault" \in upset' /\ upset' \subseteq Upset
    BY <1>10 DEF ReadInvalidResponse, IInv, RelayTypeOK
  <2> QED
    BY <1>10, <2>1, ResponseEndIInv DEF ReadInvalidResponse
<1>11. CASE ResponseTimesOut
  <2>1. "fault" \in upset' /\ upset' \subseteq Upset /\ response # "done"
    BY <1>11 DEF ResponseTimesOut, IInv, RelayTypeOK
  <2> QED
    BY <1>11, <2>1, ResponseEndIInv DEF ResponseTimesOut
<1> QED
  BY <1>1, <1>2, <1>3, <1>4, <1>5, <1>6, <1>7, <1>8, <1>9, <1>10, <1>11
  DEF ResponsePump

\* relay itself, from the first result to its return.
LEMMA MainIInv == ASSUME IInv, Main PROVE IInv'
<1> USE DEF peerVars, sockVars, connVars, mainVars
<1>1. CASE ReceiveFirst
  <2>1. done # <<>> /\ done' = Tail(done)
    BY <1>1 DEF ReceiveFirst
  <2>2. RelayTypeOK'
    BY <1>1, <2>1, ReceiveTakes
    DEF ReceiveFirst, IInv, RelayTypeOK, MainPC, Err, Result
  <2>3. PumpsOK'
    BY <1>1, <2>1, ReceiveTakes
    DEF ReceiveFirst, IInv, RelayTypeOK, PumpsOK, Received, Ended
  <2>4. ConnsOK'
    BY <1>1 DEF ReceiveFirst, IInv, ConnsOK
  <2>5. ErrorsOK'
    BY <1>1, <2>1, ReceiveTakes DEF ReceiveFirst, IInv, ErrorsOK
  <2>6. SmoothOK'
    <3>1. upset = {} => Head(done).halfClose /\ backend # "closed" /\ request = "done"
      BY <1>1, <2>1, ReceiveTakes
      DEF ReceiveFirst, IInv, RelayTypeOK, PumpsOK, SmoothOK, Received, Ended
    <3> QED
      BY <1>1, <3>1 DEF ReceiveFirst, IInv, SmoothOK
  <2> QED
    BY <2>2, <2>3, <2>4, <2>5, <2>6 DEF IInv
<1>2. CASE ReceiveSecond
  <2>1. done # <<>> /\ done' = Tail(done)
    BY <1>2 DEF ReceiveSecond
  <2>2. RelayTypeOK'
    BY <1>2, <2>1, ReceiveTakes
    DEF ReceiveSecond, CloseBoth, IInv, RelayTypeOK, MainPC, Err, Result
  <2>3. PumpsOK'
    BY <1>2, <2>1, ReceiveTakes
    DEF ReceiveSecond, CloseBoth, IInv, RelayTypeOK, PumpsOK, Received, Ended
  <2>4. ConnsOK'
    BY <1>2 DEF ReceiveSecond, CloseBoth, IInv, ConnsOK
  <2>5. ErrorsOK'
    BY <1>2, <2>1, ReceiveTakes DEF ReceiveSecond, CloseBoth, IInv, ErrorsOK
  <2>6. SmoothOK'
    BY <1>2, <2>1, ReceiveTakes
    DEF ReceiveSecond, CloseBoth, IInv, RelayTypeOK, PumpsOK, SmoothOK, Received, Ended
  <2> QED
    BY <2>2, <2>3, <2>4, <2>5, <2>6 DEF IInv
<1>3. CASE CloseConns
  <2>2. RelayTypeOK'
    BY <1>3 DEF CloseConns, CloseBoth, IInv, RelayTypeOK, MainPC, Err, Result
  <2>3. PumpsOK'
    BY <1>3 DEF CloseConns, CloseBoth, IInv, RelayTypeOK, PumpsOK, Received, Ended
  <2>4. ConnsOK'
    BY <1>3 DEF CloseConns, CloseBoth, IInv, ConnsOK
  <2>5. ErrorsOK'
    BY <1>3 DEF CloseConns, CloseBoth, IInv, ErrorsOK
  <2>6. SmoothOK'
    BY <1>3 DEF CloseConns, CloseBoth, IInv, SmoothOK
  <2> QED
    BY <2>2, <2>3, <2>4, <2>5, <2>6 DEF IInv
<1>4. CASE JoinPump
  <2>1. done # <<>> /\ done' = Tail(done)
    BY <1>4 DEF JoinPump
  <2>2. RelayTypeOK'
    BY <1>4, <2>1, ReceiveTakes
    DEF JoinPump, IInv, RelayTypeOK, MainPC, Err, Result
  <2>3. PumpsOK'
    BY <1>4, <2>1, ReceiveTakes
    DEF JoinPump, IInv, RelayTypeOK, PumpsOK, Received, Ended
  <2>4. ConnsOK'
    BY <1>4 DEF JoinPump, IInv, ConnsOK
  <2>5. ErrorsOK'
    BY <1>4, <2>1, ReceiveTakes DEF JoinPump, IInv, ErrorsOK
  <2>6. SmoothOK'
    BY <1>4, <2>1, ReceiveTakes DEF JoinPump, IInv, SmoothOK
  <2> QED
    BY <2>2, <2>3, <2>4, <2>5, <2>6 DEF IInv
<1> QED
  BY <1>1, <1>2, <1>3, <1>4 DEF Main

\* So IInv holds of every state of a session.
LEMMA AlwaysIInv == RelaySpec => []IInv
<1>1. IInv /\ UNCHANGED relayVars => IInv'
  BY DEF IInv, RelayTypeOK, PumpsOK, ConnsOK, ErrorsOK, SmoothOK, Received,
         Ended, relayVars, peerVars, sockVars, connVars, mainVars
<1>2. IInv /\ [RelayNext]_relayVars => IInv'
  BY <1>1, PeersIInv, RequestIInv, ResponseIInv, MainIInv
  DEF RelayNext, Environment
<1> QED
  BY <1>2, InitIInv, PTL DEF RelaySpec

-----------------------------------------------------------------------------

\* Every variable of the relay keeps its type; the channel never overflows.
THEOREM TypeCorrect == RelaySpec => []RelayTypeOK
<1>1. IInv => RelayTypeOK
  BY DEF IInv
<1> QED
  BY <1>1, AlwaysIInv, PTL

\* No goroutine, lock or connection outlives its session.
THEOREM PumpsAreJoined == RelaySpec => []PumpsJoined
<1>1. IInv => PumpsJoined
  <2> SUFFICES ASSUME IInv, main = "returned" PROVE PumpsJoined
    BY DEF PumpsJoined
  <2> USE DEF IInv, RelayTypeOK, PumpsOK, ConnsOK
  <2>1. request = "done" /\ response = "done" /\ Len(done) = 0
    BY DEF Received, Ended
  <2> QED
    BY <2>1 DEF PumpsJoined, Writing
<1> QED
  BY <1>1, AlwaysIInv, PTL

\* What relay reports is the cause of the session's end, not its noise.
THEOREM ResultIsCausal == RelaySpec => []CausalResult
<1>1. IInv => CausalResult
  BY DEF IInv, ErrorsOK, CausalResult
<1> QED
  BY <1>1, AlwaysIInv, PTL

\* A client that half-closes is served out unless something goes wrong.
THEOREM HalfCloseIsServedOut == RelaySpec => []HalfCloseServedOut
<1>1. IInv => HalfCloseServedOut
  <2> SUFFICES ASSUME IInv, main = "returned" PROVE HalfCloseServedOut
    BY DEF HalfCloseServedOut
  <2>1. request = "done" /\ response = "done"
    BY DEF IInv, RelayTypeOK, PumpsOK, Received, Ended
  <2> QED
    BY <2>1 DEF IInv, SmoothOK, HalfCloseServedOut
<1> QED
  BY <1>1, AlwaysIInv, PTL
=============================================================================
