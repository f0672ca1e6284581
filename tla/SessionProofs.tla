---------------------------- MODULE SessionProofs ----------------------------
(***************************************************************************)
(* A session for every policy, budget, wire, window and set of client      *)
(* messages: no frame is torn apart, nothing refused gets through, and     *)
(* without a policy the proxy keeps silent.  The filter's invariant is     *)
(* taken over from MsgFilterProofs; what is new is the lock and the        *)
(* message copyResponses is in the middle of.                              *)
(*                                                                         *)
(* SessionInv holds whatever the client does.  The second half assumes a   *)
(* client that sends no Query and no FunctionCall inside a batch, and      *)
(* shows by CalmInv that no ReadyForQuery is lost or made up, that a       *)
(* backend that discards gets its Sync, and that an answer of the proxy's  *)
(* tells the truth to a client that waits.  (The run interrupted_batch     *)
(* shows why the client must not interrupt.)                               *)
(***************************************************************************)
EXTENDS Session, MsgFilterProofs, SequenceTheorems, FiniteSetTheorems

PeersOK ==
    /\ awaiting \in Int
    /\ inBatch \in BOOLEAN
    /\ midFrame \in BOOLEAN
    /\ backendTx \in TxStatus
    /\ backendSkips \in BOOLEAN
    /\ fromBackend \in Seq(Response)
    /\ rpc \in ResponsePC

\* The lock, and the message copyResponses is in the middle of.
ResponsesOK ==
    /\ mu = "responses" <=> rpc \in {"locked", "body"}
    /\ rpc # "header" => fromBackend # <<>>
    /\ rpc = "store" => Head(fromBackend) \in TxStatus /\ txStatus = Head(fromBackend)
    /\ rpc \in {"locked", "body"} => Head(fromBackend) = "Data"
    /\ rpc = "body" =>
          IF clientW = <<>> THEN midFrame ELSE clientW[Len(clientW)].part = "head"

SessionInv ==
    /\ FilterInv
    /\ pc \notin Ended
    /\ pc # "read" => Enforces
    /\ PeersOK
    /\ ResponsesOK
    /\ FramesIntact
    /\ Transparent

-----------------------------------------------------------------------------
(* The steps, each in the terms of SessionInv. *)

\* copyResponses does not touch what the filter relies on.
LEMMA CopyKeepsFilter ==
    ASSUME FilterInv, UNCHANGED <<pc, reply, filterVars, wireVars, readiesSent>>,
           clientW' \in Seq(Frame), txStatus' \in TxStatus,
           mu' \in {"free", "responses"}
    PROVE  FilterInv'
<1>1. TypeOK' /\ ReplyMatchesPC'
  BY DEF FilterInv, TypeOK, ReplyMatchesPC, filterVars, wireVars
<1> QED
  BY <1>1
  DEF FilterInv, filterVars, wireVars, HeldWithinBudget, PrefixTracksWire,
      DenySettlesRight

\* What handle leaves alone, and where the filter stands around it.
LEMMA HandleLeaves ==
    ASSUME FilterInv, NEW m \in ClientMessages, Handle(m)
    PROVE  /\ UNCHANGED <<clientW, readiesSent, txStatus, mu>>
           /\ pc = "read" /\ pc' \in {"read", "status", "write"}
  BY DEF Handle, RelayUninspected, RefuseQuery, ForwardQuery, DenyBatch,
         HoldInBatch, EndBatch, FlushBatch, RefuseFunctionCall, ForwardOther,
         Swallow, SettleUpstream, SettleLocally, Inspecting, Answer, clientVars,
         sharedVars, vars

\* Without a policy handle forwards, and that is all it does.
LEMMA HandleTransparent ==
    ASSUME FilterInv, ~ Enforces, NEW m \in ClientMessages, Handle(m)
    PROVE  RelayUninspected(m)
  BY DEF FilterInv, Handle, RefuseQuery, ForwardQuery, DenyBatch, HoldInBatch,
         EndBatch, FlushBatch, RefuseFunctionCall, ForwardOther, Swallow,
         SettleUpstream, SettleLocally, Inspecting

\* A client sends a message and handle disposes of it.
LEMMA RequestSession ==
    ASSUME SessionInv, NEW m \in ClientMessages, Request(m)
    PROVE  SessionInv'
<1>1. Handle(m) /\ UNCHANGED <<midFrame, backendVars, responseVars>>
  BY DEF Request
<1>2. FilterInv'
  BY <1>1, HandleInv DEF SessionInv
<1>3. /\ UNCHANGED <<clientW, txStatus, mu>>
      /\ pc' \notin Ended
  BY <1>1, HandleLeaves DEF SessionInv, Ended
<1>4. PeersOK'
  <2>1. awaiting' \in Int /\ inBatch' \in BOOLEAN
    BY DEF Request, SessionInv, PeersOK, InBatch
  <2> QED
    BY <1>1, <2>1 DEF SessionInv, PeersOK, backendVars, responseVars
<1>5. ResponsesOK' /\ FramesIntact'
  BY <1>1, <1>3
  DEF SessionInv, ResponsesOK, FramesIntact, responseVars
<1>6. Transparent' /\ (pc # "read" => Enforces)'
  <2> SUFFICES ASSUME ~ Enforces PROVE Transparent' /\ pc' = "read"
    BY DEF Transparent, Enforces
  <2>1. RelayUninspected(m)
    BY <1>1, HandleTransparent DEF SessionInv
  <2>2. UNCHANGED <<heldBuf, reply, clientW>> /\ pc' = "read"
    BY <2>1 DEF RelayUninspected, filterVars, clientVars
  <2> QED
    BY <2>2 DEF SessionInv, Transparent
<1> QED
  BY <1>2, <1>3, <1>4, <1>5, <1>6 DEF SessionInv

\* The two steps of an answer.
LEMMA AnswerSession == ASSUME SessionInv, AnswerClient PROVE SessionInv'
<1>1. UNCHANGED <<peerVars, backendVars, responseVars>>
  BY DEF AnswerClient
<1>2. FilterInv'
  BY OtherStepsInv DEF SessionInv, AnswerClient, Pump
<1>3. PeersOK'
  BY <1>1 DEF SessionInv, PeersOK, peerVars, backendVars, responseVars
<1>4. /\ pc # "read" /\ pc' \notin Ended /\ UNCHANGED <<txStatus, mu>>
      /\ (pc # "read" => Enforces)'
  BY DEF AnswerClient, LoadStatus, WriteReply, sharedVars, Ended, SessionInv,
         Enforces
<1>5. Transparent'
  BY <1>4 DEF SessionInv, Transparent, Enforces
<1>6. CASE LoadStatus
  <2>1. UNCHANGED clientW
    BY <1>6 DEF LoadStatus, clientVars
  <2>2. ResponsesOK' /\ FramesIntact'
    BY <1>1, <1>4, <2>1
    DEF SessionInv, ResponsesOK, FramesIntact, peerVars, responseVars
  <2> QED
    BY <1>2, <1>3, <1>4, <1>5, <2>2 DEF SessionInv
<1>7. CASE WriteReply
  <2>1. /\ clientW \in Seq(Frame) /\ clientW' = clientW \o ReplyFrames
        /\ rpc # "body"
    BY <1>7 DEF WriteReply, SessionInv, ResponsesOK, FilterInv, TypeOK
  <2>2. /\ ReplyFrames \in Seq(Frame)
        /\ \A i \in 1 .. Len(ReplyFrames) : ReplyFrames[i].part = "whole"
    <3>1. reply.ready \in {"none", "I", "E"}
      BY <1>7 DEF WriteReply, SessionInv, FilterInv, TypeOK, ReplyMatchesPC, Reply
    <3>2. /\ ErrorFrame \in Frame /\ ErrorFrame.part = "whole"
          /\ reply.ready # "none" =>
                /\ ReadyFrame(reply.ready) \in Frame
                /\ ReadyFrame(reply.ready).part = "whole"
      BY <3>1 DEF ErrorFrame, ReadyFrame, Frame, TxStatus
    <3> QED
      BY <3>2 DEF ReplyFrames
  <2>3. /\ Len(clientW') = Len(clientW) + Len(ReplyFrames)
        /\ DOMAIN clientW' = 1 .. Len(clientW')
        /\ \A i \in 1 .. Len(clientW) : clientW'[i] = clientW[i]
        /\ \A i \in Len(clientW) + 1 .. Len(clientW') : clientW'[i].part = "whole"
    BY <2>1, <2>2
  <2>4. FramesIntact'
    <3>1. rpc' = rpc /\ midFrame' = midFrame
      BY <1>1 DEF peerVars, responseVars
    <3>2. clientW = <<>> => ~ midFrame
      BY <2>1 DEF SessionInv, FramesIntact
    <3>3. \A i \in DOMAIN clientW' : clientW'[i].part \in {"head", "body"} =>
             i \in DOMAIN clientW /\ clientW'[i] = clientW[i]
      BY <2>1, <2>3
    <3>4. \A i \in DOMAIN clientW : clientW[i].part = "head" =>
             i # Len(clientW) /\ i + 1 \in DOMAIN clientW
                /\ clientW[i + 1].part = "body" /\ i # Len(clientW')
      BY <2>1, <2>3 DEF SessionInv, FramesIntact
    <3>5. midFrame => clientW' # <<>> /\ Head(clientW').part = "body"
      BY <2>1, <2>3, <3>2 DEF SessionInv, FramesIntact
    <3>6. \A i \in DOMAIN clientW : clientW[i].part = "body" =>
             IF i = 1 THEN midFrame
             ELSE i - 1 \in DOMAIN clientW /\ clientW[i - 1].part = "head"
      BY <2>1 DEF SessionInv, FramesIntact
    <3> QED
      BY <2>1, <2>3, <3>1, <3>3, <3>4, <3>5, <3>6 DEF FramesIntact
  <2>5. ResponsesOK'
    BY <1>1, <1>4, <2>1
    DEF SessionInv, ResponsesOK, peerVars, responseVars
  <2> QED
    BY <1>2, <1>3, <1>4, <1>5, <2>4, <2>5 DEF SessionInv
<1> QED
  BY <1>6, <1>7 DEF AnswerClient

\* copyResponses stores, locks, writes a header or its payload.
LEMMA CopySession == ASSUME SessionInv, CopyResponses PROVE SessionInv'
<1>1. UNCHANGED <<peerVars, backendVars, pc, reply, filterVars, wireVars, readiesSent>>
  BY DEF CopyResponses, StoreStatus, ForwardReady, LockForMessage, ForwardHeader,
         ForwardPayload, clientVars
<1>t. /\ clientW \in Seq(Frame) /\ fromBackend \in Seq(Response)
      /\ txStatus \in TxStatus /\ mu \in {"free", "responses"}
  BY DEF SessionInv, FilterInv, TypeOK, PeersOK
<1>d. \A s \in TxStatus : s # "Data"
  BY DEF TxStatus
<1>2. /\ Transparent' /\ pc' \notin Ended /\ (pc # "read" => Enforces)'
      <=> \A i \in DOMAIN clientW' : Enforces \/ clientW'[i].from = "backend"
  BY <1>1 DEF SessionInv, Transparent, Enforces, filterVars
<1>3. CASE StoreStatus
  <2>1. /\ Head(fromBackend) \in TxStatus /\ fromBackend # <<>> /\ rpc = "header"
        /\ txStatus' = Head(fromBackend) /\ rpc' = "store"
        /\ UNCHANGED <<clientW, mu, fromBackend>>
    BY <1>3 DEF StoreStatus, clientVars
  <2>2. FilterInv'
    BY <1>1, <1>t, <2>1, CopyKeepsFilter DEF SessionInv
  <2>3. PeersOK' /\ ResponsesOK' /\ FramesIntact'
    BY <1>1, <2>1
    DEF SessionInv, PeersOK, ResponsesOK, FramesIntact, peerVars,
        backendVars, ResponsePC
  <2> QED
    BY <1>1, <1>2, <2>1, <2>2, <2>3 DEF SessionInv, Transparent, Enforces
<1>4. CASE ForwardReady
  <2>1. /\ rpc = "store" /\ mu = "free" /\ fromBackend # <<>>
        /\ Head(fromBackend) \in TxStatus
        /\ clientW' = Append(clientW, Relayed("whole", "Ready", Head(fromBackend)))
        /\ fromBackend' = Tail(fromBackend) /\ rpc' = "header"
        /\ UNCHANGED <<txStatus, mu>>
    BY <1>4
    DEF ForwardReady, WriteToClient, SessionInv, ResponsesOK, sharedVars
  <2>2. Relayed("whole", "Ready", Head(fromBackend)) \in Frame
    BY <2>1 DEF Relayed, Frame
  <2>3. FilterInv'
    BY <1>1, <1>t, <2>1, <2>2, CopyKeepsFilter DEF SessionInv
  <2>4. PeersOK' /\ ResponsesOK'
    BY <1>1, <1>t, <2>1
    DEF SessionInv, PeersOK, ResponsesOK, peerVars, backendVars, ResponsePC
  <2>5. FramesIntact'
    <3>1. rpc # "body" /\ rpc' # "body" /\ midFrame' = midFrame
      BY <1>1, <2>1 DEF peerVars
    <3>2. clientW'[Len(clientW) + 1].part = "whole"
      BY <1>t, <2>1, <2>2 DEF Relayed
    <3> QED
      BY <1>t, <2>1, <2>2, <3>1, <3>2 DEF SessionInv, FramesIntact
  <2>6. \A i \in DOMAIN clientW' : Enforces \/ clientW'[i].from = "backend"
    BY <1>t, <2>1 DEF Relayed, SessionInv, Transparent
  <2> QED
    BY <1>2, <2>3, <2>4, <2>5, <2>6 DEF SessionInv
<1>5. CASE LockForMessage
  <2>1. /\ Head(fromBackend) = "Data" /\ fromBackend # <<>> /\ rpc = "header"
        /\ mu' = "responses" /\ rpc' = "locked"
        /\ UNCHANGED <<clientW, txStatus, fromBackend>>
    BY <1>5 DEF LockForMessage, clientVars
  <2>2. FilterInv'
    BY <1>1, <1>t, <2>1, CopyKeepsFilter DEF SessionInv
  <2>3. PeersOK' /\ ResponsesOK' /\ FramesIntact'
    BY <1>1, <2>1
    DEF SessionInv, PeersOK, ResponsesOK, FramesIntact, peerVars,
        backendVars, ResponsePC
  <2> QED
    BY <1>1, <1>2, <2>1, <2>2, <2>3 DEF SessionInv, Transparent, Enforces
<1>6. CASE ForwardHeader
  <2>1. /\ rpc = "locked"
        /\ clientW' = Append(clientW, Relayed("head", "Data", "none"))
        /\ rpc' = "body" /\ UNCHANGED <<txStatus, mu, fromBackend>>
    BY <1>6 DEF ForwardHeader, WriteToClient, sharedVars
  <2>2. Relayed("head", "Data", "none") \in Frame
    BY DEF Relayed, Frame
  <2>3. FilterInv'
    BY <1>1, <1>t, <2>1, <2>2, CopyKeepsFilter DEF SessionInv
  <2>4. PeersOK' /\ ResponsesOK'
    BY <1>1, <1>t, <2>1, <2>2
    DEF SessionInv, PeersOK, ResponsesOK, peerVars, backendVars, ResponsePC,
        Relayed
  <2>5. FramesIntact'
    BY <1>1, <1>t, <2>1, <2>2
    DEF SessionInv, ResponsesOK, FramesIntact, peerVars, Relayed
  <2>6. \A i \in DOMAIN clientW' : Enforces \/ clientW'[i].from = "backend"
    BY <1>t, <2>1 DEF Relayed, SessionInv, Transparent
  <2> QED
    BY <1>2, <2>3, <2>4, <2>5, <2>6 DEF SessionInv
<1>7. CASE ForwardPayload
  <2>1. /\ rpc = "body"
        /\ clientW' = Append(clientW, Relayed("body", "Data", "none"))
        /\ fromBackend' = Tail(fromBackend) /\ fromBackend # <<>>
        /\ rpc' = "header" /\ mu' = "free" /\ UNCHANGED txStatus
    BY <1>7 DEF ForwardPayload, WriteToClient, SessionInv, ResponsesOK
  <2>2. Relayed("body", "Data", "none") \in Frame
    BY DEF Relayed, Frame
  <2>3. FilterInv'
    BY <1>1, <1>t, <2>1, <2>2, CopyKeepsFilter DEF SessionInv
  <2>4. PeersOK' /\ ResponsesOK'
    BY <1>1, <1>t, <2>1
    DEF SessionInv, PeersOK, ResponsesOK, peerVars, backendVars, ResponsePC
  <2>5. FramesIntact'
    BY <1>1, <1>t, <2>1, <2>2
    DEF SessionInv, ResponsesOK, FramesIntact, peerVars, Relayed
  <2>6. \A i \in DOMAIN clientW' : Enforces \/ clientW'[i].from = "backend"
    BY <1>t, <2>1 DEF Relayed, SessionInv, Transparent
  <2> QED
    BY <1>2, <2>3, <2>4, <2>5, <2>6 DEF SessionInv
<1> QED
  BY <1>3, <1>4, <1>5, <1>6, <1>7 DEF CopyResponses

\* What the backend does with the message at the head of its wire.
LEMMA BackendSession == ASSUME SessionInv, Backend PROVE SessionInv'
<1>1. UNCHANGED <<peerVars, rpc>>
  BY DEF Backend
<1>2. BackendReads
  BY DEF Backend, BackendDiscards, BackendAnswersSync, BackendRunsQuery,
         BackendRunsBatchMessage, BackendIgnores, Takes
<1>3. FilterInv'
  BY <1>2, OtherStepsInv DEF SessionInv
<1>4. UNCHANGED <<pc, reply, heldBuf, clientW, txStatus, mu>>
  BY <1>2 DEF BackendReads, filterVars, clientVars, sharedVars
<1>5. /\ backendTx' \in TxStatus /\ backendSkips' \in BOOLEAN
      /\ \E t \in Seq(Response) : fromBackend' = fromBackend \o t
  <2>0. /\ fromBackend \in Seq(Response) /\ backendTx \in TxStatus
        /\ backendSkips \in BOOLEAN
    BY DEF SessionInv, PeersOK
  <2>1. \A s \in TxStatus : <<s>> \in Seq(Response) /\ <<"Data", s>> \in Seq(Response)
    BY DEF Response
  <2>2. <<"Data">> \in Seq(Response) /\ <<>> \in Seq(Response)
        /\ fromBackend \o <<>> = fromBackend
    BY <2>0, ConcatEmptySeq DEF Response
  <2>3. Aborted \in TxStatus /\ \A sql \in Sql : Executed(sql) \in TxStatus
    BY <2>0 DEF Aborted, Executed, TxStatus
  <2> SUFFICES ASSUME NEW m \in ClientMessages,
                      \/ BackendDiscards(m) \/ BackendAnswersSync(m)
                      \/ BackendRunsQuery(m) \/ BackendRunsBatchMessage(m)
                      \/ BackendIgnores(m)
               PROVE  /\ backendTx' \in TxStatus /\ backendSkips' \in BOOLEAN
                      /\ \E t \in Seq(Response) : fromBackend' = fromBackend \o t
    BY DEF Backend
  <2>m. m.sql \in Sql
    BY FilterAssumption DEF Message
  <2>4. CASE BackendDiscards(m) \/ BackendIgnores(m)
    BY <2>0, <2>2, <2>4 DEF BackendDiscards, BackendIgnores, backendVars
  <2>5. CASE BackendAnswersSync(m)
    BY <2>0, <2>1, <2>5 DEF BackendAnswersSync, Respond
  <2>6. CASE BackendRunsQuery(m)
    BY <2>0, <2>1, <2>3, <2>m, <2>6 DEF BackendRunsQuery, Respond, Outcomes
  <2>7. CASE BackendRunsBatchMessage(m)
    BY <2>0, <2>2, <2>3, <2>7 DEF BackendRunsBatchMessage, Respond
  <2> QED
    BY <2>4, <2>5, <2>6, <2>7
<1>6. /\ fromBackend' \in Seq(Response)
      /\ fromBackend # <<>> =>
            fromBackend' # <<>> /\ Head(fromBackend') = Head(fromBackend)
  BY <1>5 DEF SessionInv, PeersOK
<1>7. PeersOK' /\ ResponsesOK' /\ FramesIntact'
  BY <1>1, <1>4, <1>5, <1>6
  DEF SessionInv, PeersOK, ResponsesOK, FramesIntact, peerVars
<1>8. Transparent' /\ pc' \notin Ended /\ (pc # "read" => Enforces)'
  BY <1>4 DEF SessionInv, Transparent, Enforces
<1> QED
  BY <1>3, <1>7, <1>8 DEF SessionInv

\* A client that reads: one frame leaves its wire.
LEMMA ReadSession == ASSUME SessionInv, ClientReadsFrame PROVE SessionInv'
<1>1. /\ ClientReads /\ UNCHANGED <<inBatch, backendVars, responseVars>>
      /\ midFrame' = (Head(clientW).part = "head")
  BY DEF ClientReadsFrame
<1>2. FilterInv'
  BY <1>1, OtherStepsInv DEF SessionInv
<1>3. /\ clientW # <<>> /\ clientW' = Tail(clientW) /\ clientW \in Seq(Frame)
      /\ UNCHANGED <<pc, reply, heldBuf, txStatus, mu>>
  BY <1>1 DEF ClientReads, filterVars, sharedVars, SessionInv, FilterInv, TypeOK
<1>4. /\ Len(clientW') = Len(clientW) - 1
      /\ Head(clientW) = clientW[1] /\ clientW[1] \in Frame
      /\ \A i \in DOMAIN clientW' :
            i + 1 \in DOMAIN clientW /\ clientW'[i] = clientW[i + 1]
  BY <1>3
<1>5. PeersOK'
  <2>1. awaiting' \in Int
    BY DEF ClientReadsFrame, SessionInv, PeersOK
  <2>2. midFrame' \in BOOLEAN
    BY <1>1
  <2> QED
    BY <1>1, <2>1, <2>2 DEF SessionInv, PeersOK, backendVars, responseVars
<1>6. ResponsesOK'
  <2>1. clientW' # <<>> => clientW'[Len(clientW')] = clientW[Len(clientW)]
    BY <1>3, <1>4
  <2>2. ASSUME clientW' = <<>> PROVE Len(clientW) = 1
    <3>1. Len(clientW') = 0
      BY <2>2
    <3>2. Len(clientW) \in Nat
      BY <1>3
    <3> QED
      BY <1>4, <3>1, <3>2
  <2>3. rpc = "body" => clientW[Len(clientW)].part = "head"
    BY <1>3 DEF SessionInv, ResponsesOK
  <2>4. rpc' = rpc /\ fromBackend' = fromBackend
    BY <1>1 DEF responseVars
  <2>5. rpc' = "body" =>
           IF clientW' = <<>> THEN midFrame' ELSE clientW'[Len(clientW')].part = "head"
    <3>1. CASE clientW' = <<>>
      BY <1>1, <1>4, <2>2, <2>3, <2>4, <3>1
    <3>2. CASE clientW' # <<>>
      BY <2>1, <2>3, <2>4, <3>2
    <3> QED
      BY <3>1, <3>2
  <2> QED
    BY <1>3, <2>4, <2>5 DEF SessionInv, ResponsesOK
<1>7. FramesIntact'
  <2>0. rpc' = rpc
    BY <1>1 DEF responseVars
  <2>1. \A i \in DOMAIN clientW' : clientW'[i].part = "head" =>
           IF i = Len(clientW') THEN rpc' = "body" ELSE clientW'[i + 1].part = "body"
    <3> SUFFICES ASSUME NEW i \in DOMAIN clientW', clientW'[i].part = "head"
                 PROVE  IF i = Len(clientW') THEN rpc' = "body"
                                             ELSE clientW'[i + 1].part = "body"
      OBVIOUS
    <3>1. IF i + 1 = Len(clientW) THEN rpc = "body" ELSE clientW[i + 2].part = "body"
      BY <1>3, <1>4 DEF SessionInv, FramesIntact
    <3>2. i # Len(clientW') => i + 1 \in DOMAIN clientW'
      BY <1>3, <1>4
    <3> QED
      BY <1>3, <1>4, <2>0, <3>1, <3>2
  <2>2. \A i \in DOMAIN clientW' : clientW'[i].part = "body" =>
           IF i = 1 THEN midFrame' ELSE clientW'[i - 1].part = "head"
    <3> SUFFICES ASSUME NEW i \in DOMAIN clientW', clientW'[i].part = "body"
                 PROVE  IF i = 1 THEN midFrame' ELSE clientW'[i - 1].part = "head"
      OBVIOUS
    <3>1. i \in Nat \ {0} /\ i + 1 \in DOMAIN clientW /\ clientW[i + 1].part = "body"
      BY <1>3, <1>4
    <3>2. clientW[i].part = "head"
      BY <3>1 DEF SessionInv, FramesIntact
    <3>3. i # 1 => clientW'[i - 1].part = "head"
      <4>1. i # 1 => i - 1 \in DOMAIN clientW' /\ (i - 1) + 1 = i
        BY <1>3, <1>4
      <4> QED
        BY <1>4, <3>2, <4>1
    <3>4. i = 1 => midFrame'
      BY <1>1, <1>4, <3>2
    <3> QED
      BY <3>3, <3>4
  <2>3. midFrame' => IF clientW' = <<>> THEN rpc' = "body" ELSE Head(clientW').part = "body"
    <3> SUFFICES ASSUME clientW[1].part = "head"
                 PROVE  IF clientW' = <<>> THEN rpc' = "body"
                                           ELSE Head(clientW').part = "body"
      BY <1>1, <1>4
    <3>1. IF Len(clientW) = 1 THEN rpc = "body" ELSE clientW[2].part = "body"
      BY <1>3, <1>4 DEF SessionInv, FramesIntact
    <3>2. clientW' = <<>> => Len(clientW) = 1
      BY <1>3, <1>4, EmptySeq
    <3>3. clientW' # <<>> =>
             Len(clientW) # 1 /\ Head(clientW') = clientW'[1] /\ 1 \in DOMAIN clientW'
      BY <1>3, <1>4
    <3> QED
      BY <1>4, <2>0, <3>1, <3>2, <3>3
  <2> QED
    BY <2>1, <2>2, <2>3 DEF FramesIntact
<1>8. /\ Transparent' /\ pc' \notin Ended /\ (pc # "read" => Enforces)'
  BY <1>3, <1>4 DEF SessionInv, Transparent, Enforces
<1> QED
  BY <1>2, <1>5, <1>6, <1>7, <1>8 DEF SessionInv

\* A session starts in step.
LEMMA InitSession == SessionInit => SessionInv
<1> SUFFICES ASSUME SessionInit PROVE SessionInv
  OBVIOUS
<1>1. FilterInit /\ clientW = <<>> /\ mu = "free" /\ pc = "read"
  BY DEF SessionInit, FilterInit
<1>2. FilterInv
  BY <1>1, InitFilterInv
<1>3. PeersOK
  <2>1. fromBackend \in Seq(Response) /\ awaiting \in Int
    BY DEF SessionInit
  <2> QED
    BY <2>1 DEF SessionInit, PeersOK, TxStatus, ResponsePC
<1>4. ResponsesOK
  BY <1>1 DEF SessionInit, ResponsesOK
<1>5. DOMAIN clientW = {} /\ ~ midFrame /\ heldBuf = <<>> /\ reply = NoReply
  BY <1>1 DEF SessionInit, FilterInit
<1>6. FramesIntact /\ Transparent
  BY <1>5 DEF FramesIntact, Transparent
<1> QED
  BY <1>1, <1>2, <1>3, <1>4, <1>6 DEF SessionInv, Ended

\* So SessionInv holds of every state of a session, whatever its client does.
LEMMA AlwaysSession == SessionSpec => []SessionInv
<1>1. SessionInv /\ UNCHANGED sessionVars => SessionInv'
  <2> SUFFICES ASSUME SessionInv, UNCHANGED sessionVars PROVE SessionInv'
    OBVIOUS
  <2>1. UNCHANGED vars /\ UNCHANGED peerVars /\ UNCHANGED backendVars
        /\ UNCHANGED responseVars
    BY DEF sessionVars
  <2>2. FilterInv'
    BY <2>1, OtherStepsInv DEF SessionInv
  <2>3. UNCHANGED <<pc, reply, heldBuf, clientW, txStatus, mu>>
    BY <2>1 DEF vars, filterVars, clientVars, sharedVars
  <2> QED
    BY <2>1, <2>2, <2>3
    DEF SessionInv, PeersOK, ResponsesOK, FramesIntact, Transparent,
        Enforces, peerVars, backendVars, responseVars
<1>2. SessionInv /\ [SessionNext]_sessionVars => SessionInv'
  BY <1>1, RequestSession, AnswerSession, CopySession, BackendSession, ReadSession
  DEF SessionNext
<1> QED
  BY <1>2, InitSession, PTL DEF SessionSpec

-----------------------------------------------------------------------------

\* Whatever the two pumps write, in any order, no frame is torn apart.
THEOREM FramesStayIntact == SessionSpec => []FramesIntact
<1>1. SessionInv => FramesIntact
  BY DEF SessionInv
<1> QED
  BY <1>1, AlwaysSession, PTL

\* A session without a policy hears the backend only.
THEOREM StaysTransparent == SessionSpec => []Transparent
<1>1. SessionInv => Transparent
  BY DEF SessionInv
<1> QED
  BY <1>1, AlwaysSession, PTL

\* With both pumps at work as well, nothing refused reaches the database.
THEOREM SessionRefuses == SessionSpec => []NothingRefusedForwarded
<1>1. SessionInv => NothingRefusedForwarded
  BY DEF SessionInv, FilterInv, NothingRefusedForwarded, Forwardable
<1> QED
  BY <1>1, AlwaysSession, PTL

-----------------------------------------------------------------------------
(* A client that does not interrupt its batches. *)

(***************************************************************************)
(* How many elements of s are in S, and where.                             *)
(***************************************************************************)
Hits(s, S)   == {i \in DOMAIN s : s[i] \in S}
Number(s, S) == Cardinality(Hits(s, S))

\* What ends an exchange: on its way to the backend, and back to the client.
Closers == {m \in WireMessage : Closes(m)}
Readies == {f \in Frame : IsReady(f)}

Due == IF reply.ready = "none" THEN 0 ELSE 1

\* ReadyConservation in these terms.
Owed ==
    awaiting = Number(upstream, Closers) + Number(fromBackend, TxStatus)
                 + Due + Number(clientW, Readies)

-----------------------------------------------------------------------------
(* Counting in sequences. *)

\* There are as many hits as there are, and they are positions.
LEMMA NumberType ==
    ASSUME NEW V, NEW s \in Seq(V), NEW S
    PROVE  /\ Hits(s, S) \subseteq 1 .. Len(s)
           /\ IsFiniteSet(Hits(s, S))
           /\ Number(s, S) \in Nat
           /\ Number(s, S) = 0 <=> Hits(s, S) = {}
<1>1. Hits(s, S) \subseteq 1 .. Len(s) /\ Len(s) \in Nat
  BY DEF Hits
<1>2. IsFiniteSet(1 .. Len(s))
  BY <1>1, FS_Interval
<1>3. IsFiniteSet(Hits(s, S))
  BY <1>1, <1>2, FS_Subset
<1> QED
  BY <1>1, <1>3, FS_CardinalityType, FS_EmptySet DEF Number

\* Adding a part in which only the last element can be a hit.
LEMMA NumberConcat ==
    ASSUME NEW V, NEW s \in Seq(V), NEW t \in Seq(V), NEW S,
           \A i \in 1 .. Len(t) : t[i] \in S => i = Len(t)
    PROVE  Number(s \o t, S) =
             Number(s, S) + (IF t # <<>> /\ t[Len(t)] \in S THEN 1 ELSE 0)
<1>1. /\ Len(s) \in Nat /\ Len(t) \in Nat
      /\ DOMAIN s = 1 .. Len(s)
      /\ DOMAIN (s \o t) = 1 .. Len(s) + Len(t)
      /\ \A i \in 1 .. Len(s) : (s \o t)[i] = s[i]
      /\ \A i \in 1 .. Len(t) : (s \o t)[Len(s) + i] = t[i]
      /\ t # <<>> <=> Len(t) > 0
  OBVIOUS
<1>2. \A i \in Len(s) + 1 .. Len(s) + Len(t) :
         /\ i - Len(s) \in 1 .. Len(t)
         /\ (s \o t)[i] = t[i - Len(s)]
  <2> SUFFICES ASSUME NEW i \in Len(s) + 1 .. Len(s) + Len(t)
               PROVE  /\ i - Len(s) \in 1 .. Len(t)
                      /\ (s \o t)[i] = t[i - Len(s)]
    OBVIOUS
  <2>1. i - Len(s) \in 1 .. Len(t) /\ Len(s) + (i - Len(s)) = i
    BY <1>1
  <2> QED
    BY <1>1, <2>1
<1>3. IsFiniteSet(Hits(s, S)) /\ Number(s, S) \in Nat
  BY NumberType
<1>4. CASE t # <<>> /\ t[Len(t)] \in S
  <2>0. Len(t) \in 1 .. Len(t) /\ (s \o t)[Len(s) + Len(t)] \in S
    BY <1>1, <1>4
  <2>1. Hits(s \o t, S) = Hits(s, S) \cup {Len(s) + Len(t)}
    <3>1. \A i \in 1 .. Len(s) : i \in Hits(s \o t, S) <=> i \in Hits(s, S)
      BY <1>1 DEF Hits
    <3>2. \A i \in Len(s) + 1 .. Len(s) + Len(t) :
             i \in Hits(s \o t, S) => i = Len(s) + Len(t)
      <4> SUFFICES ASSUME NEW i \in Len(s) + 1 .. Len(s) + Len(t),
                          i \in Hits(s \o t, S)
                   PROVE  i = Len(s) + Len(t)
        OBVIOUS
      <4>1. i - Len(s) \in 1 .. Len(t) /\ t[i - Len(s)] \in S
        BY <1>2 DEF Hits
      <4>2. i - Len(s) = Len(t)
        BY <4>1
      <4> QED
        BY <1>1, <4>2
    <3>3. Len(s) + Len(t) \in Hits(s \o t, S)
      BY <1>1, <2>0 DEF Hits
    <3>4. Hits(s, S) \subseteq 1 .. Len(s) /\ Hits(s \o t, S) \subseteq 1 .. Len(s) + Len(t)
      BY <1>1 DEF Hits
    <3>5. ASSUME NEW i \in Hits(s \o t, S)
          PROVE  i \in Hits(s, S) \/ i = Len(s) + Len(t)
      BY <1>1, <3>1, <3>2, <3>4
    <3>6. ASSUME NEW i \in Hits(s, S)
          PROVE  i \in Hits(s \o t, S)
      BY <1>1, <3>1, <3>4
    <3> QED
      BY <3>3, <3>5, <3>6
  <2>2. Len(s) + Len(t) \notin Hits(s, S)
    BY <1>1, <1>4 DEF Hits
  <2> QED
    BY <1>3, <1>4, <2>1, <2>2, FS_AddElement DEF Number
<1>5. CASE ~ (t # <<>> /\ t[Len(t)] \in S)
  <2>1. Hits(s \o t, S) = Hits(s, S)
    BY <1>1, <1>2, <1>5 DEF Hits
  <2> QED
    BY <1>3, <1>5, <2>1 DEF Number
<1> QED
  BY <1>4, <1>5

\* Adding one element.
LEMMA NumberAppend ==
    ASSUME NEW V, NEW s \in Seq(V), NEW e \in V, NEW S
    PROVE  Number(Append(s, e), S) = Number(s, S) + (IF e \in S THEN 1 ELSE 0)
<1>1. Append(s, e) = s \o <<e>> /\ <<e>> \in Seq(V)
  BY AppendIsConcat
<1>2. Len(<<e>>) = 1 /\ <<e>>[1] = e /\ <<e>> # <<>>
  OBVIOUS
<1>3. \A i \in 1 .. Len(<<e>>) : <<e>>[i] \in S => i = Len(<<e>>)
  BY <1>2
<1>4. <<e>> # <<>> /\ <<e>>[Len(<<e>>)] = e
  BY <1>2
<1>5. Number(s \o <<e>>, S) =
         Number(s, S) + (IF <<e>> # <<>> /\ <<e>>[Len(<<e>>)] \in S THEN 1 ELSE 0)
  BY <1>1, <1>3, NumberConcat
<1> QED
  BY <1>1, <1>4, <1>5

\* Taking the first element away.
LEMMA NumberTail ==
    ASSUME NEW V, NEW s \in Seq(V), s # <<>>, NEW S
    PROVE  Number(s, S) = Number(Tail(s), S) + (IF Head(s) \in S THEN 1 ELSE 0)
<1> DEFINE H == Hits(s, S)
           T == Hits(Tail(s), S)
           f == [i \in T |-> i + 1]
<1>1. /\ Tail(s) \in Seq(V) /\ Len(Tail(s)) = Len(s) - 1 /\ Len(s) \in Nat \ {0}
      /\ DOMAIN s = 1 .. Len(s) /\ DOMAIN Tail(s) = 1 .. Len(s) - 1
      /\ Head(s) = s[1]
      /\ \A i \in 1 .. Len(s) - 1 : Tail(s)[i] = s[i + 1]
  OBVIOUS
<1>2. IsFiniteSet(T) /\ IsFiniteSet(H) /\ T \subseteq 1 .. Len(s) - 1
  BY <1>1, NumberType
<1>3. \A i \in T : i \in Nat /\ i + 1 \in H \ {1}
  BY <1>1, <1>2 DEF Hits
<1>4. \A j \in H \ {1} : j - 1 \in T /\ (j - 1) + 1 = j
  <2> SUFFICES ASSUME NEW j \in H \ {1} PROVE j - 1 \in T /\ (j - 1) + 1 = j
    OBVIOUS
  <2>1. j \in 1 .. Len(s) /\ j # 1 /\ s[j] \in S
    BY <1>1 DEF Hits
  <2>2. j - 1 \in 1 .. Len(s) - 1 /\ (j - 1) + 1 = j
    BY <1>1, <2>1
  <2> QED
    BY <1>1, <2>1, <2>2 DEF Hits
<1>5. f \in Bijection(T, H \ {1})
  <2> HIDE DEF H, T
  <2>1. f \in [T -> H \ {1}]
    BY <1>3
  <2>2. \A a, b \in T : f[a] = f[b] => a = b
    BY <1>3
  <2>3. \A j \in H \ {1} : \E i \in T : f[i] = j
    BY <1>4
  <2> QED
    BY <2>1, <2>2, <2>3 DEF Bijection, Injection, Surjection, IsInjective
<1>6. Cardinality(T) = Cardinality(H \ {1})
  <2>1. ExistsBijection(T, H \ {1})
    BY <1>5 DEF ExistsBijection
  <2> QED
    BY <1>2, <2>1, FS_Bijection
<1>7. 1 \in H <=> Head(s) \in S
  BY <1>1 DEF Hits
<1>8. Cardinality(H \ {1}) = IF 1 \in H THEN Cardinality(H) - 1 ELSE Cardinality(H)
  BY <1>2, FS_RemoveElement
<1>9. Cardinality(H) \in Nat /\ Cardinality(T) \in Nat
  BY <1>2, FS_CardinalityType
<1> QED
  BY <1>6, <1>7, <1>8, <1>9 DEF Number
-----------------------------------------------------------------------------
(***************************************************************************)
(* The invariant.  The filter's and the observer's idea of an open batch   *)
(* implies the client's.  Position 0 stands for a backend that discards    *)
(* already; whatever opens a batch at the backend is followed by a Sync,   *)
(* or the batch is still open, and no Query or FunctionCall comes before   *)
(* that Sync.                                                              *)
(***************************************************************************)
BatchKnown == openUpstream \/ heldBuf # <<>> \/ skipUntilSync => inBatch

Interrupting == {"Query", "FunctionCall"}

Opens(i) == IF i = 0 THEN backendSkips ELSE InBatch(upstream[i])

SyncsFollow ==
    \A i \in 0 .. Len(upstream) : Opens(i) =>
        /\ openUpstream \/ \E k \in DOMAIN upstream : k > i /\ upstream[k].type = "Sync"
        /\ \A j \in DOMAIN upstream : j > i /\ upstream[j].type \in Interrupting =>
              \E k \in DOMAIN upstream : i < k /\ k < j /\ upstream[k].type = "Sync"

CalmInv ==
    /\ SessionInv
    /\ awaiting <= Window
    /\ BatchKnown
    /\ SyncsFollow
    /\ Owed

\* What SessionInv says of the types of what is counted.
LEMMA Counted ==
    ASSUME SessionInv
    PROVE  /\ upstream \in Seq(WireMessage) /\ fromBackend \in Seq(Response)
           /\ clientW \in Seq(Frame)
           /\ \A m \in WireMessage : m \in Closers <=> Closes(m)
           /\ \A f \in Frame : f \in Readies <=> IsReady(f)
           /\ Number(upstream, Closers) \in Nat
           /\ Number(fromBackend, TxStatus) \in Nat
           /\ Number(clientW, Readies) \in Nat
<1>1. /\ upstream \in Seq(WireMessage) /\ fromBackend \in Seq(Response)
      /\ clientW \in Seq(Frame)
  BY DEF SessionInv, FilterInv, TypeOK, PeersOK
<1> QED
  BY <1>1, NumberType DEF Closers, Readies

-----------------------------------------------------------------------------
(***************************************************************************)
(* What becomes of a message of a client that does not interrupt: it goes  *)
(* upstream behind what was held, or is held, or the proxy answers it, or  *)
(* it is a part of a denied batch.                                         *)
(***************************************************************************)
Passed(m) ==
    /\ upstream' = upstream \o Append(heldBuf, m)
    /\ openUpstream' <=> ~ Closes(m) /\ (openUpstream \/ heldBuf # <<>> \/ InBatch(m))
    /\ heldBuf' = <<>> /\ ~ skipUntilSync'
    /\ reply'.ready = "none"

Kept(m) ==
    /\ m.type \in HeldTypes
    /\ UNCHANGED <<upstream, openUpstream>>
    /\ ~ skipUntilSync'
    /\ reply'.ready = "none"

Answered(m) ==
    /\ Closes(m)
    /\ UNCHANGED <<upstream, openUpstream>>
    /\ ~ openUpstream /\ heldBuf' = <<>> /\ ~ skipUntilSync'
    /\ reply'.ready = "due"

Denied(m) ==
    /\ ~ Closes(m)
    /\ UNCHANGED <<upstream, openUpstream>>
    /\ inBatch'
    /\ reply'.ready = "none"

\* What a request does to the exchange it belongs to: one of four things.
LEMMA RequestEffect ==
    ASSUME ~ Interrupts, SessionInv, BatchKnown,
           NEW m \in ClientMessages, Request(m)
    PROVE  /\ Passed(m) \/ Kept(m) \/ Answered(m) \/ Denied(m)
           /\ UNCHANGED <<clientW, fromBackend, backendSkips>>
           /\ reply.ready = "none"
           /\ m.type \in Interrupting => ~ openUpstream /\ heldBuf = <<>>
<1>m. m \in WireMessage
  BY FilterAssumption, MessageOnWire
<1>h. Handle(m)
  BY DEF Request
<1>r. /\ pc = "read" /\ reply.ready = "none" /\ UNCHANGED clientW
  BY <1>h, HandleLeaves DEF SessionInv, FilterInv, ReplyMatchesPC
<1>b. UNCHANGED <<fromBackend, backendSkips>>
  BY DEF Request, responseVars, backendVars
<1>q. m.type \in Interrupting => ~ inBatch
  BY DEF Request, MaySend, Interrupting
<1>k. /\ heldBuf \in Seq(Holdable) /\ openUpstream \in BOOLEAN
      /\ skipUntilSync => forwardSync = openUpstream /\ heldBuf = <<>>
      /\ ~ Enforces => heldBuf = <<>> /\ ~ skipUntilSync
  BY <1>r DEF SessionInv, FilterInv, TypeOK, DenySettlesRight, Transparent, Ended
<1>i. inBatch' = (InBatch(m) \/ (inBatch /\ m.type # "Sync"))
  BY DEF Request
<1>s. ASSUME Send(Append(heldBuf, m))
      PROVE  /\ upstream' = upstream \o Append(heldBuf, m)
             /\ openUpstream' <=> ~ Closes(m) /\ (openUpstream \/ heldBuf # <<>> \/ InBatch(m))
  BY <1>s, <1>k, <1>m, ReleaseWith DEF Send
<1>1. CASE RelayUninspected(m)
  <2>1. heldBuf = <<>> /\ Append(heldBuf, m) = <<m>>
    BY <1>1, <1>k DEF RelayUninspected
  <2>2. Send(Append(heldBuf, m)) /\ heldBuf' = heldBuf /\ ~ skipUntilSync' /\ reply' = reply
    BY <1>1, <2>1 DEF RelayUninspected, filterVars
  <2>3. Passed(m)
    BY <1>r, <1>s, <2>1, <2>2 DEF Passed
  <2> QED
    BY <1>b, <1>k, <1>q, <1>r, <2>3 DEF BatchKnown
<1>2. CASE RefuseQuery(m)
  <2>1. Closes(m) /\ ~ inBatch
    BY <1>2, <1>q DEF RefuseQuery, Closes, Interrupting
  <2>2. Answered(m)
    BY <1>2, <2>1 DEF RefuseQuery, Inspecting, BatchKnown, wireVars, ResetHeld, Answer, Answered
  <2> QED
    BY <1>b, <1>q, <1>r, <2>2 DEF BatchKnown
<1>3. CASE ForwardQuery(m) \/ EndBatch(m) \/ FlushBatch(m) \/ ForwardOther(m)
  <2>1. Send(Append(heldBuf, m)) /\ heldBuf' = <<>> /\ ~ skipUntilSync' /\ reply' = reply
    BY <1>3 DEF ForwardQuery, EndBatch, FlushBatch, ForwardOther, Inspecting, ResetHeld
  <2>2. Passed(m)
    BY <1>r, <1>s, <2>1 DEF Passed
  <2> QED
    BY <1>b, <1>q, <1>r, <2>2 DEF BatchKnown
<1>4. CASE DenyBatch(m)
  <2>1. Denied(m)
    BY <1>4, <1>i
    DEF DenyBatch, Closes, InBatch, HeldTypes, wireVars, Answer, Denied
  <2> QED
    BY <1>b, <1>q, <1>r, <2>1 DEF BatchKnown
<1>5. CASE HoldInBatch(m)
  <2>1. m.type \in HeldTypes /\ ~ skipUntilSync' /\ reply' = reply
    BY <1>5 DEF HoldInBatch, Inspecting
  <2>2. \/ UNCHANGED <<upstream, openUpstream>>
        \/ Send(Append(heldBuf, m)) /\ heldBuf' = <<>>
    BY <1>5 DEF HoldInBatch, Hold, ResetHeld, wireVars
  <2>3. Kept(m) \/ Passed(m)
    BY <1>r, <1>s, <2>1, <2>2 DEF Kept, Passed
  <2> QED
    BY <1>b, <1>q, <1>r, <2>3 DEF BatchKnown
<1>6. CASE RefuseFunctionCall(m)
  <2>1. Closes(m) /\ ~ inBatch
    BY <1>6, <1>q DEF RefuseFunctionCall, Closes, Interrupting
  <2>2. Answered(m)
    BY <1>6, <2>1
    DEF RefuseFunctionCall, Inspecting, BatchKnown, filterVars, wireVars, Answer,
        Answered
  <2> QED
    BY <1>b, <1>q, <1>r, <2>2 DEF BatchKnown
<1>7. CASE Swallow(m)
  <2>1. inBatch /\ m.type # "Sync" /\ UNCHANGED vars
    BY <1>7 DEF Swallow, BatchKnown
  <2>2. ~ Closes(m) /\ inBatch'
    BY <2>1, <1>i, <1>q DEF Closes, Interrupting
  <2>3. Denied(m)
    BY <1>r, <2>1, <2>2 DEF vars, wireVars, Denied
  <2> QED
    BY <1>b, <1>q, <1>r, <2>3 DEF BatchKnown
<1>8. CASE SettleUpstream(m)
  <2>1. heldBuf = <<>> /\ Append(heldBuf, m) = <<m>>
    BY <1>8, <1>k DEF SettleUpstream
  <2>2. Send(Append(heldBuf, m)) /\ heldBuf' = heldBuf /\ ~ skipUntilSync' /\ reply' = reply
    BY <1>8, <2>1 DEF SettleUpstream
  <2>3. Passed(m)
    BY <1>r, <1>s, <2>1, <2>2 DEF Passed
  <2> QED
    BY <1>b, <1>q, <1>r, <2>3 DEF BatchKnown
<1>9. CASE SettleLocally(m)
  <2>1. ~ openUpstream /\ heldBuf = <<>>
    BY <1>9, <1>k DEF SettleLocally
  <2>2. Answered(m)
    BY <1>9, <2>1 DEF SettleLocally, Closes, wireVars, Answer, Answered
  <2> QED
    BY <1>b, <1>r, <2>1, <2>2
<1> QED
  BY <1>h, <1>1, <1>2, <1>3, <1>4, <1>5, <1>6, <1>7, <1>8, <1>9 DEF Handle

\* What passing adds to the wire: batch messages, then m.
LEMMA PassedWire ==
    ASSUME SessionInv, pc = "read", NEW m \in ClientMessages, Passed(m)
    PROVE  /\ Number(upstream', Closers) =
                Number(upstream, Closers) + (IF Closes(m) THEN 1 ELSE 0)
           /\ Len(upstream') = Len(upstream) + Len(heldBuf) + 1
           /\ DOMAIN upstream' = 1 .. Len(upstream')
           /\ \A i \in 1 .. Len(upstream) : upstream'[i] = upstream[i]
           /\ \A i \in Len(upstream) + 1 .. Len(upstream) + Len(heldBuf) :
                 upstream'[i].type \in HeldTypes
           /\ upstream'[Len(upstream')] = m
<1> DEFINE t == Append(heldBuf, m)
<1>m. m \in WireMessage
  BY FilterAssumption, MessageOnWire
<1>1. heldBuf \in Seq(WireMessage) /\ heldBuf \in Seq(Holdable) /\ upstream \in Seq(WireMessage)
  BY DEF SessionInv, FilterInv, TypeOK, Ended
<1>2. \A i \in 1 .. Len(heldBuf) : heldBuf[i].type \in HeldTypes
  BY <1>1 DEF Holdable
<1>3. /\ t \in Seq(WireMessage) /\ Len(t) = Len(heldBuf) + 1 /\ Len(t) \in Nat
      /\ Len(upstream) \in Nat /\ Len(heldBuf) \in Nat
      /\ t[Len(t)] = m /\ t # <<>>
      /\ \A i \in 1 .. Len(heldBuf) : t[i].type \in HeldTypes
  <2>1. t \in Seq(WireMessage) /\ Len(t) = Len(heldBuf) + 1 /\ t[Len(heldBuf) + 1] = m
    BY <1>1, <1>m, AppendProperties
  <2>2. \A i \in 1 .. Len(heldBuf) : t[i] = heldBuf[i]
    BY <1>1, <1>m, AppendProperties
  <2>3. Len(upstream) \in Nat /\ Len(heldBuf) \in Nat
    BY <1>1
  <2>4. t # <<>>
    BY <1>1, <1>m, AppendProperties
  <2> QED
    BY <1>2, <2>1, <2>2, <2>3, <2>4
<1>4. \A i \in 1 .. Len(t) : t[i] \in Closers => i = Len(t)
  BY <1>3 DEF Closers, Closes, HeldTypes
<1> HIDE DEF t
<1>5. upstream' = upstream \o t
  BY DEF Passed, t
<1>6. Number(upstream', Closers) =
         Number(upstream, Closers) + (IF Closes(m) THEN 1 ELSE 0)
  <2>1. Number(upstream \o t, Closers) =
           Number(upstream, Closers) + (IF t # <<>> /\ t[Len(t)] \in Closers THEN 1 ELSE 0)
    BY <1>1, <1>3, <1>4, NumberConcat
  <2>2. t # <<>> /\ t[Len(t)] \in Closers <=> Closes(m)
    BY <1>3, <1>m DEF Closers
  <2> QED
    BY <1>5, <2>1, <2>2
<1>7. /\ Len(upstream') = Len(upstream) + Len(t)
      /\ DOMAIN upstream' = 1 .. Len(upstream')
      /\ \A i \in 1 .. Len(upstream) : upstream'[i] = upstream[i]
      /\ \A i \in 1 .. Len(t) : upstream'[Len(upstream) + i] = t[i]
  <2>1. /\ upstream \o t \in Seq(WireMessage)
        /\ Len(upstream \o t) = Len(upstream) + Len(t)
        /\ DOMAIN (upstream \o t) = 1 .. Len(upstream \o t)
        /\ \A i \in 1 .. Len(upstream) : (upstream \o t)[i] = upstream[i]
        /\ \A i \in 1 .. Len(t) : (upstream \o t)[Len(upstream) + i] = t[i]
    BY <1>1, <1>3
  <2> QED
    BY <1>5, <2>1
<1>8. \A i \in Len(upstream) + 1 .. Len(upstream) + Len(heldBuf) :
         upstream'[i].type \in HeldTypes
  <2> SUFFICES ASSUME NEW i \in Len(upstream) + 1 .. Len(upstream) + Len(heldBuf)
               PROVE  upstream'[i].type \in HeldTypes
    OBVIOUS
  <2>1. i - Len(upstream) \in 1 .. Len(heldBuf) /\ Len(upstream) + (i - Len(upstream)) = i
    BY <1>3
  <2>2. upstream'[i] = t[i - Len(upstream)]
    BY <1>3, <1>7, <2>1
  <2> QED
    BY <1>3, <2>1, <2>2
<1>9. upstream'[Len(upstream')] = m
  BY <1>3, <1>7
<1> QED
  BY <1>3, <1>6, <1>7, <1>8, <1>9

\* Passing a message keeps every opening followed by its Sync.
LEMMA PassedFollows ==
    ASSUME SessionInv, SyncsFollow, pc = "read",
           NEW m \in ClientMessages, Passed(m), UNCHANGED backendSkips,
           m.type \in Interrupting => ~ openUpstream /\ heldBuf = <<>>
    PROVE  SyncsFollow'
<1> DEFINE L == Len(upstream)
           N == Len(upstream')
<1>1. /\ L \in Nat /\ N = L + Len(heldBuf) + 1 /\ Len(heldBuf) \in Nat
      /\ DOMAIN upstream = 1 .. L /\ DOMAIN upstream' = 1 .. N
      /\ \A i \in 1 .. L : upstream'[i] = upstream[i]
      /\ \A i \in L + 1 .. L + Len(heldBuf) : upstream'[i].type \in HeldTypes
      /\ upstream'[N] = m
      /\ heldBuf = <<>> => Len(heldBuf) = 0
  BY PassedWire DEF SessionInv, FilterInv, TypeOK
<1>2. /\ openUpstream' <=> ~ Closes(m) /\ (openUpstream \/ heldBuf # <<>> \/ InBatch(m))
  BY DEF Passed
<1>3. m.type \in {"Sync"} \cup Interrupting <=> Closes(m)
  BY DEF Closes, Interrupting
<1>4. \A j \in L + 1 .. N : upstream'[j].type \in Interrupting => j = N
  BY <1>1 DEF HeldTypes, Interrupting
<1> HIDE DEF L, N
<1> SUFFICES ASSUME NEW i \in 0 .. N, Opens(i)'
             PROVE  /\ openUpstream' \/ \E k \in 1 .. N : k > i /\ upstream'[k].type = "Sync"
                    /\ \A j \in 1 .. N : j > i /\ upstream'[j].type \in Interrupting =>
                          \E k \in 1 .. N : i < k /\ k < j /\ upstream'[k].type = "Sync"
  <2>1. \A i \in 0 .. Len(upstream') : Opens(i)' =>
           /\ openUpstream' \/ \E k \in DOMAIN upstream' : k > i /\ upstream'[k].type = "Sync"
           /\ \A j \in DOMAIN upstream' : j > i /\ upstream'[j].type \in Interrupting =>
                 \E k \in DOMAIN upstream' : i < k /\ k < j /\ upstream'[k].type = "Sync"
    BY <1>1 DEF N
  <2> QED
    BY <2>1 DEF SyncsFollow, Opens
<1>5. CASE i \in 0 .. L
  <2>1. Opens(i)
    BY <1>1, <1>5 DEF Opens
  <2>2. /\ openUpstream \/ \E k \in 1 .. L : k > i /\ upstream[k].type = "Sync"
        /\ \A j \in 1 .. L : j > i /\ upstream[j].type \in Interrupting =>
              \E k \in 1 .. L : i < k /\ k < j /\ upstream[k].type = "Sync"
    BY <1>1, <1>5, <2>1 DEF SyncsFollow, L
  <2>3. \A k \in 1 .. L : k \in 1 .. N /\ upstream'[k] = upstream[k]
    BY <1>1
  <2>4. openUpstream' \/ \E k \in 1 .. N : k > i /\ upstream'[k].type = "Sync"
    <3>1. CASE openUpstream
      <4>1. m.type = "Sync" \/ openUpstream'
        BY <1>2, <1>3, <3>1
      <4>2. N \in 1 .. N /\ N > i
        BY <1>1, <1>5
      <4> QED
        BY <1>1, <4>1, <4>2
    <3>2. CASE ~ openUpstream
      BY <2>2, <2>3, <3>2
    <3> QED
      BY <3>1, <3>2
  <2>5. ASSUME NEW j \in 1 .. N, j > i, upstream'[j].type \in Interrupting
        PROVE  \E k \in 1 .. N : i < k /\ k < j /\ upstream'[k].type = "Sync"
    <3>1. CASE j \in 1 .. L
      <4>1. PICK k \in 1 .. L : i < k /\ k < j /\ upstream[k].type = "Sync"
        BY <2>2, <2>3, <2>5, <3>1
      <4> QED
        BY <2>3, <4>1
    <3>2. CASE j \notin 1 .. L
      <4>1. j = N
        BY <1>1, <1>4, <2>5, <3>2
      <4>2. ~ openUpstream
        BY <1>1, <2>5, <4>1
      <4>3. PICK k \in 1 .. L : k > i /\ upstream[k].type = "Sync"
        BY <2>2, <4>2
      <4>4. k < N
        BY <1>1
      <4> QED
        BY <2>3, <4>1, <4>3, <4>4
    <3> QED
      BY <3>1, <3>2
  <2> QED
    BY <2>4, <2>5
<1>6. CASE i \in L + 1 .. L + Len(heldBuf)
  <2>1. heldBuf # <<>> /\ i < N
    BY <1>1, <1>6
  <2>2. m.type \notin Interrupting
    BY <2>1
  <2>3. openUpstream' \/ m.type = "Sync"
    BY <1>2, <1>3, <2>1, <2>2
  <2>4. \A j \in 1 .. N : j > i => upstream'[j].type \notin Interrupting
    BY <1>1, <1>4, <1>6, <2>2
  <2>5. N \in 1 .. N
    BY <1>1
  <2> QED
    BY <1>1, <2>1, <2>3, <2>4, <2>5
<1>7. CASE i = N
  <2>1. i # 0 /\ InBatch(m)
    BY <1>1, <1>7 DEF Opens
  <2>2. ~ Closes(m)
    BY <2>1 DEF InBatch, Closes, HeldTypes
  <2>3. \A j \in 1 .. N : ~ j > i
    BY <1>1, <1>7
  <2> QED
    BY <1>2, <2>1, <2>2, <2>3
<1> QED
  BY <1>1, <1>5, <1>6, <1>7

\* A request of a client that does not interrupt keeps CalmInv.
LEMMA RequestCalm ==
    ASSUME ~ Interrupts, CalmInv, NEW m \in ClientMessages, Request(m)
    PROVE  CalmInv'
<1>i. SessionInv /\ awaiting <= Window /\ BatchKnown /\ SyncsFollow /\ Owed
  BY DEF CalmInv
<1>1. /\ Passed(m) \/ Kept(m) \/ Answered(m) \/ Denied(m)
      /\ UNCHANGED <<clientW, fromBackend, backendSkips>>
      /\ reply.ready = "none"
      /\ m.type \in Interrupting => ~ openUpstream /\ heldBuf = <<>>
  BY <1>i, RequestEffect
<1>2. /\ awaiting < Window
      /\ awaiting' = IF Closes(m) THEN awaiting + 1 ELSE awaiting
      /\ inBatch' = (InBatch(m) \/ (inBatch /\ m.type # "Sync"))
      /\ awaiting \in Int /\ Window \in Nat /\ pc = "read"
  BY <1>i, SessionAssumption, HandleLeaves DEF Request, MaySend, SessionInv, PeersOK
<1>3. SessionInv' /\ awaiting' <= Window
  BY <1>i, <1>2, RequestSession
<1>4. BatchKnown'
  <2>1. openUpstream \/ heldBuf # <<>> \/ skipUntilSync => inBatch
    BY <1>i DEF BatchKnown
  <2>2. CASE Passed(m)
    <3>1. openUpstream' => ~ Closes(m) /\ (inBatch \/ InBatch(m))
      BY <2>1, <2>2 DEF Passed
    <3>2. ~ Closes(m) => m.type # "Sync"
      BY DEF Closes
    <3> QED
      BY <1>2, <2>2, <3>1, <3>2 DEF BatchKnown, Passed
  <2>3. CASE Kept(m)
    BY <1>2, <2>3 DEF BatchKnown, Kept, InBatch
  <2>4. CASE Answered(m) \/ Denied(m)
    BY <2>4 DEF BatchKnown, Answered, Denied
  <2> QED
    BY <1>1, <2>2, <2>3, <2>4
<1>5. SyncsFollow'
  <2>1. CASE Passed(m)
    BY <1>i, <1>1, <1>2, <2>1, PassedFollows
  <2>2. CASE UNCHANGED <<upstream, openUpstream>>
    BY <1>i, <1>1, <2>2 DEF SyncsFollow, Opens
  <2> QED
    BY <1>1, <2>1, <2>2 DEF Kept, Answered, Denied
<1>6. Owed'
  <2>1. /\ Number(upstream, Closers) \in Nat
        /\ Number(fromBackend, TxStatus) \in Nat
        /\ Number(clientW, Readies) \in Nat
    BY <1>i, Counted
  <2>2. awaiting = Number(upstream, Closers) + Number(fromBackend, TxStatus)
                     + Number(clientW, Readies)
    BY <1>i, <1>1, <2>1 DEF Owed, Due
  <2>3. /\ Number(fromBackend', TxStatus) = Number(fromBackend, TxStatus)
        /\ Number(clientW', Readies) = Number(clientW, Readies)
    BY <1>1
  <2>4. CASE Passed(m)
    <3>1. Due' = 0
      BY <2>4 DEF Passed, Due
    <3>2. Number(upstream', Closers) =
             Number(upstream, Closers) + (IF Closes(m) THEN 1 ELSE 0)
      BY <1>i, <1>2, <2>4, PassedWire
    <3> QED
      BY <1>2, <2>1, <2>2, <2>3, <3>1, <3>2 DEF Owed
  <2>5. CASE Kept(m) \/ Denied(m)
    <3>1. ~ Closes(m) /\ upstream' = upstream /\ Due' = 0
      BY <2>5 DEF Kept, Denied, Closes, HeldTypes, Due
    <3>2. Number(upstream', Closers) = Number(upstream, Closers)
      BY <3>1
    <3> QED
      BY <1>2, <2>1, <2>2, <2>3, <3>1, <3>2 DEF Owed
  <2>6. CASE Answered(m)
    <3>1. Closes(m) /\ upstream' = upstream /\ Due' = 1
      BY <2>6 DEF Answered, Due
    <3>2. Number(upstream', Closers) = Number(upstream, Closers)
      BY <3>1
    <3> QED
      BY <1>2, <2>1, <2>2, <2>3, <3>1, <3>2 DEF Owed
  <2> QED
    BY <1>1, <2>4, <2>5, <2>6
<1> QED
  BY <1>3, <1>4, <1>5, <1>6 DEF CalmInv

(***************************************************************************)
(* The backend takes the message at the head of its wire.  It starts to    *)
(* discard only over a part of a batch, stops at a Sync, and answers what  *)
(* closes an exchange with a status: no Query or FunctionCall is discarded *)
(* because a Sync comes before it.                                         *)
(***************************************************************************)
LEMMA BackendEffect ==
    ASSUME SessionInv, SyncsFollow, Backend
    PROVE  /\ upstream # <<>> /\ upstream' = Tail(upstream)
           /\ UNCHANGED <<awaiting, inBatch, openUpstream, heldBuf, skipUntilSync,
                          reply, clientW>>
           /\ backendSkips' => \/ InBatch(Head(upstream))
                               \/ backendSkips /\ Head(upstream).type # "Sync"
           /\ Number(fromBackend', TxStatus) =
                Number(fromBackend, TxStatus) + (IF Closes(Head(upstream)) THEN 1 ELSE 0)
<1> PICK m \in ClientMessages :
       \/ BackendDiscards(m) \/ BackendAnswersSync(m) \/ BackendRunsQuery(m)
       \/ BackendRunsBatchMessage(m) \/ BackendIgnores(m)
  BY DEF Backend
<1>1. upstream # <<>> /\ Head(upstream) = m /\ BackendReads /\ UNCHANGED peerVars
  BY DEF Backend, Takes, BackendDiscards, BackendAnswersSync, BackendRunsQuery,
         BackendRunsBatchMessage, BackendIgnores
<1>2. /\ upstream' = Tail(upstream)
      /\ UNCHANGED <<awaiting, inBatch, openUpstream, heldBuf, skipUntilSync,
                     reply, clientW>>
  BY <1>1 DEF BackendReads, filterVars, clientVars, peerVars
<1>t. /\ upstream \in Seq(WireMessage) /\ fromBackend \in Seq(Response)
      /\ backendTx \in TxStatus /\ backendSkips \in BOOLEAN
  BY Counted DEF SessionInv, PeersOK
<1>d. "Data" \in Response /\ "Data" \notin TxStatus /\ TxStatus \subseteq Response
  BY DEF Response, TxStatus
<1>n. \A s \in TxStatus :
         /\ Number(fromBackend \o <<s>>, TxStatus) = Number(fromBackend, TxStatus) + 1
         /\ Number(fromBackend \o <<"Data", s>>, TxStatus) = Number(fromBackend, TxStatus) + 1
  <2> SUFFICES ASSUME NEW s \in TxStatus
               PROVE  /\ Number(fromBackend \o <<s>>, TxStatus)
                           = Number(fromBackend, TxStatus) + 1
                      /\ Number(fromBackend \o <<"Data", s>>, TxStatus)
                           = Number(fromBackend, TxStatus) + 1
    OBVIOUS
  <2> DEFINE one == <<s>>
             two == <<"Data", s>>
  <2>1. /\ one \in Seq(Response) /\ Len(one) = 1 /\ one[1] = s /\ one # <<>>
        /\ two \in Seq(Response) /\ Len(two) = 2 /\ two[1] = "Data" /\ two[2] = s
        /\ two # <<>>
    BY <1>d
  <2> HIDE DEF one, two
  <2>2. /\ \A i \in 1 .. Len(one) : one[i] \in TxStatus => i = Len(one)
        /\ \A i \in 1 .. Len(two) : two[i] \in TxStatus => i = Len(two)
    BY <1>d, <2>1
  <2>3. /\ one # <<>> /\ one[Len(one)] \in TxStatus
        /\ two # <<>> /\ two[Len(two)] \in TxStatus
    BY <2>1
  <2>4. Number(fromBackend \o one, TxStatus) =
           Number(fromBackend, TxStatus)
             + (IF one # <<>> /\ one[Len(one)] \in TxStatus THEN 1 ELSE 0)
    BY <1>t, <2>1, <2>2, NumberConcat
  <2>5. Number(fromBackend \o two, TxStatus) =
           Number(fromBackend, TxStatus)
             + (IF two # <<>> /\ two[Len(two)] \in TxStatus THEN 1 ELSE 0)
    BY <1>t, <2>1, <2>2, NumberConcat
  <2> QED
    BY <2>3, <2>4, <2>5 DEF one, two
<1>c. Number(fromBackend, TxStatus) \in Nat
  BY Counted
<1>3. CASE BackendDiscards(m)
  <2>1. backendSkips /\ m.type # "Sync" /\ UNCHANGED <<backendSkips, fromBackend>>
    BY <1>3 DEF BackendDiscards, backendVars
  <2>2. m.type \notin Interrupting
    <3>1. /\ Opens(0) /\ 0 \in 0 .. Len(upstream)
          /\ 1 \in DOMAIN upstream /\ upstream[1] = m
          /\ \A k \in DOMAIN upstream : ~ (0 < k /\ k < 1)
      BY <1>1, <1>t, <2>1 DEF Opens
    <3> QED
      BY <3>1 DEF SyncsFollow
  <2>3. ~ Closes(m)
    BY <2>1, <2>2 DEF Closes, Interrupting
  <2> QED
    BY <1>1, <1>2, <1>c, <2>1, <2>3
<1>4. CASE BackendAnswersSync(m)
  <2>1. Closes(m) /\ fromBackend' = fromBackend \o <<backendTx>> /\ ~ backendSkips'
    BY <1>4 DEF BackendAnswersSync, Respond, Closes
  <2> QED
    BY <1>1, <1>2, <1>n, <1>t, <2>1
<1>5. CASE BackendRunsQuery(m)
  <2>1. Closes(m) /\ fromBackend' = fromBackend \o <<"Data", backendTx'>> /\ ~ backendSkips'
    BY <1>5 DEF BackendRunsQuery, Respond, Closes
  <2>2. backendTx' \in TxStatus
    BY BackendSession DEF SessionInv, PeersOK
  <2> QED
    BY <1>1, <1>2, <1>n, <2>1, <2>2
<1>6. CASE BackendRunsBatchMessage(m)
  <2>1. ~ Closes(m) /\ InBatch(m) /\ fromBackend' = Append(fromBackend, "Data")
    BY <1>6, <1>t, <1>d, AppendIsConcat
    DEF BackendRunsBatchMessage, Respond, Closes, InBatch, HeldTypes
  <2>2. Number(fromBackend', TxStatus) = Number(fromBackend, TxStatus)
    BY <1>t, <1>d, <1>c, <2>1, NumberAppend
  <2> QED
    BY <1>1, <1>2, <1>c, <2>1, <2>2
<1>7. CASE BackendIgnores(m)
  <2>1. ~ Closes(m) /\ ~ backendSkips' /\ fromBackend' = fromBackend
    BY <1>7 DEF BackendIgnores, Closes, backendVars
  <2> QED
    BY <1>1, <1>2, <1>c, <2>1
<1> QED
  BY <1>3, <1>4, <1>5, <1>6, <1>7

\* So does the backend, when it takes a message and answers.
LEMMA BackendCalm == ASSUME CalmInv, Backend PROVE CalmInv'
<1>i. SessionInv /\ awaiting <= Window /\ BatchKnown /\ SyncsFollow /\ Owed
  BY DEF CalmInv
<1>1. /\ upstream # <<>> /\ upstream' = Tail(upstream)
      /\ UNCHANGED <<awaiting, inBatch, openUpstream, heldBuf, skipUntilSync,
                     reply, clientW>>
      /\ backendSkips' => \/ InBatch(Head(upstream))
                          \/ backendSkips /\ Head(upstream).type # "Sync"
      /\ Number(fromBackend', TxStatus) =
           Number(fromBackend, TxStatus) + (IF Closes(Head(upstream)) THEN 1 ELSE 0)
  BY <1>i, BackendEffect
<1>2. SessionInv' /\ awaiting' <= Window /\ BatchKnown'
  BY <1>i, <1>1, BackendSession DEF BatchKnown
<1>3. SyncsFollow'
  <2> DEFINE N == Len(upstream')
  <2>1. /\ upstream \in Seq(WireMessage) /\ N \in Nat /\ Len(upstream) = N + 1
        /\ DOMAIN upstream = 1 .. N + 1 /\ DOMAIN upstream' = 1 .. N
        /\ Head(upstream) = upstream[1]
        /\ \A k \in 1 .. N : upstream'[k] = upstream[k + 1]
    BY <1>i, <1>1, Counted
  <2>2. \A k \in 2 .. N + 1 : k - 1 \in 1 .. N /\ upstream'[k - 1] = upstream[k]
    <3> SUFFICES ASSUME NEW k \in 2 .. N + 1
                 PROVE  k - 1 \in 1 .. N /\ upstream'[k - 1] = upstream[k]
      OBVIOUS
    <3>1. k - 1 \in 1 .. N /\ (k - 1) + 1 = k
      BY <2>1
    <3> QED
      BY <2>1, <3>1
  <2> HIDE DEF N
  <2> SUFFICES ASSUME NEW i \in 0 .. N, Opens(i)'
               PROVE  /\ openUpstream' \/ \E k \in 1 .. N : k > i /\ upstream'[k].type = "Sync"
                      /\ \A j \in 1 .. N : j > i /\ upstream'[j].type \in Interrupting =>
                            \E k \in 1 .. N : i < k /\ k < j /\ upstream'[k].type = "Sync"
    <3>1. \A i \in 0 .. Len(upstream') : Opens(i)' =>
             /\ openUpstream' \/ \E k \in DOMAIN upstream' : k > i /\ upstream'[k].type = "Sync"
             /\ \A j \in DOMAIN upstream' : j > i /\ upstream'[j].type \in Interrupting =>
                   \E k \in DOMAIN upstream' : i < k /\ k < j /\ upstream'[k].type = "Sync"
      BY <2>1 DEF N
    <3> QED
      BY <3>1 DEF SyncsFollow, Opens
  \* Where the batch that is open now was opened before the step.
  <2>3. \E p \in {0, i + 1} : /\ Opens(p)
                              /\ p = 0 => i = 0 /\ upstream[1].type # "Sync"
    <3>1. CASE i = 0
      <4>1. InBatch(upstream[1]) \/ (backendSkips /\ upstream[1].type # "Sync")
        BY <1>1, <2>1, <3>1 DEF Opens
      <4>2. CASE InBatch(upstream[1])
        BY <3>1, <4>2 DEF Opens
      <4>3. CASE backendSkips /\ upstream[1].type # "Sync"
        BY <3>1, <4>3 DEF Opens
      <4> QED
        BY <4>1, <4>2, <4>3
    <3>2. CASE i # 0
      <4>1. InBatch(upstream[i + 1]) /\ i + 1 # 0
        BY <2>1, <3>2 DEF Opens
      <4> QED
        BY <4>1 DEF Opens
    <3> QED
      BY <3>1, <3>2
  <2>4. PICK p \in {0, i + 1} : Opens(p) /\ (p = 0 => i = 0 /\ upstream[1].type # "Sync")
    BY <2>3
  <2>5. p \in 0 .. N + 1
    BY <2>1
  <2>6. /\ openUpstream \/ \E k \in 1 .. N + 1 : k > p /\ upstream[k].type = "Sync"
        /\ \A j \in 1 .. N + 1 : j > p /\ upstream[j].type \in Interrupting =>
              \E k \in 1 .. N + 1 : p < k /\ k < j /\ upstream[k].type = "Sync"
    <3>1. Opens(p) /\ p \in 0 .. Len(upstream)
      BY <2>1, <2>4, <2>5
    <3>2. /\ openUpstream \/ \E k \in DOMAIN upstream : k > p /\ upstream[k].type = "Sync"
          /\ \A j \in DOMAIN upstream : j > p /\ upstream[j].type \in Interrupting =>
                \E k \in DOMAIN upstream : p < k /\ k < j /\ upstream[k].type = "Sync"
      BY <1>i, <3>1 DEF SyncsFollow
    <3> QED
      BY <2>1, <3>2
  <2>7. \A k \in 1 .. N + 1 : k > p /\ upstream[k].type = "Sync" =>
           k \in 2 .. N + 1 /\ k - 1 > i
    BY <2>1, <2>4
  <2>8. openUpstream' \/ \E k \in 1 .. N : k > i /\ upstream'[k].type = "Sync"
    BY <1>1, <2>2, <2>6, <2>7
  <2>9. ASSUME NEW j \in 1 .. N, j > i, upstream'[j].type \in Interrupting
        PROVE  \E k \in 1 .. N : i < k /\ k < j /\ upstream'[k].type = "Sync"
    <3>1. j + 1 \in 1 .. N + 1 /\ j + 1 > p /\ upstream[j + 1].type \in Interrupting
      BY <2>1, <2>9
    <3>2. PICK k \in 1 .. N + 1 : p < k /\ k < j + 1 /\ upstream[k].type = "Sync"
      BY <2>6, <3>1
    <3>3. k - 1 \in 1 .. N /\ upstream'[k - 1].type = "Sync" /\ i < k - 1 /\ k - 1 < j
      <4>1. k \in 2 .. N + 1 /\ k - 1 > i
        BY <2>7, <3>2
      <4>2. k - 1 \in 1 .. N /\ upstream'[k - 1] = upstream[k]
        BY <2>2, <4>1
      <4>3. i < k - 1 /\ k - 1 < j
        BY <2>1, <3>2, <4>1
      <4> QED
        BY <3>2, <4>2, <4>3
    <3> QED
      BY <3>3
  <2> QED
    BY <2>8, <2>9
<1>4. Owed'
  <2>1. /\ Number(upstream, Closers) \in Nat
        /\ Number(fromBackend, TxStatus) \in Nat
        /\ Number(clientW, Readies) \in Nat
        /\ Number(upstream', Closers) \in Nat
    <3>1. upstream' \in Seq(WireMessage)
      BY <1>2 DEF SessionInv, FilterInv, TypeOK
    <3>2. Number(upstream', Closers) \in Nat
      BY <3>1, NumberType
    <3> QED
      BY <1>i, <3>2, Counted
  <2>2. Number(upstream, Closers) =
           Number(upstream', Closers) + (IF Closes(Head(upstream)) THEN 1 ELSE 0)
    <3>1. /\ upstream \in Seq(WireMessage)
          /\ Head(upstream) \in Closers <=> Closes(Head(upstream))
      BY <1>i, <1>1, Counted
    <3>2. Number(upstream, Closers) =
             Number(Tail(upstream), Closers) + (IF Head(upstream) \in Closers THEN 1 ELSE 0)
      BY <1>1, <3>1, NumberTail
    <3> QED
      BY <1>1, <3>1, <3>2
  <2>3. Due' = Due /\ Due \in Nat /\ Number(clientW', Readies) = Number(clientW, Readies)
    BY <1>1 DEF Due
  <2>4. awaiting' = Number(upstream, Closers) + Number(fromBackend, TxStatus)
                      + Due + Number(clientW, Readies)
    BY <1>i, <1>1 DEF Owed
  <2> QED
    BY <1>1, <2>1, <2>2, <2>3, <2>4 DEF Owed
<1> QED
  BY <1>2, <1>3, <1>4 DEF CalmInv

(***************************************************************************)
(* copyResponses: a status leaves the backend's wire when its              *)
(* ReadyForQuery reaches the client's; no other frame of its is one.       *)
(***************************************************************************)
LEMMA CopyCalm == ASSUME CalmInv, CopyResponses PROVE CalmInv'
<1>i. SessionInv /\ awaiting <= Window /\ BatchKnown /\ SyncsFollow /\ Owed
  BY DEF CalmInv
<1>1. UNCHANGED <<awaiting, inBatch, backendSkips, reply, heldBuf, skipUntilSync,
                  upstream, openUpstream>>
  BY DEF CopyResponses, StoreStatus, ForwardReady, LockForMessage, ForwardHeader,
         ForwardPayload, peerVars, backendVars, filterVars, wireVars
<1>2. SessionInv' /\ awaiting' <= Window /\ BatchKnown' /\ SyncsFollow'
  BY <1>i, <1>1, CopySession DEF BatchKnown, SyncsFollow, Opens
<1>t. /\ fromBackend \in Seq(Response) /\ clientW \in Seq(Frame)
      /\ Number(upstream, Closers) \in Nat
      /\ Number(fromBackend, TxStatus) \in Nat
      /\ Number(clientW, Readies) \in Nat
      /\ Due \in Nat /\ Due' = Due
      /\ Number(upstream', Closers) = Number(upstream, Closers)
  BY <1>i, <1>1, Counted DEF Due
<1>3. Number(fromBackend', TxStatus) + Number(clientW', Readies)
        = Number(fromBackend, TxStatus) + Number(clientW, Readies)
  <2>1. CASE StoreStatus \/ LockForMessage
    BY <2>1 DEF StoreStatus, LockForMessage, clientVars
  <2>2. CASE ForwardReady
    <3> DEFINE f == Relayed("whole", "Ready", Head(fromBackend))
    <3>1. fromBackend # <<>> /\ Head(fromBackend) \in TxStatus
      BY <1>i, <2>2 DEF ForwardReady, SessionInv, ResponsesOK
    <3>2. fromBackend' = Tail(fromBackend) /\ clientW' = Append(clientW, f)
      BY <2>2 DEF ForwardReady, WriteToClient
    <3>3. f \in Frame /\ f \in Readies
      BY <3>1 DEF Relayed, Frame, Readies, IsReady
    <3> HIDE DEF f
    <3>4. Number(fromBackend, TxStatus) =
             Number(Tail(fromBackend), TxStatus)
               + (IF Head(fromBackend) \in TxStatus THEN 1 ELSE 0)
      BY <1>t, <3>1, NumberTail
    <3>5. Number(Append(clientW, f), Readies) =
             Number(clientW, Readies) + (IF f \in Readies THEN 1 ELSE 0)
      BY <1>t, <3>3, NumberAppend
    <3>6. Number(Tail(fromBackend), TxStatus) \in Nat
      <4>1. Tail(fromBackend) \in Seq(Response)
        BY <1>t, <3>1
      <4> QED
        BY <4>1, NumberType
    <3> QED
      BY <1>t, <3>1, <3>2, <3>3, <3>4, <3>5, <3>6
  <2>3. CASE ForwardHeader
    <3> DEFINE f == Relayed("head", "Data", "none")
    <3>1. fromBackend' = fromBackend /\ clientW' = Append(clientW, f)
      BY <2>3 DEF ForwardHeader, WriteToClient
    <3>2. f \in Frame /\ f \notin Readies
      BY DEF Relayed, Frame, Readies, IsReady
    <3> HIDE DEF f
    <3>3. Number(Append(clientW, f), Readies) =
             Number(clientW, Readies) + (IF f \in Readies THEN 1 ELSE 0)
      BY <1>t, <3>2, NumberAppend
    <3> QED
      BY <1>t, <3>1, <3>2, <3>3
  <2>4. CASE ForwardPayload
    <3> DEFINE f == Relayed("body", "Data", "none")
    <3>1. /\ fromBackend # <<>> /\ Head(fromBackend) = "Data"
          /\ "Data" \notin TxStatus
      BY <1>i, <2>4 DEF ForwardPayload, SessionInv, ResponsesOK, TxStatus
    <3>2. fromBackend' = Tail(fromBackend) /\ clientW' = Append(clientW, f)
      BY <2>4 DEF ForwardPayload, WriteToClient
    <3>3. f \in Frame /\ f \notin Readies
      BY DEF Relayed, Frame, Readies, IsReady
    <3> HIDE DEF f
    <3>4. Number(fromBackend, TxStatus) =
             Number(Tail(fromBackend), TxStatus)
               + (IF Head(fromBackend) \in TxStatus THEN 1 ELSE 0)
      BY <1>t, <3>1, NumberTail
    <3>5. Number(Append(clientW, f), Readies) =
             Number(clientW, Readies) + (IF f \in Readies THEN 1 ELSE 0)
      BY <1>t, <3>3, NumberAppend
    <3>6. Number(Tail(fromBackend), TxStatus) \in Nat
      <4>1. Tail(fromBackend) \in Seq(Response)
        BY <1>t, <3>1
      <4> QED
        BY <4>1, NumberType
    <3> QED
      BY <1>t, <3>1, <3>2, <3>3, <3>4, <3>5, <3>6
  <2> QED
    BY <2>1, <2>2, <2>3, <2>4 DEF CopyResponses
<1>4. Owed'
  <2>1. /\ Number(fromBackend', TxStatus) \in Nat /\ Number(clientW', Readies) \in Nat
    <3>1. fromBackend' \in Seq(Response) /\ clientW' \in Seq(Frame)
      BY <1>2 DEF SessionInv, FilterInv, TypeOK, PeersOK
    <3> QED
      BY <3>1, NumberType
  <2>2. awaiting = Number(upstream, Closers) + Number(fromBackend, TxStatus)
                     + Due + Number(clientW, Readies)
    BY <1>i DEF Owed
  <2> QED
    BY <1>1, <1>t, <1>3, <2>1, <2>2 DEF Owed
<1> QED
  BY <1>2, <1>4 DEF CalmInv

\* An answer of the proxy's: the one owed becomes the one on the wire.
LEMMA AnswerCalm == ASSUME CalmInv, AnswerClient PROVE CalmInv'
<1>i. SessionInv /\ awaiting <= Window /\ BatchKnown /\ SyncsFollow /\ Owed
  BY DEF CalmInv
<1>1. UNCHANGED <<awaiting, inBatch, backendSkips, heldBuf, skipUntilSync,
                  upstream, openUpstream, fromBackend>>
  BY DEF AnswerClient, LoadStatus, WriteReply, peerVars, backendVars,
         responseVars, filterVars, wireVars
<1>2. SessionInv' /\ awaiting' <= Window /\ BatchKnown' /\ SyncsFollow'
  BY <1>i, <1>1, AnswerSession DEF BatchKnown, SyncsFollow, Opens
<1>t. /\ clientW \in Seq(Frame) /\ reply \in Reply
      /\ Number(upstream, Closers) \in Nat
      /\ Number(fromBackend, TxStatus) \in Nat
      /\ Number(clientW, Readies) \in Nat
  BY <1>i, Counted DEF SessionInv, FilterInv, TypeOK
<1>3. CASE LoadStatus
  <2>1. /\ reply.ready = "due" /\ reply' = [reply EXCEPT !.ready = ReadyStatus]
        /\ UNCHANGED clientW
    BY <1>3, <1>i DEF LoadStatus, clientVars, SessionInv, FilterInv, ReplyMatchesPC
  <2>2. reply'.ready = ReadyStatus /\ ReadyStatus # "none"
    BY <1>t, <2>1 DEF Reply, ReadyStatus
  <2>3. Due' = Due
    BY <2>1, <2>2 DEF Due
  <2> QED
    BY <1>i, <1>1, <1>2, <2>1, <2>3 DEF Owed, CalmInv
<1>4. CASE WriteReply
  <2>1. /\ clientW' = clientW \o ReplyFrames /\ reply' = NoReply
        /\ reply.ready \in {"none", "I", "E"}
    BY <1>4, <1>i, <1>t
    DEF WriteReply, SessionInv, FilterInv, ReplyMatchesPC, Reply
  <2>2. Due' = 0
    BY <2>1 DEF NoReply, Due
  <2>3. /\ ErrorFrame \in Frame /\ ErrorFrame \notin Readies
        /\ reply.ready # "none" => /\ ReadyFrame(reply.ready) \in Frame
                                   /\ ReadyFrame(reply.ready) \in Readies
    BY <2>1 DEF ErrorFrame, ReadyFrame, Frame, TxStatus, Readies, IsReady
  <2>4. /\ ReplyFrames \in Seq(Frame)
        /\ \A i \in 1 .. Len(ReplyFrames) :
              ReplyFrames[i] \in Readies => i = Len(ReplyFrames)
        /\ ReplyFrames # <<>> /\ ReplyFrames[Len(ReplyFrames)] \in Readies
              <=> reply.ready # "none"
    BY <2>3 DEF ReplyFrames
  <2>5. Number(clientW \o ReplyFrames, Readies) =
           Number(clientW, Readies)
             + (IF ReplyFrames # <<>> /\ ReplyFrames[Len(ReplyFrames)] \in Readies
                   THEN 1 ELSE 0)
    BY <1>t, <2>4, NumberConcat
  <2>6. Number(clientW', Readies) = Number(clientW, Readies) + Due
    BY <1>t, <2>1, <2>4, <2>5 DEF Due
  <2>7. Owed'
    <3>1. awaiting = Number(upstream, Closers) + Number(fromBackend, TxStatus)
                       + Due + Number(clientW, Readies)
      BY <1>i DEF Owed
    <3>2. Due \in Nat
      BY DEF Due
    <3> QED
      BY <1>1, <1>t, <2>2, <2>6, <3>1, <3>2 DEF Owed
  <2> QED
    BY <1>2, <2>7 DEF CalmInv
<1> QED
  BY <1>3, <1>4 DEF AnswerClient

\* The client reads a frame, and counts off a ReadyForQuery.
LEMMA ReadCalm == ASSUME CalmInv, ClientReadsFrame PROVE CalmInv'
<1>i. SessionInv /\ awaiting <= Window /\ BatchKnown /\ SyncsFollow /\ Owed
  BY DEF CalmInv
<1>1. UNCHANGED <<inBatch, backendSkips, heldBuf, skipUntilSync, reply,
                  upstream, openUpstream, fromBackend>>
  BY DEF ClientReadsFrame, ClientReads, backendVars, responseVars, filterVars,
         wireVars
<1>2. /\ clientW # <<>> /\ clientW' = Tail(clientW)
      /\ awaiting' = IF Head(clientW).kind = "Ready" THEN awaiting - 1 ELSE awaiting
  BY DEF ClientReadsFrame, ClientReads
<1>t. /\ clientW \in Seq(Frame) /\ awaiting \in Int /\ Window \in Nat
      /\ Number(upstream, Closers) \in Nat
      /\ Number(fromBackend, TxStatus) \in Nat
      /\ Number(clientW, Readies) \in Nat
      /\ \A f \in Frame : f \in Readies <=> IsReady(f)
  BY <1>i, Counted, SessionAssumption DEF SessionInv, PeersOK
<1>3. SessionInv' /\ BatchKnown' /\ SyncsFollow' /\ awaiting' <= Window
  BY <1>i, <1>1, <1>2, <1>t, ReadSession DEF BatchKnown, SyncsFollow, Opens
<1>4. Number(clientW, Readies) =
         Number(clientW', Readies) + (IF Head(clientW).kind = "Ready" THEN 1 ELSE 0)
  <2>1. Head(clientW) \in Readies <=> Head(clientW).kind = "Ready"
    BY <1>2, <1>t DEF IsReady
  <2>2. Number(clientW, Readies) =
           Number(Tail(clientW), Readies) + (IF Head(clientW) \in Readies THEN 1 ELSE 0)
    BY <1>2, <1>t, NumberTail
  <2> QED
    BY <1>2, <2>1, <2>2
<1>5. Owed'
  <2>1. awaiting = Number(upstream, Closers) + Number(fromBackend, TxStatus)
                     + Due + Number(clientW, Readies)
    BY <1>i DEF Owed
  <2>2. Number(clientW', Readies) \in Nat
    <3>1. clientW' \in Seq(Frame)
      BY <1>2, <1>t
    <3> QED
      BY <3>1, NumberType
  <2>3. Due \in Nat /\ Due' = Due
    BY <1>1 DEF Due
  <2> QED
    BY <1>1, <1>2, <1>t, <1>4, <2>1, <2>2, <2>3 DEF Owed
<1> QED
  BY <1>3, <1>5 DEF CalmInv

\* At the start nothing is owed and nothing is under way.
LEMMA InitCalm == SessionInit => CalmInv
<1> SUFFICES ASSUME SessionInit PROVE CalmInv
  OBVIOUS
<1>1. /\ upstream = <<>> /\ fromBackend = <<>> /\ clientW = <<>> /\ awaiting = 0
      /\ ~ openUpstream /\ heldBuf = <<>> /\ ~ skipUntilSync /\ ~ backendSkips
      /\ reply = NoReply
  BY DEF SessionInit, FilterInit
<1>2. SessionInv /\ awaiting <= Window
  BY <1>1, InitSession, SessionAssumption
<1>3. BatchKnown
  BY <1>1 DEF BatchKnown
<1>4. SyncsFollow
  <2>1. Len(upstream) = 0
    BY <1>1
  <2>2. \A i \in 0 .. Len(upstream) : i = 0
    BY <2>1
  <2> QED
    BY <1>1, <2>2 DEF SyncsFollow, Opens
<1>5. Owed
  <2>1. \A S : Number(<<>>, S) = 0
    <3>1. \A S : Hits(<<>>, S) = {}
      BY DEF Hits
    <3> QED
      BY <3>1, FS_EmptySet DEF Number
  <2> QED
    BY <1>1, <2>1 DEF Owed, Due, NoReply
<1> QED
  BY <1>2, <1>3, <1>4, <1>5 DEF CalmInv

\* So CalmInv holds of every state of a session whose client does not interrupt.
LEMMA AlwaysCalm == ASSUME ~ Interrupts PROVE SessionSpec => []CalmInv
<1>1. CalmInv /\ UNCHANGED sessionVars => CalmInv'
  <2> SUFFICES ASSUME CalmInv, UNCHANGED sessionVars PROVE CalmInv'
    OBVIOUS
  <2>1. UNCHANGED <<pc, reply, filterVars, wireVars, clientVars, sharedVars,
                    peerVars, backendVars, responseVars>>
    BY DEF sessionVars, vars
  <2>2. UNCHANGED <<pc, reply, heldBuf, heldLen, skipUntilSync, prefixForwarded,
                    forwardSync, upstream, openUpstream, closersSent, clientW,
                    readiesSent, txStatus, mu, awaiting, inBatch, midFrame,
                    backendTx, backendSkips, fromBackend, rpc>>
    BY <2>1
    DEF filterVars, wireVars, clientVars, sharedVars, peerVars, backendVars,
        responseVars
  <2>3. SessionInv'
    <3>1. FilterInv'
      BY <2>1, OtherStepsInv DEF CalmInv, SessionInv, vars
    <3> QED
      BY <2>2, <3>1
      DEF CalmInv, SessionInv, PeersOK, ResponsesOK, FramesIntact, Transparent
  <2> QED
    BY <2>2, <2>3
    DEF CalmInv, BatchKnown, SyncsFollow, Opens, Owed, Due, Number, Hits
<1>2. CalmInv /\ [SessionNext]_sessionVars => CalmInv'
  BY <1>1, RequestCalm, AnswerCalm, CopyCalm, BackendCalm, ReadCalm
  DEF SessionNext
<1> QED
  BY <1>2, InitCalm, PTL DEF SessionSpec

-----------------------------------------------------------------------------

(***************************************************************************)
(* Every exchange of a client that does not interrupt is answered exactly  *)
(* once: no ReadyForQuery is lost or made up, however batches are denied,  *)
(* swallowed, split or released.                                           *)
(***************************************************************************)
THEOREM ReadiesConserved ==
    ASSUME ~ Interrupts
    PROVE  SessionSpec => []ReadyConservation
<1>1. CalmInv => ReadyConservation
  <2> SUFFICES ASSUME CalmInv PROVE ReadyConservation
    OBVIOUS
  <2>1. /\ upstream \in Seq(WireMessage) /\ fromBackend \in Seq(Response)
        /\ clientW \in Seq(Frame)
        /\ \A m \in WireMessage : m \in Closers <=> Closes(m)
        /\ \A f \in Frame : f \in Readies <=> IsReady(f)
    BY Counted DEF CalmInv
  <2>2. /\ {i \in DOMAIN upstream : Closes(upstream[i])} = Hits(upstream, Closers)
        /\ {i \in DOMAIN fromBackend : IsStatus(fromBackend[i])} = Hits(fromBackend, TxStatus)
        /\ {i \in DOMAIN clientW : IsReady(clientW[i])} = Hits(clientW, Readies)
    BY <2>1 DEF Hits, IsStatus
  <2>3. /\ Count(upstream, Closes) = Number(upstream, Closers)
        /\ Count(fromBackend, IsStatus) = Number(fromBackend, TxStatus)
        /\ Count(clientW, IsReady) = Number(clientW, Readies)
    BY <2>2 DEF Count, Number
  <2> QED
    BY <2>3 DEF CalmInv, Owed, Due, ReadyConservation
<1> QED
  BY <1>1, AlwaysCalm, PTL

\* A backend that discards up to a Sync is sent one.
THEOREM BackendGetsItsSync ==
    ASSUME ~ Interrupts
    PROVE  SessionSpec => []BackendResynced
<1>1. CalmInv => BackendResynced
  <2> SUFFICES ASSUME CalmInv, Enforces, backendSkips
               PROVE  prefixForwarded \/ \E i \in DOMAIN upstream : upstream[i].type = "Sync"
    BY DEF BackendResynced
  <2>1. prefixForwarded = openUpstream
    BY DEF CalmInv, SessionInv, FilterInv, PrefixTracksWire
  <2>2. Opens(0) /\ 0 \in 0 .. Len(upstream)
    BY Counted DEF Opens, CalmInv
  <2> QED
    BY <2>1, <2>2 DEF CalmInv, SyncsFollow
<1> QED
  BY <1>1, AlwaysCalm, PTL

\* The state keeps its shape, and the client is owed at most Window answers.
THEOREM SessionTypeCorrect ==
    ASSUME ~ Interrupts
    PROVE  SessionSpec => []SessionTypeOK
<1>1. CalmInv => SessionTypeOK
  <2> SUFFICES ASSUME CalmInv PROVE SessionTypeOK
    OBVIOUS
  <2>1. awaiting \in 0 .. Window
    <3>1. /\ awaiting \in Int /\ awaiting <= Window /\ Window \in Nat /\ Due \in Nat
          /\ Number(upstream, Closers) \in Nat
          /\ Number(fromBackend, TxStatus) \in Nat
          /\ Number(clientW, Readies) \in Nat
      BY Counted, SessionAssumption DEF CalmInv, SessionInv, PeersOK, Due
    <3> QED
      BY <3>1 DEF CalmInv, Owed
  <2> QED
    BY <2>1 DEF CalmInv, SessionInv, FilterInv, PeersOK, SessionTypeOK
<1> QED
  BY <1>1, AlwaysCalm, PTL

-----------------------------------------------------------------------------
(***************************************************************************)
(* What the proxy knows of the transaction: the last status the backend    *)
(* reported, on the wire or stored, is the one it is in, unless a batch is *)
(* open or its Sync under way.  Position 0 stands for txStatus.            *)
(***************************************************************************)
Told(k) == IF k = 0 THEN txStatus ELSE fromBackend[k]

LastTold ==
    \E k \in 0 .. Len(fromBackend) :
        /\ Told(k) = backendTx
        /\ \A j \in DOMAIN fromBackend : j > k => fromBackend[j] = "Data"

SyncComes == openUpstream \/ \E k \in DOMAIN upstream : upstream[k].type = "Sync"

TruthInv ==
    /\ CalmInv
    /\ LastTold \/ SyncComes
    /\ reply.ready # "none" => ~ openUpstream

\* What the client sends does not make the status false.
LEMMA RequestTruth ==
    ASSUME ~ Interrupts, TruthInv, NEW m \in ClientMessages, Request(m)
    PROVE  TruthInv'
<1>i. CalmInv /\ SessionInv /\ BatchKnown /\ (LastTold \/ SyncComes)
  BY DEF TruthInv, CalmInv
<1>1. /\ Passed(m) \/ Kept(m) \/ Answered(m) \/ Denied(m)
      /\ UNCHANGED <<clientW, fromBackend, backendSkips>>
      /\ m.type \in Interrupting => ~ openUpstream /\ heldBuf = <<>>
  BY <1>i, RequestEffect
<1>2. pc = "read" /\ UNCHANGED <<txStatus, backendTx>>
  BY <1>i, HandleLeaves DEF Request, SessionInv, backendVars
<1>3. LastTold => LastTold'
  BY <1>1, <1>2 DEF LastTold, Told
<1>4. SyncComes => SyncComes'
  <2>1. CASE Passed(m)
    <3>1. /\ DOMAIN upstream' = 1 .. Len(upstream')
          /\ Len(upstream') = Len(upstream) + Len(heldBuf) + 1
          /\ \A i \in 1 .. Len(upstream) : upstream'[i] = upstream[i]
          /\ upstream'[Len(upstream')] = m
          /\ DOMAIN upstream = 1 .. Len(upstream)
          /\ Len(upstream) \in Nat /\ Len(heldBuf) \in Nat
      BY <1>i, <1>2, <2>1, PassedWire DEF SessionInv, FilterInv, TypeOK
    <3>2. openUpstream => openUpstream' \/ m.type = "Sync"
      BY <1>1, <2>1 DEF Passed, Closes, Interrupting
    <3> QED
      BY <3>1, <3>2 DEF SyncComes
  <2>2. CASE UNCHANGED <<upstream, openUpstream>>
    BY <2>2 DEF SyncComes
  <2> QED
    BY <1>1, <2>1, <2>2 DEF Kept, Answered, Denied
<1>5. reply'.ready # "none" => ~ openUpstream'
  BY <1>1 DEF Passed, Kept, Answered, Denied
<1> QED
  BY <1>i, <1>3, <1>4, <1>5, RequestCalm DEF TruthInv

\* Whatever changes the backend's status is reported, or its Sync is to come.
LEMMA BackendTruth == ASSUME TruthInv, Backend PROVE TruthInv'
<1>i. CalmInv /\ SessionInv /\ SyncsFollow /\ (LastTold \/ SyncComes)
  BY DEF TruthInv, CalmInv
<1> PICK m \in ClientMessages :
       \/ BackendDiscards(m) \/ BackendAnswersSync(m) \/ BackendRunsQuery(m)
       \/ BackendRunsBatchMessage(m) \/ BackendIgnores(m)
  BY DEF Backend
<1>1. /\ upstream # <<>> /\ Head(upstream) = m /\ upstream' = Tail(upstream)
      /\ UNCHANGED <<txStatus, openUpstream, reply>>
  BY DEF Takes, BackendDiscards, BackendAnswersSync, BackendRunsQuery,
         BackendRunsBatchMessage, BackendIgnores, BackendReads, sharedVars
<1>t. /\ upstream \in Seq(WireMessage) /\ fromBackend \in Seq(Response)
      /\ backendTx \in TxStatus /\ backendTx' \in TxStatus
      /\ Len(fromBackend) \in Nat /\ DOMAIN fromBackend = 1 .. Len(fromBackend)
  BY <1>i, Counted, BackendSession DEF SessionInv, PeersOK
\* A Sync further down the wire is still to come.
<1>2. ASSUME NEW k \in DOMAIN upstream, k > 1, upstream[k].type = "Sync"
      PROVE  SyncComes'
  <2>1. k - 1 \in DOMAIN Tail(upstream) /\ Tail(upstream)[k - 1] = upstream[k]
    <3>1. k - 1 \in 1 .. Len(upstream) - 1 /\ (k - 1) + 1 = k
      BY <1>2, <1>t
    <3>2. /\ DOMAIN Tail(upstream) = 1 .. Len(upstream) - 1
          /\ \A i \in 1 .. Len(upstream) - 1 : Tail(upstream)[i] = upstream[i + 1]
      BY <1>1, <1>t
    <3> QED
      BY <3>1, <3>2
  <2> QED
    BY <1>1, <1>2, <2>1 DEF SyncComes
<1>3. CASE BackendDiscards(m) \/ BackendIgnores(m)
  <2>1. m.type # "Sync" /\ UNCHANGED <<backendTx, fromBackend>>
    BY <1>3 DEF BackendDiscards, BackendIgnores, backendVars
  <2>2. LastTold => LastTold'
    BY <1>1, <2>1 DEF LastTold, Told
  <2>3. upstream[1] = m
    BY <1>1, <1>t
  <2>4. SyncComes => SyncComes'
    <3>1. ASSUME NEW k \in DOMAIN upstream, upstream[k].type = "Sync" PROVE k > 1
      BY <1>t, <2>1, <2>3, <3>1
    <3> QED
      BY <1>1, <1>2, <3>1 DEF SyncComes
  <2> QED
    BY <1>i, <1>1, <2>2, <2>4, BackendCalm DEF TruthInv
<1>4. CASE BackendAnswersSync(m) \/ BackendRunsQuery(m)
  <2>1. \/ fromBackend' = fromBackend \o <<backendTx>> /\ backendTx' = backendTx
        \/ fromBackend' = fromBackend \o <<"Data", backendTx'>>
    BY <1>4 DEF BackendAnswersSync, BackendRunsQuery, Respond
  <2>2. /\ Len(fromBackend') \in Nat \ {0}
        /\ DOMAIN fromBackend' = 1 .. Len(fromBackend')
        /\ fromBackend'[Len(fromBackend')] = backendTx'
    BY <1>t, <2>1 DEF Response
  <2>3. LastTold'
    BY <2>2 DEF LastTold, Told
  <2> QED
    BY <1>i, <1>1, <2>3, BackendCalm DEF TruthInv
<1>5. CASE BackendRunsBatchMessage(m)
  <2>1. /\ Opens(1) /\ 1 \in 0 .. Len(upstream)
    BY <1>1, <1>t, <1>5 DEF BackendRunsBatchMessage, Opens, InBatch
  <2>2. openUpstream \/ \E k \in DOMAIN upstream : k > 1 /\ upstream[k].type = "Sync"
    BY <1>i, <2>1 DEF SyncsFollow
  <2>3. SyncComes'
    BY <1>1, <1>2, <2>2 DEF SyncComes
  <2> QED
    BY <1>i, <1>1, <2>3, BackendCalm DEF TruthInv
<1> QED
  BY <1>3, <1>4, <1>5

\* A status that leaves the wire has been stored.
LEMMA CopyTruth == ASSUME TruthInv, CopyResponses PROVE TruthInv'
<1>i. CalmInv /\ SessionInv /\ (LastTold \/ SyncComes)
  BY DEF TruthInv, CalmInv
<1>1. UNCHANGED <<backendTx, reply, upstream, openUpstream>>
  BY DEF CopyResponses, StoreStatus, ForwardReady, LockForMessage, ForwardHeader,
         ForwardPayload, backendVars, wireVars
<1>t. /\ fromBackend \in Seq(Response) /\ backendTx \in TxStatus
      /\ Len(fromBackend) \in Nat /\ DOMAIN fromBackend = 1 .. Len(fromBackend)
      /\ "Data" \notin TxStatus
  BY <1>i, Counted DEF SessionInv, PeersOK, TxStatus
<1>2. LastTold => LastTold'
  <2> SUFFICES ASSUME NEW k \in 0 .. Len(fromBackend), Told(k) = backendTx,
                      \A j \in DOMAIN fromBackend : j > k => fromBackend[j] = "Data"
               PROVE  LastTold'
    BY DEF LastTold
  <2>1. CASE StoreStatus
    <3>1. /\ fromBackend' = fromBackend
          /\ 1 \in DOMAIN fromBackend /\ fromBackend[1] # "Data"
      BY <1>t, <2>1 DEF StoreStatus
    <3>2. k # 0
      BY <3>1
    <3> QED
      BY <1>1, <3>1, <3>2 DEF LastTold, Told
  <2>2. CASE LockForMessage \/ ForwardHeader
    BY <1>1, <2>2 DEF LockForMessage, ForwardHeader, sharedVars, LastTold, Told
  <2>3. CASE ForwardReady \/ ForwardPayload
    <3>1. /\ fromBackend' = Tail(fromBackend) /\ txStatus' = txStatus /\ fromBackend # <<>>
          /\ fromBackend[1] = txStatus \/ fromBackend[1] = "Data"
          /\ fromBackend[1] = "Data" <=> ForwardPayload
      BY <1>i, <1>t, <2>3
      DEF ForwardReady, ForwardPayload, sharedVars, SessionInv, ResponsesOK
    <3>2. /\ DOMAIN fromBackend' = 1 .. Len(fromBackend) - 1
          /\ Len(fromBackend') = Len(fromBackend) - 1 /\ Len(fromBackend) > 0
          /\ \A j \in 1 .. Len(fromBackend) - 1 : fromBackend'[j] = fromBackend[j + 1]
      BY <1>t, <3>1
    <3>3. \A j \in DOMAIN fromBackend' : j + 1 > k => fromBackend'[j] = "Data"
      BY <1>t, <3>2
    <3>4. CASE k <= 1
      <4>1. txStatus = backendTx
        BY <1>t, <3>1, <3>2, <3>4 DEF Told
      <4>2. \A j \in DOMAIN fromBackend' : j > 0 => fromBackend'[j] = "Data"
        BY <3>2, <3>3, <3>4
      <4> QED
        BY <1>1, <3>1, <3>2, <4>1, <4>2 DEF LastTold, Told
    <3>5. CASE k > 1
      <4>1. k - 1 \in 1 .. Len(fromBackend) - 1 /\ (k - 1) + 1 = k
        BY <1>t, <3>5
      <4>2. fromBackend'[k - 1] = backendTx
        BY <3>2, <3>5, <4>1 DEF Told
      <4>3. \A j \in DOMAIN fromBackend' : j > k - 1 => fromBackend'[j] = "Data"
        BY <3>2, <3>3
      <4>4. k - 1 # 0 /\ k - 1 \in 0 .. Len(fromBackend')
        BY <3>2, <4>1
      <4> QED
        BY <1>1, <4>2, <4>3, <4>4 DEF LastTold, Told
    <3> QED
      BY <3>4, <3>5
  <2> QED
    BY <2>1, <2>2, <2>3 DEF CopyResponses
<1> QED
  BY <1>i, <1>1, <1>2, CopyCalm DEF TruthInv, SyncComes

\* Answering and reading change nothing the proxy knows.
LEMMA OtherTruth ==
    ASSUME TruthInv, AnswerClient \/ ClientReadsFrame \/ UNCHANGED sessionVars, CalmInv'
    PROVE  TruthInv'
<1>1. UNCHANGED <<txStatus, backendTx, fromBackend, upstream, openUpstream>>
  BY DEF AnswerClient, LoadStatus, WriteReply, ClientReadsFrame, ClientReads,
         sessionVars, vars, sharedVars, backendVars, responseVars, wireVars
<1>2. reply'.ready # "none" => reply.ready # "none"
  BY DEF AnswerClient, LoadStatus, WriteReply, ClientReadsFrame, ClientReads,
         sessionVars, vars, NoReply, TruthInv, CalmInv, SessionInv, FilterInv,
         ReplyMatchesPC
<1> QED
  BY <1>1, <1>2 DEF TruthInv, LastTold, Told, SyncComes

(***************************************************************************)
(* A client that waits for this answer and no other is told the truth      *)
(* about the transaction by a ReadyForQuery the proxy makes up.            *)
(***************************************************************************)
THEOREM LoneReadyIsTruthful ==
    ASSUME ~ Interrupts
    PROVE  SessionSpec => LoneReadyTruthful
<1>1. SessionInit => TruthInv
  <2> SUFFICES ASSUME SessionInit PROVE TruthInv
    OBVIOUS
  <2>1. /\ fromBackend = <<>> /\ txStatus = "I" /\ backendTx = "I"
        /\ reply.ready = "none"
    BY DEF SessionInit, FilterInit, NoReply
  <2>2. LastTold
    <3>1. Len(fromBackend) = 0 /\ DOMAIN fromBackend = {}
      BY <2>1
    <3>2. 0 \in 0 .. Len(fromBackend) /\ Told(0) = backendTx
      BY <2>1, <3>1 DEF Told
    <3> QED
      BY <3>1, <3>2 DEF LastTold
  <2> QED
    BY <2>1, <2>2, InitCalm DEF TruthInv
<1>2. TruthInv /\ [SessionNext]_sessionVars /\ CalmInv' => TruthInv'
  BY RequestTruth, BackendTruth, CopyTruth, OtherTruth DEF SessionNext
<1>3. TruthInv /\ [SessionNext]_sessionVars =>
         (pc = "status" /\ pc' = "write" /\ awaiting = 1 =>
             (reply'.ready = "I" <=> backendTx = "I"))
  <2> SUFFICES ASSUME TruthInv, [SessionNext]_sessionVars,
                      pc = "status", pc' = "write", awaiting = 1
               PROVE  reply'.ready = "I" <=> backendTx = "I"
    OBVIOUS
  <2>1. SessionInv /\ Owed
    BY DEF TruthInv, CalmInv
  <2>2. reply.ready = "due" /\ reply \in Reply /\ Due = 1 /\ ~ openUpstream
    BY <2>1 DEF SessionInv, FilterInv, TypeOK, ReplyMatchesPC, Due, TruthInv
  <2>3. reply'.ready = ReadyStatus
    <3>1. LoadStatus
      <4>1. ~ \E m \in ClientMessages : Request(m)
        BY <2>1, HandleLeaves DEF Request, SessionInv
      <4>2. pc' # pc
        OBVIOUS
      <4>3. ~ CopyResponses /\ ~ Backend /\ ~ ClientReadsFrame /\ ~ UNCHANGED sessionVars
        BY <4>2
        DEF CopyResponses, StoreStatus, ForwardReady, LockForMessage,
            ForwardHeader, ForwardPayload, Backend, BackendDiscards,
            BackendAnswersSync, BackendRunsQuery, BackendRunsBatchMessage,
            BackendIgnores, Takes, BackendReads, ClientReadsFrame, ClientReads,
            sessionVars, vars
      <4> QED
        BY <4>1, <4>3 DEF SessionNext, AnswerClient, WriteReply
    <3> QED
      BY <2>2, <3>1 DEF LoadStatus, Reply
  <2>4. /\ Hits(upstream, Closers) = {} /\ Hits(fromBackend, TxStatus) = {}
        /\ upstream \in Seq(WireMessage) /\ fromBackend \in Seq(Response)
    <3>1. /\ Number(upstream, Closers) \in Nat /\ Number(fromBackend, TxStatus) \in Nat
          /\ Number(clientW, Readies) \in Nat
          /\ upstream \in Seq(WireMessage) /\ fromBackend \in Seq(Response)
      BY <2>1, Counted
    <3>2. Number(upstream, Closers) = 0 /\ Number(fromBackend, TxStatus) = 0
      BY <2>1, <2>2, <3>1 DEF Owed
    <3> QED
      BY <3>1, <3>2, NumberType
  <2>5. ~ SyncComes
    BY <2>2, <2>4 DEF SyncComes, Hits, Closers, Closes
  <2>6. txStatus = backendTx
    <3>1. PICK k \in 0 .. Len(fromBackend) : Told(k) = backendTx
      BY <2>5 DEF TruthInv, LastTold
    <3>2. k # 0 => fromBackend[k] \notin TxStatus
      BY <2>4 DEF Hits
    <3> QED
      BY <2>1, <3>1, <3>2 DEF Told, SessionInv, PeersOK
  <2> QED
    BY <2>3, <2>6 DEF ReadyStatus
<1> QED
  BY <1>1, <1>2, <1>3, AlwaysCalm, PTL DEF SessionSpec, LoneReadyTruthful
=============================================================================
