------------------------------- MODULE Session -------------------------------
(***************************************************************************)
(* One established session: a client, the two pumps of relay               *)
(* (internal/proxy/pg/pg.go) and a PostgreSQL backend.                     *)
(*                                                                         *)
(* MsgFilter is the client-to-upstream pump.  This module adds the other   *)
(* pump, copyResponses, which shares txStatus and the client's lock with   *)
(* it, and the two peers: what the proxy's code and tests assume of them.  *)
(* Both peers stay connected; how a session ends is module Relay's.        *)
(*                                                                         *)
(* The client sends a message when the filter reads it.  A queue between   *)
(* the two would only let the client decide earlier, and since reading     *)
(* answers never takes from what it may send, to the same effect.          *)
(***************************************************************************)
EXTENDS MsgFilter, FiniteSets

CONSTANTS
    Window,       \* exchanges a client starts before it waits for an answer
    Interrupts    \* whether it sends a Query or FunctionCall inside a batch

ASSUME SessionAssumption ==
    /\ Window \in Nat \ {0}
    /\ Interrupts \in BOOLEAN

VARIABLES
    awaiting,      \* ReadyForQuery messages the client is still owed
    inBatch,       \* it has sent a part of a batch and no Sync
    midFrame,      \* it has read the header of a message and not its payload
    backendTx,     \* the backend's transaction status
    backendSkips,  \* the backend discards everything up to a Sync
    fromBackend,   \* the backend's answers on their way to the proxy
    rpc            \* where copyResponses stands, see ResponsePC

peerVars     == <<awaiting, inBatch, midFrame>>
backendVars  == <<backendTx, backendSkips>>
responseVars == <<fromBackend, rpc>>
sessionVars  == <<vars, peerVars, backendVars, responseVars>>

\* A message of the backend: a ReadyForQuery and its status, or any other.
Response == {"Data"} \cup TxStatus

(***************************************************************************)
(* "store" has read a whole ReadyForQuery and stored its status; "locked"  *)
(* holds the client's lock; "body" has written the header and streams.     *)
(***************************************************************************)
ResponsePC == {"header", "store", "locked", "body"}

SessionTypeOK ==
    /\ TypeOK
    /\ awaiting \in 0 .. Window
    /\ inBatch \in BOOLEAN
    /\ midFrame \in BOOLEAN
    /\ backendTx \in TxStatus
    /\ backendSkips \in BOOLEAN
    /\ fromBackend \in Seq(Response)
    /\ rpc \in ResponsePC

SessionInit ==
    /\ FilterInit
    /\ awaiting = 0
    /\ inBatch = FALSE
    /\ midFrame = FALSE
    /\ backendTx = "I"
    /\ backendSkips = FALSE
    /\ fromBackend = <<>>
    /\ rpc = "header"

-----------------------------------------------------------------------------
(* The client. *)

MaySend(m) ==
    /\ awaiting < Window
    /\ m.type \in {"Query", "FunctionCall"} => ~ inBatch \/ Interrupts

Request(m) ==
    /\ closersSent + readiesSent < MaxExchanges
    /\ MaySend(m)
    /\ Handle(m)
    /\ awaiting' = IF Closes(m) THEN awaiting + 1 ELSE awaiting
    /\ inBatch' = \/ InBatch(m)
                  \/ inBatch /\ m.type # "Sync"
    /\ UNCHANGED <<midFrame, backendVars, responseVars>>

ClientReadsFrame ==
    /\ ClientReads
    /\ midFrame' = (Head(clientW).part = "head")
    /\ awaiting' = IF Head(clientW).kind = "Ready" THEN awaiting - 1 ELSE awaiting
    /\ UNCHANGED <<inBatch, backendVars, responseVars>>

-----------------------------------------------------------------------------
(* The backend: an error in a batch makes it discard up to the Sync. *)

Respond(responses) ==
    /\ Len(fromBackend) < WireCap
    /\ fromBackend' = fromBackend \o responses

Aborted == IF backendTx = "I" THEN "I" ELSE "E"

\* The status after a statement: BEGIN, COMMIT (or ROLLBACK), any other.
Executed(sql) ==
    CASE sql = "begin"  -> IF backendTx = "E" THEN "E" ELSE "T"
      [] sql = "commit" -> "I"
      [] OTHER          -> backendTx

Outcomes(sql) == {Aborted, Executed(sql)}

Takes(m) == upstream # <<>> /\ Head(upstream) = m /\ BackendReads

BackendDiscards(m) ==
    /\ Takes(m)
    /\ backendSkips /\ m.type # "Sync"
    /\ UNCHANGED <<backendVars, fromBackend>>

BackendAnswersSync(m) ==
    /\ Takes(m)
    /\ m.type = "Sync"
    /\ Respond(<<backendTx>>)
    /\ backendSkips' = FALSE
    /\ UNCHANGED backendTx

\* A Query or a FunctionCall runs to its own ReadyForQuery.
BackendRunsQuery(m) ==
    /\ Takes(m)
    /\ m.type \in {"Query", "FunctionCall"} /\ ~ backendSkips
    /\ backendTx' \in Outcomes(m.sql)
    /\ Respond(<<"Data", backendTx'>>)
    /\ UNCHANGED backendSkips

BackendRunsBatchMessage(m) ==
    /\ Takes(m)
    /\ m.type \in HeldTypes /\ ~ backendSkips
    /\ Respond(<<"Data">>)
    /\ \/ backendSkips' = TRUE /\ backendTx' = Aborted
       \/ /\ UNCHANGED backendSkips
          /\ IF m.type = "Execute"
                THEN backendTx' \in {Executed(sql) : sql \in Sql}
                ELSE UNCHANGED backendTx

\* A Flush, or copy data the backend does not expect.
BackendIgnores(m) ==
    /\ Takes(m)
    /\ m.type \in {"Flush", "Other"} /\ ~ backendSkips
    /\ UNCHANGED <<backendVars, fromBackend>>

Backend ==
    \E m \in ClientMessages :
        /\ \/ BackendDiscards(m)   \/ BackendAnswersSync(m)
           \/ BackendRunsQuery(m)  \/ BackendRunsBatchMessage(m)
           \/ BackendIgnores(m)
        /\ UNCHANGED <<peerVars, rpc>>

-----------------------------------------------------------------------------
(* copyResponses, the upstream-to-client pump. *)

Relayed(part, kind, status) ==
    [from |-> "backend", part |-> part, kind |-> kind, status |-> status]

WriteToClient(frame) ==
    /\ Len(clientW) < WireCap
    /\ clientW' = Append(clientW, frame)

\* The status is stored before the client is told.
StoreStatus ==
    /\ rpc = "header"
    /\ fromBackend # <<>> /\ Head(fromBackend) \in TxStatus
    /\ txStatus' = Head(fromBackend)
    /\ rpc' = "store"
    /\ UNCHANGED <<pc, reply, filterVars, wireVars, clientVars, mu, fromBackend>>

\* syncWriter.Write: the ReadyForQuery goes out in one locked Write.
ForwardReady ==
    /\ rpc = "store"
    /\ mu = "free"
    /\ WriteToClient(Relayed("whole", "Ready", Head(fromBackend)))
    /\ fromBackend' = Tail(fromBackend)
    /\ rpc' = "header"
    /\ UNCHANGED <<pc, reply, filterVars, wireVars, readiesSent, sharedVars>>

\* syncWriter.withLock around header and payload of any other message.
LockForMessage ==
    /\ rpc = "header"
    /\ fromBackend # <<>> /\ Head(fromBackend) = "Data"
    /\ mu = "free"
    /\ mu' = "responses"
    /\ rpc' = "locked"
    /\ UNCHANGED <<pc, reply, filterVars, wireVars, clientVars, txStatus,
                   fromBackend>>

ForwardHeader ==
    /\ rpc = "locked"
    /\ WriteToClient(Relayed("head", "Data", "none"))
    /\ rpc' = "body"
    /\ UNCHANGED <<pc, reply, filterVars, wireVars, readiesSent, sharedVars,
                   fromBackend>>

\* Slip: the lock is not released.
ForwardPayloadLocked ==
    /\ rpc = "body"
    /\ WriteToClient(Relayed("body", "Data", "none"))
    /\ fromBackend' = Tail(fromBackend)
    /\ rpc' = "header"
    /\ UNCHANGED <<pc, reply, filterVars, wireVars, readiesSent, sharedVars>>

ForwardPayload ==
    /\ rpc = "body"
    /\ WriteToClient(Relayed("body", "Data", "none"))
    /\ fromBackend' = Tail(fromBackend)
    /\ mu' = "free"
    /\ rpc' = "header"
    /\ UNCHANGED <<pc, reply, filterVars, wireVars, readiesSent, txStatus>>

CopyResponses ==
    /\ \/ StoreStatus \/ ForwardReady
       \/ LockForMessage \/ ForwardHeader \/ ForwardPayload
    /\ UNCHANGED <<peerVars, backendVars>>

-----------------------------------------------------------------------------

AnswerClient ==
    /\ LoadStatus \/ WriteReply
    /\ UNCHANGED <<peerVars, backendVars, responseVars>>

SessionNext ==
    \/ \E m \in ClientMessages : Request(m)
    \/ AnswerClient
    \/ CopyResponses
    \/ Backend
    \/ ClientReadsFrame

SessionSpec == SessionInit /\ [][SessionNext]_sessionVars

(***************************************************************************)
(* Goroutines that can run do run, a mutex that is free is eventually      *)
(* acquired (sync.Mutex has a starvation mode), the backend works through  *)
(* its input and a client reads what it is sent.  Nothing obliges a client *)
(* to send.                                                                *)
(***************************************************************************)
FairSession ==
    /\ SessionSpec
    /\ WF_sessionVars(LoadStatus /\ AnswerClient)
    /\ SF_sessionVars(WriteReply /\ AnswerClient)
    /\ SF_sessionVars(CopyResponses)
    /\ WF_sessionVars(Backend)
    /\ WF_sessionVars(ClientReadsFrame)

-----------------------------------------------------------------------------
(* Properties. *)

Count(seq, Test(_)) == Cardinality({i \in DOMAIN seq : Test(seq[i])})

IsStatus(response)  == response \in TxStatus
IsReady(frame)      == frame.kind = "Ready"

(***************************************************************************)
(* Every Sync, Query and FunctionCall the client sends is ended by exactly *)
(* one ReadyForQuery: at any moment the ones still owed are the ones on    *)
(* their way, as a message to the backend, as its answer, as an answer of  *)
(* the filter's, or on the client's wire.  Denied, swallowed, split and    *)
(* overflowing batches neither lose one nor answer one twice.              *)
(***************************************************************************)
ReadyConservation ==
    awaiting = Count(upstream, Closes) + Count(fromBackend, IsStatus)
                 + (IF reply.ready = "none" THEN 0 ELSE 1)
                 + Count(clientW, IsReady)

(***************************************************************************)
(* A ReadyForQuery the proxy makes up tells the truth about the backend:   *)
(* idle exactly if the backend is idle, although txStatus is written by    *)
(* one goroutine and read by another (the comments of txStatus and         *)
(* readyStatus).                                                           *)
(***************************************************************************)
TruthfulReady ==
    pc = "write" /\ reply.ready # "none" =>
        (reply.ready = "I" <=> backendTx = "I")

(***************************************************************************)
(* It does if the client has no other exchange under way at that moment:   *)
(* the status it read the last answer with was stored before that answer   *)
(* was forwarded, and nothing after it has changed the backend's.          *)
(***************************************************************************)
LoneReadyTruthful ==
    [][ pc = "status" /\ pc' = "write" /\ awaiting = 1 =>
            (reply'.ready = "I" <=> backendTx = "I") ]_sessionVars

(***************************************************************************)
(* What the proxy writes to the client never lands between the header and  *)
(* the payload of a backend message: the client always finds a payload     *)
(* right behind its header (syncWriter).                                   *)
(***************************************************************************)
FramesIntact ==
    /\ \A i \in DOMAIN clientW :
          /\ clientW[i].part = "head" =>
                IF i = Len(clientW) THEN rpc = "body"
                                    ELSE clientW[i + 1].part = "body"
          /\ clientW[i].part = "body" =>
                IF i = 1 THEN midFrame ELSE clientW[i - 1].part = "head"
    /\ midFrame =>
          IF clientW = <<>> THEN rpc = "body" ELSE Head(clientW).part = "body"

(***************************************************************************)
(* A backend that discards messages until a Sync gets one: it is on its    *)
(* way, or the filter still knows that a part of the batch was released    *)
(* and so will forward the Sync rather than answer it (the comments of     *)
(* denyBatch and of the msgQuery case of handle).                          *)
(***************************************************************************)
BackendResynced ==
    Enforces /\ backendSkips =>
        prefixForwarded \/ \E i \in DOMAIN upstream : upstream[i].type = "Sync"

(***************************************************************************)
(* While no policy is enforced the proxy writes nothing of its own.        *)
(***************************************************************************)
Transparent ==
    ~ Enforces => /\ heldBuf = <<>> /\ reply = NoReply
                  /\ \A i \in DOMAIN clientW : clientW[i].from = "backend"

\* Every exchange is answered, whatever of it the policy refused.
EveryRequestAnswered == awaiting > 0 ~> awaiting = 0
=============================================================================
