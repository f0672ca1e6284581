------------------------------ MODULE MsgFilter ------------------------------
(***************************************************************************)
(* The client-to-upstream pump of a session: copyMessages and its          *)
(* msgFilter (internal/proxy/pg/pg.go).                                    *)
(*                                                                         *)
(* Each message read from the client is forwarded upstream, held back for  *)
(* the current extended-protocol batch, answered by the proxy itself, or   *)
(* discarded.  handle is one action per way it disposes of a message; the  *)
(* answer it may owe the client is two more steps, because the other pump  *)
(* runs between the load of txStatus and the locked write to the client.   *)
(***************************************************************************)
EXTENDS PgMessages

CONSTANTS
    MaxHeldBytes,   \* maxHeldBytes: budget of the held batch, in bytes
    ScratchMax,     \* scratchMax: larger payloads are streamed, not buffered
    WireCap,        \* messages a socket buffers before a Write to it blocks
    ClientMessages, \* what the client may send
    MaxExchanges    \* bound: exchanges ended before the client falls silent

ASSUME FilterAssumption ==
    /\ MaxHeldBytes \in Nat
    /\ ScratchMax \in Nat
    /\ WireCap \in Nat \ {0}
    /\ ClientMessages \subseteq Message
    /\ MaxExchanges \in Nat

VARIABLES
    pc,                \* where the pump stands, see PumpPC
    reply,             \* the response handle is about to write to the client
    heldBuf,           \* the messages accumulated in heldBuf
    heldLen,           \* len(heldBuf), in bytes
    skipUntilSync,     \* the current batch was denied
    prefixForwarded,   \* a part of the current batch was released upstream
    forwardSync,       \* the denied batch ends at the backend, not here
    txStatus,          \* the atomic the two pumps share
    mu,                \* syncWriter.mu: "free", or held by the response pump
    upstream,          \* messages on the wire to the backend
    clientW            \* frames on the wire to the client

(***************************************************************************)
(* What an observer of the two wires has seen so far.  The code has no     *)
(* such variables; the properties compare its flags with them.             *)
(***************************************************************************)
VARIABLES
    openUpstream,      \* batch messages went upstream and no closer after them
    closersSent,       \* writes upstream that carried a Sync or a Query
    readiesSent        \* ReadyForQuery messages written by the proxy

filterVars == <<heldBuf, heldLen, skipUntilSync, prefixForwarded, forwardSync>>
wireVars   == <<upstream, openUpstream, closersSent>>
clientVars == <<clientW, readiesSent>>
sharedVars == <<txStatus, mu>>
vars == <<pc, reply, filterVars, wireVars, clientVars, sharedVars>>

-----------------------------------------------------------------------------

TxStatus == {"I", "T", "E"}

(***************************************************************************)
(* "read" waits for the next header; "status" and "write" are the two      *)
(* steps of an answer; the others are the ways copyMessages returns:       *)
(* halfClose for a clean EOF, disconnected for nil, failed for an error.   *)
(***************************************************************************)
Ended  == {"halfClose", "disconnected", "failed"}
PumpPC == {"read", "status", "write"} \cup Ended

SqlState == {"none", "42501", "08P01", "0A000"}
Reply    == [error : SqlState, ready : {"none", "due", "I", "E"}]
NoReply  == [error |-> "none", ready |-> "none"]

Frame == [from : {"proxy", "backend"}, part : {"whole", "head", "body"},
          kind : {"Error", "Ready", "Data"}, status : TxStatus \cup {"none"}]

ErrorFrame    == [from |-> "proxy", part |-> "whole", kind |-> "Error",
                  status |-> "none"]
ReadyFrame(s) == [from |-> "proxy", part |-> "whole", kind |-> "Ready",
                  status |-> s]

TypeOK ==
    /\ pc \in PumpPC
    /\ reply \in Reply
    /\ heldBuf \in Seq(WireMessage)
    /\ heldLen \in Nat
    /\ skipUntilSync \in BOOLEAN
    /\ prefixForwarded \in BOOLEAN
    /\ forwardSync \in BOOLEAN
    /\ txStatus \in TxStatus
    /\ mu \in {"free", "responses"}
    /\ upstream \in Seq(WireMessage)
    /\ clientW \in Seq(Frame)
    /\ openUpstream \in BOOLEAN
    /\ closersSent \in Nat
    /\ readiesSent \in Nat

FilterInit ==
    /\ pc = "read"
    /\ reply = NoReply
    /\ heldBuf = <<>>
    /\ heldLen = 0
    /\ skipUntilSync = FALSE
    /\ prefixForwarded = FALSE
    /\ forwardSync = FALSE
    /\ txStatus = "I"
    /\ mu = "free"
    /\ upstream = <<>>
    /\ clientW = <<>>
    /\ openUpstream = FALSE
    /\ closersSent = 0
    /\ readiesSent = 0

-----------------------------------------------------------------------------
(* Writing upstream and owing an answer. *)

HasCloser(msgs) == \E i \in DOMAIN msgs : Closes(msgs[i])

LeavesOpen(msgs) ==
    \/ openUpstream /\ ~ HasCloser(msgs)
    \/ \E i \in DOMAIN msgs :
          /\ InBatch(msgs[i])
          /\ \A j \in DOMAIN msgs : j > i => ~ Closes(msgs[j])

Send(msgs) ==
    /\ Len(upstream) < WireCap
    /\ upstream' = upstream \o msgs
    /\ openUpstream' = LeavesOpen(msgs)
    /\ closersSent' = IF HasCloser(msgs) THEN closersSent + 1 ELSE closersSent

Answer(error, ready) ==
    /\ reply' = [error |-> error, ready |-> ready]
    /\ pc' = IF ready = "due" THEN "status" ELSE "write"

ResetHeld ==
    /\ heldBuf' = <<>>
    /\ heldLen' = 0

\* Slip: flushHeld does not mark the batch.
FlushMarksNothing == prefixForwarded

\* flushHeld marks the batch as partially released only when it wrote.
MarkedByFlush == prefixForwarded \/ heldBuf # <<>>

\* Slip: the header is not budgeted for.
HoldBudgetSansHeader == MaxHeldBytes - heldLen

HoldBudget == MaxHeldBytes - heldLen - HeaderLen

FitsBudget(m) == ~ m.len > HoldBudget

\* Slip: a batch that outgrew the budget is not marked as released.
HoldUnmarked(m) ==
    \/ /\ FitsBudget(m)
       /\ heldBuf' = Append(heldBuf, m)
       /\ heldLen' = heldLen + HeaderLen + m.len
       /\ UNCHANGED <<wireVars, prefixForwarded>>
    \/ /\ ~ FitsBudget(m)
       /\ Send(Append(heldBuf, m))
       /\ ResetHeld
       /\ UNCHANGED prefixForwarded

(***************************************************************************)
(* hold and holdFromWire: keep the message while the batch fits the        *)
(* budget, and otherwise release the batch and send the message past it.   *)
(***************************************************************************)
Hold(m) ==
    \/ /\ FitsBudget(m)
       /\ heldBuf' = Append(heldBuf, m)
       /\ heldLen' = heldLen + HeaderLen + m.len
       /\ UNCHANGED <<wireVars, prefixForwarded>>
    \/ /\ ~ FitsBudget(m)
       /\ Send(Append(heldBuf, m))
       /\ ResetHeld
       /\ prefixForwarded' = TRUE

-----------------------------------------------------------------------------
(* handle, one action per way a message is disposed of. *)

\* With no policy to enforce the session is relayed untouched.
RelayUninspected(m) ==
    /\ pc = "read"
    /\ ~ skipUntilSync
    /\ ~ Enforces
    /\ Send(<<m>>)
    /\ UNCHANGED <<pc, reply, filterVars, clientVars, sharedVars>>

\* Slip: the policy machinery runs without a policy.
InspectingAlways == pc = "read" /\ ~ skipUntilSync

Inspecting == pc = "read" /\ ~ skipUntilSync /\ Enforces

RefuseQuery(m) ==
    /\ Inspecting
    /\ m.type = "Query"
    /\ Evaluate(m.sql) = "Blocked"
    /\ IF heldBuf = <<>> THEN UNCHANGED wireVars ELSE Send(heldBuf)
    /\ ResetHeld
    /\ prefixForwarded' = MarkedByFlush
    /\ Answer("42501", "due")
    /\ UNCHANGED <<skipUntilSync, forwardSync, clientVars, sharedVars>>

ForwardQuery(m) ==
    /\ Inspecting
    /\ m.type = "Query"
    /\ Evaluate(m.sql) = "Allowed"
    /\ Send(Append(heldBuf, m))
    /\ ResetHeld
    /\ prefixForwarded' = FALSE
    /\ UNCHANGED <<pc, reply, skipUntilSync, forwardSync, clientVars, sharedVars>>

\* Slip: a denied batch keeps what it held.
DenyKeepsHeld(m) ==
    /\ Inspecting
    /\ m.type = "Parse"
    /\ ParseFails(m) \/ Evaluate(m.sql) = "Blocked"
    /\ skipUntilSync' = TRUE
    /\ forwardSync' = prefixForwarded
    /\ Answer(IF ParseFails(m) THEN "08P01" ELSE "42501", "none")
    /\ UNCHANGED <<heldBuf, heldLen, prefixForwarded, wireVars, clientVars,
                   sharedVars>>

\* denyBatch: the held messages are dropped and the rest will be swallowed.
DenyBatch(m) ==
    /\ Inspecting
    /\ m.type = "Parse"
    /\ ParseFails(m) \/ Evaluate(m.sql) = "Blocked"
    /\ ResetHeld
    /\ skipUntilSync' = TRUE
    /\ forwardSync' = prefixForwarded
    /\ Answer(IF ParseFails(m) THEN "08P01" ELSE "42501", "none")
    /\ UNCHANGED <<prefixForwarded, wireVars, clientVars, sharedVars>>

\* Slip: a Parse is held like the messages that carry no SQL.
HoldUnevaluated(m) ==
    /\ Inspecting
    /\ m.type \in HeldTypes
    /\ Hold(m)
    /\ UNCHANGED <<pc, reply, skipUntilSync, forwardSync, clientVars, sharedVars>>

HoldInBatch(m) ==
    /\ Inspecting
    /\ m.type \in HeldTypes
    /\ m.type = "Parse" => ~ ParseFails(m) /\ Evaluate(m.sql) = "Allowed"
    /\ Hold(m)
    /\ UNCHANGED <<pc, reply, skipUntilSync, forwardSync, clientVars, sharedVars>>

EndBatch(m) ==
    /\ Inspecting
    /\ m.type = "Sync"
    /\ Send(Append(heldBuf, m))
    /\ ResetHeld
    /\ prefixForwarded' = FALSE
    /\ UNCHANGED <<pc, reply, skipUntilSync, forwardSync, clientVars, sharedVars>>

FlushBatch(m) ==
    /\ Inspecting
    /\ m.type = "Flush"
    /\ Send(Append(heldBuf, m))
    /\ ResetHeld
    /\ prefixForwarded' = TRUE
    /\ UNCHANGED <<pc, reply, skipUntilSync, forwardSync, clientVars, sharedVars>>

RefuseFunctionCall(m) ==
    /\ Inspecting
    /\ m.type = "FunctionCall"
    /\ Answer("0A000", "due")
    /\ UNCHANGED <<filterVars, wireVars, clientVars, sharedVars>>

ForwardOther(m) ==
    /\ Inspecting
    /\ m.type = "Other"
    /\ Send(Append(heldBuf, m))
    /\ ResetHeld
    /\ prefixForwarded' = MarkedByFlush
    /\ UNCHANGED <<pc, reply, skipUntilSync, forwardSync, clientVars, sharedVars>>

\* The rest of a denied batch is discarded ...
Swallow(m) ==
    /\ pc = "read"
    /\ skipUntilSync
    /\ m.type # "Sync"
    /\ UNCHANGED vars

\* Slip: the Sync is forwarded and answered as well.
SettleTwice(m) ==
    /\ pc = "read"
    /\ skipUntilSync
    /\ m.type = "Sync"
    /\ forwardSync
    /\ skipUntilSync' = FALSE
    /\ forwardSync' = FALSE
    /\ prefixForwarded' = FALSE
    /\ Send(<<m>>)
    /\ Answer("none", "due")
    /\ UNCHANGED <<heldBuf, heldLen, clientVars, sharedVars>>

\* ... up to its Sync, which the backend gets if it saw a part of the batch,
SettleUpstream(m) ==
    /\ pc = "read"
    /\ skipUntilSync
    /\ m.type = "Sync"
    /\ forwardSync
    /\ skipUntilSync' = FALSE
    /\ forwardSync' = FALSE
    /\ prefixForwarded' = FALSE
    /\ Send(<<m>>)
    /\ UNCHANGED <<pc, reply, heldBuf, heldLen, clientVars, sharedVars>>

\* Slip: the Sync of a denied batch is swallowed like the rest of it.
SettleSilently(m) ==
    /\ pc = "read"
    /\ skipUntilSync
    /\ m.type = "Sync"
    /\ ~ forwardSync
    /\ skipUntilSync' = FALSE
    /\ UNCHANGED <<pc, reply, heldBuf, heldLen, prefixForwarded, forwardSync,
                   wireVars, clientVars, sharedVars>>

\* and which the proxy answers itself otherwise.
SettleLocally(m) ==
    /\ pc = "read"
    /\ skipUntilSync
    /\ m.type = "Sync"
    /\ ~ forwardSync
    /\ skipUntilSync' = FALSE
    /\ Answer("none", "due")
    /\ UNCHANGED <<heldBuf, heldLen, prefixForwarded, forwardSync,
                   wireVars, clientVars, sharedVars>>

Handle(m) ==
    \/ RelayUninspected(m)
    \/ RefuseQuery(m)   \/ ForwardQuery(m)
    \/ DenyBatch(m)     \/ HoldInBatch(m)
    \/ EndBatch(m)      \/ FlushBatch(m)
    \/ RefuseFunctionCall(m)
    \/ ForwardOther(m)
    \/ Swallow(m)       \/ SettleUpstream(m)   \/ SettleLocally(m)

-----------------------------------------------------------------------------
(* The answer: readyStatus, then one locked Write. *)

\* Slips: the status is passed on as it is; only a failed one is reported.
ReadyStatusVerbatim == txStatus
ReadyStatusIfFailed == IF txStatus = "E" THEN "E" ELSE "I"

ReadyStatus == IF txStatus = "I" THEN "I" ELSE "E"

LoadStatus ==
    /\ pc = "status"
    /\ reply' = [reply EXCEPT !.ready = ReadyStatus]
    /\ pc' = "write"
    /\ UNCHANGED <<filterVars, wireVars, clientVars, sharedVars>>

ReplyFrames ==
    (IF reply.error = "none" THEN <<>> ELSE <<ErrorFrame>>) \o
    (IF reply.ready = "none" THEN <<>> ELSE <<ReadyFrame(reply.ready)>>)

\* Slip: the answer is written without the lock.
WriteReplyUnlocked ==
    /\ pc = "write"
    /\ Len(clientW) < WireCap
    /\ clientW' = clientW \o ReplyFrames
    /\ readiesSent' = IF reply.ready = "none" THEN readiesSent
                                              ELSE readiesSent + 1
    /\ reply' = NoReply
    /\ pc' = "read"
    /\ UNCHANGED <<filterVars, wireVars, sharedVars>>

WriteReply ==
    /\ pc = "write"
    /\ mu = "free"
    /\ Len(clientW) < WireCap
    /\ clientW' = clientW \o ReplyFrames
    /\ readiesSent' = IF reply.ready = "none" THEN readiesSent
                                              ELSE readiesSent + 1
    /\ reply' = NoReply
    /\ pc' = "read"
    /\ UNCHANGED <<filterVars, wireVars, sharedVars>>

-----------------------------------------------------------------------------
(* How the pump ends. *)

\* EOF on a message boundary: a batch still held dies with the session.
CleanEOF ==
    /\ pc = "read"
    /\ pc' = "halfClose"
    /\ UNCHANGED <<reply, filterVars, wireVars, clientVars, sharedVars>>

(***************************************************************************)
(* The header is cut off, reset or announces an invalid length, or the     *)
(* Write that forwards the message fails: the error is a disconnect or is  *)
(* reported.  The filter is a local of copyMessages and dies with it.      *)
(***************************************************************************)
PumpFails ==
    /\ pc = "read"
    /\ pc' \in {"disconnected", "failed"}
    /\ UNCHANGED <<reply, filterVars, wireVars, clientVars, sharedVars>>

\* The client is gone, or its stalled Write ran into the deadline.
ReplyFails ==
    /\ pc = "write"
    /\ mu = "free"
    /\ pc' \in {"disconnected", "failed"}
    /\ UNCHANGED <<reply, filterVars, wireVars, clientVars, sharedVars>>

(***************************************************************************)
(* The client dies inside the payload of m.  A payload on its way into     *)
(* heldBuf leaves a torn message there, a streamed one leaves it upstream; *)
(* one that is materialized or discarded leaves nothing.  A message of no  *)
(* special type has released the held batch before its payload is read.    *)
(***************************************************************************)
Streamed(m) ==
    \/ ~ Enforces /\ m.len > ScratchMax
    \/ Enforces /\ m.type = "Other" /\ m.len > ScratchMax
    \/ /\ Enforces
       /\ m.type \in (HeldTypes \ {"Parse"}) \cup {"Sync", "Flush"}
       /\ ~ FitsBudget(m)

ReadIntoHeld(m) ==
    /\ Enforces
    /\ m.type \in (HeldTypes \ {"Parse"}) \cup {"Sync", "Flush"}
    /\ FitsBudget(m)

ReleasedFirst(m) == Enforces /\ m.type = "Other" /\ heldBuf # <<>>

\* The Sync of a denied batch has lifted the deny before its payload is read.
EndsDenied(m) == skipUntilSync /\ m.type = "Sync"

TakeWhatCame(m) ==
    /\ pc = "read"
    /\ m.len > 0
    /\ \/ /\ ~ skipUntilSync /\ Streamed(m)
          /\ Send(Append(heldBuf, Torn(m)))
          /\ ResetHeld
          /\ prefixForwarded' = (Enforces /\ (m.type = "Other" => MarkedByFlush))
       \/ /\ ~ skipUntilSync /\ ReadIntoHeld(m)
          /\ heldBuf' = Append(heldBuf, Torn(m))
          /\ heldLen' = heldLen + HeaderLen + m.len
          /\ UNCHANGED <<wireVars, prefixForwarded>>
       \/ /\ ~ skipUntilSync /\ ~ Streamed(m) /\ ReleasedFirst(m)
          /\ Send(heldBuf)
          /\ ResetHeld
          /\ prefixForwarded' = TRUE
       \/ /\ skipUntilSync \/ ~ (Streamed(m) \/ ReadIntoHeld(m) \/ ReleasedFirst(m))
          /\ prefixForwarded' = (prefixForwarded /\ ~ (EndsDenied(m) /\ forwardSync))
          /\ UNCHANGED <<heldBuf, heldLen, wireVars>>
    /\ skipUntilSync' = (skipUntilSync /\ ~ EndsDenied(m))
    /\ forwardSync' = (forwardSync /\ ~ EndsDenied(m))
    /\ UNCHANGED <<reply, clientVars, sharedVars>>

\* Slip: the end of the stream inside a payload passes for a short message.
CutOffUnnoticed(m) == TakeWhatCame(m) /\ UNCHANGED pc

CutOff(m) == TakeWhatCame(m) /\ pc' = "disconnected"

Pump ==
    \/ LoadStatus \/ WriteReply
    \/ CleanEOF \/ PumpFails \/ ReplyFails

-----------------------------------------------------------------------------
(* The pump on its own, between peers that may do anything. *)

BackendReads ==
    /\ upstream # <<>>
    /\ upstream' = Tail(upstream)
    /\ UNCHANGED <<pc, reply, filterVars, openUpstream, closersSent,
                   clientVars, sharedVars>>

ClientReads ==
    /\ clientW # <<>>
    /\ clientW' = Tail(clientW)
    /\ UNCHANGED <<pc, reply, filterVars, wireVars, readiesSent, sharedVars>>

\* The response pump stores a status or takes or releases the lock.
ResponsePump ==
    /\ txStatus' \in TxStatus
    /\ mu' \in {"free", "responses"}
    /\ UNCHANGED <<pc, reply, filterVars, wireVars, clientVars>>

FilterNext ==
    \/ /\ closersSent + readiesSent < MaxExchanges
       /\ \E m \in ClientMessages : Handle(m) \/ CutOff(m)
    \/ Pump
    \/ BackendReads \/ ClientReads \/ ResponsePump

FilterSpec == FilterInit /\ [][FilterNext]_vars

-----------------------------------------------------------------------------
(* Properties. *)

(***************************************************************************)
(* Nothing the policy refuses is ever on its way to the database, not even *)
(* in the held batch that a later Sync, Flush, Query or overflow releases  *)
(* without looking at it again.                                            *)
(***************************************************************************)
NothingRefusedForwarded ==
    /\ \A i \in DOMAIN heldBuf  : ~ Refused(heldBuf[i])
    /\ \A i \in DOMAIN upstream : ~ Refused(upstream[i])

(***************************************************************************)
(* prefixForwarded is the truth about the wire: it is set exactly while    *)
(* the backend has been sent messages of a batch and no Sync or Query      *)
(* after them, through every release (Flush, overflow, an interrupting     *)
(* message), deny and settlement.                                          *)
(***************************************************************************)
PrefixTracksWire ==
    Enforces /\ pc \notin Ended => prefixForwarded = openUpstream

(***************************************************************************)
(* The choice denyBatch makes is still right when the Sync arrives, after  *)
(* any number of swallowed messages: the Sync is forwarded exactly if the  *)
(* backend saw a part of the batch, and nothing of the batch is left to be *)
(* released after the deny.                                                *)
(***************************************************************************)
DenySettlesRight ==
    skipUntilSync /\ pc \notin Ended =>
        /\ forwardSync = openUpstream
        /\ heldBuf = <<>>

\* A session holds at most maxHeldBytes of a batch, headers included.
HeldWithinBudget == heldLen <= MaxHeldBytes

(***************************************************************************)
(* A message the client did not finish is never followed by another one:   *)
(* what readInto left in the held batch is not released, and a streamed    *)
(* fragment is the last thing the backend gets.                            *)
(***************************************************************************)
TornIsLast ==
    \A i \in DOMAIN upstream :
        upstream[i].type = "Torn" => i = Len(upstream) /\ pc \in Ended

(***************************************************************************)
(* The filter implements the gate that BatchGate describes.  Of its state  *)
(* only skipUntilSync is mapped; what the gate has exposed, handed on and  *)
(* answered is read off the two wires.                                     *)
(***************************************************************************)
Gate == INSTANCE BatchGate WITH
    phase     <- IF pc \in Ended THEN "closed"
                 ELSE IF skipUntilSync THEN "denied" ELSE "open",
    exposed   <- openUpstream,
    byBackend <- closersSent,
    byProxy   <- readiesSent + (IF reply.ready = "none" THEN 0 ELSE 1)

GateSpec == Gate!Spec
=============================================================================
