-------------------------------- MODULE Relay --------------------------------
(***************************************************************************)
(* How a session lives and ends: relay in internal/proxy/pg/pg.go with its *)
(* two pumps, the channel they report on, the lock on the client and the   *)
(* two connections.                                                        *)
(*                                                                         *)
(* What the pumps make of a message is MsgFilter's and Session's; here a   *)
(* message of the client is forwarded, refused with a reply, or invalid,   *)
(* and what counts is where a pump can block and what unblocks it.  An     *)
(* answer of the backend is whole (no payload, or a ReadyForQuery, whose   *)
(* status is read before the lock is taken), invalid, or a header and then *)
(* a payload that is read under the client's lock.                         *)
(*                                                                         *)
(* The write to the client is internal/proxy/stall.go's: it fails when the *)
(* client drains nothing for a whole window, or when the upstream paused   *)
(* for one inside a payload.                                               *)
(***************************************************************************)
EXTENDS Naturals, Sequences

CONSTANTS
    SockCap,        \* messages a socket buffers in one direction
    MaxRequests,    \* bound: messages the client sends
    StallGuard      \* WriteStallTimeout is not negative

ASSUME RelayAssumption ==
    /\ SockCap \in Nat \ {0}
    /\ MaxRequests \in Nat
    /\ StallGuard \in BOOLEAN

VARIABLES
    (* The peers. *)
    client,         \* "open", "halfClosed" (FIN, still reading) or "gone"
    drains,         \* the client reads what it is sent
    sent,           \* messages the client has sent
    backend,        \* "serving", "sending" (the payload is to follow) or "closed"
    vanished,       \* peers whose host is gone: neither FIN nor reset comes
    (* The sockets. *)
    fromClient,     \* messages the proxy has not read
    toClient,       \* messages the client has not read
    toBackend,      \* messages the backend has not read
    fromBackend,    \* parts of answers the proxy has not read
    clientConn,     \* "open" or "closed" by the proxy
    upstreamConn,   \* "open", "writeShut" or "closed" by the proxy
    (* The goroutines. *)
    request,        \* where the client-to-upstream pump stands
    response,       \* where the upstream-to-client pump stands
    lock,           \* syncWriter.mu
    done,           \* the channel of pump results
    main,           \* where relay itself stands
    firstErr,       \* first.err
    result,         \* what relay returns
    (* History. *)
    upset           \* what went wrong: a peer was lost, a pump had a fault

peerVars  == <<client, drains, sent, backend, vanished>>
sockVars  == <<fromClient, toClient, toBackend, fromBackend>>
connVars  == <<clientConn, upstreamConn>>
mainVars  == <<main, firstErr, result>>
relayVars == <<peerVars, sockVars, connVars, request, response, lock, done,
               mainVars, upset>>

Kind   == {"allowed", "refused", "invalid"}
Err    == {"nil", "error"}
Result == [halfClose : BOOLEAN, err : Err]
Part   == {"whole", "header", "payload", "invalid"}

\* "fault": a panic, a stall, an invalid message, a host that stopped answering.
Upset  == {"client", "backend", "fault"}

RequestPC  == {"read", "forward", "await", "reply", "done"}

\* Under the lock: "writeWhole", "write" (the header), "copy" (the payload) and
\* "late", a copy whose write deadline passed while the upstream paused.
Writing    == {"writeWhole", "write", "copy", "late"}
ResponsePC == {"read", "awaitWhole", "await", "done"} \cup Writing
MainPC     == {"first", "second", "close", "drain", "returned"}

RelayTypeOK ==
    /\ client \in {"open", "halfClosed", "gone"}
    /\ drains \in BOOLEAN
    /\ sent \in 0 .. MaxRequests
    /\ backend \in {"serving", "sending", "closed"}
    /\ vanished \subseteq {"client", "backend"}
    /\ fromClient \in Seq(Kind) /\ Len(fromClient) <= SockCap
    /\ toClient \in 0 .. SockCap
    /\ toBackend \in 0 .. SockCap
    /\ fromBackend \in Seq(Part) /\ Len(fromBackend) <= SockCap
    /\ clientConn \in {"open", "closed"}
    /\ upstreamConn \in {"open", "writeShut", "closed"}
    /\ request \in RequestPC
    /\ response \in ResponsePC
    /\ lock \in {"free", "request", "response"}
    /\ done \in Seq(Result) /\ Len(done) <= 2
    /\ main \in MainPC
    /\ firstErr \in Err
    /\ result \in Err \cup {"none"}
    /\ upset \subseteq Upset

RelayInit ==
    /\ client = "open"
    /\ drains = TRUE
    /\ sent = 0
    /\ backend = "serving"
    /\ vanished = {}
    /\ fromClient = <<>>
    /\ toClient = 0
    /\ toBackend = 0
    /\ fromBackend = <<>>
    /\ clientConn = "open"
    /\ upstreamConn = "open"
    /\ request = "read"
    /\ response = "read"
    /\ lock = "free"
    /\ done = <<>>
    /\ main = "first"
    /\ firstErr = "nil"
    /\ result = "none"
    /\ upset = {}

-----------------------------------------------------------------------------
(* The peers. *)

ClientSends(kind) ==
    /\ client = "open" /\ "client" \notin vanished
    /\ sent < MaxRequests
    /\ Len(fromClient) < SockCap
    /\ fromClient' = Append(fromClient, kind)
    /\ sent' = sent + 1
    /\ UNCHANGED <<client, drains, backend, vanished, toClient, toBackend,
                   fromBackend, connVars, request, response, lock, done,
                   mainVars, upset>>

\* shutdown(SHUT_WR) on a message boundary: no more requests, still reading.
ClientHalfCloses ==
    /\ client = "open" /\ "client" \notin vanished
    /\ client' = "halfClosed"
    /\ UNCHANGED <<drains, sent, backend, vanished, sockVars, connVars, request,
                   response, lock, done, mainVars, upset>>

\* A reset, a kill in the middle of a message, a crash.
ClientDies ==
    /\ client # "gone"
    /\ client' = "gone"
    /\ drains' = FALSE
    /\ upset' = upset \cup {"client"}
    /\ UNCHANGED <<sent, backend, vanished, sockVars, connVars, request, response,
                   lock, done, mainVars>>

\* The client's host loses power or its network: the kernel's probes and
\* retransmissions fail in the end, with ETIMEDOUT.
ClientVanishes ==
    /\ client # "gone" /\ "client" \notin vanished
    /\ vanished' = vanished \cup {"client"}
    /\ drains' = FALSE
    /\ upset' = upset \cup {"client"}
    /\ UNCHANGED <<client, sent, backend, sockVars, connVars, request, response,
                   lock, done, mainVars>>

\* The client stays connected and stops reading.
ClientStalls ==
    /\ client # "gone"
    /\ drains
    /\ drains' = FALSE
    /\ UNCHANGED <<client, sent, backend, vanished, sockVars, connVars, request,
                   response, lock, done, mainVars, upset>>

ClientDrains ==
    /\ drains
    /\ toClient > 0
    /\ toClient' = toClient - 1
    /\ UNCHANGED <<peerVars, fromClient, toBackend, fromBackend, connVars,
                   request, response, lock, done, mainVars, upset>>

BackendSends(part) ==
    /\ "backend" \notin vanished
    /\ Len(fromBackend) < SockCap
    /\ fromBackend' = Append(fromBackend, part)
    /\ backend' = IF part = "header" THEN "sending" ELSE "serving"
    /\ UNCHANGED <<client, drains, sent, vanished, fromClient, toClient, connVars,
                   request, response, lock, done, mainVars, upset>>

BackendAnswers ==
    /\ backend = "serving"
    /\ toBackend > 0
    /\ toBackend' = toBackend - 1
    /\ \E part \in Part \ {"payload"} : BackendSends(part)

\* The rest of an answer, after a pause of any length.
BackendFinishes ==
    /\ backend = "sending"
    /\ BackendSends("payload")
    /\ UNCHANGED toBackend

\* Having read everything up to the EOF, the backend closes.
BackendEOF ==
    /\ backend = "serving" /\ "backend" \notin vanished
    /\ upstreamConn # "open"
    /\ toBackend = 0
    /\ backend' = "closed"
    /\ UNCHANGED <<client, drains, sent, vanished, sockVars, connVars, request,
                   response, lock, done, mainVars, upset>>

BackendDies ==
    /\ backend # "closed"
    /\ backend' = "closed"
    /\ upset' = upset \cup {"backend"}
    /\ UNCHANGED <<client, drains, sent, vanished, sockVars, connVars, request,
                   response, lock, done, mainVars>>

BackendVanishes ==
    /\ backend # "closed" /\ "backend" \notin vanished
    /\ vanished' = vanished \cup {"backend"}
    /\ upset' = upset \cup {"backend"}
    /\ UNCHANGED <<client, drains, sent, backend, sockVars, connVars, request,
                   response, lock, done, mainVars>>

-----------------------------------------------------------------------------
(* What the two pumps share. *)

\* Slip: a pump that ends keeps the lock.
ReportLocked(pump, halfClose, err) ==
    /\ Len(done) < 2
    /\ done' = Append(done, [halfClose |-> halfClose, err |-> err])
    /\ UNCHANGED lock

\* A pump sends its one result; a deferred Unlock frees the lock it held.
Report(pump, halfClose, err) ==
    /\ Len(done) < 2
    /\ done' = Append(done, [halfClose |-> halfClose, err |-> err])
    /\ lock' = IF lock = pump THEN "free" ELSE lock

ClientUnreachable  == clientConn = "closed" \/ client = "gone"
BackendUnreachable == upstreamConn = "closed" \/ backend = "closed"

\* What isDisconnect does not list: the peer's host does not answer any more.
ClientTimesOut  == "client" \in vanished /\ ~ ClientUnreachable
BackendTimesOut == "backend" \in vanished /\ ~ BackendUnreachable

\* A whole window passes in which the client took nothing.
Stalled == StallGuard /\ ~ drains /\ toClient = SockCap /\ ~ ClientUnreachable

\* The kernel takes data for a client that is gone until it learns of that.
WriteClient ==
    /\ clientConn = "open"
    /\ toClient < SockCap
    /\ toClient' = toClient + 1

-----------------------------------------------------------------------------
(* copyMessages, the client-to-upstream pump. *)

RequestEnds(halfClose, err) ==
    /\ Report("request", halfClose, err)
    /\ request' = "done"
    /\ UNCHANGED <<peerVars, sockVars, connVars, response, mainVars>>

ReadRequest ==
    /\ request = "read"
    /\ ~ ClientUnreachable
    /\ fromClient # <<>> /\ Head(fromClient) # "invalid"
    /\ fromClient' = Tail(fromClient)
    /\ request' = IF Head(fromClient) = "allowed" THEN "forward" ELSE "await"
    /\ UNCHANGED <<peerVars, toClient, toBackend, fromBackend, connVars,
                   response, lock, done, mainVars, upset>>

ReadInvalid ==
    /\ request = "read"
    /\ ~ ClientUnreachable
    /\ fromClient # <<>> /\ Head(fromClient) = "invalid"
    /\ upset' = upset \cup {"fault"}
    /\ RequestEnds(FALSE, "error")

ReadEOF ==
    /\ request = "read"
    /\ client = "halfClosed" /\ clientConn = "open" /\ fromClient = <<>>
    /\ RequestEnds(TRUE, "nil")
    /\ UNCHANGED upset

Forward ==
    /\ request = "forward"
    /\ ~ BackendUnreachable
    /\ toBackend < SockCap
    /\ toBackend' = toBackend + 1
    /\ request' = "read"
    /\ UNCHANGED <<peerVars, fromClient, toClient, fromBackend, connVars,
                   response, lock, done, mainVars, upset>>

LockForReply ==
    /\ request = "await"
    /\ lock = "free"
    /\ lock' = "request"
    /\ request' = "reply"
    /\ UNCHANGED <<peerVars, sockVars, connVars, response, done, mainVars, upset>>

WriteReply ==
    /\ request = "reply"
    /\ WriteClient
    /\ lock' = "free"
    /\ request' = "read"
    /\ UNCHANGED <<peerVars, fromClient, toBackend, fromBackend, connVars,
                   response, done, mainVars, upset>>

\* Slip: a disconnect is reported as an error.
DisconnectIsError ==
    /\ \/ request \in {"read", "reply"} /\ ClientUnreachable
       \/ request = "forward" /\ BackendUnreachable
    /\ RequestEnds(FALSE, "error")
    /\ UNCHANGED upset

\* What a peer that left, or a closed connection, makes fail is a disconnect,
\* not an error.
RequestDisconnected ==
    /\ \/ request \in {"read", "reply"} /\ ClientUnreachable
       \/ request = "forward" /\ BackendUnreachable
    /\ RequestEnds(FALSE, "nil")
    /\ UNCHANGED upset

ReplyStalls ==
    /\ request = "reply"
    /\ Stalled
    /\ upset' = upset \cup {"fault"}
    /\ RequestEnds(FALSE, "error")

RequestTimesOut ==
    /\ \/ request = "read" /\ ClientTimesOut
          /\ client = "open" /\ fromClient = <<>>
       \/ request = "reply" /\ ClientTimesOut
       \/ request = "forward" /\ BackendTimesOut
    /\ upset' = upset \cup {"fault"}
    /\ RequestEnds(FALSE, "error")

RequestPanics ==
    /\ request # "done"
    /\ upset' = upset \cup {"fault"}
    /\ RequestEnds(FALSE, "error")

RequestPump ==
    \/ ReadRequest \/ ReadInvalid \/ ReadEOF
    \/ Forward \/ LockForReply \/ WriteReply
    \/ RequestDisconnected \/ ReplyStalls \/ RequestTimesOut

-----------------------------------------------------------------------------
(* copyResponses, the upstream-to-client pump. *)

ResponseEnds(err) ==
    /\ Report("response", FALSE, err)
    /\ response' = "done"
    /\ UNCHANGED <<peerVars, sockVars, connVars, request, mainVars>>

ReadResponse ==
    /\ response = "read"
    /\ upstreamConn # "closed"
    /\ fromBackend # <<>> /\ Head(fromBackend) # "invalid"
    /\ fromBackend' = Tail(fromBackend)
    /\ response' = IF Head(fromBackend) = "whole" THEN "awaitWhole" ELSE "await"
    /\ UNCHANGED <<peerVars, fromClient, toClient, toBackend, connVars, request,
                   lock, done, mainVars, upset>>

\* A length below four or above the limit.
ReadInvalidResponse ==
    /\ response = "read"
    /\ upstreamConn # "closed"
    /\ fromBackend # <<>> /\ Head(fromBackend) = "invalid"
    /\ upset' = upset \cup {"fault"}
    /\ ResponseEnds("error")

LockForResponse ==
    /\ response \in {"awaitWhole", "await"}
    /\ lock = "free"
    /\ lock' = "response"
    /\ response' = IF response = "await" THEN "write" ELSE "writeWhole"
    /\ UNCHANGED <<peerVars, sockVars, connVars, request, done, mainVars, upset>>

WriteWhole ==
    /\ response = "writeWhole"
    /\ WriteClient
    /\ lock' = "free"
    /\ response' = "read"
    /\ UNCHANGED <<peerVars, fromClient, toBackend, fromBackend, connVars,
                   request, done, mainVars, upset>>

\* The lock stays taken: nothing may come between a header and its payload.
WriteHeader ==
    /\ response = "write"
    /\ WriteClient
    /\ response' = "copy"
    /\ UNCHANGED <<peerVars, fromClient, toBackend, fromBackend, connVars,
                   request, lock, done, mainVars, upset>>

CopyPayload ==
    /\ response = "copy"
    /\ upstreamConn # "closed" /\ fromBackend # <<>>
    /\ WriteClient
    /\ fromBackend' = Tail(fromBackend)
    /\ lock' = "free"
    /\ response' = "read"
    /\ UNCHANGED <<peerVars, fromClient, toBackend, connVars, request, done,
                   mainVars, upset>>

\* A whole window passes in which the upstream sends nothing of the payload:
\* the deadline armed for the write is over before there is anything to write.
CopyRunsLate ==
    /\ response = "copy"
    /\ StallGuard /\ fromBackend = <<>>
    /\ response' = "late"
    /\ UNCHANGED <<peerVars, sockVars, connVars, request, lock, done, mainVars,
                   upset>>

\* A reset discards what the proxy has not read.
UpstreamEnds ==
    \/ upstreamConn = "closed"
    \/ backend = "closed" /\ (fromBackend = <<>> \/ "backend" \in upset)

\* The backend's EOF, a closed connection, or a payload that breaks off.
ResponseDisconnected ==
    /\ \/ response \in {"read", "copy", "late"} /\ UpstreamEnds
       \/ response \in {"writeWhole", "write"} /\ ClientUnreachable
       \/ response \in {"copy", "late"} /\ fromBackend # <<>> /\ ClientUnreachable
    /\ ResponseEnds("nil")
    /\ UNCHANGED upset

ResponseStalls ==
    /\ \/ response \in {"writeWhole", "write"} /\ Stalled
       \/ response = "copy" /\ fromBackend # <<>> /\ Stalled
       \/ response = "late" /\ fromBackend # <<>>
    /\ upset' = upset \cup {"fault"}
    /\ ResponseEnds("error")

ResponseTimesOut ==
    /\ \/ response \in {"read", "copy", "late"} /\ BackendTimesOut
          /\ fromBackend = <<>>
       \/ response \in {"writeWhole", "write"} /\ ClientTimesOut
       \/ response = "copy" /\ fromBackend # <<>> /\ ClientTimesOut
    /\ upset' = upset \cup {"fault"}
    /\ ResponseEnds("error")

ResponsePanics ==
    /\ response # "done"
    /\ upset' = upset \cup {"fault"}
    /\ ResponseEnds("error")

ResponsePump ==
    \/ ReadResponse \/ ReadInvalidResponse \/ LockForResponse
    \/ WriteWhole \/ WriteHeader \/ CopyPayload
    \/ ResponseDisconnected \/ ResponseStalls \/ ResponseTimesOut

-----------------------------------------------------------------------------
(* relay, waiting for the pumps. *)

\* Slip: a half-close ends the session like any other end.
ReceiveFirstHasty ==
    /\ main = "first"
    /\ done # <<>>
    /\ done' = Tail(done)
    /\ firstErr' = Head(done).err
    /\ main' = "close"
    /\ UNCHANGED <<peerVars, sockVars, connVars, request, response, lock,
                   result, upset>>

ReceiveFirst ==
    /\ main = "first"
    /\ done # <<>>
    /\ done' = Tail(done)
    /\ firstErr' = Head(done).err
    /\ \/ /\ Head(done).halfClose          \* CloseWrite passes the EOF on
          /\ upstreamConn' = "writeShut"
          /\ main' = "second"
       \/ /\ Head(done).halfClose => backend = "closed"
          /\ main' = "close"
          /\ UNCHANGED upstreamConn
    /\ UNCHANGED <<peerVars, sockVars, clientConn, request, response, lock,
                   result, upset>>

\* Slips: one of the connections is left open.
CloseClientOnly   == clientConn' = "closed" /\ UNCHANGED upstreamConn
CloseUpstreamOnly == upstreamConn' = "closed" /\ UNCHANGED clientConn

CloseBoth ==
    /\ clientConn' = "closed"
    /\ upstreamConn' = "closed"

\* After a half-close the response pump's result is the session's.
ReceiveSecond ==
    /\ main = "second"
    /\ done # <<>>
    /\ done' = Tail(done)
    /\ result' = Head(done).err
    /\ CloseBoth
    /\ main' = "returned"
    /\ UNCHANGED <<peerVars, sockVars, request, response, lock, firstErr, upset>>

CloseConns ==
    /\ main = "close"
    /\ CloseBoth
    /\ main' = "drain"
    /\ UNCHANGED <<peerVars, sockVars, request, response, lock, done, firstErr,
                   result, upset>>

\* Slip: relay returns without waiting for the other pump.
ReturnUnjoined ==
    /\ main = "drain"
    /\ result' = firstErr
    /\ main' = "returned"
    /\ UNCHANGED <<peerVars, sockVars, connVars, request, response, lock, done,
                   firstErr, upset>>

JoinPump ==
    /\ main = "drain"
    /\ done # <<>>
    /\ done' = Tail(done)
    /\ result' = firstErr
    /\ main' = "returned"
    /\ UNCHANGED <<peerVars, sockVars, connVars, request, response, lock,
                   firstErr, upset>>

Main == ReceiveFirst \/ ReceiveSecond \/ CloseConns \/ JoinPump

-----------------------------------------------------------------------------

Environment ==
    \/ \E kind \in Kind : ClientSends(kind)
    \/ ClientHalfCloses \/ ClientDies \/ ClientVanishes \/ ClientStalls
    \/ BackendDies \/ BackendVanishes
    \/ CopyRunsLate \/ RequestPanics \/ ResponsePanics

RelayNext ==
    \/ Environment
    \/ ClientDrains \/ BackendAnswers \/ BackendFinishes \/ BackendEOF
    \/ RequestPump \/ ResponsePump \/ Main

(***************************************************************************)
(* Goroutines run; a waiting one gets the lock (sync.Mutex hands it over   *)
(* to a starving waiter); a client that drains keeps draining; the backend *)
(* works off what it was sent, finishes an answer it began, however late,  *)
(* and closes on EOF, unless it is lost.  The kernel notices in the end    *)
(* that a peer's host is gone.  Nothing makes a client send, leave or read *)
(* again, or a backend or a pump fail.                                     *)
(***************************************************************************)
RelaySpec ==
    /\ RelayInit /\ [][RelayNext]_relayVars
    /\ WF_relayVars(RequestPump) /\ SF_relayVars(LockForReply)
    /\ WF_relayVars(ResponsePump) /\ SF_relayVars(LockForResponse)
    /\ WF_relayVars(Main)
    /\ WF_relayVars(ClientDrains)
    /\ WF_relayVars(BackendAnswers) /\ WF_relayVars(BackendFinishes)
    /\ WF_relayVars(BackendEOF)

-----------------------------------------------------------------------------
(* Properties. *)

(***************************************************************************)
(* relay returns only after both pumps have ended and reported, with the   *)
(* lock free and both connections closed: no goroutine outlives its        *)
(* session, whichever pump ends first and however it ends.                 *)
(***************************************************************************)
PumpsJoined ==
    main = "returned" =>
        /\ request = "done" /\ response = "done" /\ done = <<>>
        /\ lock = "free"
        /\ clientConn = "closed" /\ upstreamConn = "closed"

(***************************************************************************)
(* A client that half-closes cleanly is served out: when nothing else goes *)
(* wrong, everything it sent has been answered to its socket before the    *)
(* session ends ("keeps relaying; the backend closes on its own EOF").     *)
(***************************************************************************)
HalfCloseServedOut ==
    main = "returned" /\ upset = {} =>
        fromClient = <<>> /\ toBackend = 0 /\ fromBackend = <<>>

(***************************************************************************)
(* The first result is the causal one: relay reports an error only if      *)
(* something else than a peer leaving happened (a panic, a stall, an       *)
(* invalid message, a host that does not answer any more), never the noise *)
(* of its own closing of the connections.                                  *)
(***************************************************************************)
CausalResult == result = "error" => "fault" \in upset

(***************************************************************************)
(* A session whose client is gone, vanished or half-closed ends, even when *)
(* the client stopped reading, a pump waits for the lock, the backend      *)
(* pauses inside an answer, or a pump panicked.                            *)
(***************************************************************************)
DepartedClientEndsSession ==
    client # "open" \/ "client" \in vanished ~> main = "returned"

\* Once a pump has ended, for any reason, the session ends.
EndedPumpEndsSession ==
    request = "done" \/ response = "done" ~> main = "returned"

(***************************************************************************)
(* A refused message is answered or the session ends: the reply does not   *)
(* wait forever for the lock, which the other pump holds while the backend *)
(* pauses inside an answer, or for a client that stopped reading.          *)
(***************************************************************************)
ReplyGoesOut == request \in {"await", "reply"} ~> request \notin {"await", "reply"}
=============================================================================
