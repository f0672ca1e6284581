------------------------------ MODULE ServeConn ------------------------------
(***************************************************************************)
(* A session up to the moment it is relayed: ServeConn and                 *)
(* negotiateStartup (internal/proxy/pg/pg.go), between a client that may   *)
(* send startup packets in any order, stall or leave, a clock that may     *)
(* expire the startup deadline, a dial that may fail, and a server that    *)
(* may force the session closed.                                           *)
(***************************************************************************)
EXTENDS Naturals, Sequences

CONSTANTS
    MaxStartupReads,   \* maxStartupReads
    MaxPackets         \* bound: packets the client sends before relay

ASSUME ServeConnAssumption ==
    /\ MaxStartupReads \in Nat \ {0}
    /\ MaxPackets \in Nat

VARIABLES
    phase,       \* where ServeConn stands
    reads,       \* packets negotiateStartup has read
    startup,     \* the packet it returned
    deadline,    \* the client's read deadline: "off", "armed" or "expired"
    packets,     \* what the client has sent and the proxy has not read
    sent,        \* how many packets the client has sent
    clientConn,  \* "open", "left" (by the client) or "closed" (forced)
    canceled,    \* the session's context is canceled
    answers,     \* what ServeConn has written to the client
    upstream,    \* the upstream connection: "none", "open" or "closed"
    forwarded,   \* the packets written upstream
    outcome      \* what ServeConn returns

clientSide == <<packets, sent, clientConn>>
vars == <<phase, reads, startup, deadline, clientSide, canceled, answers,
          upstream, forwarded, outcome>>

Encryption == {"SSLRequest", "GSSEncRequest"}
Sendable   == Encryption \cup {"Startup", "CancelRequest", "invalid"}
Phases     == {"read", "deny", "clear", "dial", "forward", "relay", "ended"}

TypeOK ==
    /\ phase \in Phases
    /\ reads \in 0 .. MaxStartupReads
    /\ startup \in {"none", "Startup", "CancelRequest"}
    /\ deadline \in {"off", "armed", "expired"}
    /\ packets \in Seq(Sendable)
    /\ sent \in 0 .. MaxPackets
    /\ clientConn \in {"open", "left", "closed"}
    /\ canceled \in BOOLEAN
    /\ answers \in Seq({"N", "Fatal"})
    /\ upstream \in {"none", "open", "closed"}
    /\ forwarded \in Seq(Sendable)
    /\ outcome \in {"none", "nil", "error"}

\* A negative StartupTimeout arms no deadline.
Init ==
    /\ phase = "read"
    /\ reads = 0
    /\ startup = "none"
    /\ deadline \in {"armed", "off"}
    /\ packets = <<>>
    /\ sent = 0
    /\ clientConn = "open"
    /\ canceled = FALSE
    /\ answers = <<>>
    /\ upstream = "none"
    /\ forwarded = <<>>
    /\ outcome = "none"

-----------------------------------------------------------------------------
(* The client, the clock and the server around the session. *)

ClientSends(packet) ==
    /\ clientConn = "open"
    /\ sent < MaxPackets
    /\ packets' = Append(packets, packet)
    /\ sent' = sent + 1
    /\ UNCHANGED <<phase, reads, startup, deadline, clientConn, canceled,
                   answers, upstream, forwarded, outcome>>

ClientLeaves ==
    /\ clientConn = "open"
    /\ clientConn' = "left"
    /\ UNCHANGED <<phase, reads, startup, deadline, packets, sent, canceled,
                   answers, upstream, forwarded, outcome>>

DeadlineExpires ==
    /\ deadline = "armed"
    /\ deadline' = "expired"
    /\ UNCHANGED <<phase, reads, startup, clientSide, canceled, answers,
                   upstream, forwarded, outcome>>

\* Serve, out of patience: the context is canceled, the connection closed.
ForceClose ==
    /\ ~ canceled
    /\ canceled' = TRUE
    /\ clientConn' = "closed"
    /\ UNCHANGED <<phase, reads, startup, deadline, packets, sent, answers,
                   upstream, forwarded, outcome>>

-----------------------------------------------------------------------------
(* negotiateStartup. *)

\* Slip: the upstream connection is not closed.
ReturnLeaking(out) ==
    /\ phase' = "ended"
    /\ outcome' = out
    /\ UNCHANGED upstream

\* ServeConn returns; the deferred Close releases the upstream connection.
Return(out) ==
    /\ phase' = "ended"
    /\ outcome' = out
    /\ upstream' = IF upstream = "open" THEN "closed" ELSE upstream

ReadStartup ==
    /\ phase = "read"
    /\ deadline # "expired" /\ clientConn # "closed"
    /\ packets # <<>> /\ Head(packets) # "invalid"
    /\ packets' = Tail(packets)
    /\ reads' = reads + 1
    /\ IF Head(packets) \in Encryption
          THEN /\ phase' = "deny"
               /\ UNCHANGED startup
          ELSE /\ phase' = "clear"
               /\ startup' = Head(packets)
    /\ UNCHANGED <<deadline, sent, clientConn, canceled, answers, upstream,
                   forwarded, outcome>>

\* Slips: an expired deadline, or a closed connection, is no error.
ReadFailsUntimed ==
    /\ phase = "read"
    /\ \/ clientConn = "closed"
       \/ clientConn = "left" /\ packets = <<>>
       \/ packets # <<>> /\ Head(packets) = "invalid"
    /\ Return("error")
    /\ UNCHANGED <<reads, startup, deadline, clientSide, canceled, answers,
                   forwarded>>

ReadFailsOnClient ==
    /\ phase = "read"
    /\ \/ deadline = "expired"
       \/ clientConn = "left" /\ packets = <<>>
       \/ packets # <<>> /\ Head(packets) = "invalid"
    /\ Return("error")
    /\ UNCHANGED <<reads, startup, deadline, clientSide, canceled, answers,
                   forwarded>>

\* A late, truncated or oversized packet, or none at all.  Setting the deadline
\* of a connection that is closed already fails too, and ends the same way.
ReadFails ==
    /\ phase = "read"
    /\ \/ deadline = "expired"
       \/ clientConn = "closed"
       \/ clientConn = "left" /\ packets = <<>>
       \/ packets # <<>> /\ Head(packets) = "invalid"
    /\ Return("error")
    /\ UNCHANGED <<reads, startup, deadline, clientSide, canceled, answers,
                   forwarded>>

\* Encryption ends at the sidecar: every request for it is denied.  A write to
\* a client that has just left may still succeed.
DenyEncryption ==
    /\ phase = "deny"
    /\ clientConn # "closed"
    /\ answers' = Append(answers, "N")
    /\ IF reads < MaxStartupReads
          THEN /\ phase' = "read"
               /\ UNCHANGED <<upstream, outcome>>
          ELSE Return("error")
    /\ UNCHANGED <<reads, startup, deadline, clientSide, canceled, forwarded>>

DenyFails ==
    /\ phase = "deny"
    /\ clientConn # "open"
    /\ Return("error")
    /\ UNCHANGED <<reads, startup, deadline, clientSide, canceled, answers,
                   forwarded>>

-----------------------------------------------------------------------------
(* The rest of ServeConn. *)

\* Slip: the deadline stays.
ClearNothing ==
    /\ phase = "clear"
    /\ phase' = "dial"
    /\ UNCHANGED <<reads, startup, deadline, clientSide, canceled, answers,
                   upstream, forwarded, outcome>>

\* SetReadDeadline fails only on a connection this side has closed.
ClearDeadline ==
    /\ phase = "clear"
    /\ IF clientConn = "closed"
          THEN /\ Return("error")
               /\ UNCHANGED deadline
          ELSE /\ phase' = "dial"
               /\ deadline' = "off"
               /\ UNCHANGED <<upstream, outcome>>
    /\ UNCHANGED <<reads, startup, clientSide, canceled, answers, forwarded>>

DialSucceeds ==
    /\ phase = "dial"
    /\ upstream' = "open"
    /\ phase' = "forward"
    /\ UNCHANGED <<reads, startup, deadline, clientSide, canceled, answers,
                   forwarded, outcome>>

\* Slip: a cancel request is answered too.
DialFailsLoudly ==
    /\ phase = "dial"
    /\ answers' = IF clientConn = "open" THEN Append(answers, "Fatal") ELSE answers
    /\ Return("error")
    /\ UNCHANGED <<reads, startup, deadline, clientSide, canceled, forwarded>>

\* Refused, timed out or canceled.  The answer to the client is best effort.
DialFails ==
    /\ phase = "dial"
    /\ answers' = IF startup # "CancelRequest" /\ clientConn = "open"
                  THEN Append(answers, "Fatal") ELSE answers
    /\ Return("error")
    /\ UNCHANGED <<reads, startup, deadline, clientSide, canceled, forwarded>>

ForwardStartup ==
    /\ phase = "forward"
    /\ forwarded' = Append(forwarded, startup)
    /\ IF startup = "CancelRequest"
          THEN Return("nil")
          ELSE /\ phase' = "relay"
               /\ UNCHANGED <<upstream, outcome>>
    /\ UNCHANGED <<reads, startup, deadline, clientSide, canceled, answers>>

ForwardFails ==
    /\ phase = "forward"
    /\ Return("error")
    /\ UNCHANGED <<reads, startup, deadline, clientSide, canceled, answers,
                   forwarded>>

\* relay returns, with or without an error (module Relay).
RelayEnds ==
    /\ phase = "relay"
    /\ \E out \in {"nil", "error"} : Return(out)
    /\ UNCHANGED <<reads, startup, deadline, clientSide, canceled, answers,
                   forwarded>>

Serve ==
    \/ ReadStartup   \/ ReadFails
    \/ DenyEncryption \/ DenyFails
    \/ ClearDeadline
    \/ DialSucceeds  \/ DialFails
    \/ ForwardStartup \/ ForwardFails

Next ==
    \/ \E packet \in Sendable : ClientSends(packet)
    \/ ClientLeaves \/ DeadlineExpires \/ ForceClose
    \/ Serve
    \/ RelayEnds

(***************************************************************************)
(* The session's goroutine runs, the dialer has a timeout of its own, and  *)
(* an armed deadline expires unless it is cleared before.  Nothing is      *)
(* assumed of relay: it takes no context, and a forced close shuts only    *)
(* its client's connection.                                                *)
(***************************************************************************)
Spec ==
    /\ Init /\ [][Next]_vars
    /\ WF_vars(Serve)
    /\ WF_vars(DeadlineExpires)

-----------------------------------------------------------------------------
(* Properties. *)

(***************************************************************************)
(* The startup deadline cannot hit an established session: it is off       *)
(* before the upstream is dialed and stays off, even if it expired between *)
(* the last read and its clearing.                                         *)
(***************************************************************************)
NoDeadlineOnRelay == phase \in {"dial", "forward", "relay"} => deadline = "off"

(***************************************************************************)
(* Every way out of ServeConn releases the upstream connection, and it is  *)
(* open only once the client has sent what is forwarded on it.             *)
(***************************************************************************)
UpstreamReleased ==
    /\ phase = "ended" => upstream # "open"
    /\ upstream # "none" => startup # "none" /\ reads > 0

(***************************************************************************)
(* The client hears exactly what the protocol has it expect: an 'N' per    *)
(* encryption request, then a FATAL error if the upstream is unreachable   *)
(* and the client waits for a session, and nothing on a cancel request.    *)
(***************************************************************************)
AnswersMatchRequests ==
    LET asked == IF startup = "none" THEN reads ELSE reads - 1
        owed  == IF phase = "deny" THEN 1 ELSE 0
    IN  /\ phase # "ended" => Len(answers) + owed = asked
        /\ \A i \in DOMAIN answers : answers[i] = "Fatal" =>
              /\ i = Len(answers)
              /\ startup = "Startup" /\ outcome = "error" /\ forwarded = <<>>

(***************************************************************************)
(* With a deadline neither an idle client nor one that keeps asking for    *)
(* encryption holds its slot in the startup phase (maxStartupReads,        *)
(* StartupTimeout).                                                        *)
(***************************************************************************)
StartupEnds ==
    phase = "read" /\ deadline # "off" ~> phase \in {"relay", "ended"}

(***************************************************************************)
(* A forced close leaves no session in its startup: one that waits for its *)
(* client, deadline or not, answers it, dials or forwards, ends or gets to *)
(* relay, which has that closed connection to find out about.              *)
(***************************************************************************)
ForcedStartupEnds == canceled ~> phase \in {"relay", "ended"}
=============================================================================
