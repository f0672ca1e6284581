-------------------------------- MODULE Server --------------------------------
(***************************************************************************)
(* The accept loop, its sessions and the shutdown: Server.Serve, drain and *)
(* handle in internal/proxy/proxy.go.                                      *)
(*                                                                         *)
(* One goroutine runs Serve and one runs each session.  What a session     *)
(* does is the other modules' subject; here it runs, ends, and then runs   *)
(* its deferred calls: handle closes the connection, then the slot is      *)
(* released, then the connection leaves the map.                           *)
(***************************************************************************)
EXTENDS Naturals, FiniteSets

CONSTANTS
    Conns,         \* connections clients may open
    NoConn,
    MaxConns,      \* cap on concurrent sessions, 0 for none
    DrainTimeout,  \* whether a DrainTimeout is set
    MaxFailures    \* bound: temporary accept failures in a row

ASSUME ServerAssumption ==
    /\ NoConn \notin Conns
    /\ MaxConns \in Nat
    /\ DrainTimeout \in BOOLEAN
    /\ MaxFailures \in Nat

VARIABLES
    serve,        \* where Serve stands
    current,      \* the connection the accept loop is dealing with
    failures,     \* temporary failures since the last accept: the backoff
    acceptErr,    \* Serve returns an error
    ctxDone,      \* ctx is canceled
    listener,     \* "open" or "closed"
    session,      \* where each connection stands
    sem,          \* slots taken
    conns,        \* the map of connections to force closed
    closed,       \* connections the proxy has closed
    sessCtxDone,  \* sessCtx is canceled
    abandoned     \* Serve gave up waiting

loopVars    == <<current, failures, acceptErr>>
sessionVars == <<session, sem, conns, closed>>
vars == <<serve, loopVars, ctxDone, listener, sessionVars, sessCtxDone, abandoned>>

ServePC == {"accept", "backoff", "admit", "register", "spawn",
            "drain", "close", "drainAgain", "returned"}

\* "ended": handle has returned; "released": and its slot has been released.
SessionState == {"unborn", "backlog", "accepted", "rejected",
                 "running", "ended", "released", "gone"}

TypeOK ==
    /\ serve \in ServePC
    /\ current \in Conns \cup {NoConn}
    /\ failures \in 0 .. MaxFailures
    /\ acceptErr \in BOOLEAN
    /\ ctxDone \in BOOLEAN
    /\ listener \in {"open", "closed"}
    /\ session \in [Conns -> SessionState]
    /\ sem \in Nat
    /\ conns \subseteq Conns
    /\ closed \subseteq Conns
    /\ sessCtxDone \in BOOLEAN
    /\ abandoned \in BOOLEAN

Init ==
    /\ serve = "accept"
    /\ current = NoConn
    /\ failures = 0
    /\ acceptErr = FALSE
    /\ ctxDone = FALSE
    /\ listener = "open"
    /\ session = [c \in Conns |-> "unborn"]
    /\ sem = 0
    /\ conns = {}
    /\ closed = {}
    /\ sessCtxDone = FALSE
    /\ abandoned = FALSE

In(states) == {c \in Conns : session[c] \in states}

-----------------------------------------------------------------------------
(* Clients, and whoever stops the proxy. *)

Connect(c) ==
    /\ listener = "open"
    /\ session[c] = "unborn"
    /\ session' = [session EXCEPT ![c] = "backlog"]
    /\ UNCHANGED <<serve, loopVars, ctxDone, listener, sem, conns, closed,
                   sessCtxDone, abandoned>>

\* Slip: the sessions' context is derived from ctx, cancellation included.
CancelSessionsToo ==
    /\ ~ ctxDone
    /\ ctxDone' = TRUE
    /\ sessCtxDone' = TRUE
    /\ UNCHANGED <<serve, loopVars, listener, sessionVars, abandoned>>

Cancel ==
    /\ ~ ctxDone
    /\ ctxDone' = TRUE
    /\ UNCHANGED <<serve, loopVars, listener, sessionVars, sessCtxDone, abandoned>>

\* By the AfterFunc on ctx, or by the listener's owner.
CloseListener ==
    /\ listener = "open"
    /\ listener' = "closed"
    /\ UNCHANGED <<serve, loopVars, ctxDone, sessionVars, sessCtxDone, abandoned>>

-----------------------------------------------------------------------------
(* The accept loop. *)

Accept(c) ==
    /\ serve = "accept"
    /\ listener = "open"
    /\ session[c] = "backlog"
    /\ session' = [session EXCEPT ![c] = "accepted"]
    /\ current' = c
    /\ failures' = 0
    /\ serve' = IF MaxConns > 0 THEN "admit" ELSE "register"
    /\ UNCHANGED <<acceptErr, ctxDone, listener, sem, conns, closed, sessCtxDone,
                   abandoned>>

\* net.ErrClosed, or any error once ctx is canceled.
AcceptStops ==
    /\ serve = "accept"
    /\ listener = "closed" \/ ctxDone
    /\ serve' = "drain"
    /\ UNCHANGED <<loopVars, ctxDone, listener, sessionVars, sessCtxDone, abandoned>>

\* Out of descriptors, buffers or memory.
AcceptFailsForNow ==
    /\ serve = "accept"
    /\ listener = "open" /\ ~ ctxDone
    /\ failures < MaxFailures
    /\ failures' = failures + 1
    /\ serve' = "backoff"
    /\ UNCHANGED <<current, acceptErr, ctxDone, listener, sessionVars,
                   sessCtxDone, abandoned>>

\* The delay is over or ctx is canceled.
RetryAccept ==
    /\ serve = "backoff"
    /\ serve' = "accept"
    /\ UNCHANGED <<loopVars, ctxDone, listener, sessionVars, sessCtxDone, abandoned>>

AcceptFails ==
    /\ serve = "accept"
    /\ listener = "open" /\ ~ ctxDone
    /\ acceptErr' = TRUE
    /\ serve' = "drain"
    /\ UNCHANGED <<current, failures, ctxDone, listener, sessionVars,
                   sessCtxDone, abandoned>>

\* Slip: one session more than MaxConns.
AdmitOneMore ==
    /\ serve = "admit"
    /\ sem <= MaxConns
    /\ sem' = sem + 1
    /\ serve' = "register"
    /\ UNCHANGED <<loopVars, ctxDone, listener, session, conns, closed,
                   sessCtxDone, abandoned>>

Admit ==
    /\ serve = "admit"
    /\ sem < MaxConns
    /\ sem' = sem + 1
    /\ serve' = "register"
    /\ UNCHANGED <<loopVars, ctxDone, listener, session, conns, closed,
                   sessCtxDone, abandoned>>

\* Slip: the send on the semaphore has no default and waits for a slot.
AwaitSlot ==
    /\ serve = "admit"
    /\ sem = MaxConns
    /\ UNCHANGED vars

Reject ==
    /\ serve = "admit"
    /\ sem = MaxConns
    /\ closed' = closed \cup {current}
    /\ session' = [session EXCEPT ![current] = "rejected"]
    /\ current' = NoConn
    /\ serve' = "accept"
    /\ UNCHANGED <<failures, acceptErr, ctxDone, listener, sem, conns,
                   sessCtxDone, abandoned>>

\* Slip: the connection is left out of the map.
RegisterNothing ==
    /\ serve = "register"
    /\ serve' = "spawn"
    /\ UNCHANGED <<loopVars, ctxDone, listener, sessionVars, sessCtxDone, abandoned>>

Register ==
    /\ serve = "register"
    /\ conns' = conns \cup {current}
    /\ serve' = "spawn"
    /\ UNCHANGED <<loopVars, ctxDone, listener, session, sem, closed,
                   sessCtxDone, abandoned>>

Spawn ==
    /\ serve = "spawn"
    /\ session' = [session EXCEPT ![current] = "running"]
    /\ current' = NoConn
    /\ serve' = "accept"
    /\ UNCHANGED <<failures, acceptErr, ctxDone, listener, sem, conns, closed,
                   sessCtxDone, abandoned>>

AcceptLoop ==
    \/ \E c \in Conns : Accept(c)
    \/ AcceptStops \/ AcceptFailsForNow \/ RetryAccept \/ AcceptFails
    \/ Admit \/ Reject \/ Register \/ Spawn

-----------------------------------------------------------------------------
(* A session, up to the last of its deferred calls. *)

\* ServeConn returns or panics; handle recovers and closes the connection.
SessionEnds(c) ==
    /\ session[c] = "running"
    /\ session' = [session EXCEPT ![c] = "ended"]
    /\ closed' = closed \cup {c}
    /\ UNCHANGED <<serve, loopVars, ctxDone, listener, sem, conns, sessCtxDone,
                   abandoned>>

\* Slip: the slot is not released.
KeepSlot(c) ==
    /\ session[c] = "ended"
    /\ session' = [session EXCEPT ![c] = "released"]
    /\ UNCHANGED <<serve, loopVars, ctxDone, listener, sem, conns, closed,
                   sessCtxDone, abandoned>>

ReleaseSlot(c) ==
    /\ session[c] = "ended"
    /\ session' = [session EXCEPT ![c] = "released"]
    /\ sem' = IF MaxConns > 0 THEN sem - 1 ELSE sem
    /\ UNCHANGED <<serve, loopVars, ctxDone, listener, conns, closed,
                   sessCtxDone, abandoned>>

Unregister(c) ==
    /\ session[c] = "released"
    /\ session' = [session EXCEPT ![c] = "gone"]
    /\ conns' = conns \ {c}
    /\ UNCHANGED <<serve, loopVars, ctxDone, listener, sem, closed, sessCtxDone,
                   abandoned>>

-----------------------------------------------------------------------------
(* The shutdown. *)

\* Slip: what is waited for is the handlers, not the goroutines.
HandlersDone == In({"running"}) = {}

\* sessions.Wait: the goroutines of sessions.Go have returned.
AllDone == In({"running", "ended", "released"}) = {}

Drained ==
    /\ serve \in {"drain", "drainAgain"}
    /\ AllDone
    /\ serve' = "returned"
    /\ sessCtxDone' = TRUE
    /\ UNCHANGED <<loopVars, ctxDone, listener, sessionVars, abandoned>>

\* Slip: a positive timeout never elapses.
DrainTimesOutUnset ==
    /\ serve = "drain"
    /\ ~ DrainTimeout
    /\ serve' = "close"
    /\ sessCtxDone' = TRUE
    /\ UNCHANGED <<loopVars, ctxDone, listener, sessionVars, abandoned>>

DrainTimesOut ==
    /\ serve = "drain"
    /\ DrainTimeout
    /\ serve' = "close"
    /\ sessCtxDone' = TRUE
    /\ UNCHANGED <<loopVars, ctxDone, listener, sessionVars, abandoned>>

ForceClose ==
    /\ serve = "close"
    /\ closed' = closed \cup conns
    /\ serve' = "drainAgain"
    /\ UNCHANGED <<loopVars, ctxDone, listener, session, sem, conns, sessCtxDone,
                   abandoned>>

DrainTimesOutAgain ==
    /\ serve = "drainAgain"
    /\ DrainTimeout
    /\ abandoned' = ~ AllDone
    /\ serve' = "returned"
    /\ UNCHANGED <<loopVars, ctxDone, listener, sessionVars, sessCtxDone>>

Shutdown == Drained \/ DrainTimesOut \/ ForceClose \/ DrainTimesOutAgain

-----------------------------------------------------------------------------

Next ==
    \/ \E c \in Conns : Connect(c)
    \/ Cancel \/ CloseListener
    \/ AcceptLoop
    \/ \E c \in Conns : SessionEnds(c) \/ ReleaseSlot(c) \/ Unregister(c)
    \/ Shutdown

(***************************************************************************)
(* Serve runs and its timers fire; AfterFunc closes the listener of a      *)
(* canceled ctx; a session that ends runs its deferred calls.  No session  *)
(* has to end, not even one whose context is canceled and whose connection *)
(* is closed: what is left after the second drain is abandoned.            *)
(***************************************************************************)
Spec ==
    /\ Init /\ [][Next]_vars
    /\ WF_vars(AcceptLoop)
    /\ WF_vars(CloseListener /\ ctxDone)
    /\ WF_vars(Shutdown)
    /\ \A c \in Conns :
          /\ WF_vars(ReleaseSlot(c))
          /\ WF_vars(Unregister(c))

-----------------------------------------------------------------------------
(* Properties. *)

(***************************************************************************)
(* Never more sessions than MaxConns run, and no slot leaks: the slots     *)
(* taken are those of sessions that have not released theirs and of a      *)
(* connection about to become one.                                         *)
(***************************************************************************)
SlotsMatchSessions ==
    MaxConns > 0 =>
        /\ sem = Cardinality(In({"running", "ended"}))
                   + (IF serve \in {"register", "spawn"} THEN 1 ELSE 0)
        /\ sem <= MaxConns

(***************************************************************************)
(* After the forced close no running session has a connection that is      *)
(* still open: none was admitted, spawned or dropped from the map in a way *)
(* the close could miss.                                                   *)
(***************************************************************************)
ForceCloseMissesNone ==
    serve = "drainAgain" => In({"running"}) \subseteq closed

(***************************************************************************)
(* When Serve returns without abandoning anything, every connection it     *)
(* accepted has been closed and its session is gone, map and slots         *)
(* included.                                                               *)
(***************************************************************************)
NothingLeftBehind ==
    serve = "returned" /\ ~ abandoned =>
        /\ In({"accepted", "running", "ended", "released"}) = {}
        /\ In({"rejected", "gone"}) \subseteq closed
        /\ conns = {} /\ sem = 0

(***************************************************************************)
(* Shutdown does not interrupt sessions: a connection is closed under a    *)
(* running session only after DrainTimeout elapsed, and never without one. *)
(***************************************************************************)
SessionsDetached ==
    (In({"running"}) \cap closed # {} \/ sessCtxDone) =>
        \/ DrainTimeout /\ serve \in {"close", "drainAgain", "returned"}
        \/ serve = "returned" /\ AllDone

(***************************************************************************)
(* Serve keeps its promise: seen from outside, where a connection counts   *)
(* as a session while its handler runs, its loop, its slots, its map and   *)
(* its two drains do what ServerPromise says and nothing else.             *)
(***************************************************************************)
Phase ==
    CASE serve \in {"drain", "close"} -> "draining"
      [] serve = "drainAgain"         -> "cut"
      [] serve = "returned"           -> "done"
      [] OTHER                        -> "serving"

Promise == INSTANCE ServerPromise WITH
    phase <- Phase,
    live  <- In({"running"}),
    cut   <- In({"running"}) \cap closed

KeepsPromise == Promise!Spec

(***************************************************************************)
(* Once ctx is canceled or the listener is closed Serve returns, whatever  *)
(* its sessions do, as long as a DrainTimeout is set.                      *)
(***************************************************************************)
ServeReturns ==
    ctxDone \/ listener = "closed" \/ acceptErr ~> serve = "returned"

(***************************************************************************)
(* No client waits for another one's session: while Serve accepts, a       *)
(* connection becomes a session or is closed, even with every slot taken   *)
(* by sessions that never end ("connections beyond the cap are closed as   *)
(* soon as they are accepted") and accept failures in between.             *)
(***************************************************************************)
NobodyQueues ==
    \A c \in Conns :
        session[c] = "backlog" ~>
            \/ session[c] \notin {"backlog", "accepted"}
            \/ serve \in {"drain", "close", "drainAgain", "returned"}
=============================================================================
