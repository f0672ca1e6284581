----------------------------- MODULE ServerPromise -----------------------------
(***************************************************************************)
(* What Server promises to whoever runs it, whatever its loop, its map and *)
(* its deferred calls do: a limited number of sessions at a time, no new   *)
(* one once it is told to stop, none interrupted before the drain timed    *)
(* out, all of them cut then, and no return while one is left uncut.       *)
(***************************************************************************)
EXTENDS Naturals, FiniteSets

CONSTANTS
    Conns,
    MaxConns,      \* cap on concurrent sessions, 0 for none
    DrainTimeout   \* whether a DrainTimeout is set

VARIABLES
    phase,   \* "serving", "draining", "cut" or "done"
    live,    \* the sessions that run
    cut      \* those of them whose connection the server has closed

vars == <<phase, live, cut>>

Init == phase = "serving" /\ live = {} /\ cut = {}

Admit(c) ==
    /\ phase = "serving"
    /\ c \notin live
    /\ MaxConns > 0 => Cardinality(live) < MaxConns
    /\ live' = live \cup {c}
    /\ UNCHANGED <<phase, cut>>

Finish(c) ==
    /\ c \in live
    /\ live' = live \ {c}
    /\ cut' = cut \ {c}
    /\ UNCHANGED phase

Stop ==
    /\ phase = "serving"
    /\ phase' = "draining"
    /\ UNCHANGED <<live, cut>>

\* The drain timed out.
CutAll ==
    /\ phase = "draining"
    /\ DrainTimeout
    /\ phase' = "cut"
    /\ cut' = live
    /\ UNCHANGED live

Return ==
    /\ \/ phase = "draining" /\ live = {}
       \/ phase = "cut"
    /\ phase' = "done"
    /\ UNCHANGED <<live, cut>>

Next ==
    \/ \E c \in Conns : Admit(c) \/ Finish(c)
    \/ Stop \/ CutAll \/ Return

Spec == Init /\ [][Next]_vars
=============================================================================
