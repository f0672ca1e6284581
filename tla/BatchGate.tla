------------------------------ MODULE BatchGate ------------------------------
(***************************************************************************)
(* What the policy filter promises both ends of a session, without saying  *)
(* how it keeps track: the doc comment of copyMessages in                  *)
(* internal/proxy/pg/pg.go.                                                *)
(*                                                                         *)
(* Every exchange is ended by exactly one ReadyForQuery, the backend's or  *)
(* the proxy's.  A denied batch is ended by the proxy if the backend never *)
(* saw any of it, by the backend otherwise, and in between the backend     *)
(* gets nothing of it.                                                     *)
(***************************************************************************)
EXTENDS Naturals

VARIABLES
    phase,      \* "open", "denied" until the batch's Sync, or "closed"
    exposed,    \* the backend holds a part of a batch that is not ended
    byBackend,  \* exchanges handed to the backend to end
    byProxy     \* exchanges the proxy took on to end

vars == <<phase, exposed, byBackend, byProxy>>

Init ==
    /\ phase = "open"
    /\ exposed = FALSE
    /\ byBackend = 0
    /\ byProxy = 0

\* A part of the batch is released before its Sync.
Expose ==
    /\ phase = "open"
    /\ exposed' = TRUE
    /\ UNCHANGED <<phase, byBackend, byProxy>>

\* A Sync or an allowed Query: the backend ends everything it was sent.
HandOver ==
    /\ phase = "open"
    /\ exposed' = FALSE
    /\ byBackend' = byBackend + 1
    /\ UNCHANGED <<phase, byProxy>>

\* A blocked Query or a fast-path call; a Query releases the batch first.
Refuse ==
    /\ phase = "open"
    /\ exposed' \in {exposed, TRUE}
    /\ byProxy' = byProxy + 1
    /\ UNCHANGED <<phase, byBackend>>

Deny ==
    /\ phase = "open"
    /\ phase' = "denied"
    /\ UNCHANGED <<exposed, byBackend, byProxy>>

Settle ==
    /\ phase = "denied"
    /\ phase' = "open"
    /\ exposed' = FALSE
    /\ byBackend' = IF exposed THEN byBackend + 1 ELSE byBackend
    /\ byProxy' = IF exposed THEN byProxy ELSE byProxy + 1

\* The pump ends; the last message may have released the batch.
Shut ==
    /\ phase' = "closed"
    /\ exposed' \in {exposed, TRUE}
    /\ UNCHANGED <<byBackend, byProxy>>

Next == Expose \/ HandOver \/ Refuse \/ Deny \/ Settle \/ Shut

Spec == Init /\ [][Next]_vars
=============================================================================
