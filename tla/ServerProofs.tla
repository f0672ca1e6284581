------------------------------ MODULE ServerProofs ------------------------------
(***************************************************************************)
(* Server's safety properties, and that it implements ServerPromise, for   *)
(* any set of connections, connection limit, drain timeout and number of   *)
(* accept failures.                                                        *)
(*                                                                         *)
(* The inductive invariant says, for each place Serve may stand at, whose  *)
(* the connection it deals with is, whose the slots are, which connections *)
(* are in the map, and which are closed.                                   *)
(***************************************************************************)
EXTENDS Server, FiniteSetTheorems, TLAPS

Slotted == In({"running", "ended"})

\* The connection between Accept and its session, if there is one.
CurrentOK ==
    /\ serve \in {"admit", "register", "spawn"} =>
          current \in Conns /\ In({"accepted"}) = {current}
    /\ serve \notin {"admit", "register", "spawn"} => In({"accepted"}) = {}

\* A slot is reserved between admission and the session's start.
SlotsOK ==
    /\ IsFiniteSet(Slotted)
    /\ IF MaxConns > 0
       THEN sem = Cardinality(Slotted)
                    + (IF serve \in {"register", "spawn"} THEN 1 ELSE 0)
       ELSE sem = 0
    /\ sem <= MaxConns
    /\ serve = "admit" => MaxConns > 0

MapOK == conns = In({"running", "ended", "released"})
                   \cup (IF serve = "spawn" THEN {current} ELSE {})

ClosedOK ==
    /\ In({"rejected", "ended", "released", "gone"}) \subseteq closed
    /\ closed \cap In({"unborn", "backlog", "accepted"}) = {}
    /\ closed \cap In({"running"}) # {} => serve \in {"drainAgain", "returned"}
    /\ serve = "drainAgain" => In({"running"}) \subseteq closed

ShutdownOK ==
    /\ serve \in {"close", "drainAgain"} => DrainTimeout
    /\ serve = "returned" => DrainTimeout \/ AllDone
    /\ serve = "returned" /\ ~ abandoned => AllDone
    /\ sessCtxDone => serve \in {"close", "drainAgain", "returned"}

IInv == TypeOK /\ CurrentOK /\ SlotsOK /\ MapOK /\ ClosedOK /\ ShutdownOK

-----------------------------------------------------------------------------

\* Nothing is connected, taken or closed before Serve starts.
LEMMA InitIInv == Init => IInv
<1> SUFFICES ASSUME Init PROVE IInv
  OBVIOUS
<1> USE ServerAssumption DEF Init
<1>1. \A S : "unborn" \notin S => In(S) = {}
  BY DEF In
<1>2. TypeOK
  <2>1. session \in [Conns -> SessionState]
    BY DEF SessionState
  <2>2. failures \in 0 .. MaxFailures /\ sem \in Nat
    OBVIOUS
  <2> QED
    BY <2>1, <2>2 DEF TypeOK, ServePC
<1>3. CurrentOK /\ MapOK /\ ClosedOK /\ ShutdownOK
  BY <1>1 DEF CurrentOK, MapOK, ClosedOK, ShutdownOK
<1>4. Slotted = {}
  BY <1>1 DEF Slotted
<1>5. SlotsOK
  BY <1>4, FS_EmptySet DEF SlotsOK
<1> QED
  BY <1>2, <1>3, <1>5 DEF IInv

\* What is in a set of connections, and how a step changes the set.
LEMMA InMembers ==
    ASSUME NEW S
    PROVE  /\ In(S) \subseteq Conns
           /\ \A c \in Conns : c \in In(S) <=> session[c] \in S
  BY DEF In

\* One connection moves on: the set gains it or loses it.
LEMMA InAfter ==
    ASSUME TypeOK, NEW c \in Conns, NEW new,
           session' = [session EXCEPT ![c] = new]
    PROVE  \A S : In(S)' = IF new \in S THEN In(S) \cup {c} ELSE In(S) \ {c}
  BY DEF In, TypeOK

\* Nothing else changes the set.
LEMMA InKept ==
    ASSUME UNCHANGED session
    PROVE  \A S : In(S)' = In(S)
  BY DEF In

\* A step that touches no session, slot, map or connection.
LEMMA LoopStep ==
    ASSUME IInv, UNCHANGED <<session, sem, conns, closed, sessCtxDone, abandoned>>,
           serve' \in ServePC \ {"register", "spawn", "close", "drainAgain", "returned"},
           serve \notin {"register", "spawn", "close", "drainAgain", "returned"},
           serve' = "admit" <=> serve = "admit",
           current' = current, failures' \in 0 .. MaxFailures,
           acceptErr' \in BOOLEAN, ctxDone' \in BOOLEAN,
           listener' \in {"open", "closed"}
    PROVE  IInv'
<1> USE InKept, ServerAssumption DEF IInv
<1>1. TypeOK'
  BY DEF TypeOK
<1>2. CurrentOK' /\ MapOK'
  BY DEF CurrentOK, MapOK, ServePC
<1>3. SlotsOK'
  BY DEF SlotsOK, Slotted, ServePC
<1>4. ClosedOK' /\ ShutdownOK'
  BY DEF ClosedOK, ShutdownOK, AllDone, ServePC
<1> QED
  BY <1>1, <1>2, <1>3, <1>4

-----------------------------------------------------------------------------

\* The environment and the accept loop keep IInv.
LEMMA AcceptStep ==
    ASSUME IInv,
           (\E c \in Conns : Connect(c)) \/ Cancel \/ CloseListener \/ AcceptLoop
    PROVE  IInv'
<1> USE ServerAssumption
<1>0. TypeOK /\ CurrentOK /\ SlotsOK /\ MapOK /\ ClosedOK /\ ShutdownOK
  BY DEF IInv
<1>1. ASSUME NEW c \in Conns, Connect(c) PROVE IInv'
  <2> USE <1>0, <1>1 DEF Connect, loopVars
  <2>1. \A S : In(S)' = IF "backlog" \in S THEN In(S) \cup {c} ELSE In(S) \ {c}
    BY InAfter
  <2>2. \A S : "unborn" \notin S => c \notin In(S)
    BY InMembers
  <2>3. \A S : "unborn" \notin S /\ "backlog" \notin S => In(S)' = In(S)
    BY <2>1, <2>2
  <2>4. TypeOK'
    BY DEF TypeOK, SessionState
  <2>5. CurrentOK' /\ MapOK'
    BY <2>3 DEF CurrentOK, MapOK
  <2>6. SlotsOK'
    BY <2>3 DEF SlotsOK, Slotted
  <2>7. ClosedOK'
    <3>1. c \notin closed
      BY InMembers DEF ClosedOK
    <3> QED
      BY <2>1, <2>3, <3>1 DEF ClosedOK
  <2>8. ShutdownOK'
    BY <2>3 DEF ShutdownOK, AllDone
  <2> QED
    BY <2>4, <2>5, <2>6, <2>7, <2>8 DEF IInv
<1>2. CASE Cancel \/ CloseListener
  <2> USE <1>0, <1>2, InKept DEF Cancel, CloseListener, loopVars, sessionVars
  <2>1. TypeOK'
    BY DEF TypeOK
  <2>2. CurrentOK' /\ SlotsOK' /\ MapOK'
    BY DEF CurrentOK, SlotsOK, MapOK, Slotted
  <2>3. ClosedOK' /\ ShutdownOK'
    BY DEF ClosedOK, ShutdownOK, AllDone
  <2> QED
    BY <2>1, <2>2, <2>3 DEF IInv
<1>3. ASSUME NEW c \in Conns, Accept(c) PROVE IInv'
  <2> USE <1>0, <1>3 DEF Accept
  <2>1. \A S : In(S)' = IF "accepted" \in S THEN In(S) \cup {c} ELSE In(S) \ {c}
    BY InAfter
  <2>2. \A S : "backlog" \notin S => c \notin In(S)
    BY InMembers
  <2>3. \A S : "backlog" \notin S /\ "accepted" \notin S => In(S)' = In(S)
    BY <2>1, <2>2
  <2>4. TypeOK'
    BY DEF TypeOK, SessionState, ServePC
  <2>5. CurrentOK'
    BY <2>1 DEF CurrentOK
  <2>6. MapOK'
    BY <2>3 DEF MapOK
  <2>7. SlotsOK'
    BY <2>3 DEF SlotsOK, Slotted
  <2>8. ClosedOK'
    <3>1. c \notin closed
      BY InMembers DEF ClosedOK
    <3> QED
      BY <2>1, <2>3, <3>1 DEF ClosedOK
  <2>9. ShutdownOK'
    BY <2>3 DEF ShutdownOK, AllDone
  <2> QED
    BY <2>4, <2>5, <2>6, <2>7, <2>8, <2>9 DEF IInv
<1>4. CASE AcceptStops \/ AcceptFailsForNow \/ RetryAccept \/ AcceptFails
  <2> USE <1>0, <1>4 DEF AcceptStops, AcceptFailsForNow, RetryAccept, AcceptFails,
                         loopVars, sessionVars
  <2>1. failures' \in 0 .. MaxFailures
    BY DEF TypeOK
  <2>2. acceptErr' \in BOOLEAN /\ ctxDone' \in BOOLEAN /\ listener' \in {"open", "closed"}
    BY DEF TypeOK
  <2> QED
    BY <2>1, <2>2, LoopStep DEF ServePC, IInv
<1>5. CASE Admit
  <2> USE <1>0, <1>5, InKept DEF Admit, loopVars
  <2>1. TypeOK'
    BY DEF TypeOK, ServePC
  <2>2. CurrentOK' /\ MapOK'
    BY DEF CurrentOK, MapOK
  <2>3. SlotsOK'
    BY FS_CardinalityType DEF SlotsOK, Slotted, TypeOK
  <2>4. ClosedOK' /\ ShutdownOK'
    BY DEF ClosedOK, ShutdownOK, AllDone
  <2> QED
    BY <2>1, <2>2, <2>3, <2>4 DEF IInv
<1>6. CASE Reject
  <2> USE <1>0, <1>6 DEF Reject
  <2>0. current \in Conns /\ In({"accepted"}) = {current}
    BY DEF CurrentOK
  <2>1. \A S : In(S)' = IF "rejected" \in S THEN In(S) \cup {current} ELSE In(S) \ {current}
    BY <2>0, InAfter
  <2>2. \A S : "accepted" \notin S => current \notin In(S)
    BY <2>0, InMembers
  <2>3. \A S : "accepted" \notin S /\ "rejected" \notin S => In(S)' = In(S)
    BY <2>1, <2>2
  <2>4. TypeOK'
    BY <2>0 DEF TypeOK, SessionState, ServePC
  <2>5. CurrentOK' /\ MapOK'
    BY <2>0, <2>1, <2>3 DEF CurrentOK, MapOK
  <2>6. SlotsOK'
    BY <2>3 DEF SlotsOK, Slotted
  <2>7. ClosedOK'
    BY <2>0, <2>1, <2>2, <2>3 DEF ClosedOK
  <2>8. ShutdownOK'
    BY <2>3 DEF ShutdownOK, AllDone
  <2> QED
    BY <2>4, <2>5, <2>6, <2>7, <2>8 DEF IInv
<1>7. CASE Register
  <2> USE <1>0, <1>7, InKept DEF Register, loopVars
  <2>1. TypeOK'
    BY DEF TypeOK, ServePC, CurrentOK
  <2>2. CurrentOK' /\ MapOK'
    BY DEF CurrentOK, MapOK
  <2>3. SlotsOK'
    BY DEF SlotsOK, Slotted
  <2>4. ClosedOK' /\ ShutdownOK'
    BY DEF ClosedOK, ShutdownOK, AllDone
  <2> QED
    BY <2>1, <2>2, <2>3, <2>4 DEF IInv
<1>8. CASE Spawn
  <2> USE <1>0, <1>8 DEF Spawn
  <2>0. current \in Conns /\ In({"accepted"}) = {current}
    BY DEF CurrentOK
  <2>1. \A S : In(S)' = IF "running" \in S THEN In(S) \cup {current} ELSE In(S) \ {current}
    BY <2>0, InAfter
  <2>2. \A S : "accepted" \notin S => current \notin In(S)
    BY <2>0, InMembers
  <2>3. \A S : "accepted" \notin S /\ "running" \notin S => In(S)' = In(S)
    BY <2>1, <2>2
  <2>4. TypeOK'
    BY <2>0 DEF TypeOK, SessionState, ServePC
  <2>5. CurrentOK' /\ MapOK'
    BY <2>0, <2>1 DEF CurrentOK, MapOK
  <2>6. SlotsOK'
    <3>1. Slotted' = Slotted \cup {current} /\ current \notin Slotted
      BY <2>1, <2>2 DEF Slotted
    <3>2. IsFiniteSet(Slotted') /\ Cardinality(Slotted') = Cardinality(Slotted) + 1
      BY <3>1, FS_AddElement DEF SlotsOK
    <3> QED
      BY <3>2, FS_CardinalityType DEF SlotsOK
  <2>7. ClosedOK'
    <3>1. current \notin closed
      BY <2>0 DEF ClosedOK, In
    <3> QED
      BY <2>0, <2>1, <2>3, <3>1 DEF ClosedOK
  <2>8. ShutdownOK'
    BY DEF ShutdownOK
  <2> QED
    BY <2>4, <2>5, <2>6, <2>7, <2>8 DEF IInv
<1> QED
  BY <1>1, <1>2, <1>3, <1>4, <1>5, <1>6, <1>7, <1>8 DEF AcceptLoop
\* A session that ends, and the calls it has deferred, keep IInv.
LEMMA SessionStep ==
    ASSUME IInv, NEW c \in Conns, SessionEnds(c) \/ ReleaseSlot(c) \/ Unregister(c)
    PROVE  IInv'
<1> USE ServerAssumption
<1>0. TypeOK /\ CurrentOK /\ SlotsOK /\ MapOK /\ ClosedOK /\ ShutdownOK
  BY DEF IInv
<1>1. serve = "spawn" => current # c
  BY <1>0 DEF CurrentOK, In, SessionEnds, ReleaseSlot, Unregister
<1>2. CASE SessionEnds(c)
  <2> USE <1>0, <1>2 DEF SessionEnds, loopVars
  <2>1. \A S : In(S)' = IF "ended" \in S THEN In(S) \cup {c} ELSE In(S) \ {c}
    BY InAfter
  <2>2. \A S : c \in In(S) <=> "running" \in S
    BY InMembers
  <2>3. TypeOK'
    BY DEF TypeOK, SessionState
  <2>4. CurrentOK' /\ MapOK'
    BY <2>1, <2>2 DEF CurrentOK, MapOK
  <2>5. SlotsOK'
    BY <2>1, <2>2 DEF SlotsOK, Slotted
  <2>6. ClosedOK'
    BY <2>1, <2>2 DEF ClosedOK
  <2>7. ShutdownOK'
    BY <2>1, <2>2 DEF ShutdownOK, AllDone
  <2> QED
    BY <2>3, <2>4, <2>5, <2>6, <2>7 DEF IInv
<1>3. CASE ReleaseSlot(c)
  <2> USE <1>0, <1>3 DEF ReleaseSlot, loopVars
  <2>1. \A S : In(S)' = IF "released" \in S THEN In(S) \cup {c} ELSE In(S) \ {c}
    BY InAfter
  <2>2. \A S : c \in In(S) <=> "ended" \in S
    BY InMembers
  <2>3. /\ IsFiniteSet(Slotted') /\ Cardinality(Slotted') = Cardinality(Slotted) - 1
        /\ Cardinality(Slotted) \in Nat /\ Cardinality(Slotted') \in Nat
    <3>1. Slotted' = Slotted \ {c} /\ c \in Slotted
      BY <2>1, <2>2 DEF Slotted
    <3> QED
      BY <3>1, FS_RemoveElement, FS_CardinalityType DEF SlotsOK
  <2>4. sem' \in Nat /\ SlotsOK'
    BY <2>3 DEF SlotsOK, TypeOK
  <2>5. TypeOK'
    BY <2>4 DEF TypeOK, SessionState
  <2>6. CurrentOK' /\ MapOK'
    BY <2>1, <2>2 DEF CurrentOK, MapOK
  <2>7. ClosedOK'
    BY <2>1, <2>2 DEF ClosedOK
  <2>8. ShutdownOK'
    BY <2>1, <2>2 DEF ShutdownOK, AllDone
  <2> QED
    BY <2>4, <2>5, <2>6, <2>7, <2>8 DEF IInv
<1>4. CASE Unregister(c)
  <2> USE <1>0, <1>4 DEF Unregister, loopVars
  <2>1. \A S : In(S)' = IF "gone" \in S THEN In(S) \cup {c} ELSE In(S) \ {c}
    BY InAfter
  <2>2. \A S : c \in In(S) <=> "released" \in S
    BY InMembers
  <2>3. TypeOK'
    BY DEF TypeOK, SessionState
  <2>4. CurrentOK' /\ MapOK'
    BY <1>1, <2>1, <2>2 DEF CurrentOK, MapOK
  <2>5. SlotsOK'
    BY <2>1, <2>2 DEF SlotsOK, Slotted
  <2>6. ClosedOK'
    BY <2>1, <2>2 DEF ClosedOK
  <2>7. ShutdownOK'
    BY <2>1, <2>2 DEF ShutdownOK, AllDone
  <2> QED
    BY <2>3, <2>4, <2>5, <2>6, <2>7 DEF IInv
<1> QED
  BY <1>2, <1>3, <1>4

\* So do the drains and the forced close.
LEMMA ShutdownStep ==
    ASSUME IInv, Shutdown
    PROVE  IInv'
<1> USE ServerAssumption, InKept
        DEF Shutdown, Drained, DrainTimesOut, ForceClose, DrainTimesOutAgain,
            loopVars, sessionVars
<1>0. TypeOK /\ CurrentOK /\ SlotsOK /\ MapOK /\ ClosedOK /\ ShutdownOK
  BY DEF IInv
<1>1. UNCHANGED session
  OBVIOUS
<1>2. TypeOK'
  <2>1. closed' \subseteq Conns /\ abandoned' \in BOOLEAN
    BY <1>0 DEF TypeOK, AllDone
  <2> QED
    BY <1>0, <2>1 DEF TypeOK, ServePC
<1>3. CurrentOK' /\ MapOK'
  BY <1>0, <1>1 DEF CurrentOK, MapOK
<1>4. SlotsOK'
  BY <1>0, <1>1 DEF SlotsOK, Slotted
<1>5. ClosedOK'
  <2>1. In({"running"}) \subseteq In({"running", "ended", "released"})
    BY DEF In
  <2>2. In({"running", "ended", "released"}) \cap In({"unborn", "backlog", "accepted"}) = {}
    BY DEF In
  <2> QED
    BY <1>0, <1>1, <2>1, <2>2 DEF ClosedOK, MapOK
<1>6. ShutdownOK'
  BY <1>0, <1>1 DEF ShutdownOK, AllDone
<1> QED
  BY <1>2, <1>3, <1>4, <1>5, <1>6 DEF IInv

\* Every step keeps IInv.
LEMMA StepIInv == IInv /\ [Next]_vars => IInv'
<1> SUFFICES ASSUME IInv, [Next]_vars PROVE IInv'
  OBVIOUS
<1>1. CASE UNCHANGED vars
  BY <1>1, InKept DEF vars, loopVars, sessionVars, IInv, TypeOK, CurrentOK, SlotsOK,
     MapOK, ClosedOK, ShutdownOK, Slotted, AllDone
<1> QED
  BY <1>1, AcceptStep, SessionStep, ShutdownStep DEF Next

\* So IInv holds of every state of the server.
LEMMA AlwaysIInv == Spec => []IInv
  BY InitIInv, StepIInv, PTL DEF Spec

-----------------------------------------------------------------------------

\* Every variable keeps its type; above all, no slot is given back twice.
THEOREM TypeCorrect == Spec => []TypeOK
<1>1. IInv => TypeOK
  BY DEF IInv
<1> QED
  BY <1>1, AlwaysIInv, PTL

\* Never more sessions than MaxConns, and no slot leaks.
THEOREM SlotsAreCounted == Spec => []SlotsMatchSessions
<1>1. IInv => SlotsMatchSessions
  BY DEF IInv, SlotsOK, SlotsMatchSessions, Slotted
<1> QED
  BY <1>1, AlwaysIInv, PTL

\* The forced close reaches every session that runs.
THEOREM ForceCloseIsComplete == Spec => []ForceCloseMissesNone
<1>1. IInv => ForceCloseMissesNone
  BY DEF IInv, ClosedOK, ForceCloseMissesNone
<1> QED
  BY <1>1, AlwaysIInv, PTL

\* A return that abandons nothing leaves nothing: no session, connection, entry or slot.
THEOREM NothingIsLeft == Spec => []NothingLeftBehind
<1>1. IInv => NothingLeftBehind
  <2> SUFFICES ASSUME IInv, serve = "returned", ~ abandoned
               PROVE  /\ In({"accepted", "running", "ended", "released"}) = {}
                      /\ In({"rejected", "gone"}) \subseteq closed
                      /\ conns = {} /\ sem = 0
    BY DEF NothingLeftBehind
  <2>1. In({"running", "ended", "released"}) = {} /\ In({"accepted"}) = {}
    BY DEF IInv, ShutdownOK, AllDone, CurrentOK
  <2>2. In({"accepted", "running", "ended", "released"}) = {} /\ Slotted = {}
    BY <2>1 DEF In, Slotted
  <2>3. In({"rejected", "gone"}) \subseteq closed
    BY DEF IInv, ClosedOK, In
  <2>4. conns = {}
    BY <2>1 DEF IInv, MapOK
  <2>5. sem = 0
    BY <2>2, FS_EmptySet DEF IInv, SlotsOK
  <2> QED
    BY <2>2, <2>3, <2>4, <2>5
<1> QED
  BY <1>1, AlwaysIInv, PTL

\* No session is interrupted before a drain timed out; without a timeout, none ever.
THEOREM SessionsStayDetached == Spec => []SessionsDetached
<1>1. IInv => SessionsDetached
  <2> SUFFICES ASSUME IInv, In({"running"}) \cap closed # {} \/ sessCtxDone
               PROVE  \/ DrainTimeout /\ serve \in {"close", "drainAgain", "returned"}
                      \/ serve = "returned" /\ AllDone
    BY DEF SessionsDetached
  <2> QED
    BY DEF IInv, ClosedOK, ShutdownOK
<1> QED
  BY <1>1, AlwaysIInv, PTL

-----------------------------------------------------------------------------
(***************************************************************************)
(* Serve keeps its promise: each of its steps is one of ServerPromise or   *)
(* leaves what that speaks of alone.                                       *)
(***************************************************************************)

Live == In({"running"})

\* The instance counts as this module does.
LEMMA SameCardinality == \A S : Promise!Cardinality(S) = Cardinality(S)
  BY DEF Promise!Cardinality, Cardinality

\* Serve starts where its promise starts.
LEMMA PromiseInit == Init => Promise!Init
<1> SUFFICES ASSUME Init PROVE Promise!Init
  OBVIOUS
<1>1. Live = {}
  BY DEF Init, In, Live
<1>2. Phase = "serving"
  BY DEF Init, Phase
<1> QED
  BY <1>1, <1>2 DEF Promise!Init, Live

\* Promise!vars stays when the sessions, the closed connections and the phase do.
LEMMA Stutter ==
    ASSUME UNCHANGED Live, Live' \cap closed' = Live \cap closed, UNCHANGED Phase
    PROVE  UNCHANGED Promise!vars
  BY DEF Promise!vars, Live

\* Each step of Serve, its sessions or their clients is one of the promise's, or none.
LEMMA PromiseStep == IInv /\ [Next]_vars => [Promise!Next]_Promise!vars
<1> SUFFICES ASSUME IInv, [Next]_vars PROVE [Promise!Next]_Promise!vars
  OBVIOUS
<1> USE ServerAssumption
<1>0. TypeOK /\ CurrentOK /\ SlotsOK /\ MapOK /\ ClosedOK /\ ShutdownOK
  BY DEF IInv
<1>1. CASE \E c \in Conns : Connect(c) \/ Accept(c)
  <2>1. UNCHANGED Live /\ UNCHANGED closed
    BY <1>0, <1>1 DEF Connect, Accept, Live, In, TypeOK
  <2>2. UNCHANGED Phase
    BY <1>1 DEF Connect, Accept, Phase
  <2> QED
    BY <2>1, <2>2, Stutter
<1>2. CASE Cancel \/ CloseListener \/ AcceptFailsForNow \/ RetryAccept \/ Admit \/ Register
           \/ DrainTimesOut \/ UNCHANGED vars
  <2> USE <1>2 DEF Cancel, CloseListener, AcceptFailsForNow, RetryAccept, Admit, Register,
                   DrainTimesOut, vars, loopVars, sessionVars
  <2>1. UNCHANGED Live /\ UNCHANGED closed
    BY DEF Live, In
  <2>2. UNCHANGED Phase
    BY DEF Phase
  <2> QED
    BY <2>1, <2>2, Stutter
<1>3. CASE Reject
  <2> USE <1>0, <1>3 DEF Reject
  <2>1. current \in Conns /\ session[current] = "accepted"
    BY DEF CurrentOK, In
  <2>2. UNCHANGED Live /\ current \notin Live
    BY <2>1 DEF Live, In, TypeOK
  <2>3. UNCHANGED Phase
    BY DEF Phase
  <2> QED
    BY <2>2, <2>3, Stutter
<1>4. CASE Spawn
  <2> USE <1>0, <1>4 DEF Spawn
  <2>1. current \in Conns /\ session[current] = "accepted"
    BY DEF CurrentOK, In
  <2>2. Live' = Live \cup {current} /\ current \notin Live
    BY <2>1 DEF Live, In, TypeOK
  <2>3. current \notin closed
    BY <2>1 DEF ClosedOK, In
  <2>4. MaxConns > 0 => Cardinality(Live) < MaxConns
    <3>1. Live \subseteq Slotted
      BY DEF Live, Slotted, In
    <3>2. /\ Cardinality(Live) <= Cardinality(Slotted)
          /\ Cardinality(Live) \in Nat /\ Cardinality(Slotted) \in Nat
      BY <3>1, FS_Subset, FS_CardinalityType DEF SlotsOK
    <3> QED
      BY <3>2 DEF SlotsOK
  <2>5. Phase = "serving" /\ Phase' = "serving"
    BY DEF Phase
  <2>6. (Live \cap closed)' = Live \cap closed
    BY <2>2, <2>3
  <2>7. Promise!Admit(current)
    BY <2>2, <2>4, <2>5, <2>6, SameCardinality DEF Promise!Admit, Live
  <2> QED
    BY <2>1, <2>7 DEF Promise!Next
<1>5. CASE AcceptStops \/ AcceptFails
  <2> USE <1>5 DEF AcceptStops, AcceptFails, loopVars, sessionVars
  <2>1. UNCHANGED Live /\ UNCHANGED closed
    BY DEF Live, In
  <2>2. Phase = "serving" /\ Phase' = "draining"
    BY DEF Phase
  <2> QED
    BY <2>1, <2>2 DEF Promise!Next, Promise!Stop, Live
<1>6. ASSUME NEW c \in Conns, SessionEnds(c) PROVE Promise!Next
  <2> USE <1>0, <1>6 DEF SessionEnds
  <2>1. Live' = Live \ {c} /\ c \in Live
    BY DEF Live, In, TypeOK
  <2>2. UNCHANGED Phase
    BY DEF Phase
  <2>3. Promise!Finish(c)
    BY <2>1, <2>2 DEF Promise!Finish, Live
  <2> QED
    BY <2>3 DEF Promise!Next
<1>7. ASSUME NEW c \in Conns, ReleaseSlot(c) \/ Unregister(c)
      PROVE  UNCHANGED Promise!vars
  <2>1. UNCHANGED Live /\ UNCHANGED closed
    BY <1>0, <1>7 DEF ReleaseSlot, Unregister, Live, In, TypeOK
  <2>2. UNCHANGED Phase
    BY <1>7 DEF ReleaseSlot, Unregister, Phase
  <2> QED
    BY <2>1, <2>2, Stutter
<1>8. CASE ForceClose
  <2> USE <1>0, <1>8 DEF ForceClose, loopVars
  <2>1. UNCHANGED Live /\ Live \subseteq conns
    BY DEF Live, In, MapOK
  <2>2. Phase = "draining" /\ Phase' = "cut"
    BY DEF Phase
  <2>3. Live' \cap closed' = Live
    BY <2>1
  <2> QED
    BY <2>1, <2>2, <2>3 DEF Promise!Next, Promise!CutAll, Live, ShutdownOK
<1>9. CASE Drained \/ DrainTimesOutAgain
  <2> USE <1>9 DEF Drained, DrainTimesOutAgain, loopVars, sessionVars
  <2>1. UNCHANGED Live /\ UNCHANGED closed
    BY DEF Live, In
  <2>2. Phase' = "done" /\ ((Phase = "draining" /\ Live = {}) \/ Phase = "cut")
    BY DEF Phase, AllDone, Live, In
  <2> QED
    BY <2>1, <2>2 DEF Promise!Next, Promise!Return, Live
<1> QED
  BY <1>1, <1>2, <1>3, <1>4, <1>5, <1>6, <1>7, <1>8, <1>9 DEF Next, AcceptLoop, Shutdown

\* Serve implements ServerPromise.
THEOREM ImplementsPromise == Spec => KeepsPromise
  BY PromiseInit, PromiseStep, AlwaysIInv, PTL DEF Spec, KeepsPromise, Promise!Spec
=============================================================================
