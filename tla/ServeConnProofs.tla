--------------------------- MODULE ServeConnProofs ---------------------------
(***************************************************************************)
(* The safety of a session's start, for any number of startup packets and  *)
(* any maxStartupReads.  IInv ties what ServeConn has read, answered and   *)
(* opened to where it stands.                                              *)
(***************************************************************************)
EXTENDS ServeConn, TLAPS

\* What is decided by the time ServeConn stands where it stands.
PhaseOK ==
    /\ phase = "read" => reads < MaxStartupReads
    /\ phase = "deny" => reads > 0
    /\ phase \in {"read", "deny"} => startup = "none"
    /\ phase \in {"clear", "dial", "forward", "relay"} =>
          startup # "none" /\ reads > 0
    /\ phase \in {"read", "deny", "clear", "dial"} => upstream = "none"
    /\ phase \in {"read", "deny", "clear", "dial", "forward"} => forwarded = <<>>
    /\ phase = "ended" <=> outcome # "none"

IInv ==
    /\ TypeOK
    /\ PhaseOK
    /\ NoDeadlineOnRelay
    /\ UpstreamReleased
    /\ AnswersMatchRequests

\* An accepted client has been answered nothing.
LEMMA InitIInv == Init => IInv
<1> SUFFICES ASSUME Init PROVE IInv
  OBVIOUS
<1> USE ServeConnAssumption DEF Init
<1>1. TypeOK
  <2>1. packets \in Seq(Sendable) /\ forwarded \in Seq(Sendable)
    OBVIOUS
  <2>2. answers \in Seq({"N", "Fatal"})
    OBVIOUS
  <2>3. reads \in 0 .. MaxStartupReads /\ sent \in 0 .. MaxPackets
    OBVIOUS
  <2> QED
    BY <2>1, <2>2, <2>3 DEF TypeOK, Phases
<1>2. AnswersMatchRequests
  <2>1. Len(answers) = 0 /\ DOMAIN answers = {}
    OBVIOUS
  <2> QED
    BY <2>1 DEF AnswersMatchRequests
<1> QED
  BY <1>1, <1>2 DEF IInv, PhaseOK, NoDeadlineOnRelay, UpstreamReleased

\* The client, the clock and the server around it leave IInv alone.
LEMMA OutsideIInv ==
    ASSUME IInv,
           \/ \E packet \in Sendable : ClientSends(packet)
           \/ ClientLeaves \/ DeadlineExpires \/ ForceClose
    PROVE  IInv'
<1> USE DEF IInv, TypeOK, PhaseOK, NoDeadlineOnRelay, UpstreamReleased,
            AnswersMatchRequests, Phases
<1>1. ASSUME NEW packet \in Sendable, ClientSends(packet) PROVE IInv'
  BY <1>1, ServeConnAssumption DEF ClientSends
<1>2. CASE ClientLeaves
  BY <1>2 DEF ClientLeaves
<1>3. CASE DeadlineExpires
  BY <1>3 DEF DeadlineExpires, clientSide
<1>4. CASE ForceClose
  BY <1>4 DEF ForceClose
<1> QED
  BY <1>1, <1>2, <1>3, <1>4

\* So does every step of ServeConn, whatever it finds.
LEMMA ServeIInv == ASSUME IInv, Serve PROVE IInv'
<1> USE ServeConnAssumption
    DEF IInv, TypeOK, PhaseOK, NoDeadlineOnRelay, UpstreamReleased,
        AnswersMatchRequests, Phases
<1>1. CASE ReadStartup
  <2>1. Head(packets) \in Sendable /\ packets' \in Seq(Sendable)
    BY <1>1 DEF ReadStartup
  <2>2. Head(packets) \notin Encryption => Head(packets) \in {"Startup", "CancelRequest"}
    BY <1>1, <2>1 DEF ReadStartup, Sendable
  <2> QED
    BY <1>1, <2>1, <2>2 DEF ReadStartup
<1>2. CASE ReadFails
  BY <1>2 DEF ReadFails, Return, clientSide
<1>3. CASE DenyEncryption
  BY <1>3 DEF DenyEncryption, Return, clientSide
<1>4. CASE DenyFails
  BY <1>4 DEF DenyFails, Return, clientSide
<1>5. CASE ClearDeadline
  BY <1>5 DEF ClearDeadline, Return, clientSide
<1>6. CASE DialSucceeds
  BY <1>6 DEF DialSucceeds, clientSide
<1>7. CASE DialFails
  BY <1>7 DEF DialFails, Return, clientSide
<1>8. CASE ForwardStartup
  <2>1. forwarded' \in Seq(Sendable)
    BY <1>8 DEF ForwardStartup, Sendable
  <2> QED
    BY <1>8, <2>1 DEF ForwardStartup, Return, clientSide
<1>9. CASE ForwardFails
  BY <1>9 DEF ForwardFails, Return, clientSide
<1> QED
  BY <1>1, <1>2, <1>3, <1>4, <1>5, <1>6, <1>7, <1>8, <1>9 DEF Serve

\* So does the end of the relay, and doing nothing.
LEMMA StepIInv == IInv /\ [Next]_vars => IInv'
<1> SUFFICES ASSUME IInv, [Next]_vars PROVE IInv'
  OBVIOUS
<1>1. CASE RelayEnds
  BY <1>1
  DEF RelayEnds, Return, clientSide, IInv, TypeOK, PhaseOK,
      NoDeadlineOnRelay, UpstreamReleased, AnswersMatchRequests, Phases
<1>2. CASE UNCHANGED vars
  BY <1>2
  DEF vars, clientSide, IInv, TypeOK, PhaseOK, NoDeadlineOnRelay,
      UpstreamReleased, AnswersMatchRequests, Phases
<1> QED
  BY <1>1, <1>2, OutsideIInv, ServeIInv DEF Next

\* So IInv holds of every state a session's start may reach.
LEMMA AlwaysIInv == Spec => []IInv
  BY InitIInv, StepIInv, PTL DEF Spec

\* Every variable of the session's start keeps its type.
THEOREM TypeCorrect == Spec => []TypeOK
<1>1. IInv => TypeOK
  BY DEF IInv
<1> QED
  BY <1>1, AlwaysIInv, PTL

\* No session is relayed under its startup deadline.
THEOREM DeadlineIsOff == Spec => []NoDeadlineOnRelay
<1>1. IInv => NoDeadlineOnRelay
  BY DEF IInv
<1> QED
  BY <1>1, AlwaysIInv, PTL

\* No way out of ServeConn leaks the upstream connection.
THEOREM UpstreamIsReleased == Spec => []UpstreamReleased
<1>1. IInv => UpstreamReleased
  BY DEF IInv
<1> QED
  BY <1>1, AlwaysIInv, PTL

\* A client is answered once per request for encryption, then at most once more.
THEOREM AnswersAreOwed == Spec => []AnswersMatchRequests
<1>1. IInv => AnswersMatchRequests
  BY DEF IInv
<1> QED
  BY <1>1, AlwaysIInv, PTL
=============================================================================
