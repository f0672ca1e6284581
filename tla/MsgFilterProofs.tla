--------------------------- MODULE MsgFilterProofs ---------------------------
(***************************************************************************)
(* Proofs about MsgFilter, for every budget, wire capacity, policy and set *)
(* of client messages.                                                     *)
(*                                                                         *)
(* The invariants follow together from FilterInv, which adds to them what  *)
(* they rest on: a live pump holds back only batch messages the policy     *)
(* passed, none of them cut off, it holds none while a denied batch is     *)
(* swallowed, and it owes the client nothing while it reads.               *)
(***************************************************************************)
EXTENDS MsgFilter, TLAPS

Forwardable == {m \in WireMessage : ~ Refused(m)}

Holdable == {m \in WireMessage : m.type \in HeldTypes /\ ~ Refused(m)}

ReplyMatchesPC ==
    /\ pc = "read" => reply.ready = "none"
    /\ pc = "status" => reply.ready = "due"
    /\ pc = "write" => reply.ready # "due"

FilterInv ==
    /\ TypeOK
    /\ upstream \in Seq(Forwardable)
    /\ heldBuf \in Seq(Forwardable)
    /\ pc \notin Ended => heldBuf \in Seq(Holdable)
    /\ skipUntilSync => Enforces
    /\ HeldWithinBudget
    /\ PrefixTracksWire
    /\ DenySettlesRight
    /\ ReplyMatchesPC

-----------------------------------------------------------------------------
(* Lemmas about what goes over the wire. *)

\* What may be held may be forwarded, and neither Torn nor a Sync is refused.
LEMMA HoldableForwardable == Holdable \subseteq Forwardable
BY DEF Holdable, Forwardable

\* A fragment may go upstream; it neither ends an exchange nor opens a batch.
LEMMA TornForwardable ==
    ASSUME NEW m \in Message
    PROVE  /\ Torn(m) \in Forwardable
           /\ ~ Closes(Torn(m)) /\ ~ InBatch(Torn(m))
BY DEF Torn, Forwardable, Refused, Message, WireMessage, MsgType, HeldTypes,
       Closes, InBatch

\* What a client sends may be on the wire.
LEMMA MessageOnWire == Message \subseteq WireMessage
BY DEF Message, WireMessage

\* A batch held back contains nothing that would end it.
LEMMA HeldKeepsOpen ==
    ASSUME NEW s \in Seq(Holdable)
    PROVE  /\ ~ HasCloser(s)
           /\ \A i \in DOMAIN s : InBatch(s[i])
           /\ openUpstream \in BOOLEAN =>
                 (LeavesOpen(s) <=> (openUpstream \/ s # <<>>))
<1>1. \A i \in DOMAIN s : InBatch(s[i]) /\ ~ Closes(s[i])
  BY DEF Holdable, InBatch, Closes, HeldTypes
<1>2. ~ HasCloser(s)
  BY <1>1 DEF HasCloser
<1>3. s # <<>> => \E i \in DOMAIN s : i = Len(s)
  OBVIOUS
<1>4. LeavesOpen(s) <=> (openUpstream \/ s # <<>>)
  BY <1>1, <1>2, <1>3 DEF LeavesOpen
<1> QED
  BY <1>1, <1>2, <1>4

\* Releasing the held batch together with the message that triggers it.
LEMMA ReleaseWith ==
    ASSUME NEW s \in Seq(Holdable), NEW m \in WireMessage
    PROVE  /\ HasCloser(Append(s, m)) <=> Closes(m)
           /\ LeavesOpen(Append(s, m)) <=>
                 /\ ~ Closes(m)
                 /\ openUpstream \/ s # <<>> \/ InBatch(m)
<1> DEFINE t == Append(s, m)
<1>1. \A i \in DOMAIN s : InBatch(s[i]) /\ ~ Closes(s[i])
  BY DEF Holdable, InBatch, Closes, HeldTypes
<1>2. /\ DOMAIN t = 1 .. Len(s) + 1
      /\ t[Len(s) + 1] = m
      /\ \A i \in 1 .. Len(s) : t[i] = s[i]
      /\ DOMAIN s = 1 .. Len(s) /\ Len(s) \in Nat
  OBVIOUS
<1> HIDE DEF t
<1>3. HasCloser(t) <=> Closes(m)
  BY <1>1, <1>2 DEF HasCloser
<1>4. ASSUME Closes(m)
      PROVE  ~ LeavesOpen(t)
  <2>1. ~ InBatch(m)
    BY <1>4 DEF Closes, InBatch, HeldTypes
  <2>2. \A i \in DOMAIN t : InBatch(t[i]) => Len(s) + 1 > i
    BY <1>2, <2>1
  <2> QED
    BY <1>2, <1>3, <1>4, <2>2 DEF LeavesOpen
<1>5. ASSUME ~ Closes(m)
      PROVE  LeavesOpen(t) <=> (openUpstream \/ s # <<>> \/ InBatch(m))
  <2>1. \A i \in DOMAIN t : ~ Closes(t[i])
    BY <1>1, <1>2, <1>5
  <2>2. LeavesOpen(t) <=> (openUpstream \/ \E i \in DOMAIN t : InBatch(t[i]))
    BY <1>3, <1>5, <2>1 DEF LeavesOpen
  <2>3. (\E i \in DOMAIN t : InBatch(t[i])) <=> (s # <<>> \/ InBatch(m))
    BY <1>1, <1>2
  <2> QED
    BY <2>2, <2>3
<1> QED
  BY <1>3, <1>4, <1>5 DEF t

\* So a held batch may go upstream whole.
LEMMA SeqForwardable ==
    /\ Seq(Holdable) \subseteq Seq(Forwardable)
    /\ Seq(Forwardable) \subseteq Seq(WireMessage)
BY HoldableForwardable DEF Forwardable

\* Sending what may go upstream leaves only that on the wire.
LEMMA SendForwards ==
    ASSUME TypeOK, upstream \in Seq(Forwardable),
           NEW msgs \in Seq(Forwardable), Send(msgs)
    PROVE  /\ upstream' \in Seq(Forwardable)
           /\ openUpstream' \in BOOLEAN
           /\ closersSent' \in Nat
BY DEF TypeOK, Send, LeavesOpen

-----------------------------------------------------------------------------
(* FilterInv is inductive. *)

\* What handle does with a message keeps the invariant.
LEMMA HandleInv ==
    ASSUME FilterInv, NEW m \in ClientMessages, Handle(m)
    PROVE  FilterInv'
<1> USE PolicyAssumption
<1>m. m \in Message /\ m \in WireMessage /\ m.len \in Nat /\ MaxHeldBytes \in Nat
  BY FilterAssumption, MessageOnWire DEF Message
<1>f. ~ Refused(m) => m \in Forwardable
  BY <1>m DEF Forwardable
<1>h. pc = "read" => heldBuf \in Seq(Holdable) /\ heldBuf \in Seq(Forwardable)
  BY DEF FilterInv, Ended
<1>1. CASE RelayUninspected(m)
  <2>1. <<m>> \in Seq(Forwardable)
    BY <1>1, <1>f DEF RelayUninspected, Refused
  <2>2. Send(<<m>>)
    BY <1>1 DEF RelayUninspected
  <2>3. /\ upstream' \in Seq(Forwardable)
        /\ openUpstream' \in BOOLEAN /\ closersSent' \in Nat
    BY <2>1, <2>2, SendForwards DEF FilterInv
  <2> QED
    BY <1>1, <2>3, SeqForwardable
    DEF FilterInv, RelayUninspected, TypeOK, HeldWithinBudget, PrefixTracksWire,
        DenySettlesRight, ReplyMatchesPC, filterVars, clientVars, sharedVars,
        Enforces
<1>2. CASE RefuseQuery(m)
  <2>1. /\ upstream' \in Seq(Forwardable)
        /\ openUpstream' \in BOOLEAN /\ closersSent' \in Nat
    BY <1>2, <1>h, SendForwards
    DEF FilterInv, RefuseQuery, Inspecting, wireVars, TypeOK
  <2>2. openUpstream' = (openUpstream \/ heldBuf # <<>>)
    <3>1. CASE heldBuf = <<>>
      BY <1>2, <3>1 DEF RefuseQuery, wireVars, FilterInv, TypeOK
    <3>2. CASE heldBuf # <<>>
      BY <1>2, <1>h, <3>2, HeldKeepsOpen
      DEF RefuseQuery, Inspecting, Send, FilterInv, TypeOK, LeavesOpen
    <3> QED
      BY <3>1, <3>2
  <2>3. TypeOK'
    BY <1>2, <2>1, SeqForwardable
    DEF FilterInv, RefuseQuery, TypeOK, Answer, ResetHeld, MarkedByFlush,
        clientVars, sharedVars, Reply, SqlState, PumpPC
  <2>4. /\ heldBuf' \in Seq(Forwardable) /\ heldBuf' \in Seq(Holdable)
        /\ HeldWithinBudget'
    BY <1>2, <1>m DEF RefuseQuery, ResetHeld, HeldWithinBudget
  <2>5. PrefixTracksWire'
    BY <1>2, <2>2 DEF FilterInv, RefuseQuery, Inspecting, PrefixTracksWire, MarkedByFlush, Ended
  <2>6. DenySettlesRight' /\ ReplyMatchesPC' /\ (skipUntilSync' => Enforces')
    BY <1>2 DEF FilterInv, RefuseQuery, Inspecting, DenySettlesRight, ReplyMatchesPC, Answer
  <2> QED
    BY <2>1, <2>3, <2>4, <2>5, <2>6
    DEF FilterInv
<1>3. CASE ForwardQuery(m) \/ EndBatch(m)
  <2>1. ~ Refused(m) /\ Closes(m)
    BY <1>3 DEF ForwardQuery, EndBatch, Refused, Closes
  <2>2. /\ pc = "read" /\ ~ skipUntilSync /\ Enforces
        /\ Send(Append(heldBuf, m))
        /\ heldBuf' = <<>> /\ heldLen' = 0
        /\ prefixForwarded' = FALSE
        /\ UNCHANGED <<pc, reply, skipUntilSync, forwardSync, clientW,
                       readiesSent, txStatus, mu>>
    <3>1. CASE ForwardQuery(m)
      BY <3>1 DEF ForwardQuery, Inspecting, ResetHeld, clientVars, sharedVars
    <3>2. CASE EndBatch(m)
      BY <3>2 DEF EndBatch, Inspecting, ResetHeld, clientVars, sharedVars
    <3> QED
      BY <1>3, <3>1, <3>2
  <2>3. /\ upstream' \in Seq(Forwardable)
        /\ openUpstream' \in BOOLEAN /\ closersSent' \in Nat
    <3>1. Append(heldBuf, m) \in Seq(Forwardable)
      BY <1>f, <1>h, <2>1, <2>2
    <3> QED
      BY <2>2, <3>1, SendForwards DEF FilterInv
  <2>4. openUpstream' = FALSE
    BY <1>m, <1>h, <2>1, <2>2, <2>3, ReleaseWith DEF Send
  <2>5. /\ heldBuf' \in Seq(Forwardable) /\ heldBuf' \in Seq(Holdable)
        /\ HeldWithinBudget'
    BY <1>m, <2>2 DEF HeldWithinBudget
  <2>6. TypeOK'
    <3>1. /\ heldBuf' \in Seq(WireMessage) /\ upstream' \in Seq(WireMessage)
          /\ heldLen' \in Nat /\ prefixForwarded' \in BOOLEAN
      BY <2>2, <2>3, <2>5, SeqForwardable
    <3> QED
      BY <2>2, <2>3, <3>1 DEF FilterInv, TypeOK
  <2>7. PrefixTracksWire' /\ DenySettlesRight' /\ ReplyMatchesPC'
    BY <2>2, <2>4
    DEF FilterInv, PrefixTracksWire, DenySettlesRight, ReplyMatchesPC
  <2> QED
    BY <2>2, <2>3, <2>5, <2>6, <2>7 DEF FilterInv
<1>4. CASE DenyBatch(m)
  <2>1. TypeOK'
    BY <1>4
    DEF FilterInv, DenyBatch, TypeOK, Answer, ResetHeld, clientVars, sharedVars,
        wireVars, Reply, SqlState, PumpPC
  <2>2. /\ heldBuf' \in Seq(Forwardable) /\ heldBuf' \in Seq(Holdable)
        /\ upstream' \in Seq(Forwardable)
        /\ HeldWithinBudget'
    BY <1>4, <1>m DEF FilterInv, DenyBatch, ResetHeld, HeldWithinBudget, wireVars
  <2>3. prefixForwarded = openUpstream
    BY <1>4 DEF FilterInv, DenyBatch, Inspecting, PrefixTracksWire, Ended
  <2>4. PrefixTracksWire' /\ DenySettlesRight' /\ ReplyMatchesPC'
    BY <1>4, <2>3
    DEF FilterInv, DenyBatch, ResetHeld, PrefixTracksWire, DenySettlesRight,
        ReplyMatchesPC, Answer, wireVars
  <2> QED
    BY <1>4, <2>1, <2>2, <2>4 DEF FilterInv, DenyBatch, Inspecting
<1>5. CASE HoldInBatch(m)
  <2>1. ~ Refused(m) /\ InBatch(m) /\ ~ Closes(m) /\ m \in Holdable
    BY <1>5, <1>m DEF HoldInBatch, Refused, InBatch, Closes, HeldTypes, Holdable
  <2>2. pc = "read" /\ heldBuf \in Seq(Holdable) /\ heldBuf \in Seq(Forwardable)
    BY <1>5, <1>h DEF HoldInBatch, Inspecting
  <2>3. CASE FitsBudget(m) /\ heldBuf' = Append(heldBuf, m)
    <3>1. /\ heldLen' = heldLen + HeaderLen + m.len
          /\ UNCHANGED <<upstream, openUpstream, closersSent, prefixForwarded>>
      BY <1>5, <2>3 DEF HoldInBatch, Hold, wireVars
    <3>2. heldBuf' \in Seq(Holdable) /\ heldBuf' \in Seq(Forwardable)
      BY <2>1, <2>2, <2>3, HoldableForwardable
    <3>3. heldLen' \in Nat /\ HeldWithinBudget'
      BY <1>m, <2>3, <3>1
      DEF FilterInv, TypeOK, FitsBudget, HoldBudget, HeaderLen, HeldWithinBudget
    <3>4. TypeOK'
      BY <1>5, <3>1, <3>2, <3>3, SeqForwardable
      DEF FilterInv, HoldInBatch, TypeOK, clientVars, sharedVars
    <3>5. PrefixTracksWire' /\ DenySettlesRight' /\ ReplyMatchesPC'
      BY <1>5, <3>1
      DEF FilterInv, HoldInBatch, Inspecting, PrefixTracksWire,
          DenySettlesRight, ReplyMatchesPC
    <3> QED
      BY <1>5, <3>1, <3>2, <3>3, <3>4, <3>5 DEF FilterInv, HoldInBatch, Inspecting
  <2>4. CASE Send(Append(heldBuf, m)) /\ ResetHeld /\ prefixForwarded' = TRUE
    <3>1. Append(heldBuf, m) \in Seq(Forwardable)
      BY <2>1, <2>2, <1>f
    <3>2. /\ upstream' \in Seq(Forwardable)
          /\ openUpstream' \in BOOLEAN /\ closersSent' \in Nat
      BY <2>4, <3>1, SendForwards DEF FilterInv
    <3>3. openUpstream' = TRUE
      BY <1>m, <2>1, <2>2, <2>4, <3>2, ReleaseWith DEF Send
    <3>4. TypeOK'
      BY <1>5, <2>4, <3>2, SeqForwardable
      DEF FilterInv, HoldInBatch, TypeOK, ResetHeld, clientVars, sharedVars
    <3>5. /\ heldBuf' \in Seq(Forwardable) /\ heldBuf' \in Seq(Holdable)
          /\ HeldWithinBudget'
      BY <2>4, <1>m DEF ResetHeld, HeldWithinBudget
    <3>6. PrefixTracksWire' /\ DenySettlesRight' /\ ReplyMatchesPC'
      BY <1>5, <2>4, <3>3
      DEF FilterInv, HoldInBatch, Inspecting, PrefixTracksWire,
          DenySettlesRight, ReplyMatchesPC
    <3> QED
      BY <1>5, <3>2, <3>4, <3>5, <3>6 DEF FilterInv, HoldInBatch, Inspecting
  <2> QED
    BY <1>5, <2>3, <2>4 DEF HoldInBatch, Hold
<1>6. CASE FlushBatch(m) \/ ForwardOther(m)
  <2>1. ~ Refused(m) /\ ~ Closes(m)
    BY <1>6 DEF FlushBatch, ForwardOther, Refused, Closes
  <2>2. /\ pc = "read" /\ ~ skipUntilSync /\ Enforces
        /\ Send(Append(heldBuf, m))
        /\ heldBuf' = <<>> /\ heldLen' = 0
        /\ prefixForwarded' = (prefixForwarded \/ heldBuf # <<>> \/ InBatch(m))
        /\ UNCHANGED <<pc, reply, skipUntilSync, forwardSync, clientW,
                       readiesSent, txStatus, mu>>
    <3>1. CASE FlushBatch(m)
      BY <3>1
      DEF FlushBatch, Inspecting, ResetHeld, clientVars, sharedVars, InBatch
    <3>2. CASE ForwardOther(m)
      <4>1. ~ InBatch(m)
        BY <3>2 DEF ForwardOther, InBatch, HeldTypes
      <4> QED
        BY <3>2, <4>1
        DEF ForwardOther, Inspecting, ResetHeld, clientVars, sharedVars,
            MarkedByFlush, FilterInv, TypeOK
    <3> QED
      BY <1>6, <3>1, <3>2
  <2>3. /\ upstream' \in Seq(Forwardable)
        /\ openUpstream' \in BOOLEAN /\ closersSent' \in Nat
    <3>1. Append(heldBuf, m) \in Seq(Forwardable)
      BY <1>f, <1>h, <2>1, <2>2
    <3> QED
      BY <2>2, <3>1, SendForwards DEF FilterInv
  <2>4. openUpstream' = (openUpstream \/ heldBuf # <<>> \/ InBatch(m))
    BY <1>m, <1>h, <2>1, <2>2, <2>3, ReleaseWith DEF Send
  <2>5. prefixForwarded' = openUpstream'
    BY <2>2, <2>4 DEF FilterInv, PrefixTracksWire, Ended
  <2>6. TypeOK'
    BY <2>2, <2>3, <2>5, SeqForwardable DEF FilterInv, TypeOK
  <2>7. /\ heldBuf' \in Seq(Forwardable) /\ heldBuf' \in Seq(Holdable)
        /\ HeldWithinBudget'
    BY <1>m, <2>2 DEF HeldWithinBudget
  <2>8. PrefixTracksWire' /\ DenySettlesRight' /\ ReplyMatchesPC'
    BY <2>2, <2>5
    DEF FilterInv, PrefixTracksWire, DenySettlesRight, ReplyMatchesPC
  <2> QED
    BY <2>2, <2>3, <2>6, <2>7, <2>8 DEF FilterInv
<1>7. CASE RefuseFunctionCall(m)
  <2>1. TypeOK'
    BY <1>7
    DEF FilterInv, RefuseFunctionCall, TypeOK, Answer, filterVars, clientVars,
        sharedVars, wireVars, Reply, SqlState, PumpPC
  <2>2. PrefixTracksWire' /\ DenySettlesRight' /\ ReplyMatchesPC'
    BY <1>7
    DEF FilterInv, RefuseFunctionCall, Inspecting, filterVars, wireVars, Answer,
        PrefixTracksWire, DenySettlesRight, ReplyMatchesPC, Ended
  <2> QED
    BY <1>7, <1>h, <2>1, <2>2
    DEF FilterInv, RefuseFunctionCall, Inspecting, filterVars, wireVars,
        HeldWithinBudget
<1>8. CASE Swallow(m)
  <2>1. UNCHANGED vars
    BY <1>8 DEF Swallow
  <2> QED
    BY <2>1
    DEF FilterInv, TypeOK, HeldWithinBudget, PrefixTracksWire,
        DenySettlesRight, ReplyMatchesPC, vars, filterVars, wireVars,
        clientVars, sharedVars
<1>9. CASE SettleUpstream(m)
  <2>1. ~ Refused(m) /\ Closes(m) /\ ~ InBatch(m)
    BY <1>9 DEF SettleUpstream, Refused, Closes, InBatch, HeldTypes
  <2>2. /\ Send(<<m>>) /\ <<m>> \in Seq(Forwardable)
        /\ <<>> \in Seq(Holdable) /\ <<m>> = Append(<<>>, m)
    BY <1>9, <1>f, <2>1 DEF SettleUpstream
  <2>3. /\ upstream' \in Seq(Forwardable)
        /\ openUpstream' \in BOOLEAN /\ closersSent' \in Nat
    BY <2>2, SendForwards DEF FilterInv
  <2>4. openUpstream' = FALSE
    BY <1>m, <2>1, <2>2, <2>3, ReleaseWith DEF Send
  <2>5. TypeOK'
    BY <1>9, <2>3, SeqForwardable
    DEF FilterInv, SettleUpstream, TypeOK, clientVars, sharedVars
  <2>6. PrefixTracksWire' /\ DenySettlesRight' /\ ReplyMatchesPC'
    BY <1>9, <2>4
    DEF FilterInv, SettleUpstream, PrefixTracksWire, DenySettlesRight,
        ReplyMatchesPC
  <2> QED
    BY <1>9, <1>h, <2>3, <2>5, <2>6
    DEF FilterInv, SettleUpstream, HeldWithinBudget
<1>10. CASE SettleLocally(m)
  <2>1. TypeOK'
    BY <1>10
    DEF FilterInv, SettleLocally, TypeOK, Answer, clientVars, sharedVars,
        wireVars, Reply, SqlState, PumpPC
  <2>2. PrefixTracksWire' /\ DenySettlesRight' /\ ReplyMatchesPC'
    BY <1>10
    DEF FilterInv, SettleLocally, wireVars, Answer, PrefixTracksWire,
        DenySettlesRight, ReplyMatchesPC, Ended
  <2> QED
    BY <1>10, <1>h, <2>1, <2>2
    DEF FilterInv, SettleLocally, wireVars, HeldWithinBudget
<1> QED
  BY <1>1, <1>2, <1>3, <1>4, <1>5, <1>6, <1>7, <1>8, <1>9, <1>10
  DEF Handle

\* A client that dies inside a message keeps the invariant.
LEMMA CutOffInv ==
    ASSUME FilterInv, NEW m \in ClientMessages, CutOff(m)
    PROVE  FilterInv'
<1> USE PolicyAssumption
<1>1. /\ pc = "read" /\ pc' = "disconnected"
      /\ UNCHANGED <<reply, clientW, readiesSent, txStatus, mu>>
      /\ skipUntilSync' \in BOOLEAN /\ forwardSync' \in BOOLEAN
      /\ skipUntilSync' => skipUntilSync
  BY DEF CutOff, TakeWhatCame, clientVars, sharedVars
<1>2. /\ Torn(m) \in Forwardable
      /\ heldBuf \in Seq(Forwardable) /\ heldBuf \in Seq(Holdable)
      /\ m.len \in Nat /\ MaxHeldBytes \in Nat
  BY <1>1, FilterAssumption, TornForwardable DEF FilterInv, Ended, Message
<1>3. /\ upstream' \in Seq(Forwardable) /\ heldBuf' \in Seq(Forwardable)
      /\ openUpstream' \in BOOLEAN /\ closersSent' \in Nat
      /\ heldLen' \in Nat /\ HeldWithinBudget'
  <2>1. CASE Send(Append(heldBuf, Torn(m))) /\ ResetHeld
    <3>1. Append(heldBuf, Torn(m)) \in Seq(Forwardable)
      BY <1>2
    <3>2. /\ heldBuf' \in Seq(Forwardable)
          /\ heldLen' \in Nat /\ HeldWithinBudget'
      BY <1>2, <2>1 DEF ResetHeld, HeldWithinBudget
    <3>3. /\ upstream' \in Seq(Forwardable)
          /\ openUpstream' \in BOOLEAN /\ closersSent' \in Nat
      BY <2>1, <3>1, SendForwards DEF FilterInv
    <3> QED
      BY <3>2, <3>3
  <2>2. CASE /\ ReadIntoHeld(m)
             /\ heldBuf' = Append(heldBuf, Torn(m))
             /\ heldLen' = heldLen + HeaderLen + m.len
             /\ UNCHANGED <<wireVars, prefixForwarded>>
    BY <1>2, <2>2
    DEF FilterInv, TypeOK, ReadIntoHeld, FitsBudget, HoldBudget, HeaderLen,
        HeldWithinBudget, wireVars
  <2>3. CASE Send(heldBuf) /\ ResetHeld
    BY <1>2, <2>3, SendForwards DEF FilterInv, ResetHeld, HeldWithinBudget
  <2>4. CASE UNCHANGED <<heldBuf, heldLen, wireVars>>
    BY <2>4 DEF FilterInv, TypeOK, HeldWithinBudget, wireVars
  <2> QED
    BY <2>1, <2>2, <2>3, <2>4 DEF CutOff, TakeWhatCame
<1>4. prefixForwarded' \in BOOLEAN
  BY DEF CutOff, TakeWhatCame, FilterInv, TypeOK
<1>5. TypeOK'
  BY <1>1, <1>3, <1>4, SeqForwardable DEF FilterInv, TypeOK, PumpPC, Ended
<1>6. PrefixTracksWire' /\ DenySettlesRight' /\ ReplyMatchesPC'
  BY <1>1 DEF PrefixTracksWire, DenySettlesRight, ReplyMatchesPC, Ended
<1> QED
  BY <1>1, <1>3, <1>5, <1>6 DEF FilterInv, Ended

\* So do the answers, the ways the pump ends, and everything around it.
LEMMA OtherStepsInv ==
    ASSUME FilterInv,
           Pump \/ BackendReads \/ ClientReads \/ ResponsePump \/ UNCHANGED vars
    PROVE  FilterInv'
<1>1. ASSUME UNCHANGED <<heldBuf, heldLen, skipUntilSync, prefixForwarded,
                         forwardSync, openUpstream, upstream>>,
             TypeOK', ReplyMatchesPC', pc \in Ended => pc' \in Ended
      PROVE  FilterInv'
  BY <1>1 DEF FilterInv, HeldWithinBudget, PrefixTracksWire, DenySettlesRight
<1>2. CASE LoadStatus
  BY <1>1, <1>2
  DEF LoadStatus, FilterInv, TypeOK, ReplyMatchesPC, filterVars, wireVars,
      clientVars, sharedVars, Reply, ReadyStatus, PumpPC, Ended
<1>3. CASE WriteReply
  <2>1. clientW' \in Seq(Frame)
    <3>1. reply.ready \in {"none", "I", "E"}
      BY <1>3 DEF WriteReply, FilterInv, TypeOK, ReplyMatchesPC, Reply
    <3>2. /\ ErrorFrame \in Frame
          /\ reply.ready # "none" => ReadyFrame(reply.ready) \in Frame
      BY <3>1 DEF ErrorFrame, ReadyFrame, Frame, TxStatus
    <3>3. ReplyFrames \in Seq(Frame)
      BY <3>2 DEF ReplyFrames
    <3> QED
      BY <1>3, <3>3 DEF WriteReply, FilterInv, TypeOK
  <2> QED
    BY <1>1, <1>3, <2>1
    DEF WriteReply, FilterInv, TypeOK, ReplyMatchesPC, filterVars, wireVars,
        sharedVars, Reply, SqlState, NoReply, PumpPC, Ended
<1>4. CASE CleanEOF \/ PumpFails \/ ReplyFails
  BY <1>1, <1>4
  DEF CleanEOF, PumpFails, ReplyFails, FilterInv, TypeOK, ReplyMatchesPC,
      filterVars, wireVars, clientVars, sharedVars, PumpPC, Ended
<1>5. CASE BackendReads
  <2>1. upstream' \in Seq(Forwardable)
    BY <1>5 DEF BackendReads, FilterInv
  <2>2. TypeOK' /\ ReplyMatchesPC'
    BY <1>5, <2>1, SeqForwardable
    DEF BackendReads, FilterInv, TypeOK, ReplyMatchesPC, filterVars, clientVars,
        sharedVars
  <2> QED
    BY <1>5, <2>1, <2>2
    DEF BackendReads, FilterInv, filterVars, HeldWithinBudget, PrefixTracksWire,
        DenySettlesRight
<1>6. CASE ClientReads
  BY <1>1, <1>6
  DEF ClientReads, FilterInv, TypeOK, ReplyMatchesPC, filterVars, wireVars,
      sharedVars
<1>7. CASE ResponsePump
  BY <1>1, <1>7
  DEF ResponsePump, FilterInv, TypeOK, ReplyMatchesPC, filterVars, wireVars,
      clientVars
<1>8. CASE UNCHANGED vars
  BY <1>1, <1>8
  DEF vars, FilterInv, TypeOK, ReplyMatchesPC, filterVars, wireVars,
      clientVars, sharedVars
<1> QED
  BY <1>2, <1>3, <1>4, <1>5, <1>6, <1>7, <1>8 DEF Pump

\* The pump starts with nothing held, sent or owed.
LEMMA InitFilterInv == FilterInit => FilterInv
<1> SUFFICES ASSUME FilterInit PROVE FilterInv
  OBVIOUS
<1>1. TypeOK
  <2>1. NoReply \in Reply
    BY DEF NoReply, Reply, SqlState
  <2>2. /\ <<>> \in Seq(WireMessage) /\ <<>> \in Seq(Frame)
        /\ "read" \in PumpPC /\ "I" \in TxStatus
    BY DEF PumpPC, TxStatus
  <2> QED
    BY <2>1, <2>2 DEF FilterInit, TypeOK
<1>2. HeldWithinBudget
  BY FilterAssumption DEF FilterInit, HeldWithinBudget
<1>3. PrefixTracksWire /\ DenySettlesRight /\ ReplyMatchesPC
  BY DEF FilterInit, PrefixTracksWire, DenySettlesRight, ReplyMatchesPC, NoReply
<1>4. /\ upstream \in Seq(Forwardable) /\ ~ skipUntilSync
      /\ heldBuf \in Seq(Forwardable) /\ heldBuf \in Seq(Holdable)
  BY DEF FilterInit
<1> QED
  BY <1>1, <1>2, <1>3, <1>4 DEF FilterInv

\* So FilterInv holds of every state of the pump.
LEMMA FilterInvHolds == FilterSpec => []FilterInv
<1>1. FilterInit => FilterInv
  BY InitFilterInv
<1>2. FilterInv /\ [FilterNext]_vars => FilterInv'
  BY HandleInv, CutOffInv, OtherStepsInv DEF FilterNext
<1> QED
  BY <1>1, <1>2, PTL DEF FilterSpec

-----------------------------------------------------------------------------
(* What follows from it. *)

\* The pump's state has its types.
THEOREM TypeCorrect == FilterSpec => []TypeOK
BY FilterInvHolds, PTL DEF FilterInv

(***************************************************************************)
(* Whatever the client sends and in whatever order batches are held, split *)
(* by their size, flushed, denied and settled, neither the held batch nor  *)
(* the wire to the backend contains SQL the policy blocks, a Parse it      *)
(* cannot read or a fast-path call (handle).                               *)
(***************************************************************************)
THEOREM NothingRefusedIsForwarded == FilterSpec => []NothingRefusedForwarded
<1>1. FilterInv => NothingRefusedForwarded
  BY DEF FilterInv, NothingRefusedForwarded, Forwardable
<1> QED
  BY <1>1, FilterInvHolds, PTL

(***************************************************************************)
(* The flag prefixForwarded agrees with the wire: it is set exactly while  *)
(* the backend has been sent a part of a batch and nothing that ends it.   *)
(***************************************************************************)
THEOREM PrefixIsTracked == FilterSpec => []PrefixTracksWire
BY FilterInvHolds, PTL DEF FilterInv

(***************************************************************************)
(* From a deny to its Sync, forwardSync stays the right way to settle the  *)
(* batch and nothing of the batch is left in heldBuf (denyBatch).          *)
(***************************************************************************)
THEOREM DenyIsSettledRight == FilterSpec => []DenySettlesRight
BY FilterInvHolds, PTL DEF FilterInv

\* The held batch never outgrows maxHeldBytes (holdBudget).
THEOREM HeldStaysWithinBudget == FilterSpec => []HeldWithinBudget
BY FilterInvHolds, PTL DEF FilterInv

-----------------------------------------------------------------------------
(* Nothing follows a message that was cut off. *)

Whole(msgs) == \A i \in DOMAIN msgs : msgs[i].type # "Torn"

\* A batch held by a live pump contains whole messages only.
LEMMA HeldIsWhole ==
    ASSUME NEW s \in Seq(Holdable)
    PROVE  Whole(s)
BY DEF Whole, Holdable, HeldTypes

\* Whole messages sent after whole messages.
LEMMA SendKeepsWhole ==
    ASSUME upstream \in Seq(WireMessage), Whole(upstream),
           NEW msgs \in Seq(WireMessage), Whole(msgs), Send(msgs)
    PROVE  Whole(upstream')
BY DEF Send, Whole

\* While the pump handles messages everything it has sent is whole.
LEMMA HandleKeepsWhole ==
    ASSUME FilterInv, TornIsLast, NEW m \in ClientMessages, Handle(m)
    PROVE  Whole(upstream')
<1>1. /\ pc = "read"
      /\ \/ UNCHANGED upstream \/ Send(<<m>>)
         \/ Send(heldBuf)      \/ Send(Append(heldBuf, m))
  BY DEF Handle, RelayUninspected, RefuseQuery, ForwardQuery, DenyBatch,
         HoldInBatch, EndBatch, FlushBatch, RefuseFunctionCall, ForwardOther,
         Swallow, SettleUpstream, SettleLocally, Inspecting, Hold, wireVars, vars
<1>2. m \in WireMessage /\ m.type # "Torn"
  BY FilterAssumption, MessageOnWire DEF Message, MsgType, HeldTypes
<1>3. upstream \in Seq(WireMessage) /\ Whole(upstream)
  BY <1>1 DEF FilterInv, TypeOK, TornIsLast, Whole, Ended
<1>4. heldBuf \in Seq(Holdable) /\ heldBuf \in Seq(WireMessage) /\ Whole(heldBuf)
  BY <1>1, HeldIsWhole DEF FilterInv, TypeOK, Ended
<1>5. /\ <<m>> \in Seq(WireMessage) /\ Whole(<<m>>)
      /\ Append(heldBuf, m) \in Seq(WireMessage) /\ Whole(Append(heldBuf, m))
  BY <1>2, <1>4 DEF Whole
<1> QED
  BY <1>1, <1>3, <1>4, <1>5, SendKeepsWhole

\* The fragment of a message the client did not finish is the last thing sent.
LEMMA CutOffIsLast ==
    ASSUME FilterInv, TornIsLast, NEW m \in ClientMessages, CutOff(m)
    PROVE  TornIsLast'
<1>1. pc = "read" /\ pc' \in Ended
  BY DEF CutOff, TakeWhatCame, Ended
<1>2. upstream \in Seq(WireMessage) /\ Whole(upstream)
  BY <1>1 DEF FilterInv, TypeOK, TornIsLast, Whole, Ended
<1>3. heldBuf \in Seq(WireMessage) /\ Whole(heldBuf)
  BY <1>1, HeldIsWhole DEF FilterInv, TypeOK, Ended
<1>4. Torn(m) \in WireMessage
  BY FilterAssumption, TornForwardable DEF Forwardable
<1>5. CASE Send(Append(heldBuf, Torn(m)))
  BY <1>1, <1>2, <1>3, <1>4, <1>5 DEF Send, TornIsLast, Whole
<1>6. CASE Send(heldBuf)
  <2>1. Whole(upstream')
    BY <1>2, <1>3, <1>6, SendKeepsWhole
  <2> QED
    BY <2>1 DEF TornIsLast, Whole
<1>7. CASE UNCHANGED wireVars
  BY <1>2, <1>7 DEF wireVars, TornIsLast, Whole
<1> QED
  BY <1>5, <1>6, <1>7 DEF CutOff, TakeWhatCame

(***************************************************************************)
(* A message the client did not finish is never followed by another one on *)
(* the wire to the backend, streamed or held (readInto, stream,            *)
(* copyMessages).                                                          *)
(***************************************************************************)
THEOREM TornEndsTheStream == FilterSpec => []TornIsLast
<1>1. FilterInit => TornIsLast
  BY DEF FilterInit, TornIsLast
<1>2. FilterInv /\ TornIsLast /\ [FilterNext]_vars => TornIsLast'
  <2> SUFFICES ASSUME FilterInv, TornIsLast, [FilterNext]_vars
               PROVE  TornIsLast'
    OBVIOUS
  <2>1. ASSUME NEW m \in ClientMessages, Handle(m)
        PROVE  TornIsLast'
    BY <2>1, HandleKeepsWhole DEF TornIsLast, Whole
  <2>2. ASSUME NEW m \in ClientMessages, CutOff(m)
        PROVE  TornIsLast'
    BY <2>2, CutOffIsLast
  <2>3. CASE BackendReads
    BY <2>3 DEF BackendReads, FilterInv, TypeOK, TornIsLast
  <2>4. CASE Pump
    BY <2>4
    DEF Pump, LoadStatus, WriteReply, CleanEOF, PumpFails, ReplyFails, wireVars,
        TornIsLast, Ended
  <2>5. CASE ClientReads \/ ResponsePump \/ UNCHANGED vars
    BY <2>5 DEF ClientReads, ResponsePump, vars, wireVars, TornIsLast
  <2> QED
    BY <2>1, <2>2, <2>3, <2>4, <2>5 DEF FilterNext
<1> QED
  BY <1>1, <1>2, FilterInvHolds, PTL DEF FilterSpec

-----------------------------------------------------------------------------
(* The refinement: every step of the pump is a step of BatchGate or leaves *)
(* it alone.                                                               *)

\* Whatever handle makes of a message is one step of BatchGate, or none.
LEMMA HandleGate ==
    ASSUME FilterInv, NEW m \in ClientMessages, Handle(m)
    PROVE  [Gate!Next]_Gate!vars
<1> USE PolicyAssumption
<1>m. m \in WireMessage
  BY FilterAssumption, MessageOnWire
<1>t. /\ openUpstream \in BOOLEAN /\ closersSent \in Nat /\ readiesSent \in Nat
      /\ pc = "read"
  BY DEF FilterInv, TypeOK, Handle, RelayUninspected, RefuseQuery, ForwardQuery,
         DenyBatch, HoldInBatch, EndBatch, FlushBatch, RefuseFunctionCall,
         ForwardOther, Swallow, SettleUpstream, SettleLocally, Inspecting
<1>h. heldBuf \in Seq(Holdable) /\ <<>> \in Seq(Holdable) /\ reply.ready = "none"
  BY <1>t DEF FilterInv, Ended, ReplyMatchesPC
<1>o. \* What is released with m goes on the wire as ReleaseWith says.
      ASSUME NEW s \in Seq(Holdable), Send(Append(s, m))
      PROVE  /\ closersSent' = IF Closes(m) THEN closersSent + 1 ELSE closersSent
             /\ openUpstream' \in BOOLEAN
             /\ openUpstream' <=> /\ ~ Closes(m)
                                  /\ openUpstream \/ s # <<>> \/ InBatch(m)
  BY <1>m, <1>o, ReleaseWith DEF Send, LeavesOpen
<1>e. ASSUME Send(<<m>>)
      PROVE  Send(Append(<<>>, m))
  BY <1>e
<1>1. CASE RelayUninspected(m)
  <2>1. /\ UNCHANGED <<pc, reply, skipUntilSync, readiesSent>> /\ ~ skipUntilSync
        /\ closersSent' = IF Closes(m) THEN closersSent + 1 ELSE closersSent
        /\ openUpstream' \in BOOLEAN
        /\ openUpstream' <=> ~ Closes(m) /\ (openUpstream \/ InBatch(m))
    BY <1>1, <1>h, <1>o, <1>e DEF RelayUninspected, filterVars, clientVars
  <2> QED
    BY <1>t, <1>h, <2>1
    DEF Gate!Next, Gate!HandOver, Gate!Expose, Gate!vars, Ended
<1>2. CASE RefuseQuery(m)
  <2>1. openUpstream' \in {openUpstream, TRUE} /\ closersSent' = closersSent
    <3>1. CASE heldBuf = <<>>
      BY <1>2, <3>1 DEF RefuseQuery, wireVars
    <3>2. CASE heldBuf # <<>>
      BY <1>2, <1>h, <1>t, <3>2, HeldKeepsOpen DEF RefuseQuery, Send, LeavesOpen
    <3> QED
      BY <3>1, <3>2
  <2>2. /\ skipUntilSync = FALSE /\ skipUntilSync' = FALSE /\ pc' = "status"
        /\ reply' = [error |-> "42501", ready |-> "due"]
        /\ readiesSent' = readiesSent
    BY <1>2
    DEF RefuseQuery, Inspecting, Answer, clientVars, FilterInv, TypeOK
  <2>3. pc \notin Ended /\ pc' \notin Ended
    BY <1>t, <2>2 DEF Ended
  <2>4. /\ (IF reply.ready = "none" THEN 0 ELSE 1) = 0
        /\ (IF reply'.ready = "none" THEN 0 ELSE 1) = 1
        /\ readiesSent' + 1 = readiesSent + 0 + 1
    BY <1>h, <1>t, <2>2
  <2>5. Gate!Refuse
    BY <2>1, <2>2, <2>3, <2>4 DEF Gate!Refuse
  <2> QED
    BY <2>5 DEF Gate!Next
<1>3. CASE ForwardQuery(m) \/ EndBatch(m)
  <2>1. /\ Closes(m) /\ Send(Append(heldBuf, m)) /\ ~ skipUntilSync
        /\ UNCHANGED <<pc, reply, skipUntilSync, readiesSent>>
    BY <1>3 DEF ForwardQuery, EndBatch, Inspecting, Closes, clientVars
  <2>2. closersSent' = closersSent + 1 /\ openUpstream' = FALSE
    BY <1>h, <1>o, <2>1
  <2> QED
    BY <1>t, <1>h, <2>1, <2>2 DEF Gate!Next, Gate!HandOver, Ended
<1>4. CASE DenyBatch(m)
  BY <1>4, <1>t, <1>h
  DEF DenyBatch, Inspecting, Answer, wireVars, clientVars, Gate!Next, Gate!Deny,
      Ended
<1>5. CASE HoldInBatch(m)
  <2>1. ~ Closes(m) /\ InBatch(m) /\ ~ skipUntilSync
        /\ UNCHANGED <<pc, reply, skipUntilSync, readiesSent>>
    BY <1>5 DEF HoldInBatch, Inspecting, Closes, InBatch, HeldTypes, clientVars
  <2>2. CASE UNCHANGED wireVars
    BY <2>1, <2>2 DEF wireVars, Gate!vars
  <2>3. CASE Send(Append(heldBuf, m))
    <3>1. closersSent' = closersSent /\ openUpstream' = TRUE
      BY <1>h, <1>o, <2>1, <2>3
    <3> QED
      BY <1>t, <1>h, <2>1, <3>1 DEF Gate!Next, Gate!Expose, Ended
  <2> QED
    BY <1>5, <2>2, <2>3 DEF HoldInBatch, Hold
<1>6. CASE FlushBatch(m) \/ ForwardOther(m)
  <2>1. /\ ~ Closes(m) /\ Send(Append(heldBuf, m)) /\ ~ skipUntilSync
        /\ UNCHANGED <<pc, reply, skipUntilSync, readiesSent>>
    BY <1>6 DEF FlushBatch, ForwardOther, Inspecting, Closes, clientVars
  <2>2. closersSent' = closersSent /\ openUpstream' \in {openUpstream, TRUE}
    BY <1>h, <1>o, <1>t, <2>1
  <2> QED
    BY <1>t, <1>h, <2>1, <2>2 DEF Gate!Next, Gate!Expose, Gate!vars, Ended
<1>7. CASE RefuseFunctionCall(m)
  BY <1>7, <1>t, <1>h
  DEF RefuseFunctionCall, Inspecting, Answer, filterVars, wireVars, clientVars,
      Gate!Next, Gate!Refuse, Ended
<1>8. CASE Swallow(m)
  BY <1>8 DEF Swallow, vars, filterVars, wireVars, clientVars, Gate!vars
<1>9. CASE SettleUpstream(m)
  <2>1. /\ Closes(m) /\ Send(<<m>>) /\ skipUntilSync /\ ~ skipUntilSync'
        /\ UNCHANGED <<pc, reply, readiesSent>> /\ forwardSync
    BY <1>9 DEF SettleUpstream, Closes, clientVars
  <2>2. closersSent' = closersSent + 1 /\ openUpstream' = FALSE
    BY <1>h, <1>o, <1>e, <2>1
  <2>3. openUpstream = TRUE
    BY <1>t, <2>1 DEF FilterInv, DenySettlesRight, Ended
  <2> QED
    BY <1>t, <1>h, <2>1, <2>2, <2>3 DEF Gate!Next, Gate!Settle, Ended
<1>10. CASE SettleLocally(m)
  <2>1. openUpstream = FALSE
    BY <1>10, <1>t DEF FilterInv, DenySettlesRight, SettleLocally, Ended
  <2> QED
    BY <1>10, <1>t, <1>h, <2>1
    DEF SettleLocally, Answer, wireVars, clientVars, Gate!Next, Gate!Settle, Ended
<1> QED
  BY <1>1, <1>2, <1>3, <1>4, <1>5, <1>6, <1>7, <1>8, <1>9, <1>10 DEF Handle

\* A client that dies inside a message shuts the gate.
LEMMA CutOffGate ==
    ASSUME FilterInv, NEW m \in ClientMessages, CutOff(m)
    PROVE  Gate!Shut
<1>1. /\ pc = "read" /\ pc' = "disconnected"
      /\ UNCHANGED <<reply, readiesSent>>
  BY DEF CutOff, TakeWhatCame, clientVars
<1>2. /\ heldBuf \in Seq(Holdable) /\ openUpstream \in BOOLEAN
      /\ Torn(m) \in WireMessage /\ ~ Closes(Torn(m)) /\ ~ InBatch(Torn(m))
  BY <1>1, PolicyAssumption, FilterAssumption, TornForwardable
  DEF FilterInv, TypeOK, Ended, Forwardable
<1>3. closersSent' = closersSent /\ openUpstream' \in {openUpstream, TRUE}
  <2>1. CASE Send(Append(heldBuf, Torn(m)))
    <3>1. /\ ~ HasCloser(Append(heldBuf, Torn(m)))
          /\ LeavesOpen(Append(heldBuf, Torn(m))) <=> (openUpstream \/ heldBuf # <<>>)
      BY <1>2, ReleaseWith
    <3> QED
      BY <1>2, <2>1, <3>1 DEF Send, LeavesOpen
  <2>2. CASE Send(heldBuf)
    BY <1>2, <2>2, HeldKeepsOpen DEF Send, LeavesOpen
  <2>3. CASE UNCHANGED wireVars
    BY <2>3 DEF wireVars
  <2> QED
    BY <2>1, <2>2, <2>3 DEF CutOff, TakeWhatCame
<1> QED
  BY <1>1, <1>3 DEF Gate!Shut, Ended

\* So does an end of the pump; the steps of an answer and of the peers are none.
LEMMA OtherStepsGate ==
    ASSUME FilterInv,
           Pump \/ BackendReads \/ ClientReads \/ ResponsePump \/ UNCHANGED vars
    PROVE  [Gate!Next]_Gate!vars
<1>1. CASE LoadStatus
  BY <1>1
  DEF LoadStatus, FilterInv, TypeOK, ReplyMatchesPC, ReadyStatus, Reply,
      filterVars, wireVars, clientVars, Gate!vars, Ended
<1>2. CASE WriteReply
  <2>1. readiesSent \in Nat
    BY DEF FilterInv, TypeOK
  <2> QED
    BY <1>2, <2>1
    DEF WriteReply, NoReply, filterVars, wireVars, Gate!vars, Ended
<1>3. CASE CleanEOF \/ PumpFails \/ ReplyFails
  <2>1. /\ pc' \in Ended
        /\ UNCHANGED <<reply, openUpstream, closersSent, readiesSent>>
    BY <1>3
    DEF CleanEOF, PumpFails, ReplyFails, filterVars, wireVars, clientVars, Ended
  <2> QED
    BY <2>1 DEF Gate!Next, Gate!Shut
<1>4. CASE BackendReads \/ ClientReads \/ ResponsePump \/ UNCHANGED vars
  <2>1. UNCHANGED <<pc, reply, skipUntilSync, openUpstream, closersSent,
                    readiesSent>>
    BY <1>4
    DEF BackendReads, ClientReads, ResponsePump, vars, filterVars, wireVars,
        clientVars
  <2> QED
    BY <2>1 DEF Gate!vars
<1> QED
  BY <1>1, <1>2, <1>3, <1>4 DEF Pump

(***************************************************************************)
(* The pump implements BatchGate: every exchange it takes on is handed to  *)
(* the backend or answered by the proxy, and a denied batch is settled by  *)
(* the one of the two that BatchGate says (copyMessages).                  *)
(***************************************************************************)
THEOREM ImplementsGate == FilterSpec => GateSpec
<1>1. FilterInit => Gate!Init
  BY DEF FilterInit, NoReply, Gate!Init, Ended
<1>2. FilterInv /\ [FilterNext]_vars => [Gate!Next]_Gate!vars
  BY HandleGate, CutOffGate, OtherStepsGate DEF FilterNext, Gate!Next
<1> QED
  BY <1>1, <1>2, FilterInvHolds, PTL DEF FilterSpec, GateSpec, Gate!Spec
=============================================================================
