-------------------------- MODULE DbsControlProofs --------------------------
(***************************************************************************)
(* Theorems about DbsControl: for any number of clients, slots and         *)
(* children, a slot is taken only for a child, and as long as every child  *)
(* marks its slot before the next CONNECT is received, the children serve  *)
(* different clients on different slots and do not disturb each other.     *)
(***************************************************************************)
EXTENDS DbsControl, TLAPS

(***************************************************************************)
(* The inductive invariant.                                                *)
(***************************************************************************)

\* The slot that is about to be given to a child carries the client's address.
ClaimedInv == ctl = "fork" => caddr[pi] = from

\* A child that does not serve yet has numbered no packet.
UnsentInv == \A p \in Pid : child[p] \notin {"serving", "heard"} => sent[p] = 0

\* No child has its slot still to mark while a request is handled.
QuietInv == ctl # "select" => \A p \in Pid : ~Born(p)

\* A child inside PlayServer has its slot marked.
MarkedInv == \A p \in Pid : Serving(p) => used[cslot[p]]

\* Nobody lives on the slot that is about to be given away.
TargetInv ==
  ctl \in {"claim", "fork"} => \A p \in Pid : Live(p) => cslot[p] # pi

\* The scan for a connected player has passed over no child of the sender.
ScanInv ==
  ctl = "dup" /\ ~ignore =>
    \A p \in Pid : Serving(p) /\ cslot[p] < pi => peer[p] # from

\* A client that is given a slot has no child.
NewClientInv ==
  ctl \in {"free", "claim", "fork"} =>
    \A p \in Pid : Live(p) => peer[p] # from

\* No two live children have a slot or a client in common.
PairsInv ==
  \A p, q \in Pid : Live(p) /\ Live(q) /\ p # q =>
    cslot[p] # cslot[q] /\ peer[p] # peer[q]

\* The slot of a child is as the child left it.
OwnSlotInv ==
  \A p \in Pid :
    /\ Live(p) => caddr[cslot[p]] = peer[p]
    /\ child[p] \in {"serving", "heard"} => sequence[cslot[p]] = sent[p]

RaceFreeInv ==
  /\ QuietInv /\ MarkedInv /\ TargetInv /\ ScanInv /\ NewClientInv
  /\ PairsInv /\ OwnSlotInv

ControlInv ==
  /\ TypeOK /\ SlotHasOwner /\ ClaimedInv /\ UnsentInv
  /\ ~raced => RaceFreeInv

-----------------------------------------------------------------------------
(***************************************************************************)
(* Types.                                                                  *)
(***************************************************************************)
LEMMA SlotFacts ==
  0 \in Slot /\ \A i \in Slot : i \in Nat /\ i < MaxPlayers
                                /\ (i + 1 # MaxPlayers => i + 1 \in Slot)
BY MaxPlayersAssumption DEF Slot

LEMMA TypeInit == Init => TypeOK
<1> SUFFICES ASSUME Init PROVE TypeOK
  OBVIOUS
<1>1. /\ used \in [Slot -> BOOLEAN]
      /\ caddr \in [Slot -> Clients \cup {NoClient}]
      /\ sequence \in [Slot -> Nat]
  BY DEF Init
<1>2. /\ ctl = "select" /\ from \in Clients \cup {NoClient}
      /\ ignore \in BOOLEAN /\ pi \in Slot
  BY SlotFacts DEF Init
<1>3. /\ child \in [Pid -> {"none", "born", "marked", "accepted", "serving",
                            "heard", "crashed"}]
      /\ cslot \in [Pid -> Slot]
      /\ peer \in [Pid -> Clients \cup {NoClient}]
      /\ sent \in [Pid -> 0 .. MaxSent]
  BY SlotFacts, BoundsAssumption DEF Init
<1>4. pending \subseteq Clients /\ raced \in BOOLEAN
  BY DEF Init
<1> QED
  BY <1>1, <1>2, <1>3, <1>4 DEF TypeOK

LEMMA TypeServer ==
  ASSUME TypeOK,
         (\E c \in Clients : RecvConnect(c)) \/ ControlServer
  PROVE  TypeOK'
<1> USE DEF TypeOK, slotVars, childVars, BackToSelect
<1>1. ASSUME NEW c \in Clients, RecvConnect(c) PROVE TypeOK'
  BY <1>1, SlotFacts DEF RecvConnect
<1>2. CASE LookForConnected
  BY <1>2, SlotFacts DEF LookForConnected, AtLastSlot, AlreadyConnected
<1>3. CASE FindFree
  BY <1>3, SlotFacts DEF FindFree, AtLastSlot
<1>4. CASE Claim
  BY <1>4 DEF Claim
<1>5. ASSUME NEW p \in Pid, Fork(p) PROVE TypeOK'
  BY <1>5, SlotFacts DEF Fork
<1>6. CASE ForkFails
  BY <1>6, SlotFacts DEF ForkFails
<1> QED
  BY <1>1, <1>2, <1>3, <1>4, <1>5, <1>6 DEF ControlServer

LEMMA TypeChild ==
  ASSUME TypeOK, NEW p \in Pid, PlayServer(p) \/ Crash(p)
  PROVE  TypeOK'
<1> USE DEF TypeOK, slotVars, childVars, ctlVars, Gone
<1>1. CASE Mark(p)
  BY <1>1 DEF Mark
<1>2. CASE Accept(p)
  BY <1>2 DEF Accept
<1>3. CASE ResetSequence(p)
  BY <1>3 DEF ResetSequence
<1>4. CASE Send(p)
  BY <1>4, BoundsAssumption DEF Send
<1>5. CASE Release(p)
  BY <1>5, SlotFacts, BoundsAssumption DEF Release
<1>6. CASE Crash(p)
  BY <1>6, BoundsAssumption DEF Crash
<1>7. CASE Hear(p) \/ StartOver(p)
  BY <1>7 DEF Hear, StartOver
<1> QED
  BY <1>1, <1>2, <1>3, <1>4, <1>5, <1>6, <1>7 DEF PlayServer

LEMMA TypeStep == TypeOK /\ [Next]_vars => TypeOK'
<1> SUFFICES ASSUME TypeOK, [Next]_vars PROVE TypeOK'
  OBVIOUS
<1>1. CASE UNCHANGED vars
  BY <1>1 DEF TypeOK, vars, slotVars, childVars, ctlVars
<1> QED
  BY <1>1, TypeServer, TypeChild, Zenon DEF Next

\* The slot table, the request in hand and the children keep their types.
THEOREM TypeCorrect == Spec => []TypeOK
BY TypeInit, TypeStep, PTL DEF Spec

-----------------------------------------------------------------------------
(***************************************************************************)
(* A taken slot has an owner.                                              *)
(***************************************************************************)
LEMMA OwnerServer ==
  ASSUME TypeOK, SlotHasOwner,
         (\E c \in Clients : RecvConnect(c)) \/ ControlServer
  PROVE  SlotHasOwner'
<1> USE DEF slotVars, childVars, SlotHasOwner, Serving, Crashed
<1>1. ASSUME NEW c \in Clients, RecvConnect(c) PROVE SlotHasOwner'
  BY <1>1 DEF RecvConnect
<1>2. CASE LookForConnected
  BY <1>2 DEF LookForConnected
<1>3. CASE FindFree
  BY <1>3 DEF FindFree
<1>4. CASE Claim
  BY <1>4 DEF Claim
<1>5. ASSUME NEW p \in Pid, Fork(p) PROVE SlotHasOwner'
  BY <1>5 DEF Fork, TypeOK
<1>6. CASE ForkFails
  BY <1>6 DEF ForkFails, TypeOK
<1> QED
  BY <1>1, <1>2, <1>3, <1>4, <1>5, <1>6 DEF ControlServer

LEMMA OwnerChild ==
  ASSUME TypeOK, SlotHasOwner, NEW p \in Pid, PlayServer(p) \/ Crash(p)
  PROVE  SlotHasOwner'
<1> USE DEF slotVars, SlotHasOwner, Serving, Crashed, TypeOK
<1>1. CASE Mark(p)
  BY <1>1 DEF Mark
<1>2. CASE Accept(p)
  BY <1>2 DEF Accept
<1>3. CASE ResetSequence(p)
  BY <1>3 DEF ResetSequence
<1>4. CASE Send(p)
  BY <1>4 DEF Send
<1>5. CASE Release(p)
  BY <1>5 DEF Release
<1>6. CASE Crash(p)
  BY <1>6 DEF Crash
<1>7. CASE Hear(p) \/ StartOver(p)
  BY <1>7 DEF Hear, StartOver
<1> QED
  BY <1>1, <1>2, <1>3, <1>4, <1>5, <1>6, <1>7 DEF PlayServer

LEMMA OwnerStep == TypeOK /\ SlotHasOwner /\ [Next]_vars => SlotHasOwner'
<1> SUFFICES ASSUME TypeOK, SlotHasOwner, [Next]_vars PROVE SlotHasOwner'
  OBVIOUS
<1>1. CASE UNCHANGED vars
  BY <1>1 DEF SlotHasOwner, Serving, Crashed, vars, slotVars, childVars
<1> QED
  BY <1>1, OwnerServer, OwnerChild, Zenon DEF Next

\* No slot is lost to a failed fork, a late child or a shared slot: the child a
\* taken slot belongs to is inside PlayServer or crashed there.
THEOREM TakenSlotHasOwner == Spec => []SlotHasOwner
<1>1. Init => SlotHasOwner
  BY DEF Init, SlotHasOwner
<1> QED
  BY <1>1, TypeCorrect, OwnerStep, PTL DEF Spec

-----------------------------------------------------------------------------
(***************************************************************************)
(* What holds whether or not a request raced with a child.                 *)
(***************************************************************************)
LEMMA BasicStep ==
  TypeOK /\ ClaimedInv /\ UnsentInv /\ [Next]_vars => ClaimedInv' /\ UnsentInv'
<1> SUFFICES ASSUME TypeOK, ClaimedInv, UnsentInv, [Next]_vars
             PROVE  ClaimedInv' /\ UnsentInv'
  OBVIOUS
<1> USE DEF ClaimedInv, UnsentInv, slotVars, ctlVars, childVars, BackToSelect,
            Gone
<1>1. ASSUME NEW c \in Clients, RecvConnect(c)
      PROVE  ClaimedInv' /\ UnsentInv'
  BY <1>1 DEF RecvConnect
<1>2. CASE LookForConnected
  BY <1>2 DEF LookForConnected
<1>3. CASE FindFree
  BY <1>3 DEF FindFree
<1>4. CASE Claim
  BY <1>4 DEF Claim, TypeOK
<1>5. ASSUME NEW p \in Pid, Fork(p) PROVE ClaimedInv' /\ UnsentInv'
  BY <1>5 DEF Fork, TypeOK
<1>6. CASE ForkFails
  BY <1>6 DEF ForkFails
<1>7. ASSUME NEW p \in Pid, Mark(p) \/ Accept(p) \/ ResetSequence(p) \/ Send(p)
      PROVE  ClaimedInv' /\ UnsentInv'
  BY <1>7 DEF Mark, Accept, ResetSequence, Send, TypeOK
<1>8. ASSUME NEW p \in Pid, Release(p) \/ Crash(p)
      PROVE  ClaimedInv' /\ UnsentInv'
  BY <1>8 DEF Release, Crash, Serving, TypeOK
<1>9. ASSUME NEW p \in Pid, Hear(p) \/ StartOver(p)
      PROVE  ClaimedInv' /\ UnsentInv'
  BY <1>9 DEF Hear, StartOver, TypeOK
<1>10. CASE UNCHANGED vars
  BY <1>10 DEF vars
<1> QED
  BY <1>1, <1>2, <1>3, <1>4, <1>5, <1>6, <1>7, <1>8, <1>9, <1>10
  DEF Next, ControlServer, PlayServer

-----------------------------------------------------------------------------
(***************************************************************************)
(* What holds as long as no request raced with a child.                    *)
(***************************************************************************)
LEMMA ReceiveStep ==
  ASSUME TypeOK, RaceFreeInv, NEW c \in Clients, RecvConnect(c), ~raced'
  PROVE  RaceFreeInv'
<1> USE DEF RecvConnect, slotVars, childVars, Born, Serving, Live, TypeOK
<1>1. QuietInv' /\ MarkedInv' /\ TargetInv' /\ NewClientInv'
  BY DEF RaceFreeInv, QuietInv, MarkedInv, TargetInv, NewClientInv
<1>2. ScanInv'
  BY SlotFacts DEF ScanInv
<1>3. PairsInv' /\ OwnSlotInv'
  BY DEF RaceFreeInv, PairsInv, OwnSlotInv
<1> QED
  BY <1>1, <1>2, <1>3 DEF RaceFreeInv

LEMMA ScanStep ==
  ASSUME TypeOK, RaceFreeInv, LookForConnected
  PROVE  RaceFreeInv'
<1> USE DEF slotVars, childVars, Born, Serving, Live, TypeOK
<1>1. /\ UNCHANGED <<used, caddr, sequence, child, cslot, peer, sent>>
      /\ ctl = "dup" /\ ctl' \in {"select", "dup", "free"}
      /\ \A p \in Pid : ~Born(p)
  BY DEF LookForConnected, BackToSelect, RaceFreeInv, QuietInv
<1>2. MarkedInv' /\ PairsInv' /\ OwnSlotInv' /\ QuietInv' /\ TargetInv'
  BY <1>1 DEF RaceFreeInv, MarkedInv, PairsInv, OwnSlotInv, QuietInv, TargetInv
\* A child on one of the slots looked at is not the sender's.
<1>3. ASSUME ~AlreadyConnected, NEW p \in Pid, Serving(p), cslot[p] <= pi
      PROVE  peer[p] # from
  <2>1. CASE cslot[p] = pi
    BY <1>3, <2>1 DEF AlreadyConnected, RaceFreeInv, MarkedInv, OwnSlotInv
  <2>2. CASE cslot[p] < pi
    <3> HIDE DEF TypeOK, Serving
    <3>1. ScanInv /\ ~ignore
      BY <1>3, Zenon DEF RaceFreeInv, AlreadyConnected
    <3> QED
      BY <1>1, <1>3, <2>2, <3>1, Zenon DEF ScanInv
  <2>3. cslot[p] = pi \/ cslot[p] < pi
    <3>1. cslot[p] \in Slot /\ pi \in Slot
      OBVIOUS
    <3> HIDE DEF TypeOK
    <3>2. cslot[p] \in Nat /\ pi \in Nat
      BY <3>1, MaxPlayersAssumption DEF Slot
    <3> HIDE DEF Live, Serving, Born
    <3> QED
      BY <1>3, <3>2
  <2> QED
    BY <2>1, <2>2, <2>3, Zenon
<1>4. ScanInv'
  <2> SUFFICES ASSUME ctl' = "dup", ~ignore', NEW p \in Pid, Serving(p),
                      cslot[p] < pi'
               PROVE  peer[p] # from'
    BY <1>1 DEF ScanInv
  <2>1. pi' = pi + 1 /\ ~AlreadyConnected /\ from' = from
    BY DEF LookForConnected, BackToSelect
  <2>2. cslot[p] <= pi
    BY <2>1, SlotFacts
  <2> QED
    BY <1>3, <2>1, <2>2
<1>5. NewClientInv'
  <2> SUFFICES ASSUME ctl' = "free", NEW p \in Pid, Live(p)
               PROVE  peer[p] # from'
    BY <1>1 DEF NewClientInv
  <2>1. AtLastSlot /\ ~AlreadyConnected /\ from' = from
    BY DEF LookForConnected, BackToSelect
  <2>2. Serving(p)
    BY <1>1, Zenon
  <2>3. cslot[p] <= pi
    <3>1. cslot[p] \in Slot /\ pi \in Slot
      OBVIOUS
    <3> HIDE DEF TypeOK, Live
    <3> QED
      BY <2>1, <3>1, MaxPlayersAssumption DEF AtLastSlot, Slot
  <2> QED
    BY <1>3, <2>1, <2>2, <2>3
<1> QED
  BY <1>2, <1>4, <1>5 DEF RaceFreeInv

LEMMA SearchStep ==
  ASSUME TypeOK, RaceFreeInv, FindFree \/ Claim
  PROVE  RaceFreeInv'
<1> USE DEF slotVars, childVars, Born, Serving, Live, TypeOK, BackToSelect,
            RaceFreeInv
<1>1. CASE FindFree
  <2>1. /\ UNCHANGED <<used, caddr, sequence, child, cslot, peer, sent>>
        /\ ctl = "free" /\ ctl' \in {"select", "free", "claim"}
        /\ \A p \in Pid : ~Born(p)
        /\ ctl' # "select" => from' = from
        /\ ctl' = "claim" => ~used[pi] /\ pi' = pi
    BY <1>1 DEF FindFree, QuietInv
  <2>2. MarkedInv' /\ PairsInv' /\ OwnSlotInv' /\ QuietInv' /\ ScanInv'
    BY <2>1 DEF MarkedInv, PairsInv, OwnSlotInv, QuietInv, ScanInv
  <2>3. TargetInv' /\ NewClientInv'
    BY <2>1 DEF TargetInv, NewClientInv, MarkedInv
  <2> QED
    BY <2>2, <2>3
<1>2. CASE Claim
  <2>1. /\ UNCHANGED <<used, sequence, child, cslot, peer, sent, from, pi>>
        /\ ctl = "claim" /\ ctl' = "fork"
        /\ caddr' = [caddr EXCEPT ![pi] = from]
    BY <1>2 DEF Claim
  <2>2. QuietInv' /\ MarkedInv' /\ TargetInv' /\ ScanInv' /\ NewClientInv'
    BY <2>1 DEF QuietInv, MarkedInv, TargetInv, ScanInv, NewClientInv
  <2>3. PairsInv' /\ OwnSlotInv'
    BY <2>1 DEF PairsInv, OwnSlotInv, TargetInv
  <2> QED
    BY <2>2, <2>3
<1> QED
  BY <1>1, <1>2

LEMMA ForkStep ==
  ASSUME TypeOK, ClaimedInv, UnsentInv, RaceFreeInv,
         ForkFails \/ \E p \in Pid : Fork(p)
  PROVE  RaceFreeInv'
<1> USE DEF slotVars, childVars, Born, Serving, Live, TypeOK, BackToSelect,
            RaceFreeInv
<1>1. CASE ForkFails
  <2>1. /\ UNCHANGED <<caddr, sequence, child, cslot, peer, sent>>
        /\ ctl = "fork" /\ ctl' = "select"
        /\ used' = [used EXCEPT ![pi] = FALSE]
    BY <1>1 DEF ForkFails
  <2>2. QuietInv' /\ TargetInv' /\ ScanInv' /\ NewClientInv'
    BY <2>1 DEF QuietInv, TargetInv, ScanInv, NewClientInv
  <2>3. MarkedInv'
    BY <2>1 DEF MarkedInv, TargetInv
  <2>4. PairsInv' /\ OwnSlotInv'
    BY <2>1 DEF PairsInv, OwnSlotInv
  <2> QED
    BY <2>2, <2>3, <2>4
<1>2. ASSUME NEW p \in Pid, Fork(p) PROVE RaceFreeInv'
  <2>1. /\ UNCHANGED <<used, caddr, sequence, sent>>
        /\ ctl = "fork" /\ ctl' = "select" /\ child[p] = "none"
        /\ child' = [child EXCEPT ![p] = "born"]
        /\ cslot' = [cslot EXCEPT ![p] = pi]
        /\ peer' = [peer EXCEPT ![p] = from]
        /\ caddr[pi] = from
    BY <1>2 DEF Fork, ClaimedInv
  <2>2. QuietInv' /\ TargetInv' /\ ScanInv' /\ NewClientInv'
    BY <2>1 DEF QuietInv, TargetInv, ScanInv, NewClientInv
  <2>3. MarkedInv'
    BY <2>1 DEF MarkedInv
  <2>4. PairsInv'
    BY <2>1 DEF PairsInv, TargetInv, NewClientInv
  <2>5. OwnSlotInv'
    BY <2>1 DEF OwnSlotInv
  <2> QED
    BY <2>2, <2>3, <2>4, <2>5
<1> QED
  BY <1>1, <1>2

LEMMA ChildStep ==
  ASSUME TypeOK, UnsentInv, RaceFreeInv, NEW p \in Pid, PlayServer(p)
  PROVE  RaceFreeInv'
<1> USE DEF slotVars, ctlVars, Born, Serving, Live, TypeOK, RaceFreeInv
<1>1. CASE Mark(p)
  <2>1. /\ UNCHANGED <<caddr, sequence, ctl, from, ignore, pi, cslot, peer, sent>>
        /\ child[p] = "born" /\ ctl = "select"
        /\ used' = [used EXCEPT ![cslot[p]] = TRUE]
        /\ child' = [child EXCEPT ![p] = "marked"]
    BY <1>1 DEF Mark, QuietInv
  <2>2. QuietInv' /\ MarkedInv' /\ TargetInv' /\ ScanInv' /\ NewClientInv'
    BY <2>1 DEF QuietInv, MarkedInv, TargetInv, ScanInv, NewClientInv
  <2>3. PairsInv' /\ OwnSlotInv'
    BY <2>1 DEF PairsInv, OwnSlotInv
  <2> QED
    BY <2>2, <2>3
<1>2. CASE Accept(p)
  <2>1. /\ UNCHANGED <<used, caddr, sequence, ctl, from, ignore, pi, cslot, peer,
                       sent>>
        /\ child[p] = "marked" /\ child' = [child EXCEPT ![p] = "accepted"]
    BY <1>2 DEF Accept
  <2>2. QuietInv' /\ MarkedInv' /\ TargetInv' /\ ScanInv' /\ NewClientInv'
    BY <2>1 DEF QuietInv, MarkedInv, TargetInv, ScanInv, NewClientInv
  <2>3. PairsInv' /\ OwnSlotInv'
    BY <2>1 DEF PairsInv, OwnSlotInv
  <2> QED
    BY <2>2, <2>3
<1>3. CASE ResetSequence(p)
  <2>1. /\ UNCHANGED <<used, caddr, ctl, from, ignore, pi, cslot, peer, sent>>
        /\ child[p] = "accepted" /\ child' = [child EXCEPT ![p] = "serving"]
        /\ sequence' = [sequence EXCEPT ![cslot[p]] = 0] /\ sent[p] = 0
    BY <1>3 DEF ResetSequence, UnsentInv
  <2>2. QuietInv' /\ MarkedInv' /\ TargetInv' /\ ScanInv' /\ NewClientInv'
    BY <2>1 DEF QuietInv, MarkedInv, TargetInv, ScanInv, NewClientInv
  <2>3. PairsInv' /\ OwnSlotInv'
    BY <2>1 DEF PairsInv, OwnSlotInv
  <2> QED
    BY <2>2, <2>3
<1>4. CASE Send(p)
  <2>1. /\ UNCHANGED <<used, caddr, ctl, from, ignore, pi, child, cslot, peer>>
        /\ child[p] = "serving"
        /\ sequence' = [sequence EXCEPT ![cslot[p]] = @ + 1]
        /\ sent' = [sent EXCEPT ![p] = @ + 1]
    BY <1>4 DEF Send
  <2>2. QuietInv' /\ MarkedInv' /\ TargetInv' /\ ScanInv' /\ NewClientInv'
    BY <2>1 DEF QuietInv, MarkedInv, TargetInv, ScanInv, NewClientInv
  <2>3. PairsInv' /\ OwnSlotInv'
    BY <2>1 DEF PairsInv, OwnSlotInv
  <2> QED
    BY <2>2, <2>3
<1>5. CASE Release(p)
  <2>1. /\ UNCHANGED <<caddr, sequence, ctl, from, ignore, pi>>
        /\ child[p] = "serving" /\ child' = [child EXCEPT ![p] = "none"]
        /\ used' = [used EXCEPT ![cslot[p]] = FALSE]
        /\ \A q \in Pid : q # p => /\ cslot'[q] = cslot[q] /\ peer'[q] = peer[q]
                                   /\ sent'[q] = sent[q]
    BY <1>5 DEF Release, Gone
  <2>2. QuietInv' /\ TargetInv' /\ ScanInv' /\ NewClientInv'
    BY <2>1 DEF QuietInv, TargetInv, ScanInv, NewClientInv
  <2>3. MarkedInv'
    BY <2>1 DEF MarkedInv, PairsInv
  <2>4. PairsInv' /\ OwnSlotInv'
    BY <2>1 DEF PairsInv, OwnSlotInv
  <2> QED
    BY <2>2, <2>3, <2>4
<1>6. CASE Hear(p) \/ StartOver(p)
  <2>1. /\ UNCHANGED <<used, caddr, sequence, ctl, from, ignore, pi, cslot, peer,
                       sent>>
        /\ child[p] \in {"serving", "heard"}
        /\ \E where \in {"serving", "heard"} :
             child' = [child EXCEPT ![p] = where]
    BY <1>6 DEF Hear, StartOver
  <2>2. QuietInv' /\ MarkedInv' /\ TargetInv' /\ ScanInv' /\ NewClientInv'
    BY <2>1 DEF QuietInv, MarkedInv, TargetInv, ScanInv, NewClientInv
  <2>3. PairsInv' /\ OwnSlotInv'
    BY <2>1 DEF PairsInv, OwnSlotInv
  <2> QED
    BY <2>2, <2>3
<1> QED
  BY <1>1, <1>2, <1>3, <1>4, <1>5, <1>6 DEF PlayServer

LEMMA CrashStep ==
  ASSUME TypeOK, RaceFreeInv, NEW p \in Pid, Crash(p)
  PROVE  RaceFreeInv'
<1> USE DEF slotVars, ctlVars, Born, Serving, Live, TypeOK, RaceFreeInv
<1>1. /\ UNCHANGED <<used, caddr, sequence, ctl, from, ignore, pi, cslot>>
      /\ child' = [child EXCEPT ![p] = "crashed"]
      /\ \A q \in Pid : q # p => peer'[q] = peer[q] /\ sent'[q] = sent[q]
  BY DEF Crash, Gone
<1>2. /\ QuietInv' /\ MarkedInv' /\ TargetInv' /\ ScanInv' /\ NewClientInv'
  BY <1>1 DEF QuietInv, MarkedInv, TargetInv, ScanInv, NewClientInv
<1>3. PairsInv' /\ OwnSlotInv'
  BY <1>1 DEF PairsInv, OwnSlotInv
<1> QED
  BY <1>2, <1>3

LEMMA RaceFreeStep ==
  ASSUME ControlInv, [Next]_vars, ~raced'
  PROVE  RaceFreeInv'
<1> USE DEF ControlInv
<1>1. ~raced
  BY Zenon DEF Next, RecvConnect, ControlServer, LookForConnected, FindFree,
     Claim, Fork, ForkFails, PlayServer, Mark, Accept, ResetSequence, Send,
     Release, Hear, StartOver, Crash, vars
<1>2. ASSUME NEW c \in Clients, RecvConnect(c) PROVE RaceFreeInv'
  BY <1>1, <1>2, ReceiveStep
<1>3. CASE ControlServer
  BY <1>1, <1>3, ScanStep, SearchStep, ForkStep, Zenon DEF ControlServer
<1>4. ASSUME NEW p \in Pid, PlayServer(p) \/ Crash(p) PROVE RaceFreeInv'
  BY <1>1, <1>4, ChildStep, CrashStep, Zenon
<1>5. CASE UNCHANGED vars
  <2>1. UNCHANGED <<used, caddr, sequence, ctl, from, ignore, pi, child, cslot,
                    peer, sent>>
    BY <1>5 DEF vars, slotVars, ctlVars, childVars
  <2> QED
    BY <1>1, <2>1 DEF RaceFreeInv, QuietInv, MarkedInv, TargetInv, ScanInv,
       NewClientInv, PairsInv, OwnSlotInv, Live, Born, Serving
<1> QED
  BY <1>2, <1>3, <1>4, <1>5, Zenon DEF Next

-----------------------------------------------------------------------------
(***************************************************************************)
(* The theorems.                                                           *)
(***************************************************************************)

\* The inductive invariant of the control server and its children.
THEOREM ControlInvariant == Spec => []ControlInv
<1>1. Init => ControlInv
  <2> SUFFICES ASSUME Init PROVE ControlInv
    OBVIOUS
  <2>1. TypeOK
    BY TypeInit
  <2>2. /\ \A p \in Pid : child[p] = "none" /\ sent[p] = 0
        /\ \A i \in Slot : ~used[i]
        /\ ctl = "select"
    BY DEF Init
  <2>3. SlotHasOwner /\ ClaimedInv /\ UnsentInv
    BY <2>2 DEF SlotHasOwner, ClaimedInv, UnsentInv
  <2>4. RaceFreeInv
    BY <2>2 DEF RaceFreeInv, QuietInv, MarkedInv, TargetInv, ScanInv,
       NewClientInv, PairsInv, OwnSlotInv, Live, Born, Serving
  <2> QED
    BY <2>1, <2>3, <2>4 DEF ControlInv
<1>2. ControlInv /\ [Next]_vars => ControlInv'
  <2> SUFFICES ASSUME ControlInv, [Next]_vars PROVE ControlInv'
    OBVIOUS
  <2>1. TypeOK' /\ SlotHasOwner' /\ ClaimedInv' /\ UnsentInv'
    BY TypeStep, OwnerStep, BasicStep, Zenon DEF ControlInv
  <2>2. ~raced' => RaceFreeInv'
    BY RaceFreeStep, Zenon
  <2> QED
    BY <2>1, <2>2, Zenon DEF ControlInv
<1> QED
  BY <1>1, <1>2, PTL DEF Spec

\* Without the race no two children share a slot of the table.
THEOREM SlotsArePrivate == Spec => []SlotPrivate
<1>1. ControlInv => SlotPrivate
  BY DEF ControlInv, RaceFreeInv, PairsInv, SlotPrivate
<1> QED
  BY <1>1, ControlInvariant, PTL

\* Without the race a client that repeats its CONNECT gets one child.
THEOREM ClientsHaveOneChild == Spec => []OneChildPerClient
<1>1. ControlInv => OneChildPerClient
  BY DEF ControlInv, RaceFreeInv, PairsInv, OneChildPerClient
<1> QED
  BY <1>1, ControlInvariant, PTL

\* Without the race the slot of a child holds its client's address and counts
\* its packets, whatever the control server and the other children do.
THEOREM SessionsAreUndisturbed == Spec => []SessionUndisturbed
<1>1. ControlInv => SessionUndisturbed
  BY DEF ControlInv, RaceFreeInv, OwnSlotInv, SessionUndisturbed
<1> QED
  BY <1>1, ControlInvariant, PTL
=============================================================================
