----------------------------- MODULE DbsControl -----------------------------
(***************************************************************************)
(* The control server of DBS (ControlServer in dbs.c) and the table of     *)
(* player slots it shares with the processes it forks.                     *)
(*                                                                         *)
(* The table lives in System V shared memory.  The control process looks   *)
(* for a free slot, writes the address of the client into it and forks;    *)
(* only the CHILD sets used = 1.  The child serves the client through      *)
(* PlayServer, which reads the address and keeps its packet counter in     *)
(* the slot, and clears used when PlayServer returns.  A child that leaves *)
(* through syserror() exits inside PlayServer and never clears it.         *)
(***************************************************************************)
EXTENDS Naturals, FiniteSets

CONSTANTS
  Clients,      \* addresses clients send CONNECT requests from
  NoClient,     \* the address of a slot nobody has used yet
  MaxPlayers,   \* qsdb.max_players
  MaxChildren,  \* bound: children that exist at the same time
  MaxSent       \* bound: packets numbered by a child, and in a slot

ASSUME ClientsAssumption == NoClient \notin Clients
ASSUME MaxPlayersAssumption == MaxPlayers \in 1 .. 255
ASSUME BoundsAssumption == MaxChildren \in Nat /\ MaxSent \in Nat

VARIABLES
  used,         \* shm[i].used
  caddr,        \* shm[i].caddr (clen, port and address are copies of it)
  sequence,     \* shm[i].sequence
  ctl,          \* where the control server is in its endless loop
  from,         \* the sender of the request in hand
  ignore,       \* ControlServer's local flag
  pi,           \* ControlServer's and find_free's scan index
  child,        \* where each child is
  cslot,        \* the slot each child was given (PlayServer's argument)
  peer,         \* the client each child was forked for (its copy of from)
  sent,         \* packets each child has numbered
  pending,      \* clients whose last CONNECT has come to nothing yet
  raced         \* history: a CONNECT was taken off the socket while a forked
                \* child had not marked its slot yet

slotVars  == <<used, caddr, sequence>>
ctlVars   == <<ctl, from, ignore, pi>>
childVars == <<child, cslot, peer, sent>>
vars == <<slotVars, ctlVars, childVars, pending, raced>>

Slot == 0 .. MaxPlayers - 1
Pid  == 1 .. MaxChildren

Born(p)    == child[p] = "born"
\* Inside PlayServer, its slot marked.
Serving(p) == child[p] \in {"marked", "accepted", "serving", "heard"}
Live(p)    == Born(p) \/ Serving(p)
\* Left by syserror(): the slot is never given back.
Crashed(p) == child[p] = "crashed"

TypeOK ==
  /\ used \in [Slot -> BOOLEAN]
  /\ caddr \in [Slot -> Clients \cup {NoClient}]
  /\ sequence \in [Slot -> Nat]
  /\ ctl \in {"select", "dup", "free", "claim", "fork"}
  /\ from \in Clients \cup {NoClient}
  /\ ctl # "select" => from \in Clients
  /\ ignore \in BOOLEAN
  /\ pi \in Slot
  /\ child \in [Pid -> {"none", "born", "marked", "accepted", "serving",
                        "heard", "crashed"}]
  /\ cslot \in [Pid -> Slot]
  /\ peer \in [Pid -> Clients \cup {NoClient}]
  /\ sent \in [Pid -> 0 .. MaxSent]
  /\ pending \subseteq Clients
  /\ raced \in BOOLEAN

Init ==
  /\ used = [i \in Slot |-> FALSE]
  /\ caddr = [i \in Slot |-> NoClient]
  /\ sequence = [i \in Slot |-> 0]
  /\ ctl = "select" /\ from = NoClient /\ ignore = FALSE /\ pi = 0
  /\ child = [p \in Pid |-> "none"]
  /\ cslot = [p \in Pid |-> 0]
  /\ peer = [p \in Pid |-> NoClient]
  /\ sent = [p \in Pid |-> 0]
  /\ pending = {}
  /\ raced = FALSE

-----------------------------------------------------------------------------
(* The control server. *)

\* End of the request: back to select(); the locals of the handler are dead.
BackToSelect ==
  /\ ctl' = "select" /\ from' = NoClient /\ ignore' = FALSE /\ pi' = 0

\* A valid CONNECT request of client c is received.
RecvConnect(c) ==
  /\ ctl = "select"
  /\ ctl' = "dup" /\ from' = c /\ ignore' = FALSE /\ pi' = 0
  /\ pending' = pending \cup {c}
  /\ raced' = (raced \/ \E p \in Pid : Born(p))
  /\ UNCHANGED <<slotVars, childVars>>

\* Mutant: the scan runs one slot too far (pi <= max_players).
OneTooFar == pi = MaxPlayers
\* The loops over the slots end here.
AtLastSlot == pi + 1 = MaxPlayers

\* Mutant: each turn of the loop forgets what the turns before it found.
ConnectedOnThisSlot == used[pi] /\ caddr[pi] = from
\* The sender is the client of this slot or of one scanned before.
AlreadyConnected == ignore \/ (used[pi] /\ caddr[pi] = from)

\* One turn of the loop that looks for an already connected player; after
\* the last one the request is dropped or the search for a slot begins.
LookForConnected ==
  /\ ctl = "dup"
  /\ \/ /\ ~AtLastSlot
        /\ pi' = pi + 1 /\ ignore' = AlreadyConnected
        /\ UNCHANGED <<ctl, from, pending>>
     \/ /\ AtLastSlot /\ ~AlreadyConnected
        /\ ctl' = "free" /\ pi' = 0
        /\ UNCHANGED <<from, ignore, pending>>
     \/ /\ AtLastSlot /\ AlreadyConnected
        /\ pending' = pending \ {from}
        /\ BackToSelect
  /\ UNCHANGED <<slotVars, childVars, raced>>

\* One turn of find_free(); after the last slot the client is rejected.
FindFree ==
  /\ ctl = "free"
  /\ \/ /\ ~used[pi]
        /\ ctl' = "claim"
        /\ UNCHANGED <<from, ignore, pi, pending>>
     \/ /\ used[pi] /\ ~AtLastSlot
        /\ pi' = pi + 1
        /\ UNCHANGED <<ctl, from, ignore, pending>>
     \/ /\ used[pi] /\ AtLastSlot
        /\ pending' = pending \ {from}
        /\ BackToSelect
  /\ UNCHANGED <<slotVars, childVars, raced>>

\* Mutant: the slot keeps the address of its last client.
ClaimKeepsAddress ==
  /\ ctl = "claim"
  /\ ctl' = "fork"
  /\ UNCHANGED <<slotVars, from, ignore, pi, childVars, pending, raced>>

\* The address of the client is written into the slot.
Claim ==
  /\ ctl = "claim"
  /\ caddr' = [caddr EXCEPT ![pi] = from]
  /\ ctl' = "fork"
  /\ UNCHANGED <<used, sequence, from, ignore, pi, childVars, pending, raced>>

\* fork() succeeds; the parent goes back to select() at once.
Fork(p) ==
  /\ ctl = "fork"
  /\ child[p] = "none" /\ \A q \in Pid : q < p => child[q] # "none"
  /\ child' = [child EXCEPT ![p] = "born"]
  /\ cslot' = [cslot EXCEPT ![p] = pi]
  /\ peer'  = [peer EXCEPT ![p] = from]
  /\ BackToSelect
  /\ UNCHANGED <<slotVars, sent, pending, raced>>

\* fork() fails.
ForkFails ==
  /\ ctl = "fork"
  /\ used' = [used EXCEPT ![pi] = FALSE]
  /\ pending' = pending \ {from}
  /\ BackToSelect
  /\ UNCHANGED <<caddr, sequence, childVars, raced>>

-----------------------------------------------------------------------------
(* The children. *)

\* Mutant: the child does not mark its slot.
MarkNothing(p) ==
  /\ child[p] = "born"
  /\ child' = [child EXCEPT ![p] = "marked"]
  /\ UNCHANGED <<slotVars, ctlVars, cslot, peer, sent, pending, raced>>

\* The child marks its slot and enters PlayServer.
Mark(p) ==
  /\ child[p] = "born"
  /\ used' = [used EXCEPT ![cslot[p]] = TRUE]
  /\ child' = [child EXCEPT ![p] = "marked"]
  /\ UNCHANGED <<caddr, sequence, ctlVars, cslot, peer, sent,
                 pending, raced>>

\* The child opens its own port and sends ACCEPT to the address it finds in
\* the slot.
Accept(p) ==
  /\ child[p] = "marked"
  /\ pending' = pending \ {caddr[cslot[p]]}
  /\ child' = [child EXCEPT ![p] = "accepted"]
  /\ UNCHANGED <<slotVars, ctlVars, cslot, peer, sent, raced>>

\* Mutant: the counter goes on where the last child on the slot left it.
ResetNothing(p) ==
  /\ child[p] = "accepted"
  /\ child' = [child EXCEPT ![p] = "serving"]
  /\ UNCHANGED <<slotVars, ctlVars, cslot, peer, sent, pending, raced>>

\* The packet counter of the slot starts over.
ResetSequence(p) ==
  /\ child[p] = "accepted"
  /\ sequence' = [sequence EXCEPT ![cslot[p]] = 0]
  /\ child' = [child EXCEPT ![p] = "serving"]
  /\ UNCHANGED <<used, caddr, ctlVars, cslot, peer, sent, pending,
                 raced>>

\* The child has sent one packet and advances the counter in the slot.
Send(p) ==
  /\ child[p] = "serving"
  /\ sent[p] < MaxSent /\ sequence[cslot[p]] < MaxSent
  /\ sequence' = [sequence EXCEPT ![cslot[p]] = @ + 1]
  /\ sent' = [sent EXCEPT ![p] = @ + 1]
  /\ UNCHANGED <<used, caddr, ctlVars, child, cslot, peer, pending,
                 raced>>

\* A keep-alive or a fresh order of the client arrives while the child waits:
\* gotit = 1 outside a transmission, retry = 0 inside one.
Hear(p) ==
  /\ child[p] = "serving"
  /\ child' = [child EXCEPT ![p] = "heard"]
  /\ UNCHANGED <<slotVars, ctlVars, cslot, peer, sent, pending, raced>>

\* The child begins to count its tries again.  Nothing bounds how often a
\* client makes it do so.
StartOver(p) ==
  /\ child[p] = "heard"
  /\ child' = [child EXCEPT ![p] = "serving"]
  /\ UNCHANGED <<slotVars, ctlVars, cslot, peer, sent, pending, raced>>

\* What the process knew goes with it.
Gone(p) ==
  /\ peer' = [peer EXCEPT ![p] = NoClient]
  /\ sent' = [sent EXCEPT ![p] = 0]

\* Mutant: the child exits inside PlayServer and the slot stays taken.
ReleaseKeepsUsed(p) ==
  /\ child[p] = "serving"
  /\ child' = [child EXCEPT ![p] = "none"]
  /\ cslot' = [cslot EXCEPT ![p] = 0]
  /\ Gone(p)
  /\ UNCHANGED <<slotVars, ctlVars, pending, raced>>

\* PlayServer returns (end of the demo, or the client does not respond): the
\* slot is given back and the child exits.
Release(p) ==
  /\ child[p] = "serving"
  /\ used' = [used EXCEPT ![cslot[p]] = FALSE]
  /\ child' = [child EXCEPT ![p] = "none"]
  /\ cslot' = [cslot EXCEPT ![p] = 0]
  /\ Gone(p)
  /\ UNCHANGED <<caddr, sequence, ctlVars, pending, raced>>

\* syserror() anywhere in PlayServer: no socket, select() fails, the demo
\* file ends in the middle of the sign-on.
Crash(p) ==
  /\ Serving(p)
  /\ child' = [child EXCEPT ![p] = "crashed"]
  /\ Gone(p)
  /\ UNCHANGED <<slotVars, ctlVars, cslot, pending, raced>>

-----------------------------------------------------------------------------

ControlServer ==
  \/ LookForConnected \/ FindFree \/ Claim \/ ForkFails
  \/ \E p \in Pid : Fork(p)

PlayServer(p) ==
  \/ Mark(p) \/ Accept(p) \/ ResetSequence(p) \/ Send(p) \/ Release(p)
  \/ Hear(p) \/ StartOver(p)

Next ==
  \/ \E c \in Clients : RecvConnect(c)
  \/ ControlServer
  \/ \E p \in Pid : PlayServer(p) \/ Crash(p)

\* The kernel runs the control process and every child, whose waits all have a
\* timeout; no client has to send anything and nothing has to fail.
Fairness ==
  /\ WF_vars(ControlServer)
  /\ \A p \in Pid : WF_vars(PlayServer(p))

Spec == Init /\ [][Next]_vars
FairSpec == Spec /\ Fairness

-----------------------------------------------------------------------------
(* Properties. *)

\* A slot is taken only while a child is inside PlayServer for it, or because
\* such a child crashed: nothing else (a failed fork, a late child, two
\* children on one slot) makes the server lose a slot.
SlotHasOwner ==
  \A i \in Slot : used[i] =>
    \E p \in Pid : cslot[p] = i /\ (Serving(p) \/ Crashed(p))

\* As long as every forked child marked its slot before the next CONNECT was
\* taken off the socket, no two children share a slot.
SlotPrivate ==
  ~raced => \A p, q \in Pid :
    Live(p) /\ Live(q) /\ p # q => cslot[p] # cslot[q]

\* Under the same condition a client that repeats its CONNECT (it does until
\* an ACCEPT arrives) never gets a second child.
OneChildPerClient ==
  ~raced => \A p, q \in Pid :
    Live(p) /\ Live(q) /\ p # q => peer[p] # peer[q]

\* Under the same condition the slot says what its child believes: packets go
\* to the client the child was forked for, and once the child has reset the
\* counter it counts this child's packets and no others.
SessionUndisturbed ==
  ~raced => \A p \in Pid :
    /\ Live(p) => caddr[cslot[p]] = peer[p]
    /\ child[p] \in {"serving", "heard"} => sequence[cslot[p]] = sent[p]

\* What the manual says of -m, "defines the max. number of players": at most
\* that many children serve clients at a time.
AtMostMaxPlayers == Cardinality({p \in Pid : Serving(p)}) <= MaxPlayers

\* The client of child p keeps slot i for ever: it never stops to send fresh
\* packets, and each makes the child count its tries from 0 again.
HeldForEver(p, i) ==
  <>[](Serving(p) /\ cslot[p] = i) /\ []<><<Hear(p)>>_vars

\* Every slot that is taken is given back, unless its child crashed or a client
\* that never falls silent holds it.
SlotReclaimed ==
  \A i \in Slot :
    \/ used[i] ~> (~used[i] \/ \E p \in Pid : cslot[p] = i /\ Crashed(p))
    \/ \E p \in Pid : HeldForEver(p, i)

\* Every CONNECT comes to something: the client is told, or its address is that
\* of a taken slot, or there was no process for it.  The exceptions are the
\* shared slot, where the ACCEPT goes to somebody else, and a client whose own
\* child crashed: the crash of another client's child is no excuse.
ConnectAnswered ==
  \A c \in Clients :
    c \in pending ~>
      \/ c \notin pending \/ raced
      \/ \E p \in Pid : Crashed(p) /\ caddr[cslot[p]] = c
=============================================================================
