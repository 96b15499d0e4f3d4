----------------------------- MODULE DbsSession -----------------------------
(***************************************************************************)
(* PlayServer (dbs.c): one child of the control server shows the demo to   *)
(* one client.  It sends the first block (the precache lists), waits for   *)
(* the orders with which a Quake client signs on, sends one more block for *)
(* each "prespawn" and "spawn ", and at "begin" goes over to the runtime   *)
(* phase, in which the rest of the demo goes out unacknowledged.           *)
(*                                                                         *)
(* The blocks of the sign-on are sent by SendInitDEMPacket, module         *)
(* DbsLink, with the same packet counter and over the same network.        *)
(***************************************************************************)
EXTENDS DbsLink

CONSTANTS
  Script      \* the packets of orders a client signs on with: Script[n] is the
              \* set of those it may send when it has n whole blocks

ASSUME ScriptAssumption == Script \in Seq(SUBSET Seq(Commands))

VARIABLES
  phase,      \* where PlayServer is
  tries,      \* PlayServer's retry
  heard,      \* PlayServer's gotit
  runtime,    \* PlayServer's runtime
  cseqused,   \* shm[player].cseqused
  cseq,       \* shm[player].cseq
  cmds,       \* the orders of the packet in hand still to be read
  unrel,      \* network: the runtime blocks, sent NON_REL
  stage,      \* the client: packets of Script it has sent
  taken,      \* history: numbers of the client's packets acted upon, in order
  precached   \* history: the first call of SendInitDEMPacket returned 1

playVars    == <<phase, tries, heard, runtime, cseqused, cseq, cmds>>
sessionVars == <<playVars, unrel, stage, taken, precached>>
vars == <<linkVars, sessionVars>>

SessionInit ==
  /\ LinkInit
  /\ phase = "start" /\ tries = 0 /\ heard = FALSE /\ runtime = FALSE
  /\ cseqused = FALSE /\ cseq = 0 /\ cmds = <<>>
  /\ unrel = {} /\ stage = 0 /\ taken = <<>> /\ precached = FALSE

-----------------------------------------------------------------------------
(* Sign-on: the precache block. *)

\* The first block is read and its transmission begins.
Precache ==
  /\ phase = "start"
  /\ StartBlock
  /\ phase' = "precache"
  /\ UNCHANGED <<tries, heard, runtime, cseqused, cseq, cmds, unrel, stage,
                 taken, precached>>

\* SendInitDEMPacket returns; its result is not looked at.
PrecacheDone ==
  /\ phase = "precache" /\ pc = "idle"
  /\ phase' = "listen" /\ tries' = 0 /\ heard' = FALSE
  /\ precached' = (result = "sent")
  /\ UNCHANGED <<linkVars, runtime, cseqused, cseq, cmds, unrel, stage, taken>>

-----------------------------------------------------------------------------
(* Sign-on: waiting for the client's orders. *)

\* End of a turn of the waiting loop.  The test behind the loop does not look
\* at the flag; past it the next turn starts counting afresh, and "begin" ends
\* the sign-on.
EndOfListening(flag) ==
  \/ /\ Exhausted(tries)
     /\ phase' = "ended" /\ tries' = MaxRetry /\ heard' = flag
  \/ /\ ~Exhausted(tries) /\ ~flag
     /\ phase' = "listen" /\ tries' = tries + 1 /\ heard' = FALSE
  \/ /\ ~Exhausted(tries) /\ flag
     /\ phase' = IF runtime THEN "runtime" ELSE "listen"
     /\ tries' = 0 /\ heard' = FALSE

\* Nothing arrives in time, or nothing that counts: another address, another
\* type of packet (a late acknowledgement, a movement).
ListenInVain ==
  /\ phase = "listen"
  /\ EndOfListening(FALSE)
  /\ UNCHANGED <<linkVars, runtime, cseqused, cseq, cmds, unrel, stage, taken,
                 precached>>

\* Mutant: every order is taken for a new one.
AlwaysFresh(o) == TRUE
\* Not an order that was acted upon already.
Fresh(o) == ~cseqused \/ o.seq > cseq

\* A repeated order is acknowledged again and otherwise ignored.
RecvRepeated(o) ==
  /\ phase = "listen" /\ ~Fresh(o)
  /\ orderAcks' = orderAcks \cup {o.seq}
  /\ EndOfListening(FALSE)
  /\ UNCHANGED <<serverVars, clientVars, frags, acks, orders, runtime,
                 cseqused, cseq, cmds, unrel, stage, taken, precached>>

\* A new packet of orders is acknowledged, then read order by order.
RecvFresh(o) ==
  /\ phase = "listen" /\ Fresh(o)
  /\ orderAcks' = orderAcks \cup {o.seq}
  /\ cseqused' = TRUE /\ cseq' = o.seq
  /\ cmds' = o.cmds /\ phase' = "read"
  /\ taken' = Append(taken, o.seq)
  /\ UNCHANGED <<serverVars, clientVars, frags, acks, orders, tries, heard,
                 runtime, unrel, stage, precached>>

\* "name" (or "color"), and the keep-alive, change nothing here.
ReadPlainOrder ==
  /\ phase = "read" /\ cmds # <<>> /\ Head(cmds) \in {"keepalive", "name"}
  /\ heard' = TRUE /\ cmds' = Tail(cmds)
  /\ UNCHANGED <<linkVars, phase, tries, runtime, cseqused, cseq, unrel, stage,
                 taken, precached>>

\* "prespawn" and "spawn ": the next block of the demo is sent.
ReadBlockOrder ==
  /\ phase = "read" /\ cmds # <<>> /\ Head(cmds) \in {"prespawn", "spawn"}
  /\ heard' = TRUE /\ cmds' = Tail(cmds)
  /\ StartBlock
  /\ phase' = "order"
  /\ UNCHANGED <<tries, runtime, cseqused, cseq, unrel, stage, taken, precached>>

\* The same when the demo has no further block: DEM_block_read_bin does not
\* return, the process exits.
ReadPastEnd ==
  /\ phase = "read" /\ cmds # <<>> /\ Head(cmds) \in {"prespawn", "spawn"}
  /\ blk = Len(BlockSize)
  /\ phase' = "crashed"
  /\ UNCHANGED <<linkVars, tries, heard, runtime, cseqused, cseq, cmds, unrel,
                 stage, taken, precached>>

\* Mutant: the result is not looked at here either.
BlockOrderDoneUnchecked ==
  /\ phase = "order" /\ pc = "idle"
  /\ phase' = "read"
  /\ UNCHANGED <<linkVars, tries, heard, runtime, cseqused, cseq, cmds, unrel,
                 stage, taken, precached>>

\* SendInitDEMPacket returns: the rest of the packet, or the end.
BlockOrderDone ==
  /\ phase = "order" /\ pc = "idle"
  /\ phase' = IF result = "sent" THEN "read" ELSE "ended"
  /\ UNCHANGED <<linkVars, tries, heard, runtime, cseqused, cseq, cmds, unrel,
                 stage, taken, precached>>

\* "begin": the sign-on is over once the packet is read.
ReadBegin ==
  /\ phase = "read" /\ cmds # <<>> /\ Head(cmds) = "begin"
  /\ heard' = TRUE /\ cmds' = Tail(cmds) /\ runtime' = TRUE
  /\ UNCHANGED <<linkVars, phase, tries, cseqused, cseq, unrel, stage, taken,
                 precached>>

\* The packet is read.
ReadDone ==
  /\ phase = "read" /\ cmds = <<>>
  /\ EndOfListening(heard)
  /\ UNCHANGED <<linkVars, runtime, cseqused, cseq, cmds, unrel, stage, taken,
                 precached>>

-----------------------------------------------------------------------------
(* The runtime phase. *)

\* SendRuntimeDEMPacket: the next block goes out once, under the next number
\* of the same counter.
SendRuntime ==
  /\ phase = "runtime" /\ blk < Len(BlockSize)
  /\ blk' = blk + 1
  /\ unrel' = unrel \cup {[seq |-> seq, blk |-> blk + 1]}
  /\ seq' = seq + 1
  /\ UNCHANGED <<pc, off, retry, gotit, result, clientVars, netVars, playVars,
                 stage, taken, precached>>

\* The end of the demo, or sendto() fails.
RuntimeEnds ==
  /\ phase = "runtime"
  /\ phase' = "ended"
  /\ UNCHANGED <<linkVars, tries, heard, runtime, cseqused, cseq, cmds, unrel,
                 stage, taken, precached>>

-----------------------------------------------------------------------------
(* The client signs on: one packet of orders for each whole block, and     *)
(* keep-alives whenever it likes.                                          *)

WholeBlocks == Cardinality({k \in DOMAIN received : received[k].last})

ClientSignsOn ==
  /\ stage < Len(Script) /\ stage < WholeBlocks
  /\ \E packet \in Script[stage + 1] : ClientOrder(packet)
  /\ stage' = stage + 1
  /\ UNCHANGED <<playVars, unrel, taken, precached>>

ClientKeepsAlive ==
  /\ ClientOrder(<<"keepalive">>)
  /\ UNCHANGED sessionVars

-----------------------------------------------------------------------------

PlayServer ==
  \/ Precache \/ PrecacheDone
  \/ SendInitDEMPacket /\ UNCHANGED sessionVars
  \/ ListenInVain
  \/ \E o \in orders : RecvRepeated(o) \/ RecvFresh(o)
  \/ ReadPlainOrder \/ ReadBlockOrder \/ ReadPastEnd \/ BlockOrderDone
  \/ ReadBegin \/ ReadDone
  \/ SendRuntime \/ RuntimeEnds

Next ==
  \/ PlayServer
  \/ ClientAnswers /\ UNCHANGED sessionVars
  \/ ClientSignsOn \/ ClientKeepsAlive

Spec == SessionInit /\ [][Next]_vars
FairSpec == Spec /\ WF_vars(PlayServer)

-----------------------------------------------------------------------------
(* Properties. *)

IsBlockOrder(c) == c \in {"prespawn", "spawn"}
Taken(o) == o.seq \in {taken[k] : k \in DOMAIN taken}
BlockOrders(packet) == {k \in DOMAIN packet : IsBlockOrder(packet[k])}
\* The orders for a block in the packets acted upon.
BlocksAsked ==
  UNION {{o} \X BlockOrders(o.cmds) : o \in {p \in orders : Taken(p)}}

SessionTypeOK ==
  /\ LinkTypeOK
  /\ phase \in {"start", "precache", "listen", "read", "order", "runtime",
                "ended", "crashed"}
  /\ tries \in 0 .. MaxRetry
  /\ phase \in {"listen", "read", "order"} => tries < MaxRetry
  /\ heard \in BOOLEAN /\ runtime \in BOOLEAN
  /\ cseqused \in BOOLEAN /\ cseq \in 0 .. MaxOrders
  /\ cmds \in Seq(Commands)
  /\ pc # "idle" => phase \in {"precache", "order"}
  /\ unrel \subseteq [seq : Nat, blk : 1 .. Len(BlockSize)]
  /\ stage \in 0 .. Len(Script)
  /\ taken \in Seq(0 .. MaxOrders)
  /\ precached \in BOOLEAN

\* No order the client was told has arrived is lost: it was acted upon, or it
\* is a keep-alive, which asks for nothing but the acknowledgement.
AckedIsTaken ==
  \A o \in orders : o.seq \in orderAcks => IsKeepAlive(o) \/ Taken(o)

\* However often an order arrives, it moves the demo on once: the blocks read
\* in the sign-on are the precache block and one for each order that asks for
\* one.
OneBlockPerOrder ==
  phase \in {"listen", "read", "order"} =>
    blk = 1 + Cardinality(BlocksAsked) - Cardinality(BlockOrders(cmds))

\* If the precache block was delivered, the client sees the demo block by block
\* from the first one: the sign-on blocks whole and in order, and under the
\* numbers that follow theirs the runtime blocks, from the next block on.
DemoInOrder ==
  precached =>
    /\ \A k \in 1 .. Len(received) - 1 :
         Delivery!Follows(received[k], received[k + 1])
    /\ \A u \in unrel : u.blk - WholeBlocks = u.seq - Len(received) + 1

\* What SendInitDEMPacket logs when it returns 1, "DEM packet sended": the
\* client has the block it asked for.
SendedIsReceived == phase = "order" => SentIsReceived

\* The session ends, and its slot is given back, unless the client never falls
\* silent: it keeps a transmission waiting with keep-alives for ever, or it
\* sends fresh packets for ever, each of which makes the waiting loop begin
\* again with retry = 0.  Repeated orders, late acknowledgements and anything
\* else that arrives do not keep a session alive.
SessionEnds ==
  \/ <>(phase \in {"ended", "crashed"})
  \/ []<><<\E o \in orders : RecvKeepAlive(o)>>_vars
  \/ []<><<\E o \in orders : RecvFresh(o)>>_vars
=============================================================================
