------------------------------ MODULE DbsLink -------------------------------
(***************************************************************************)
(* SendInitDEMPacket (dbs.c): the stop-and-wait transmission of one block  *)
(* of the demo file to a client, over UDP.                                 *)
(*                                                                         *)
(* The block goes out in fragments of at most MAX_BLOCKSIZE bytes, each    *)
(* under the number *sequence, each sent again until the client            *)
(* acknowledges that number or maxretry turns of the loop are over.  The   *)
(* client (a Quake client, not part of the repository) acknowledges every  *)
(* fragment and keeps those that carry the number it expects; it sends     *)
(* orders of its own the same way, one at a time.                          *)
(*                                                                         *)
(* The network is four sets of datagrams.  A datagram stays in its set     *)
(* once sent, so it may be delayed, overtaken, delivered several times or  *)
(* never.                                                                  *)
(***************************************************************************)
EXTENDS Naturals, Sequences, FiniteSets

CONSTANTS
  BlockSize,      \* the bytes of each block of the demo file
  MaxBlockSize,   \* MAX_BLOCKSIZE
  MaxRetry,       \* maxretry
  MaxOrders       \* bound: orders a client sends

ASSUME BlockSizeAssumption == BlockSize \in Seq(Nat \ {0})
ASSUME MaxBlockSizeAssumption == MaxBlockSize \in Nat \ {0}
ASSUME MaxRetryAssumption == MaxRetry \in Nat \ {0}
ASSUME MaxOrdersAssumption == MaxOrders \in Nat

VARIABLES
  pc,         \* "idle" outside SendInitDEMPacket, else "send" or "wait"
  blk,        \* blocks read from the demo file so far
  off,        \* pd->p: where the fragment in hand starts in the block
  seq,        \* *sequence
  retry,      \* the loop counter
  gotit,      \* the loop flag
  result,     \* of the last call: "none" (none yet, or running), "sent", "failed"
  frags,      \* network: fragments to the client
  acks,       \* network: acknowledgements to the server
  orders,     \* network: orders to the server
  orderAcks,  \* network: acknowledgements to the client
  received,   \* the client: fragments it has accepted
  nextOrder,  \* the client: the number of its order in hand
  waiting     \* the client: that order is not acknowledged yet

serverVars == <<pc, blk, off, seq, retry, gotit, result>>
clientVars == <<received, nextOrder, waiting>>
netVars    == <<frags, acks, orders, orderAcks>>
linkVars   == <<serverVars, clientVars, netVars>>

-----------------------------------------------------------------------------
(* The fragment in hand. *)

BytesLeft == BlockSize[blk] - off

\* Mutant: a block that fills its last fragment gets no LAST_REL.
FullIsPartial == BytesLeft >= MaxBlockSize
\* PART_REL; otherwise the fragment is the LAST_REL one.
Partial == BytesLeft > MaxBlockSize

FragmentInHand ==
  [blk  |-> blk,
   off  |-> off,
   len  |-> IF BytesLeft > MaxBlockSize THEN MaxBlockSize ELSE BytesLeft,
   last |-> ~Partial]

-----------------------------------------------------------------------------
(* The server. *)

\* DEM_block_read_bin and the call of SendInitDEMPacket.
StartBlock ==
  /\ pc = "idle" /\ blk < Len(BlockSize)
  /\ blk' = blk + 1 /\ off' = 0
  /\ pc' = "send" /\ retry' = 0 /\ gotit' = FALSE /\ result' = "none"
  /\ UNCHANGED <<seq, clientVars, netVars>>

\* One more datagram of the fragment in hand.
Transmit ==
  /\ pc = "send"
  /\ frags' = frags \cup {[seq |-> seq, body |-> FragmentInHand]}
  /\ pc' = "wait"
  /\ UNCHANGED <<blk, off, seq, retry, gotit, result, clientVars,
                 acks, orders, orderAcks>>

Return(r) == pc' = "idle" /\ result' = r

\* sendto() fails.
TransmitFails ==
  /\ pc = "send"
  /\ Return("failed")
  /\ UNCHANGED <<blk, off, seq, retry, gotit, clientVars, netVars>>

\* The fragment is acknowledged: on to the next one, or out of the function.
NextFragment ==
  /\ seq' = seq + 1
  /\ \/ /\ Partial
        /\ off' = off + MaxBlockSize
        /\ retry' = 0 /\ gotit' = FALSE
        /\ pc' = "send" /\ UNCHANGED result
     \/ /\ ~Partial
        /\ Return("sent")
        /\ UNCHANGED <<off, retry, gotit>>

\* Mutant: the loop allows one turn more than the test behind it knows of.
ExhaustedLate(tries) == tries = MaxRetry
\* The turn that used up this many tries is the last one.
Exhausted(tries) == tries + 1 = MaxRetry

\* The end of a turn of the retry loop that leaves the flag at heard and the
\* counter at tries: the increment, the loop condition and the test of the
\* counter behind the loop, which does not look at the flag.
EndOfTurn(heard, tries) ==
  \/ /\ Exhausted(tries)
     /\ retry' = MaxRetry /\ gotit' = heard
     /\ Return("failed") /\ UNCHANGED <<off, seq>>
  \/ /\ ~Exhausted(tries) /\ ~heard
     /\ retry' = tries + 1 /\ gotit' = FALSE
     /\ pc' = "send" /\ UNCHANGED <<off, seq, result>>
  \/ /\ ~Exhausted(tries) /\ heard
     /\ NextFragment

\* Mutant: a turn in which nothing is heard is not counted.
NothingHeardUncounted ==
  /\ pc = "wait"
  /\ EndOfTurn(FALSE, 0)
  /\ UNCHANGED <<blk, clientVars, netVars>>

\* Nothing arrives in time, or a datagram that means nothing here: from another
\* address, or of another type.
NothingHeard ==
  /\ pc = "wait"
  /\ EndOfTurn(FALSE, retry)
  /\ UNCHANGED <<blk, clientVars, netVars>>

\* Mutant: the number of the acknowledgement is not compared.
RecvAnyAck(n) ==
  /\ pc = "wait"
  /\ EndOfTurn(TRUE, retry)
  /\ UNCHANGED <<blk, clientVars, netVars>>

\* An acknowledgement, of this fragment or of an earlier one.
RecvAck(n) ==
  /\ pc = "wait"
  /\ EndOfTurn(n = seq, retry)
  /\ UNCHANGED <<blk, clientVars, netVars>>

IsKeepAlive(o) == Head(o.cmds) = "keepalive"

\* The client says it is alive: answer it and start the count over.
RecvKeepAlive(o) ==
  /\ pc = "wait" /\ IsKeepAlive(o)
  /\ orderAcks' = orderAcks \cup {o.seq}
  /\ EndOfTurn(FALSE, 0)
  /\ UNCHANGED <<blk, clientVars, frags, acks, orders>>

\* Mutant: every order is acknowledged, also those that are not acted upon.
RecvOrderAcked(o) ==
  /\ pc = "wait" /\ ~IsKeepAlive(o)
  /\ orderAcks' = orderAcks \cup {o.seq}
  /\ EndOfTurn(FALSE, retry)
  /\ UNCHANGED <<blk, clientVars, frags, acks, orders>>

\* Any other order is left unanswered: the client will repeat it.
RecvOrder(o) ==
  /\ pc = "wait" /\ ~IsKeepAlive(o)
  /\ EndOfTurn(FALSE, retry)
  /\ UNCHANGED <<blk, clientVars, netVars>>

SendInitDEMPacket ==
  \/ Transmit \/ TransmitFails \/ NothingHeard
  \/ \E n \in acks : RecvAck(n)
  \/ \E o \in orders : RecvKeepAlive(o) \/ RecvOrder(o)

-----------------------------------------------------------------------------
(* The client. *)

\* A fragment arrives: acknowledge it, keep it if it is the expected one.
ClientRecv(m) ==
  /\ acks' = acks \cup {m.seq}
  /\ received' = IF m.seq = Len(received) THEN Append(received, m.body)
                                          ELSE received
  /\ UNCHANGED <<serverVars, nextOrder, waiting, frags, orders, orderAcks>>

\* The client sends its next order.
ClientOrder(cmds) ==
  /\ ~waiting /\ nextOrder < MaxOrders
  /\ orders' = orders \cup {[seq |-> nextOrder, cmds |-> cmds]}
  /\ waiting' = TRUE
  /\ UNCHANGED <<serverVars, received, nextOrder, frags, acks, orderAcks>>

\* Its order is acknowledged.
ClientAcked ==
  /\ waiting /\ nextOrder \in orderAcks
  /\ waiting' = FALSE /\ nextOrder' = nextOrder + 1
  /\ UNCHANGED <<serverVars, received, netVars>>

ClientAnswers == ClientAcked \/ \E m \in frags : ClientRecv(m)

-----------------------------------------------------------------------------
(* The transmission on its own: the caller reads the blocks one after the  *)
(* other and stops when a call fails, as PlayServer does on the orders     *)
(* "prespawn" and "spawn " of a client.                                    *)

LinkInit ==
  /\ pc = "idle" /\ blk = 0 /\ off = 0 /\ seq = 0 /\ retry = 0
  /\ gotit = FALSE /\ result = "none"
  /\ frags = {} /\ acks = {} /\ orders = {} /\ orderAcks = {}
  /\ received = <<>> /\ nextOrder = 0 /\ waiting = FALSE

Caller == result # "failed" /\ StartBlock

LinkNext ==
  \/ Caller
  \/ SendInitDEMPacket
  \/ ClientAnswers
  \/ \E cmds \in {<<"keepalive">>, <<"prespawn">>} : ClientOrder(cmds)

LinkSpec == LinkInit /\ [][LinkNext]_linkVars
\* select() returns after timeout seconds at the latest, and the process runs.
LinkFairSpec == LinkSpec /\ WF_linkVars(SendInitDEMPacket)

-----------------------------------------------------------------------------
(* Properties. *)

Fragment == [blk : Nat, off : Nat, len : Nat, last : BOOLEAN]
Commands == {"keepalive", "name", "prespawn", "spawn", "begin"}

LinkTypeOK ==
  /\ pc \in {"idle", "send", "wait"}
  /\ blk \in 0 .. Len(BlockSize)
  /\ off \in Nat
  /\ pc # "idle" => blk > 0 /\ off < BlockSize[blk]
  /\ seq \in Nat
  /\ retry \in 0 .. MaxRetry
  /\ pc # "idle" => retry < MaxRetry /\ ~gotit
  /\ gotit \in BOOLEAN
  /\ result \in {"none", "sent", "failed"}
  /\ frags \subseteq [seq : Nat, body : Fragment]
  /\ acks \subseteq Nat
  /\ orders \subseteq [seq : Nat, cmds : Seq(Commands)]
  /\ orderAcks \subseteq Nat
  /\ received \in Seq(Fragment)
  /\ nextOrder \in 0 .. MaxOrders
  /\ waiting \in BOOLEAN
  /\ waiting => nextOrder < MaxOrders

Delivery == INSTANCE DbsDelivery WITH confirmed <- seq

\* Over any loss, duplication, delay and reordering of datagrams the client
\* receives the fragments in file order, none missing, none twice, and the
\* server's counter is the number of fragments it knows the client has.
ImplementsDelivery == Delivery!Spec

\* When SendInitDEMPacket logs "DEM packet sended" and returns 1, the client
\* has the block to its last byte, and the last fragment it accepted says so.
SentIsReceived ==
  pc = "idle" /\ result = "sent" =>
    LET f == received[Len(received)]
    IN  Len(received) = seq /\ f.blk = blk /\ f.last /\ Delivery!EndsBlock(f)

\* The call ends unless the client keeps sending keep-alives: whatever else
\* arrives, junk, stale acknowledgements, other orders, counts as a retry.
CallEnds ==
  \/ []<>(pc = "idle")
  \/ []<><<\E o \in orders : RecvKeepAlive(o)>>_linkVars
=============================================================================
