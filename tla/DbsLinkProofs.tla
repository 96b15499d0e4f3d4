--------------------------- MODULE DbsLinkProofs ----------------------------
(***************************************************************************)
(* Theorems about DbsLink: for every demo, fragment size, retry limit and  *)
(* number of orders, SendInitDEMPacket delivers the fragments in order     *)
(* over a network that loses, repeats, delays and reorders datagrams, and  *)
(* so implements DbsDelivery.                                              *)
(***************************************************************************)
EXTENDS DbsLink, TLAPS

(***************************************************************************)
(* The fragment in hand is well formed.                                    *)
(***************************************************************************)
LEMMA BlockSizes ==
  ASSUME NEW b \in 1 .. Len(BlockSize)
  PROVE  BlockSize[b] \in Nat /\ BlockSize[b] > 0
BY BlockSizeAssumption

LEMMA InHandWellFormed ==
  ASSUME blk \in 1 .. Len(BlockSize), off \in Nat, off < BlockSize[blk]
  PROVE  /\ BytesLeft \in Nat /\ BytesLeft > 0
         /\ FragmentInHand \in Fragment
         /\ FragmentInHand \in Delivery!Fragments
         /\ Partial <=> ~Delivery!EndsBlock(FragmentInHand)
         /\ Partial => /\ FragmentInHand.len = MaxBlockSize
                       /\ off + MaxBlockSize < BlockSize[blk]
<1> DEFINE f == FragmentInHand
           L == IF BytesLeft > MaxBlockSize THEN MaxBlockSize ELSE BytesLeft
<1>1. BlockSize[blk] \in Nat /\ BlockSize[blk] > 0
  BY BlockSizes
<1>2. BytesLeft \in Nat /\ BytesLeft > 0 /\ BytesLeft = BlockSize[blk] - off
  BY <1>1 DEF BytesLeft
<1>3. L \in Nat /\ L > 0 /\ off + L <= BlockSize[blk]
  BY <1>1, <1>2, MaxBlockSizeAssumption
<1>4. (BytesLeft > MaxBlockSize) <=> (off + L # BlockSize[blk])
  BY <1>1, <1>2, MaxBlockSizeAssumption
<1>5. /\ f = [blk |-> blk, off |-> off, len |-> L, last |-> ~Partial]
      /\ (~Partial) \in BOOLEAN
      /\ f.blk = blk /\ f.off = off /\ f.len = L
      /\ f.last = ~Partial
  <2>1. f = [blk |-> blk, off |-> off, len |-> L, last |-> ~Partial]
    BY Zenon DEF FragmentInHand
  <2>2. (~Partial) \in BOOLEAN
    BY Zenon DEF Partial
  <2> HIDE DEF f, L
  <2> QED
    BY <2>1, <2>2, Zenon
<1>6. f \in Fragment
  <2>1. blk \in Nat /\ off \in Nat /\ L \in Nat /\ (~Partial) \in BOOLEAN
    BY <1>3, <1>5
  <2>2. [blk |-> blk, off |-> off, len |-> L, last |-> ~Partial] \in Fragment
    BY <2>1, Zenon DEF Fragment
  <2> QED
    BY <2>2, <1>5, Zenon
<1>7. Partial <=> ~Delivery!EndsBlock(f)
  BY <1>4, <1>5 DEF Partial, Delivery!EndsBlock
<1>8. f \in Delivery!Fragments
  <2> DEFINE S(b) == [blk : {b}, off : 0 .. BlockSize[b] - 1,
                      len : 1 .. BlockSize[b], last : BOOLEAN]
             T(b) == {g \in S(b) : /\ g.off + g.len <= BlockSize[b]
                                   /\ g.last <=> Delivery!EndsBlock(g)}
  <2>1. /\ blk \in {blk} /\ off \in 0 .. BlockSize[blk] - 1
        /\ L \in 1 .. BlockSize[blk] /\ (~Partial) \in BOOLEAN
    BY <1>1, <1>3, <1>5
  <2>2. [blk |-> blk, off |-> off, len |-> L, last |-> ~Partial] \in S(blk)
    BY <2>1, Zenon
  <2>3. f \in S(blk)
    BY <2>2, <1>5, Zenon
  <2>4. f.off + f.len <= BlockSize[blk] /\ (f.last <=> Delivery!EndsBlock(f))
    BY <1>3, <1>5, <1>7, Zenon
  <2>5. f \in T(blk)
    BY <2>3, <2>4, Zenon
  <2> HIDE DEF f, S
  <2> QED
    BY <2>5, Zenon DEF Delivery!Fragments, S
<1> QED
  BY <1>1, <1>2, <1>3, <1>5, <1>6, <1>7, <1>8 DEF Partial

-----------------------------------------------------------------------------
(***************************************************************************)
(* The inductive invariant.                                                *)
(***************************************************************************)

\* A fragment is in hand: SendInitDEMPacket runs, or gave up and the server
\* stopped.
InHand == pc # "idle" \/ result = "failed"

\* The counter is the number of fragments the client has, or one behind.
CounterInv == Len(received) \in {seq, seq + 1}

\* Only fragments the client has are acknowledged.
AcksInv == \A n \in acks : n < Len(received)

\* A datagram the client would still accept carries the fragment in hand.
FragsInv ==
  \A m \in frags :
    /\ m.seq <= seq
    /\ m.seq = Len(received) => InHand /\ m.body = FragmentInHand

\* A fragment the client has and the server does not know of is in hand.
AheadInv ==
  Len(received) = seq + 1 => InHand /\ received[seq + 1] = FragmentInHand

\* The fragment in hand is the next one of the file.
InHandInv ==
  InHand =>
    /\ blk \in 1 .. Len(BlockSize) /\ off < BlockSize[blk]
    /\ seq = 0 => Delivery!Starts(FragmentInHand, 1)
    /\ seq > 0 => Delivery!Follows(received[seq], FragmentInHand)

\* Between two calls the client has the last block read, and all of it.
IdleInv ==
  ~InHand =>
    /\ result = "none" => seq = 0 /\ blk = 0
    /\ result = "sent" =>
         /\ seq > 0 /\ received[seq].blk = blk /\ received[seq].last
         /\ Delivery!EndsBlock(received[seq])

LinkInv ==
  /\ LinkTypeOK
  /\ CounterInv /\ AcksInv /\ FragsInv /\ AheadInv /\ InHandInv /\ IdleInv

-----------------------------------------------------------------------------
(***************************************************************************)
(* Steps that leave the fragment in hand, the client and the network alone *)
(* preserve everything the invariant says of them.                         *)
(***************************************************************************)
DataInv ==
  CounterInv /\ AcksInv /\ FragsInv /\ AheadInv /\ InHandInv /\ IdleInv

LEMMA SameHand ==
  ASSUME DataInv, UNCHANGED <<blk, off, seq, received, frags, acks>>,
         InHand' <=> InHand, ~InHand => UNCHANGED result
  PROVE  DataInv'
<1>1. FragmentInHand' = FragmentInHand
  BY Zenon DEF FragmentInHand, Partial, BytesLeft
<1>2. CounterInv' /\ AcksInv' /\ AheadInv'
  BY <1>1 DEF DataInv, CounterInv, AcksInv, AheadInv
<1>3. FragsInv'
  BY <1>1 DEF DataInv, FragsInv
<1>4. InHandInv'
  BY <1>1 DEF DataInv, InHandInv, Delivery!Starts, Delivery!Follows,
              Delivery!EndsBlock
<1>5. IdleInv'
  BY DEF DataInv, IdleInv, Delivery!EndsBlock
<1> QED
  BY <1>2, <1>3, <1>4, <1>5 DEF DataInv

(***************************************************************************)
(* A fragment the server counts as delivered, because its acknowledgement  *)
(* arrived, is the last one the client has accepted.                       *)
(***************************************************************************)
LEMMA AckedFragment ==
  ASSUME LinkTypeOK, DataInv, pc = "wait", seq \in acks
  PROVE  /\ Len(received) = seq + 1
         /\ received[seq + 1] = FragmentInHand
         /\ blk \in 1 .. Len(BlockSize) /\ off \in Nat /\ off < BlockSize[blk]
<1>1. seq \in Nat /\ Len(received) \in Nat /\ off \in Nat
  BY DEF LinkTypeOK
<1>2. Len(received) = seq + 1
  BY <1>1 DEF DataInv, AcksInv, CounterInv
<1> QED
  BY <1>1, <1>2 DEF DataInv, AheadInv, InHandInv, InHand

LEMMA NextFragmentStep ==
  ASSUME LinkTypeOK, DataInv, pc = "wait", seq \in acks,
         NextFragment, UNCHANGED <<blk, received, frags, acks>>
  PROVE  /\ DataInv'
         /\ pc' # "idle" => off' \in Nat /\ off' < BlockSize[blk']
         /\ Delivery!Confirm
<1> DEFINE f == FragmentInHand
<1>1. /\ seq \in Nat /\ Len(received) = seq + 1 /\ received[seq + 1] = f
      /\ blk \in 1 .. Len(BlockSize) /\ off \in Nat /\ off < BlockSize[blk]
  BY AckedFragment DEF LinkTypeOK
<1>2. /\ f.blk = blk /\ f.off = off /\ f.last = ~Partial
      /\ Partial <=> ~Delivery!EndsBlock(f)
      /\ Partial => f.len = MaxBlockSize /\ off + MaxBlockSize < BlockSize[blk]
  BY <1>1, InHandWellFormed, Zenon DEF FragmentInHand
<1>3. seq' = seq + 1 /\ seq' \in Nat /\ seq' = Len(received')
  BY <1>1 DEF NextFragment
<1>4. CounterInv' /\ AheadInv' /\ Delivery!Confirm
  BY <1>1, <1>3 DEF CounterInv, AheadInv, Delivery!Confirm
<1>5. AcksInv'
  BY DEF DataInv, AcksInv
<1>6. FragsInv'
  <2> SUFFICES ASSUME NEW m \in frags'
               PROVE  m.seq <= seq' /\ m.seq # Len(received')
    BY DEF FragsInv
  <2>1. m.seq \in Nat /\ m.seq <= seq
    BY DEF LinkTypeOK, DataInv, FragsInv
  <2> QED
    BY <2>1, <1>1, <1>3
<1>7. CASE Partial
  <2>1. /\ pc' = "send" /\ off' = off + MaxBlockSize
    BY <1>7 DEF NextFragment
  <2>2. off' \in Nat /\ off' < BlockSize[blk']
    BY <1>1, <1>2, <1>7, <2>1, MaxBlockSizeAssumption
  <2>3. FragmentInHand'.blk = blk /\ FragmentInHand'.off = off'
    BY Zenon DEF FragmentInHand
  <2>4. Delivery!Follows(received'[seq'], FragmentInHand')
    BY <1>1, <1>2, <1>3, <1>7, <2>1, <2>3 DEF Delivery!Follows
  <2>5. InHandInv'
    BY <1>1, <1>3, <2>2, <2>4 DEF InHandInv
  <2>6. IdleInv'
    BY <2>1 DEF IdleInv, InHand
  <2> QED
    BY <1>4, <1>5, <1>6, <2>2, <2>5, <2>6 DEF DataInv
<1>8. CASE ~Partial
  <2>1. pc' = "idle" /\ result' = "sent"
    BY <1>8 DEF NextFragment, Return
  <2>2. ~InHand'
    BY <2>1 DEF InHand
  <2>3. /\ received'[seq'] = f /\ f.blk = blk' /\ f.last
        /\ Delivery!EndsBlock(f)
    BY <1>1, <1>2, <1>3, <1>8
  <2>4. IdleInv'
    BY <1>1, <1>3, <2>1, <2>3 DEF IdleInv, Delivery!EndsBlock
  <2>5. InHandInv'
    BY <2>2 DEF InHandInv
  <2> QED
    BY <1>4, <1>5, <1>6, <2>1, <2>4, <2>5 DEF DataInv
<1> QED
  BY <1>7, <1>8

(***************************************************************************)
(* A turn of the retry loop ends: give up, try again, or go on.            *)
(***************************************************************************)
LEMMA EndOfTurnStep ==
  ASSUME LinkInv, pc = "wait", NEW heardIt \in BOOLEAN, NEW tried \in Nat,
         tried < MaxRetry, heardIt => seq \in acks,
         EndOfTurn(heardIt, tried), UNCHANGED <<blk, received, frags, acks>>
  PROVE  /\ DataInv'
         /\ pc' \in {"idle", "send", "wait"} /\ off' \in Nat /\ seq' \in Nat
         /\ retry' \in 0 .. MaxRetry /\ gotit' \in BOOLEAN
         /\ result' \in {"none", "sent", "failed"}
         /\ pc' # "idle" => /\ blk' > 0 /\ off' < BlockSize[blk']
                            /\ retry' < MaxRetry /\ ~gotit'
         /\ [Delivery!Next]_<<received, seq>>
<1> USE MaxRetryAssumption
<1>1. /\ LinkTypeOK /\ DataInv /\ retry \in 0 .. MaxRetry /\ ~gotit /\ InHand
      /\ off \in Nat /\ seq \in Nat /\ blk > 0 /\ off < BlockSize[blk]
      /\ retry < MaxRetry /\ result \in {"none", "sent", "failed"}
      /\ gotit \in BOOLEAN
  BY DEF LinkInv, DataInv, LinkTypeOK, InHand
<1>2. CASE /\ Exhausted(tried) /\ retry' = MaxRetry /\ gotit' = heardIt
           /\ Return("failed") /\ UNCHANGED <<off, seq>>
  <2>1. InHand' /\ pc' = "idle" /\ result' = "failed"
    BY <1>2 DEF InHand, Return
  <2>2. DataInv'
    BY <1>1, <1>2, <2>1, SameHand
  <2> QED
    BY <1>1, <1>2, <2>1, <2>2
<1>3. CASE /\ ~Exhausted(tried) /\ ~heardIt /\ retry' = tried + 1
           /\ gotit' = FALSE /\ pc' = "send" /\ UNCHANGED <<off, seq, result>>
  <2>1. InHand'
    BY <1>3 DEF InHand
  <2>2. DataInv'
    BY <1>1, <1>3, <2>1, SameHand
  <2>3. retry' \in 0 .. MaxRetry /\ retry' < MaxRetry
    BY <1>3 DEF Exhausted
  <2> QED
    BY <1>1, <1>3, <2>2, <2>3
<1>4. CASE ~Exhausted(tried) /\ heardIt /\ NextFragment
  <2>1. /\ DataInv' /\ Delivery!Confirm
        /\ pc' # "idle" => off' \in Nat /\ off' < BlockSize[blk']
    BY <1>1, <1>4, NextFragmentStep
  <2>2. seq' \in Nat
    BY <1>1, <1>4 DEF NextFragment
  <2>3. [Delivery!Next]_<<received, seq>>
    BY <2>1, Zenon DEF Delivery!Next
  <2>4. CASE Partial
    <3>1. pc' = "send" /\ retry' = 0 /\ gotit' = FALSE /\ result' = result
      BY <1>4, <2>4 DEF NextFragment
    <3>2. retry' \in 0 .. MaxRetry /\ retry' < MaxRetry
      BY <3>1
    <3>3. off' \in Nat /\ off' < BlockSize[blk'] /\ blk' > 0
      BY <1>1, <2>1, <3>1
    <3> QED
      BY <1>1, <2>1, <2>2, <2>3, <3>1, <3>2, <3>3, Zenon
  <2>5. CASE ~Partial
    <3>1. /\ pc' = "idle" /\ result' = "sent"
          /\ off' = off /\ retry' = retry /\ gotit' = gotit
      BY <1>4, <2>5, Zenon DEF NextFragment, Return
    <3> QED
      BY <1>1, <2>1, <2>2, <2>3, <3>1, Zenon
  <2> QED
    BY <2>4, <2>5, Zenon
<1> QED
  BY <1>2, <1>3, <1>4 DEF EndOfTurn

-----------------------------------------------------------------------------
(***************************************************************************)
(* Every step preserves the invariant and maps to a step of DbsDelivery.   *)
(***************************************************************************)
AbstractStep == [Delivery!Next]_<<received, seq>>

LEMMA InitStep == LinkInit => LinkInv /\ Delivery!Init
<1> SUFFICES ASSUME LinkInit PROVE LinkInv /\ Delivery!Init
  OBVIOUS
<1> USE DEF LinkInit
<1>1. LinkTypeOK
  <2>1. 0 \in 0 .. Len(BlockSize) /\ 0 \in 0 .. MaxRetry /\ 0 \in 0 .. MaxOrders
    BY BlockSizeAssumption, MaxRetryAssumption, MaxOrdersAssumption
  <2>2. received \in Seq(Fragment)
    OBVIOUS
  <2> QED
    BY <2>1, <2>2 DEF LinkTypeOK
<1>2. CounterInv /\ AcksInv /\ FragsInv /\ AheadInv
  BY DEF CounterInv, AcksInv, FragsInv, AheadInv
<1>3. InHandInv /\ IdleInv
  BY DEF InHandInv, IdleInv, InHand
<1> QED
  BY <1>1, <1>2, <1>3 DEF LinkInv, Delivery!Init

LEMMA StartBlockStep ==
  ASSUME LinkInv, Caller PROVE LinkInv' /\ AbstractStep
<1> USE DEF Caller, StartBlock, clientVars, netVars
<1>1. /\ LinkTypeOK /\ ~InHand /\ result \in {"none", "sent"}
      /\ CounterInv /\ AcksInv /\ FragsInv /\ AheadInv /\ IdleInv
  BY DEF LinkInv, InHand, LinkTypeOK
<1>2. /\ blk \in Nat /\ seq \in Nat /\ blk' \in 1 .. Len(BlockSize)
      /\ off' = 0 /\ pc' = "send"
  BY <1>1, BlockSizeAssumption DEF LinkTypeOK
<1>3. off' < BlockSize[blk']
  BY <1>2, BlockSizes
<1>4. Len(received) = seq
  BY <1>1 DEF AheadInv, CounterInv
<1>5. LinkTypeOK'
  <2>1. blk' \in 0 .. Len(BlockSize) /\ blk' > 0
    BY <1>2, BlockSizeAssumption
  <2>2. 0 \in 0 .. MaxRetry /\ 0 < MaxRetry
    BY MaxRetryAssumption
  <2>3. /\ seq' = seq /\ retry' = 0 /\ gotit' = FALSE /\ result' = "none"
        /\ received' = received /\ nextOrder' = nextOrder
        /\ waiting' = waiting /\ frags' = frags /\ acks' = acks
        /\ orders' = orders /\ orderAcks' = orderAcks
    OBVIOUS
  <2> HIDE DEF Caller, StartBlock
  <2> QED
    BY <1>1, <1>2, <1>3, <2>1, <2>2, <2>3 DEF LinkTypeOK
<1>6. InHandInv'
  <2>1. FragmentInHand'.blk = blk' /\ FragmentInHand'.off = 0
    BY <1>2, Zenon DEF FragmentInHand
  <2>2. ASSUME seq = 0 PROVE blk = 0
    BY <1>1, <2>2 DEF IdleInv
  <2>3. ASSUME seq > 0
        PROVE  received[seq].blk = blk /\ Delivery!EndsBlock(received[seq])
    BY <1>1, <1>2, <2>3 DEF IdleInv
  <2> QED
    BY <1>2, <1>3, <2>1, <2>2, <2>3
    DEF InHandInv, Delivery!Starts, Delivery!Follows
<1>7. FragsInv'
  BY <1>1, <1>4 DEF FragsInv
<1>8. CounterInv' /\ AcksInv' /\ AheadInv' /\ IdleInv'
  BY <1>1, <1>2, <1>4 DEF CounterInv, AcksInv, AheadInv, IdleInv, InHand
<1> QED
  BY <1>5, <1>6, <1>7, <1>8 DEF LinkInv, AbstractStep

LEMMA TransmitStep ==
  ASSUME LinkInv, Transmit PROVE LinkInv' /\ AbstractStep
<1> USE DEF Transmit, clientVars
<1>1. LinkTypeOK /\ DataInv /\ InHand /\ InHand' /\ seq \in Nat
  BY DEF LinkInv, DataInv, LinkTypeOK, InHand
<1>2. FragmentInHand' = FragmentInHand /\ FragmentInHand \in Fragment
  <2>1. blk \in 1 .. Len(BlockSize) /\ off \in Nat /\ off < BlockSize[blk]
    BY <1>1 DEF DataInv, InHandInv, LinkTypeOK
  <2> QED
    BY <2>1, InHandWellFormed, Zenon DEF FragmentInHand, Partial, BytesLeft
<1> DEFINE m == [seq |-> seq, body |-> FragmentInHand]
<1>3. m \in [seq : Nat, body : Fragment]
  BY <1>1, <1>2
<1>4. LinkTypeOK'
  BY <1>1, <1>3 DEF LinkTypeOK
<1>5. FragsInv'
  BY <1>1, <1>2 DEF DataInv, FragsInv
<1>6. CounterInv' /\ AcksInv' /\ AheadInv'
  BY <1>1, <1>2 DEF DataInv, CounterInv, AcksInv, AheadInv
<1>7. InHandInv' /\ IdleInv'
  BY <1>1, <1>2 DEF DataInv, InHandInv, IdleInv, Delivery!Starts,
                    Delivery!Follows, Delivery!EndsBlock
<1> QED
  BY <1>4, <1>5, <1>6, <1>7 DEF LinkInv, AbstractStep

LEMMA TransmitFailsStep ==
  ASSUME LinkInv, TransmitFails PROVE LinkInv' /\ AbstractStep
<1> USE DEF TransmitFails, Return, clientVars, netVars
<1>1. LinkTypeOK /\ DataInv /\ InHand /\ InHand'
  BY DEF LinkInv, DataInv, InHand
<1>2. DataInv'
  BY <1>1, SameHand
<1>3. LinkTypeOK'
  BY <1>1 DEF LinkTypeOK
<1> QED
  BY <1>2, <1>3 DEF LinkInv, DataInv, AbstractStep

\* What the turns of the loop leave alone keeps its type.
LEMMA TurnKeepsTypes ==
  ASSUME LinkInv, pc = "wait", NEW heardIt \in BOOLEAN, NEW tried \in Nat,
         tried < MaxRetry, heardIt => seq \in acks,
         EndOfTurn(heardIt, tried),
         UNCHANGED <<blk, received, nextOrder, waiting, frags, acks, orders>>,
         orderAcks' \subseteq Nat
  PROVE  LinkInv' /\ AbstractStep
<1>1. /\ DataInv'
      /\ pc' \in {"idle", "send", "wait"} /\ off' \in Nat /\ seq' \in Nat
      /\ retry' \in 0 .. MaxRetry /\ gotit' \in BOOLEAN
      /\ result' \in {"none", "sent", "failed"}
      /\ pc' # "idle" => /\ blk' > 0 /\ off' < BlockSize[blk']
                         /\ retry' < MaxRetry /\ ~gotit'
      /\ [Delivery!Next]_<<received, seq>>
  BY EndOfTurnStep, Zenon
<1>2. LinkTypeOK'
  BY <1>1 DEF LinkInv, LinkTypeOK
<1> QED
  BY <1>1, <1>2, Zenon DEF LinkInv, DataInv, AbstractStep

LEMMA WaitStep ==
  ASSUME LinkInv,
         \/ NothingHeard
         \/ \E n \in acks : RecvAck(n)
         \/ \E o \in orders : RecvKeepAlive(o) \/ RecvOrder(o)
  PROVE  LinkInv' /\ AbstractStep
<1>1. /\ orderAcks \subseteq Nat /\ orders \subseteq [seq : Nat, cmds : Seq(Commands)]
      /\ MaxRetry \in Nat /\ MaxRetry > 0
      /\ pc = "wait" => retry \in Nat /\ retry < MaxRetry
  BY MaxRetryAssumption DEF LinkInv, LinkTypeOK
<1>2. CASE NothingHeard
  BY <1>1, <1>2, TurnKeepsTypes DEF NothingHeard, clientVars, netVars
<1>3. ASSUME NEW n \in acks, RecvAck(n)
      PROVE  LinkInv' /\ AbstractStep
  <2> DEFINE heardIt == n = seq
  <2>1. heardIt \in BOOLEAN /\ (heardIt => seq \in acks)
    OBVIOUS
  <2>2. pc = "wait" /\ EndOfTurn(heardIt, retry)
    BY <1>3, Zenon DEF RecvAck
  <2>3. /\ UNCHANGED <<blk, received, nextOrder, waiting, frags, acks, orders>>
        /\ orderAcks' \subseteq Nat
    BY <1>1, <1>3 DEF RecvAck, clientVars, netVars
  <2> HIDE DEF heardIt
  <2> QED
    BY <1>1, <2>1, <2>2, <2>3, TurnKeepsTypes, Zenon
<1>4. ASSUME NEW o \in orders, RecvKeepAlive(o)
      PROVE  LinkInv' /\ AbstractStep
  <2>1. pc = "wait" /\ EndOfTurn(FALSE, 0) /\ 0 \in Nat /\ 0 < MaxRetry
    BY <1>1, <1>4, Zenon DEF RecvKeepAlive
  <2>2. /\ UNCHANGED <<blk, received, nextOrder, waiting, frags, acks, orders>>
        /\ orderAcks' \subseteq Nat
    BY <1>1, <1>4 DEF RecvKeepAlive, clientVars
  <2> QED
    BY <2>1, <2>2, TurnKeepsTypes, Zenon
<1>5. ASSUME NEW o \in orders, RecvOrder(o)
      PROVE  LinkInv' /\ AbstractStep
  BY <1>1, <1>5, TurnKeepsTypes DEF RecvOrder, clientVars, netVars
<1> QED
  BY <1>2, <1>3, <1>4, <1>5

LEMMA ClientRecvStep ==
  ASSUME LinkInv, NEW m \in frags, ClientRecv(m)
  PROVE  LinkInv' /\ AbstractStep
<1> USE DEF ClientRecv, serverVars
<1>1. /\ LinkTypeOK /\ DataInv /\ seq \in Nat /\ Len(received) \in Nat
      /\ m.seq \in Nat /\ m.body \in Fragment /\ m.seq <= seq
      /\ received \in Seq(Fragment)
  BY DEF LinkInv, DataInv, LinkTypeOK, FragsInv
<1>2. /\ FragmentInHand' = FragmentInHand /\ (InHand' <=> InHand)
      /\ seq' = seq /\ result' = result /\ blk' = blk /\ off' = off
      /\ frags' = frags /\ acks' = acks \cup {m.seq}
  BY Zenon DEF FragmentInHand, Partial, BytesLeft, InHand
<1>3. CASE m.seq # Len(received)
  <2>1. received' = received /\ m.seq < Len(received)
    BY <1>1, <1>3 DEF DataInv, CounterInv
  <2>2. LinkTypeOK'
    BY <1>1, <2>1 DEF LinkTypeOK
  <2>3. CounterInv' /\ AcksInv' /\ AheadInv' /\ FragsInv'
    BY <1>1, <1>2, <2>1 DEF DataInv, CounterInv, AcksInv, AheadInv, FragsInv
  <2>4. InHandInv' /\ IdleInv'
    BY <1>1, <1>2, <2>1 DEF DataInv, InHandInv, IdleInv, Delivery!Starts,
                            Delivery!Follows, Delivery!EndsBlock
  <2> QED
    BY <2>1, <2>2, <2>3, <2>4 DEF LinkInv, AbstractStep
<1>4. CASE m.seq = Len(received)
  <2>1. /\ Len(received) = seq /\ InHand /\ m.body = FragmentInHand
        /\ received' = Append(received, FragmentInHand)
    BY <1>1, <1>4 DEF DataInv, CounterInv, FragsInv
  <2>2. /\ Len(received') = seq + 1 /\ received'[seq + 1] = FragmentInHand
        /\ \A k \in 1 .. seq : received'[k] = received[k]
        /\ received' \in Seq(Fragment)
    BY <1>1, <2>1
  <2>3. LinkTypeOK'
    BY <1>1, <2>2 DEF LinkTypeOK
  <2>4. CounterInv' /\ AheadInv'
    BY <1>1, <1>2, <2>1, <2>2 DEF CounterInv, AheadInv
  <2>5. AcksInv' /\ FragsInv'
    BY <1>1, <1>2, <2>1, <2>2 DEF DataInv, LinkTypeOK, AcksInv, FragsInv
  <2>6. /\ seq = 0 => Delivery!Starts(FragmentInHand, 1)
        /\ seq > 0 => Delivery!Follows(received[seq], FragmentInHand)
        /\ blk \in 1 .. Len(BlockSize) /\ off < BlockSize[blk]
    BY <1>1, <2>1 DEF DataInv, InHandInv
  <2>7. InHandInv' /\ IdleInv'
    BY <1>1, <1>2, <2>1, <2>2, <2>6
    DEF InHandInv, IdleInv, Delivery!Starts, Delivery!Follows,
        Delivery!EndsBlock
  <2>8. Delivery!Deliver
    <3>1. FragmentInHand \in Delivery!Fragments
      BY <1>1, <2>6, InHandWellFormed DEF LinkTypeOK
    <3>2. \/ received = <<>> /\ Delivery!Starts(FragmentInHand, 1)
          \/ /\ received # <<>>
             /\ Delivery!Follows(received[Len(received)], FragmentInHand)
      BY <1>1, <2>1, <2>6
    <3>3. seq = Len(received)
      BY <2>1
    <3> QED
      BY <1>2, <2>1, <3>1, <3>2, <3>3, Zenon DEF Delivery!Deliver
  <2> QED
    BY <2>3, <2>4, <2>5, <2>7, <2>8
    DEF LinkInv, AbstractStep, Delivery!Next
<1> QED
  BY <1>3, <1>4

LEMMA ClientTalkStep ==
  ASSUME LinkInv,
         \/ ClientAcked
         \/ \E cmds \in Seq(Commands) : ClientOrder(cmds)
         \/ UNCHANGED linkVars
  PROVE  LinkInv' /\ AbstractStep
<1> USE DEF serverVars, clientVars, netVars, linkVars
<1>1. LinkTypeOK /\ DataInv
  BY DEF LinkInv, DataInv
<1>2. /\ UNCHANGED <<pc, blk, off, seq, retry, gotit, result, frags, acks, received>>
      /\ InHand' <=> InHand
  BY DEF ClientAcked, ClientOrder, InHand
<1>3. DataInv'
  BY <1>1, <1>2, SameHand
<1>4. ASSUME ClientAcked PROVE LinkTypeOK'
  <2>1. /\ nextOrder' = nextOrder + 1 /\ nextOrder' \in 0 .. MaxOrders
        /\ waiting' = FALSE /\ orders' = orders /\ orderAcks' = orderAcks
    BY <1>1, <1>4, MaxOrdersAssumption DEF ClientAcked, LinkTypeOK
  <2> QED
    BY <1>1, <1>2, <2>1 DEF LinkTypeOK
<1>5. ASSUME NEW cmds \in Seq(Commands), ClientOrder(cmds)
      PROVE  LinkTypeOK'
  <2>1. orders' \subseteq [seq : Nat, cmds : Seq(Commands)]
    BY <1>1, <1>5, MaxOrdersAssumption DEF ClientOrder, LinkTypeOK
  <2>2. /\ nextOrder' = nextOrder /\ nextOrder < MaxOrders
        /\ waiting' = TRUE /\ orderAcks' = orderAcks
    BY <1>5 DEF ClientOrder
  <2> QED
    BY <1>1, <1>2, <2>1, <2>2 DEF LinkTypeOK
<1>6. ASSUME UNCHANGED linkVars PROVE LinkTypeOK'
  BY <1>1, <1>6 DEF LinkTypeOK
<1>7. AbstractStep
  BY <1>2 DEF AbstractStep
<1> QED
  BY <1>3, <1>4, <1>5, <1>6, <1>7, Zenon DEF LinkInv, DataInv

LEMMA NextStep == LinkInv /\ [LinkNext]_linkVars => LinkInv' /\ AbstractStep
<1> SUFFICES ASSUME LinkInv, [LinkNext]_linkVars
             PROVE  LinkInv' /\ AbstractStep
  OBVIOUS
<1>1. CASE Caller
  BY <1>1, StartBlockStep
<1>2. CASE Transmit
  BY <1>2, TransmitStep
<1>3. CASE TransmitFails
  BY <1>3, TransmitFailsStep
<1>4. CASE \/ NothingHeard
           \/ \E n \in acks : RecvAck(n)
           \/ \E o \in orders : RecvKeepAlive(o) \/ RecvOrder(o)
  BY <1>4, WaitStep, Zenon
<1>5. CASE \E m \in frags : ClientRecv(m)
  BY <1>5, ClientRecvStep
<1>6. CASE \/ ClientAcked
           \/ \E cmds \in {<<"keepalive">>, <<"prespawn">>} : ClientOrder(cmds)
           \/ UNCHANGED linkVars
  <2>1. "keepalive" \in Commands /\ "prespawn" \in Commands
    BY DEF Commands
  <2>2. <<"keepalive">> \in Seq(Commands) /\ <<"prespawn">> \in Seq(Commands)
    BY <2>1
  <2> QED
    BY <1>6, <2>2, ClientTalkStep, Zenon
<1> QED
  BY <1>1, <1>2, <1>3, <1>4, <1>5, <1>6, Zenon
  DEF LinkNext, SendInitDEMPacket, ClientAnswers

-----------------------------------------------------------------------------
(***************************************************************************)
(* The theorems.                                                           *)
(***************************************************************************)

\* The inductive invariant holds in every reachable state of the retry loop of
\* SendInitDEMPacket and the client.
THEOREM LinkInvariant == LinkSpec => []LinkInv
<1>1. LinkInit => LinkInv
  BY InitStep
<1>2. LinkInv /\ [LinkNext]_linkVars => LinkInv'
  BY NextStep
<1> QED
  BY <1>1, <1>2, PTL DEF LinkSpec

\* The variables of SendInitDEMPacket keep their types; inside the loop the
\* read position is inside the block and the retry counter below its limit.
THEOREM LinkTypeCorrect == LinkSpec => []LinkTypeOK
<1>1. LinkInv => LinkTypeOK
  BY DEF LinkInv
<1> QED
  BY <1>1, LinkInvariant, PTL

\* Whenever SendInitDEMPacket has returned 1, the client has the whole block.
THEOREM SentBlockIsReceived == LinkSpec => []SentIsReceived
<1>1. LinkInv => SentIsReceived
  <2> SUFFICES ASSUME LinkInv, pc = "idle", result = "sent"
               PROVE  /\ Len(received) = seq
                      /\ received[Len(received)].blk = blk
                      /\ received[Len(received)].last
                      /\ Delivery!EndsBlock(received[Len(received)])
    BY DEF SentIsReceived
  <2>1. ~InHand
    BY DEF InHand
  <2>2. Len(received) = seq
    BY <2>1 DEF LinkInv, CounterInv, AheadInv
  <2> QED
    BY <2>1, <2>2 DEF LinkInv, IdleInv
<1> QED
  BY <1>1, LinkInvariant, PTL

\* SendInitDEMPacket with the client implements the delivery of the fragments in
\* file order, none missing and none twice, for every demo and retry limit.
THEOREM LinkImplementsDelivery == LinkSpec => ImplementsDelivery
<1>1. LinkInit => Delivery!Init
  BY InitStep
<1>2. LinkInv /\ [LinkNext]_linkVars => [Delivery!Next]_<<received, seq>>
  BY NextStep DEF AbstractStep
<1> QED
  BY <1>1, <1>2, LinkInvariant, PTL
  DEF LinkSpec, ImplementsDelivery, Delivery!Spec

-----------------------------------------------------------------------------
(***************************************************************************)
(* The call comes to an end.                                               *)
(***************************************************************************)

\* A step of a call returns, sends the fragment in hand, goes on in the block or uses up
\* one more try, unless it is a keep-alive that is received.
CallGoesOn ==
  pc # "idle" =>
    /\ blk' = blk
    /\ \/ pc' = "idle"
       \/ pc = "send" /\ pc' = "wait" /\ UNCHANGED <<off, retry>>
       \/ pc = "wait" /\ pc' = "send" /\ off < off'
       \/ pc = "wait" /\ pc' = "send" /\ off' = off /\ retry < retry'
       \/ \E o \in orders : RecvKeepAlive(o)

LEMMA TurnGoesOn ==
  ASSUME LinkTypeOK, pc = "wait", NEW heard \in BOOLEAN, EndOfTurn(heard, retry)
  PROVE  \/ pc' = "idle"
         \/ pc' = "send" /\ off < off'
         \/ pc' = "send" /\ off' = off /\ retry < retry'
<1>1. off \in Nat /\ retry \in Nat /\ MaxBlockSize \in Nat /\ MaxBlockSize > 0
  BY MaxRetryAssumption, MaxBlockSizeAssumption DEF LinkTypeOK
<1> QED
  BY <1>1 DEF EndOfTurn, NextFragment, Return

\* As long as no keep-alive is received each turn of a call of SendInitDEMPacket takes it on:
\* the next fragment of the same block, or one more of the maxretry tries of this one.  So a
\* call has finitely many turns, whatever acknowledgements and orders arrive, and how late.
THEOREM CallAdvances == LinkSpec => [][CallGoesOn]_serverVars
<1>1. LinkInv /\ [LinkNext]_linkVars => [CallGoesOn]_serverVars
  <2> SUFFICES ASSUME LinkInv, LinkNext, pc # "idle"
               PROVE  CallGoesOn \/ UNCHANGED serverVars
    BY DEF CallGoesOn, linkVars, serverVars
  <2>1. LinkTypeOK
    BY DEF LinkInv
  <2>2. CASE Caller
    BY <2>2 DEF Caller, StartBlock
  <2>3. CASE Transmit \/ TransmitFails
    BY <2>3 DEF Transmit, TransmitFails, Return, CallGoesOn
  <2>4. CASE \E o \in orders : RecvKeepAlive(o)
    BY <2>4 DEF RecvKeepAlive, CallGoesOn
  <2>5. CASE \/ NothingHeard
             \/ \E n \in acks : RecvAck(n)
             \/ \E o \in orders : RecvOrder(o)
    <3>1. pc = "wait" /\ blk' = blk /\ \E heard \in BOOLEAN : EndOfTurn(heard, retry)
      BY <2>5, Zenon DEF NothingHeard, RecvAck, RecvOrder
    <3> QED
      BY <2>1, <3>1, TurnGoesOn, Zenon DEF CallGoesOn
  <2>6. CASE ClientAnswers \/ \E cmds \in {<<"keepalive">>, <<"prespawn">>} : ClientOrder(cmds)
    BY <2>6 DEF ClientAnswers, ClientAcked, ClientRecv, ClientOrder
  <2> QED
    BY <2>2, <2>3, <2>4, <2>5, <2>6, Zenon DEF LinkNext, SendInitDEMPacket
<1> QED
  BY <1>1, LinkInvariant, PTL DEF LinkSpec
=============================================================================
