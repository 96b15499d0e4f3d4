-------------------------- MODULE DbsSessionProofs --------------------------
(***************************************************************************)
(* Theorems about DbsSession: for every demo, script of orders and retry   *)
(* limit, PlayServer acts on each order of a client once, loses none that  *)
(* it acknowledged, and shows the demo in order.                           *)
(***************************************************************************)
EXTENDS DbsSession, DbsLinkProofs, FunctionTheorems, FiniteSetTheorems

-----------------------------------------------------------------------------
(***************************************************************************)
(* The inductive invariant.                                                *)
(***************************************************************************)

\* The orders are numbered by the client, and all but the one in hand have
\* been acknowledged.
OrdersInv ==
  /\ \A o, p \in orders : o.seq = p.seq => o = p
  /\ \A o \in orders : o.seq <= nextOrder /\ (o.seq = nextOrder => waiting)
  /\ \A o \in orders : o.seq < nextOrder => o.seq \in orderAcks
  /\ \A n \in orderAcks : \E o \in orders : o.seq = n

\* cseq is the number of the latest packet acted upon.
TakenInv ==
  /\ \A k \in DOMAIN taken :
       /\ \E o \in orders : o.seq = taken[k]
       /\ cseqused /\ taken[k] <= cseq
  /\ cseqused => \E k \in DOMAIN taken : taken[k] = cseq

\* Where PlayServer is, and what it has read by then.
PhaseInv ==
  /\ phase = "start" => blk = 0 /\ result = "none"
  /\ phase = "precache" => blk = 1
  /\ phase \in {"start", "precache"} => taken = <<>>
  /\ phase \in {"start", "precache", "listen"} => cmds = <<>>
  /\ unrel # {} => phase \in {"runtime", "ended"}
  /\ precached /\ phase \in {"listen", "read", "runtime"} => result = "sent"

\* Each packet acted upon moved the demo on by its own orders.
AskedInv == IsFiniteSet(BlocksAsked) /\ OneBlockPerOrder

\* The precache block is delivered, or may still be.
Kept == phase \in {"start", "precache"} \/ precached

\* Until the first runtime block goes out the link is in order; the runtime
\* blocks then take its numbers, but no fragment on its way has one the client
\* still expects.
SignOnInv == Kept /\ unrel = {} => DataInv
RuntimeInv ==
  precached /\ unrel # {} =>
    /\ \A m \in frags : m.seq < Len(received)
    /\ phase = "runtime" => blk - WholeBlocks = seq - Len(received)
    /\ \A u \in unrel : u.blk - WholeBlocks = u.seq - Len(received) + 1

\* What the client has is the beginning of the demo file.
FileInv ==
  /\ \A k \in 1 .. Len(received) - 1 :
       Delivery!Follows(received[k], received[k + 1])
  /\ \A k \in 1 .. Len(received) :
       received[k].last <=> Delivery!EndsBlock(received[k])
\* It ends in the block that comes next, or is the last of the whole ones.
WholeInv ==
  /\ received = <<>> => WholeBlocks = 0
  /\ received # <<>> =>
       LET f == received[Len(received)]
       IN  WholeBlocks = IF f.last THEN f.blk ELSE f.blk - 1
ReceivedInv == Kept => FileInv /\ WholeInv

SessionInv ==
  /\ SessionTypeOK /\ OrdersInv /\ TakenInv /\ AckedIsTaken /\ PhaseInv
  /\ AskedInv /\ SignOnInv /\ RuntimeInv /\ ReceivedInv

-----------------------------------------------------------------------------
(***************************************************************************)
(* Types.  They hold also where the link is not in order: after a precache *)
(* block that was not acknowledged, and in the runtime phase.              *)
(***************************************************************************)

LEMMA StartBlockTypes ==
  ASSUME LinkTypeOK, StartBlock
  PROVE  LinkTypeOK' /\ blk' = blk + 1 /\ pc' = "send"
<1>1. /\ blk' = blk + 1 /\ blk' \in 1 .. Len(BlockSize) /\ blk' > 0
      /\ blk' \in 0 .. Len(BlockSize)
      /\ off' = 0 /\ pc' = "send" /\ retry' = 0 /\ gotit' = FALSE
      /\ result' = "none"
  BY BlockSizeAssumption DEF StartBlock, LinkTypeOK
<1>2. off' < BlockSize[blk'] /\ retry' \in 0 .. MaxRetry /\ retry' < MaxRetry
  BY <1>1, BlockSizes, MaxRetryAssumption
<1>3. UNCHANGED <<seq, clientVars, netVars>>
  BY DEF StartBlock
<1> QED
  BY <1>1, <1>2, <1>3 DEF LinkTypeOK, clientVars, netVars

\* A turn of the retry loop keeps the types of what it changes.
LEMMA EndOfTurnTypes ==
  ASSUME LinkTypeOK, pc = "wait", NEW heardIt \in BOOLEAN, NEW tried \in Nat,
         tried < MaxRetry, EndOfTurn(heardIt, tried),
         UNCHANGED <<blk, clientVars, frags, acks, orders>>,
         orderAcks' \subseteq Nat
  PROVE  LinkTypeOK'
<1> USE MaxRetryAssumption DEF clientVars
<1>1. /\ off \in Nat /\ seq \in Nat /\ blk > 0 /\ off < BlockSize[blk]
      /\ blk \in 1 .. Len(BlockSize) /\ retry < MaxRetry /\ ~gotit
      /\ retry \in 0 .. MaxRetry /\ gotit \in BOOLEAN
      /\ result \in {"none", "sent", "failed"}
  BY BlockSizeAssumption DEF LinkTypeOK
<1> DEFINE TurnOK ==
             /\ pc' \in {"idle", "send", "wait"} /\ off' \in Nat /\ seq' \in Nat
             /\ retry' \in 0 .. MaxRetry /\ gotit' \in BOOLEAN
             /\ result' \in {"none", "sent", "failed"}
             /\ pc' # "idle" => /\ off' < BlockSize[blk]
                                /\ retry' < MaxRetry /\ ~gotit'
<1>2. CASE /\ Exhausted(tried) /\ retry' = MaxRetry /\ gotit' = heardIt
           /\ Return("failed") /\ UNCHANGED <<off, seq>>
  <2>1. pc' = "idle" /\ result' = "failed" /\ retry' \in 0 .. MaxRetry
    BY <1>2 DEF Return
  <2>2. gotit' \in BOOLEAN /\ off' = off /\ seq' = seq
    BY <1>2, Zenon
  <2>3. TurnOK
    BY <1>1, <2>1, <2>2
  <2> QED
    BY <1>1, <2>3 DEF LinkTypeOK
<1>3. CASE /\ ~Exhausted(tried) /\ ~heardIt /\ retry' = tried + 1
           /\ gotit' = FALSE /\ pc' = "send" /\ UNCHANGED <<off, seq, result>>
  <2>1. retry' \in 0 .. MaxRetry /\ retry' < MaxRetry
    BY <1>3 DEF Exhausted
  <2>2. /\ gotit' = FALSE /\ pc' = "send" /\ off' = off /\ seq' = seq
        /\ result' = result
    BY <1>3
  <2>3. TurnOK
    BY <1>1, <2>1, <2>2
  <2> QED
    BY <1>1, <2>3 DEF LinkTypeOK
<1>4. CASE ~Exhausted(tried) /\ heardIt /\ NextFragment
  <2>1. seq' = seq + 1 /\ seq' \in Nat
    BY <1>1, <1>4 DEF NextFragment
  <2>2. CASE Partial
    <3>1. /\ off' = off + MaxBlockSize /\ retry' = 0 /\ gotit' = FALSE
          /\ pc' = "send" /\ result' = result
      BY <1>4, <2>2 DEF NextFragment
    <3>2. off' \in Nat /\ off' < BlockSize[blk]
      BY <1>1, <2>2, <3>1, InHandWellFormed, MaxBlockSizeAssumption
    <3>3. 0 \in 0 .. MaxRetry /\ 0 < MaxRetry
      OBVIOUS
    <3>4. TurnOK
      BY <1>1, <2>1, <3>1, <3>2, <3>3, Zenon
    <3> QED
      BY <1>1, <3>4 DEF LinkTypeOK
  <2>3. CASE ~Partial
    <3>1. /\ pc' = "idle" /\ result' = "sent"
          /\ off' = off /\ retry' = retry /\ gotit' = gotit
      BY <1>4, <2>3, Zenon DEF NextFragment, Return
    <3>2. TurnOK
      BY <1>1, <2>1, <3>1
    <3> QED
      BY <1>1, <3>2 DEF LinkTypeOK
  <2> QED
    BY <2>2, <2>3, Zenon
<1> QED
  BY <1>2, <1>3, <1>4 DEF EndOfTurn

LEMMA SendTypes ==
  ASSUME LinkTypeOK, SendInitDEMPacket
  PROVE  LinkTypeOK' /\ UNCHANGED <<blk, clientVars, orders>>
<1>1. /\ orderAcks \subseteq Nat /\ orders \subseteq [seq : Nat, cmds : Seq(Commands)]
      /\ MaxRetry \in Nat /\ MaxRetry > 0
      /\ pc = "wait" => retry \in Nat /\ retry < MaxRetry
  BY MaxRetryAssumption DEF LinkTypeOK
<1>2. CASE Transmit
  <2>1. blk \in 1 .. Len(BlockSize) /\ off \in Nat /\ off < BlockSize[blk]
    BY <1>2, BlockSizeAssumption DEF LinkTypeOK, Transmit
  <2>2. [seq |-> seq, body |-> FragmentInHand] \in [seq : Nat, body : Fragment]
    BY <2>1, InHandWellFormed DEF LinkTypeOK
  <2>3. frags' \subseteq [seq : Nat, body : Fragment] /\ pc' = "wait"
    BY <1>2, <2>2 DEF LinkTypeOK, Transmit
  <2> QED
    BY <1>2, <2>3 DEF LinkTypeOK, Transmit, clientVars
<1>3. CASE TransmitFails
  BY <1>3 DEF LinkTypeOK, TransmitFails, Return, clientVars, netVars
<1>4. CASE NothingHeard
  BY <1>1, <1>4, EndOfTurnTypes DEF NothingHeard, netVars
<1>5. ASSUME NEW n \in acks, RecvAck(n)
      PROVE  LinkTypeOK' /\ UNCHANGED <<blk, clientVars, orders>>
  <2> DEFINE heardIt == n = seq
  <2>1. heardIt \in BOOLEAN /\ pc = "wait" /\ EndOfTurn(heardIt, retry)
    BY <1>5, Zenon DEF RecvAck
  <2>2. UNCHANGED <<blk, clientVars, frags, acks, orders, orderAcks>>
    BY <1>5 DEF RecvAck, netVars
  <2> HIDE DEF heardIt
  <2> QED
    BY <1>1, <2>1, <2>2, EndOfTurnTypes
<1>6. ASSUME NEW o \in orders, RecvKeepAlive(o)
      PROVE  LinkTypeOK' /\ UNCHANGED <<blk, clientVars, orders>>
  <2>1. pc = "wait" /\ EndOfTurn(FALSE, 0) /\ 0 \in Nat /\ 0 < MaxRetry
    BY <1>1, <1>6, Zenon DEF RecvKeepAlive
  <2>2. /\ UNCHANGED <<blk, clientVars, frags, acks, orders>>
        /\ orderAcks' \subseteq Nat
    BY <1>1, <1>6 DEF RecvKeepAlive
  <2> QED
    BY <2>1, <2>2, EndOfTurnTypes
<1>7. ASSUME NEW o \in orders, RecvOrder(o)
      PROVE  LinkTypeOK' /\ UNCHANGED <<blk, clientVars, orders>>
  BY <1>1, <1>7, EndOfTurnTypes DEF RecvOrder, netVars
<1> QED
  BY <1>2, <1>3, <1>4, <1>5, <1>6, <1>7 DEF SendInitDEMPacket

LEMMA ClientTypes ==
  ASSUME LinkTypeOK,
         ClientAnswers \/ \E packet \in Seq(Commands) : ClientOrder(packet)
  PROVE  LinkTypeOK'
<1>1. CASE ClientAcked
  <2>1. nextOrder' \in 0 .. MaxOrders /\ waiting' = FALSE
    BY <1>1, MaxOrdersAssumption DEF ClientAcked, LinkTypeOK
  <2>2. UNCHANGED <<serverVars, received, netVars>>
    BY <1>1 DEF ClientAcked
  <2> QED
    BY <2>1, <2>2 DEF LinkTypeOK, serverVars, netVars
<1>2. ASSUME NEW m \in frags, ClientRecv(m) PROVE LinkTypeOK'
  <2>1. m.seq \in Nat /\ m.body \in Fragment
    BY DEF LinkTypeOK
  <2>2. acks' \subseteq Nat
    BY <1>2, <2>1 DEF ClientRecv, LinkTypeOK
  <2>3. received' \in Seq(Fragment)
    <3>1. received \in Seq(Fragment) /\ Append(received, m.body) \in Seq(Fragment)
      BY <2>1 DEF LinkTypeOK
    <3> QED
      BY <1>2, <3>1, Zenon DEF ClientRecv
  <2>4. UNCHANGED <<serverVars, nextOrder, waiting, frags, orders, orderAcks>>
    BY <1>2 DEF ClientRecv
  <2> QED
    BY <2>2, <2>3, <2>4 DEF LinkTypeOK, serverVars
<1>3. ASSUME NEW packet \in Seq(Commands), ClientOrder(packet)
      PROVE  LinkTypeOK'
  <2>1. /\ orders' \subseteq [seq : Nat, cmds : Seq(Commands)]
        /\ nextOrder < MaxOrders /\ waiting' = TRUE
    BY <1>3, MaxOrdersAssumption DEF ClientOrder, LinkTypeOK
  <2>2. UNCHANGED <<serverVars, received, nextOrder, frags, acks, orderAcks>>
    BY <1>3 DEF ClientOrder
  <2> QED
    BY <2>1, <2>2 DEF LinkTypeOK, serverVars
<1> QED
  BY <1>1, <1>2, <1>3 DEF ClientAnswers

LEMMA ListeningEnds ==
  ASSUME tries \in 0 .. MaxRetry, tries < MaxRetry, NEW flag \in BOOLEAN,
         EndOfListening(flag)
  PROVE  /\ phase' \in {"listen", "runtime", "ended"}
         /\ tries' \in 0 .. MaxRetry /\ heard' \in BOOLEAN
         /\ phase' = "listen" => tries' < MaxRetry
<1> USE MaxRetryAssumption
<1>1. CASE Exhausted(tries) /\ phase' = "ended" /\ tries' = MaxRetry /\ heard' = flag
  <2>1. tries' \in 0 .. MaxRetry
    BY <1>1
  <2> QED
    BY <1>1, <2>1, Zenon
<1>2. CASE /\ ~Exhausted(tries) /\ ~flag
           /\ phase' = "listen" /\ tries' = tries + 1 /\ heard' = FALSE
  <2>1. tries' \in 0 .. MaxRetry /\ tries' < MaxRetry
    BY <1>2 DEF Exhausted
  <2> QED
    BY <1>2, <2>1, Zenon
<1>3. CASE /\ ~Exhausted(tries) /\ flag
           /\ phase' = IF runtime THEN "runtime" ELSE "listen"
           /\ tries' = 0 /\ heard' = FALSE
  <2>1. 0 \in 0 .. MaxRetry /\ 0 < MaxRetry
    OBVIOUS
  <2>2. phase' \in {"listen", "runtime", "ended"}
    BY <1>3, Zenon
  <2> QED
    BY <1>3, <2>1, <2>2, Zenon
<1> QED
  BY <1>1, <1>2, <1>3, Zenon DEF EndOfListening

\* Every step keeps the types.
LEMMA TypeStep ==
  ASSUME SessionTypeOK, OrdersInv, [Next]_vars PROVE SessionTypeOK'
<1> USE MaxRetryAssumption, MaxOrdersAssumption
<1>1. /\ LinkTypeOK /\ tries \in 0 .. MaxRetry /\ heard \in BOOLEAN
      /\ phase \in {"listen", "read", "order"} => tries < MaxRetry
  BY DEF SessionTypeOK
<1>2. CASE Precache
  <2>1. LinkTypeOK' /\ phase' = "precache" /\ phase = "start"
    BY <1>1, <1>2, StartBlockTypes DEF Precache
  <2> QED
    BY <1>2, <2>1 DEF SessionTypeOK, Precache
<1>3. CASE PrecacheDone
  <2>1. LinkTypeOK' /\ pc' = "idle" /\ 0 \in 0 .. MaxRetry /\ 0 < MaxRetry
    BY <1>1, <1>3 DEF PrecacheDone, linkVars, serverVars, clientVars, netVars,
                      LinkTypeOK
  <2>2. phase' = "listen" /\ tries' = 0 /\ heard' = FALSE /\ precached' \in BOOLEAN
    BY <1>3, Zenon DEF PrecacheDone
  <2>3. UNCHANGED <<runtime, cseqused, cseq, cmds, unrel, stage, taken>>
    BY <1>3 DEF PrecacheDone
  <2> QED
    BY <2>1, <2>2, <2>3 DEF SessionTypeOK
<1>4. CASE SendInitDEMPacket /\ UNCHANGED sessionVars
  <2>1. LinkTypeOK' /\ pc # "idle"
    BY <1>1, <1>4, SendTypes
    DEF SendInitDEMPacket, Transmit, TransmitFails, NothingHeard, RecvAck,
        RecvKeepAlive, RecvOrder
  <2> QED
    BY <1>4, <2>1 DEF SessionTypeOK, sessionVars, playVars
<1>5. CASE ListenInVain \/ ReadDone
  <2>1. PICK flag \in BOOLEAN : EndOfListening(flag)
    BY <1>1, <1>5, Zenon DEF ListenInVain, ReadDone
  <2>2. tries < MaxRetry /\ phase \in {"listen", "read"}
    BY <1>1, <1>5 DEF ListenInVain, ReadDone
  <2>3. /\ phase' \in {"listen", "runtime", "ended"}
        /\ tries' \in 0 .. MaxRetry /\ heard' \in BOOLEAN
        /\ phase' = "listen" => tries' < MaxRetry
    BY <1>1, <2>1, <2>2, ListeningEnds
  <2>4. UNCHANGED <<linkVars, runtime, cseqused, cseq, cmds, unrel, stage, taken,
                    precached>>
    BY <1>5 DEF ListenInVain, ReadDone
  <2>5. LinkTypeOK' /\ pc' = pc
    BY <1>1, <2>4 DEF linkVars, serverVars, clientVars, netVars, LinkTypeOK
  <2> QED
    BY <2>2, <2>3, <2>4, <2>5 DEF SessionTypeOK
<1>6. ASSUME NEW o \in orders, RecvRepeated(o) \/ RecvFresh(o)
      PROVE  SessionTypeOK'
  <2>1. /\ o.seq \in Nat /\ o.cmds \in Seq(Commands) /\ phase = "listen"
        /\ orderAcks' = orderAcks \cup {o.seq}
        /\ UNCHANGED <<serverVars, clientVars, frags, acks, orders>>
    BY <1>1, <1>6 DEF LinkTypeOK, RecvRepeated, RecvFresh
  <2>2. LinkTypeOK' /\ pc' = pc
    BY <1>1, <2>1 DEF LinkTypeOK, serverVars, clientVars
  <2>3. CASE RecvRepeated(o)
    <3>1. /\ phase' \in {"listen", "runtime", "ended"}
          /\ tries' \in 0 .. MaxRetry /\ heard' \in BOOLEAN
          /\ phase' = "listen" => tries' < MaxRetry
      BY <1>1, <2>1, <2>3, ListeningEnds DEF RecvRepeated
    <3>2. UNCHANGED <<runtime, cseqused, cseq, cmds, unrel, stage, taken, precached>>
      BY <2>3 DEF RecvRepeated
    <3> QED
      BY <2>1, <2>2, <3>1, <3>2 DEF SessionTypeOK
  <2>4. CASE RecvFresh(o)
    <3>1. o.seq \in 0 .. MaxOrders
      BY <1>1, <2>1 DEF OrdersInv, LinkTypeOK
    <3>2. /\ cseqused' = TRUE /\ cseq' = o.seq /\ cmds' = o.cmds /\ phase' = "read"
          /\ taken' = Append(taken, o.seq)
          /\ UNCHANGED <<tries, heard, runtime, unrel, stage, precached>>
      BY <2>4 DEF RecvFresh
    <3>3. taken' \in Seq(0 .. MaxOrders)
      BY <3>1, <3>2 DEF SessionTypeOK
    <3> QED
      BY <2>1, <2>2, <3>1, <3>2, <3>3 DEF SessionTypeOK
  <2> QED
    BY <1>6, <2>3, <2>4
<1>7. ASSUME cmds # <<>>, cmds' = Tail(cmds) PROVE cmds' \in Seq(Commands)
  BY <1>7 DEF SessionTypeOK
<1>8. CASE ReadPlainOrder \/ ReadBegin
  <2>1. UNCHANGED linkVars /\ UNCHANGED <<phase, tries, cseqused, cseq, unrel,
                                        stage, taken, precached>>
    BY <1>8 DEF ReadPlainOrder, ReadBegin
  <2>2. /\ cmds' \in Seq(Commands) /\ heard' = TRUE
        /\ runtime' \in BOOLEAN
    BY <1>7, <1>8 DEF ReadPlainOrder, ReadBegin, SessionTypeOK
  <2>3. LinkTypeOK' /\ pc' = pc
    BY <1>1, <2>1 DEF linkVars, serverVars, clientVars, netVars, LinkTypeOK
  <2> QED
    BY <2>1, <2>2, <2>3 DEF SessionTypeOK
<1>9. CASE ReadBlockOrder
  <2>1. LinkTypeOK' /\ phase' = "order" /\ phase = "read" /\ heard' = TRUE
    BY <1>1, <1>9, StartBlockTypes DEF ReadBlockOrder
  <2>2. cmds' \in Seq(Commands)
    BY <1>7, <1>9 DEF ReadBlockOrder
  <2>3. UNCHANGED <<tries, runtime, cseqused, cseq, unrel, stage, taken, precached>>
    BY <1>9 DEF ReadBlockOrder
  <2> QED
    BY <2>1, <2>2, <2>3 DEF SessionTypeOK
<1>10. CASE ReadPastEnd \/ BlockOrderDone \/ RuntimeEnds \/ UNCHANGED vars
  <2>1. UNCHANGED linkVars /\ UNCHANGED <<tries, heard, runtime, cseqused, cseq,
                                        cmds, unrel, stage, taken, precached>>
    BY <1>10 DEF ReadPastEnd, BlockOrderDone, RuntimeEnds, vars, sessionVars,
                 playVars
  <2>2. LinkTypeOK' /\ pc' = pc
    BY <1>1, <2>1 DEF linkVars, serverVars, clientVars, netVars, LinkTypeOK
  <2>3. \/ phase' \in {"crashed", "ended"} /\ phase \in {"read", "order", "runtime"}
           /\ (phase = "order" => pc = "idle")
        \/ phase' = "read" /\ phase = "order" /\ pc = "idle"
        \/ phase' = phase
    BY <1>10 DEF ReadPastEnd, BlockOrderDone, RuntimeEnds, vars, sessionVars,
                 playVars
  <2> QED
    BY <2>1, <2>2, <2>3 DEF SessionTypeOK
<1>11. CASE SendRuntime
  <2>1. /\ blk' \in 0 .. Len(BlockSize) /\ blk' \in 1 .. Len(BlockSize)
        /\ blk' = blk + 1 /\ seq' \in Nat /\ phase = "runtime" /\ pc = "idle"
        /\ UNCHANGED <<pc, off, retry, gotit, result, clientVars, netVars, playVars,
                      stage, taken, precached>>
    BY <1>1, <1>11, BlockSizeAssumption DEF SendRuntime, LinkTypeOK, SessionTypeOK
  <2>2. unrel' \subseteq [seq : Nat, blk : 1 .. Len(BlockSize)]
    BY <1>1, <1>11, <2>1 DEF SendRuntime, LinkTypeOK, SessionTypeOK
  <2>3. LinkTypeOK'
    BY <1>1, <2>1 DEF LinkTypeOK, clientVars, netVars
  <2> QED
    BY <2>1, <2>2, <2>3 DEF SessionTypeOK, playVars
<1>12. CASE \/ ClientAnswers /\ UNCHANGED sessionVars
            \/ ClientSignsOn \/ ClientKeepsAlive
  <2>1. /\ ClientAnswers \/ \E packet \in Seq(Commands) : ClientOrder(packet)
        /\ UNCHANGED <<playVars, unrel, taken, precached>>
        /\ stage' \in 0 .. Len(Script)
    <3>1. CASE ClientAnswers /\ UNCHANGED sessionVars
      BY <3>1 DEF sessionVars, SessionTypeOK
    <3>2. CASE ClientSignsOn
      <4>1. stage + 1 \in 1 .. Len(Script) /\ Script[stage + 1] \subseteq Seq(Commands)
        BY <3>2, ScriptAssumption DEF ClientSignsOn, SessionTypeOK
      <4> QED
        BY <3>2, <4>1, ScriptAssumption DEF ClientSignsOn
    <3>3. CASE ClientKeepsAlive
      <4>1. <<"keepalive">> \in Seq(Commands)
        BY DEF Commands
      <4> QED
        BY <3>3, <4>1 DEF ClientKeepsAlive, sessionVars, SessionTypeOK
    <3> QED
      BY <1>12, <3>1, <3>2, <3>3
  <2>2. LinkTypeOK'
    BY <1>1, <2>1, ClientTypes
  <2>3. pc' = pc
    BY <2>1 DEF ClientAnswers, ClientAcked, ClientRecv, ClientOrder, serverVars
  <2> QED
    BY <2>1, <2>2, <2>3 DEF SessionTypeOK, playVars
<1> QED
  BY <1>2, <1>3, <1>4, <1>5, <1>6, <1>8, <1>9, <1>10, <1>11, <1>12
  DEF Next, PlayServer

-----------------------------------------------------------------------------
(***************************************************************************)
(* The orders: who numbers, acknowledges and acts upon them.               *)
(***************************************************************************)

orderVars == <<orders, orderAcks, nextOrder, waiting, taken, cseqused, cseq>>

\* What a step may do to the orders.
LEMMA OrderSteps ==
  ASSUME SessionTypeOK, [Next]_vars
  PROVE  \/ UNCHANGED orderVars
         \/ \E o \in orders :
              /\ IsKeepAlive(o) /\ orderAcks' = orderAcks \cup {o.seq}
              /\ UNCHANGED <<orders, nextOrder, waiting, taken, cseqused, cseq>>
         \/ \E o \in orders : RecvRepeated(o) \/ RecvFresh(o)
         \/ /\ \E packet \in Seq(Commands) : ClientOrder(packet)
            /\ UNCHANGED <<taken, cseqused, cseq>>
         \/ ClientAcked /\ UNCHANGED <<taken, cseqused, cseq>>
<1> USE DEF orderVars, linkVars, serverVars, clientVars, netVars
<1>1. CASE Precache \/ PrecacheDone \/ ReadBlockOrder
  BY <1>1 DEF Precache, PrecacheDone, ReadBlockOrder, StartBlock
<1>2. CASE SendInitDEMPacket /\ UNCHANGED sessionVars
  <2>1. UNCHANGED <<taken, cseqused, cseq>>
    BY <1>2 DEF sessionVars, playVars
  <2>2. ASSUME NEW o \in orders, RecvKeepAlive(o)
        PROVE  /\ IsKeepAlive(o) /\ orderAcks' = orderAcks \cup {o.seq}
               /\ UNCHANGED <<orders, nextOrder, waiting, taken, cseqused, cseq>>
    BY <2>1, <2>2 DEF RecvKeepAlive
  <2>3. ASSUME \/ Transmit \/ TransmitFails \/ NothingHeard
               \/ \E n \in acks : RecvAck(n)
               \/ \E o \in orders : RecvOrder(o)
        PROVE  UNCHANGED orderVars
    BY <2>1, <2>3 DEF Transmit, TransmitFails, NothingHeard, RecvAck, RecvOrder
  <2> QED
    BY <1>2, <2>2, <2>3 DEF SendInitDEMPacket
<1>3. CASE ListenInVain \/ ReadDone \/ ReadPlainOrder \/ ReadPastEnd
           \/ BlockOrderDone \/ ReadBegin
  BY <1>3 DEF ListenInVain, ReadDone, ReadPlainOrder, ReadPastEnd,
              BlockOrderDone, ReadBegin
<1>4. CASE SendRuntime \/ RuntimeEnds \/ UNCHANGED vars
  BY <1>4 DEF SendRuntime, RuntimeEnds, vars, sessionVars, playVars
<1>5. CASE ClientAnswers /\ UNCHANGED sessionVars
  <2>1. ASSUME NEW m \in frags, ClientRecv(m) PROVE UNCHANGED orderVars
    BY <1>5, <2>1 DEF ClientRecv, sessionVars, playVars
  <2> QED
    BY <1>5, <2>1 DEF ClientAnswers, sessionVars, playVars
<1>6. CASE ClientSignsOn
  <2>1. stage + 1 \in 1 .. Len(Script) /\ Script[stage + 1] \subseteq Seq(Commands)
    BY <1>6, ScriptAssumption DEF ClientSignsOn, SessionTypeOK
  <2> QED
    BY <1>6, <2>1 DEF ClientSignsOn, playVars
<1>7. CASE ClientKeepsAlive
  <2>1. <<"keepalive">> \in Seq(Commands)
    BY DEF Commands
  <2> QED
    BY <1>7, <2>1 DEF ClientKeepsAlive, sessionVars, playVars
<1> QED
  BY <1>1, <1>2, <1>3, <1>4, <1>5, <1>6, <1>7 DEF Next, PlayServer

OrderInv == OrdersInv /\ TakenInv /\ AckedIsTaken

\* An order that is repeated was acted upon, or is a keep-alive: all orders
\* before the one in hand are acknowledged, and cseq is not beyond that one.
LEMMA RepeatedIsTaken ==
  ASSUME SessionTypeOK, OrderInv, NEW o \in orders, ~Fresh(o)
  PROVE  IsKeepAlive(o) \/ Taken(o)
<1>1. /\ o.seq \in Nat /\ nextOrder \in Nat /\ cseq \in Nat
      /\ cseqused /\ o.seq <= cseq
  BY DEF SessionTypeOK, LinkTypeOK, Fresh
<1>2. PICK k \in DOMAIN taken : taken[k] = cseq
  BY <1>1 DEF OrderInv, TakenInv
<1>3. PICK p \in orders : p.seq = cseq
  BY <1>2 DEF OrderInv, TakenInv
<1>4. CASE o.seq = cseq
  BY <1>2, <1>4 DEF Taken
<1>5. CASE o.seq < cseq
  <2>1. o.seq < nextOrder
    BY <1>1, <1>3, <1>5 DEF OrderInv, OrdersInv
  <2> QED
    BY <2>1 DEF OrderInv, OrdersInv, AckedIsTaken
<1> QED
  BY <1>1, <1>4, <1>5

\* One acknowledgement more, of an order acted upon or a keep-alive.
LEMMA AckStep ==
  ASSUME SessionTypeOK, OrderInv, NEW o \in orders,
         orderAcks' = orderAcks \cup {o.seq},
         UNCHANGED <<orders, nextOrder, waiting, taken, cseqused, cseq>>,
         IsKeepAlive(o) \/ Taken(o)
  PROVE  OrderInv'
<1>1. OrdersInv' /\ TakenInv'
  BY DEF OrderInv, OrdersInv, TakenInv
<1>2. AckedIsTaken'
  <2> SUFFICES ASSUME NEW p \in orders, p.seq \in orderAcks'
               PROVE  IsKeepAlive(p) \/ Taken(p)
    BY Zenon DEF AckedIsTaken, Taken, IsKeepAlive
  <2>1. CASE p.seq = o.seq
    BY <2>1 DEF OrderInv, OrdersInv
  <2> QED
    BY <2>1 DEF OrderInv, AckedIsTaken
<1> QED
  BY <1>1, <1>2 DEF OrderInv

LEMMA FreshStep ==
  ASSUME SessionTypeOK, OrderInv, NEW o \in orders, RecvFresh(o)
  PROVE  OrderInv'
<1>1. /\ orderAcks' = orderAcks \cup {o.seq} /\ orders' = orders
      /\ nextOrder' = nextOrder /\ waiting' = waiting
      /\ cseqused' = TRUE /\ cseq' = o.seq /\ taken' = Append(taken, o.seq)
      /\ taken \in Seq(0 .. MaxOrders) /\ o.seq \in Nat
      /\ cseq \in Nat /\ MaxOrders \in Nat
  BY MaxOrdersAssumption
  DEF RecvFresh, clientVars, SessionTypeOK, LinkTypeOK
<1>2. /\ DOMAIN taken' = DOMAIN taken \cup {Len(taken) + 1}
      /\ taken'[Len(taken) + 1] = o.seq
      /\ \A k \in DOMAIN taken : taken'[k] = taken[k] /\ taken[k] \in Nat
  BY <1>1
<1>3. OrdersInv'
  BY <1>1 DEF OrderInv, OrdersInv
<1>4. \A k \in DOMAIN taken : taken[k] <= o.seq
  <2> SUFFICES ASSUME NEW k \in DOMAIN taken PROVE taken[k] <= o.seq
    OBVIOUS
  <2>1. cseqused /\ taken[k] <= cseq
    BY DEF OrderInv, TakenInv
  <2> QED
    BY <1>1, <1>2, <2>1 DEF RecvFresh, Fresh
<1>5. TakenInv'
  BY <1>1, <1>2, <1>4 DEF OrderInv, TakenInv
<1>6. AckedIsTaken'
  <2> SUFFICES ASSUME NEW p \in orders, p.seq \in orderAcks'
               PROVE  IsKeepAlive(p) \/ Taken(p)'
    BY <1>1, Zenon DEF AckedIsTaken, IsKeepAlive
  <2>1. CASE p.seq = o.seq
    BY <1>2, <2>1 DEF Taken
  <2>2. CASE p.seq \in orderAcks
    BY <1>2, <2>2 DEF OrderInv, AckedIsTaken, Taken
  <2> QED
    BY <1>1, <2>1, <2>2
<1> QED
  BY <1>3, <1>5, <1>6 DEF OrderInv

\* The client numbers its next order past all that it sent.
LEMMA NewOrderStep ==
  ASSUME SessionTypeOK, OrderInv, NEW packet \in Seq(Commands),
         ClientOrder(packet), UNCHANGED <<taken, cseqused, cseq>>
  PROVE  /\ OrderInv'
         /\ \A o \in orders' : Taken(o)' <=> o \in orders /\ Taken(o)
<1> DEFINE new == [seq |-> nextOrder, cmds |-> packet]
<1>1. /\ orders' = orders \cup {new} /\ waiting' = TRUE /\ ~waiting
      /\ orderAcks' = orderAcks /\ nextOrder' = nextOrder
      /\ new.seq = nextOrder /\ nextOrder \in Nat
      /\ \A o \in orders : o.seq \in Nat
  BY MaxOrdersAssumption DEF ClientOrder, SessionTypeOK, LinkTypeOK
<1> HIDE DEF new
<1>2. \A o \in orders : o.seq < nextOrder
  BY <1>1 DEF OrderInv, OrdersInv
<1>3. OrdersInv'
  BY <1>1, <1>2 DEF OrderInv, OrdersInv
<1>4. TakenInv'
  BY <1>1 DEF OrderInv, TakenInv
<1>5. nextOrder \notin orderAcks /\ \A k \in DOMAIN taken : taken[k] # nextOrder
  BY <1>1, <1>2 DEF OrderInv, OrdersInv, TakenInv
<1>6. AckedIsTaken'
  BY <1>1, <1>5 DEF OrderInv, AckedIsTaken, IsKeepAlive, Taken
<1>7. \A o \in orders' : Taken(o)' <=> o \in orders /\ Taken(o)
  BY <1>1, <1>5 DEF Taken
<1> QED
  BY <1>3, <1>4, <1>6, <1>7 DEF OrderInv

\* Every step keeps what holds of the orders.
LEMMA OrderStep ==
  ASSUME SessionTypeOK, OrderInv, [Next]_vars PROVE OrderInv'
<1>1. CASE UNCHANGED orderVars
  BY <1>1 DEF orderVars, OrderInv, OrdersInv, TakenInv, AckedIsTaken,
              IsKeepAlive, Taken
<1>2. ASSUME NEW o \in orders, IsKeepAlive(o), orderAcks' = orderAcks \cup {o.seq},
             UNCHANGED <<orders, nextOrder, waiting, taken, cseqused, cseq>>
      PROVE  OrderInv'
  BY <1>2, AckStep
<1>3. ASSUME NEW o \in orders, RecvRepeated(o) PROVE OrderInv'
  <2>1. IsKeepAlive(o) \/ Taken(o)
    BY <1>3, RepeatedIsTaken DEF RecvRepeated
  <2> QED
    BY <1>3, <2>1, AckStep DEF RecvRepeated, clientVars
<1>4. ASSUME NEW o \in orders, RecvFresh(o) PROVE OrderInv'
  BY <1>4, FreshStep
<1>5. ASSUME NEW packet \in Seq(Commands), ClientOrder(packet),
             UNCHANGED <<taken, cseqused, cseq>>
      PROVE  OrderInv'
  BY <1>5, NewOrderStep
<1>6. CASE ClientAcked /\ UNCHANGED <<taken, cseqused, cseq>>
  <2>1. /\ nextOrder' = nextOrder + 1 /\ nextOrder \in Nat /\ waiting' = FALSE
        /\ nextOrder \in orderAcks
        /\ orders' = orders /\ orderAcks' = orderAcks
        /\ \A o \in orders : o.seq \in Nat
    BY <1>6, MaxOrdersAssumption
    DEF ClientAcked, netVars, SessionTypeOK, LinkTypeOK
  <2>2. OrdersInv'
    BY <2>1 DEF OrderInv, OrdersInv
  <2>3. TakenInv' /\ AckedIsTaken'
    BY <1>6, <2>1 DEF OrderInv, TakenInv, AckedIsTaken, IsKeepAlive, Taken
  <2> QED
    BY <2>2, <2>3 DEF OrderInv
<1> QED
  BY <1>1, <1>2, <1>3, <1>4, <1>5, <1>6, OrderSteps

-----------------------------------------------------------------------------
(***************************************************************************)
(* The phases.                                                             *)
(***************************************************************************)

\* What the client does leaves PlayServer alone.
LEMMA ClientFrame ==
  ASSUME \/ ClientAnswers /\ UNCHANGED sessionVars
         \/ ClientSignsOn \/ ClientKeepsAlive
  PROVE  UNCHANGED <<serverVars, playVars, unrel, taken, precached, frags>>
<1> USE DEF serverVars, playVars, netVars
<1>1. ASSUME NEW packet, ClientOrder(packet) PROVE UNCHANGED <<serverVars, frags>>
  BY <1>1 DEF ClientOrder
<1>2. CASE ClientAnswers /\ UNCHANGED sessionVars
  BY <1>2 DEF ClientAnswers, ClientAcked, ClientRecv, sessionVars
<1>3. CASE ClientSignsOn
  BY <1>1, <1>3 DEF ClientSignsOn
<1>4. CASE ClientKeepsAlive
  BY <1>1, <1>4 DEF ClientKeepsAlive, sessionVars
<1> QED
  BY <1>2, <1>3, <1>4

LEMMA PhaseStep ==
  ASSUME SessionTypeOK, PhaseInv, [Next]_vars PROVE PhaseInv'
<1> USE DEF PhaseInv, serverVars
<1>1. CASE Precache
  BY <1>1 DEF Precache, StartBlock, SessionTypeOK, LinkTypeOK
<1>2. CASE PrecacheDone
  BY <1>2 DEF PrecacheDone, linkVars
<1>3. CASE SendInitDEMPacket /\ UNCHANGED sessionVars
  <2>1. pc # "idle"
    BY <1>3 DEF SendInitDEMPacket, Transmit, TransmitFails, NothingHeard,
                RecvAck, RecvKeepAlive, RecvOrder
  <2>2. blk' = blk /\ UNCHANGED <<phase, cmds, unrel, taken, precached>>
    BY <1>3, SendTypes DEF sessionVars, playVars, SessionTypeOK
  <2> QED
    BY <2>1, <2>2 DEF SessionTypeOK
<1>4. CASE ListenInVain \/ ReadDone \/ \E o \in orders : RecvRepeated(o)
  <2>1. PICK flag \in BOOLEAN : EndOfListening(flag)
    BY <1>4 DEF ListenInVain, ReadDone, RecvRepeated, SessionTypeOK
  <2>2. /\ phase \in {"listen", "read"} /\ cmds = <<>>
        /\ UNCHANGED <<serverVars, cmds, unrel, taken, precached>>
    BY <1>4 DEF ListenInVain, ReadDone, RecvRepeated, linkVars
  <2>3. phase' \in {"listen", "runtime", "ended"}
    BY <2>1, <2>2, ListeningEnds DEF SessionTypeOK
  <2> QED
    BY <2>2, <2>3
<1>5. ASSUME NEW o \in orders, RecvFresh(o) PROVE PhaseInv'
  BY <1>5 DEF RecvFresh
<1>6. CASE ReadPlainOrder \/ ReadBegin
  BY <1>6 DEF ReadPlainOrder, ReadBegin, linkVars
<1>7. CASE ReadBlockOrder
  BY <1>7 DEF ReadBlockOrder
<1>8. CASE ReadPastEnd \/ BlockOrderDone \/ RuntimeEnds
  BY <1>8 DEF ReadPastEnd, BlockOrderDone, RuntimeEnds, linkVars
<1>9. CASE SendRuntime
  BY <1>9 DEF SendRuntime, playVars
<1>10. CASE \/ ClientAnswers /\ UNCHANGED sessionVars
            \/ ClientSignsOn \/ ClientKeepsAlive
            \/ UNCHANGED vars
  <2>1. UNCHANGED <<serverVars, playVars, unrel, taken, precached>>
    BY <1>10, ClientFrame DEF vars, linkVars, sessionVars
  <2> QED
    BY <2>1 DEF playVars
<1> QED
  BY <1>1, <1>2, <1>3, <1>4, <1>5, <1>6, <1>7, <1>8, <1>9, <1>10
  DEF Next, PlayServer

-----------------------------------------------------------------------------
(***************************************************************************)
(* The blocks asked for.                                                   *)
(***************************************************************************)

LEMMA PacketBlocks ==
  ASSUME NEW packet \in Seq(Commands)
  PROVE  /\ IsFiniteSet(BlockOrders(packet))
         /\ Cardinality(BlockOrders(packet)) \in Nat
<1>1. BlockOrders(packet) \subseteq 1 .. Len(packet) /\ Len(packet) \in Nat
  BY DEF BlockOrders
<1>2. IsFiniteSet(1 .. Len(packet))
  BY <1>1, FS_Interval
<1> QED
  BY <1>1, <1>2, FS_Subset, FS_CardinalityType

\* Reading an order from a packet leaves those behind it.
LEMMA ReadOne ==
  ASSUME NEW packet \in Seq(Commands), packet # <<>>
  PROVE  Cardinality(BlockOrders(Tail(packet))) =
           Cardinality(BlockOrders(packet))
             - (IF IsBlockOrder(Head(packet)) THEN 1 ELSE 0)
<1> DEFINE rest == BlockOrders(packet) \ {1}
           next == BlockOrders(Tail(packet))
           f == [k \in next |-> k + 1]
<1>1. /\ Len(packet) \in Nat /\ Len(packet) >= 1 /\ packet[1] = Head(packet)
      /\ Tail(packet) \in Seq(Commands) /\ Len(Tail(packet)) = Len(packet) - 1
      /\ \A k \in 1 .. Len(packet) - 1 : Tail(packet)[k] = packet[k + 1]
  OBVIOUS
<1>2. \A k \in next : k + 1 \in rest
  BY <1>1 DEF BlockOrders
<1>3. \A k \in rest : k - 1 \in next /\ k \in Nat
  BY <1>1 DEF BlockOrders
<1>4. next \subseteq Nat
  BY <1>1 DEF BlockOrders
<1>5. f \in Bijection(next, rest)
  <2> HIDE DEF rest, next
  <2>1. f \in [next -> rest]
    BY <1>2
  <2>2. \A a, b \in next : f[a] = f[b] => a = b
    BY <1>4
  <2>3. \A k \in rest : \E a \in next : f[a] = k
    <3> SUFFICES ASSUME NEW k \in rest PROVE \E a \in next : f[a] = k
      OBVIOUS
    <3>1. k - 1 \in next /\ f[k - 1] = k
      BY <1>3
    <3> QED
      BY <3>1
  <2> QED
    BY <2>1, <2>2, <2>3, Fun_IsBij
<1>6. IsFiniteSet(next) /\ IsFiniteSet(BlockOrders(packet))
  BY <1>1, PacketBlocks
<1>7. Cardinality(next) = Cardinality(rest)
  BY <1>5, <1>6, FS_Bijection DEF ExistsBijection
<1>8. Cardinality(rest) = Cardinality(BlockOrders(packet))
                            - (IF 1 \in BlockOrders(packet) THEN 1 ELSE 0)
  <2>1. Cardinality(rest) =
          IF 1 \in BlockOrders(packet) THEN Cardinality(BlockOrders(packet)) - 1
                                       ELSE Cardinality(BlockOrders(packet))
    BY <1>6, FS_RemoveElement, Zenon
  <2>2. Cardinality(BlockOrders(packet)) \in Nat
    BY PacketBlocks
  <2> QED
    BY <2>1, <2>2
<1>9. 1 \in BlockOrders(packet) <=> IsBlockOrder(Head(packet))
  BY <1>1 DEF BlockOrders
<1> QED
  BY <1>7, <1>8, <1>9

\* A packet acted upon adds its own orders to those asked for.
LEMMA AskedMore ==
  ASSUME SessionTypeOK, OrderInv, IsFiniteSet(BlocksAsked),
         NEW o \in orders, RecvFresh(o)
  PROVE  /\ IsFiniteSet(BlocksAsked')
         /\ Cardinality(BlocksAsked') =
              Cardinality(BlocksAsked) + Cardinality(BlockOrders(o.cmds))
<1> DEFINE here == {o} \X BlockOrders(o.cmds)
<1>1. /\ orders' = orders /\ taken' = Append(taken, o.seq)
      /\ taken \in Seq(0 .. MaxOrders) /\ cseq \in Nat /\ MaxOrders \in Nat
      /\ o.cmds \in Seq(Commands) /\ o.seq \in Nat
  BY MaxOrdersAssumption DEF RecvFresh, SessionTypeOK, LinkTypeOK
<1>2. ~Taken(o)
  BY <1>1 DEF Taken, OrderInv, TakenInv, RecvFresh, Fresh
<1>3. \A p \in orders : Taken(p)' <=> Taken(p) \/ p = o
  <2>1. /\ DOMAIN taken' = DOMAIN taken \cup {Len(taken) + 1}
        /\ taken'[Len(taken) + 1] = o.seq
        /\ \A k \in DOMAIN taken : taken'[k] = taken[k]
    BY <1>1
  <2>2. \A p \in orders : p.seq = o.seq <=> p = o
    BY DEF OrderInv, OrdersInv
  <2> QED
    BY <2>1, <2>2 DEF Taken
<1>4. BlocksAsked' = BlocksAsked \cup here
  <2>1. {p \in orders' : Taken(p)'} = {p \in orders : Taken(p)} \cup {o}
    BY <1>1, <1>3
  <2> DEFINE B(p) == {p} \X BlockOrders(p.cmds)
  <2>2. /\ BlocksAsked' = UNION {B(p) : p \in {p \in orders' : Taken(p)'}}
        /\ BlocksAsked = UNION {B(p) : p \in {p \in orders : Taken(p)}}
        /\ here = B(o)
    BY Zenon DEF BlocksAsked, BlockOrders, IsBlockOrder
  <2> HIDE DEF B, here
  <2> QED
    BY <2>1, <2>2
<1>5. BlocksAsked \cap here = {}
  BY <1>2 DEF BlocksAsked
<1>6. /\ IsFiniteSet(here)
      /\ Cardinality(here) = Cardinality(BlockOrders(o.cmds))
  <2>1. /\ IsFiniteSet(BlockOrders(o.cmds))
        /\ Cardinality(BlockOrders(o.cmds)) \in Nat
    BY <1>1, PacketBlocks
  <2>2. IsFiniteSet({o}) /\ Cardinality({o}) = 1
    BY FS_Singleton
  <2>3. IsFiniteSet(here) /\ Cardinality(here) = 1 * Cardinality(BlockOrders(o.cmds))
    BY <2>1, <2>2, FS_Product
  <2> QED
    BY <2>1, <2>3
<1>7. Cardinality(BlocksAsked) \in Nat /\ Cardinality(here) \in Nat
  BY <1>6, FS_CardinalityType
<1> HIDE DEF here
<1>8. /\ IsFiniteSet(BlocksAsked \cup here)
      /\ Cardinality(BlocksAsked \cup here) =
           Cardinality(BlocksAsked) + Cardinality(here) - Cardinality({})
  BY <1>5, <1>6, FS_Union
<1> QED
  BY <1>4, <1>6, <1>7, <1>8, FS_EmptySet

\* No other step changes what was asked for.
LEMMA AskedSame ==
  ASSUME SessionTypeOK, OrderInv, [Next]_vars, \A o \in orders : ~RecvFresh(o)
  PROVE  BlocksAsked' = BlocksAsked
<1>1. ASSUME UNCHANGED <<orders, taken>> PROVE BlocksAsked' = BlocksAsked
  BY <1>1, Zenon DEF BlocksAsked, Taken, BlockOrders, IsBlockOrder
<1>2. ASSUME NEW packet \in Seq(Commands), ClientOrder(packet),
             UNCHANGED <<taken, cseqused, cseq>>
      PROVE  BlocksAsked' = BlocksAsked
  <2>1. \A o \in orders' : Taken(o)' <=> o \in orders /\ Taken(o)
    BY <1>2, NewOrderStep
  <2>2. orders \subseteq orders'
    BY <1>2 DEF ClientOrder
  <2>3. {o \in orders' : Taken(o)'} = {o \in orders : Taken(o)}
    BY <2>1, <2>2
  <2> QED
    BY <2>3, Zenon DEF BlocksAsked, BlockOrders, IsBlockOrder
<1>3. ASSUME NEW o \in orders, RecvRepeated(o) PROVE UNCHANGED <<orders, taken>>
  BY <1>3 DEF RecvRepeated
<1>4. ASSUME ClientAcked, UNCHANGED <<taken, cseqused, cseq>>
      PROVE  UNCHANGED <<orders, taken>>
  BY <1>4 DEF ClientAcked, netVars
<1> QED
  BY <1>1, <1>2, <1>3, <1>4, OrderSteps DEF orderVars

LEMMA AskedStep ==
  ASSUME SessionTypeOK, OrderInv, PhaseInv, AskedInv, [Next]_vars
  PROVE  AskedInv'
<1> USE DEF AskedInv, OneBlockPerOrder, serverVars
<1> DEFINE n == Cardinality(BlocksAsked)
           r == Cardinality(BlockOrders(cmds))
<1>1. /\ cmds \in Seq(Commands) /\ IsFiniteSet(BlocksAsked)
      /\ n \in Nat /\ r \in Nat /\ blk \in Nat
  BY PacketBlocks, FS_CardinalityType DEF SessionTypeOK, LinkTypeOK
<1>2. BlockOrders(<<>>) = {} /\ Cardinality({}) = 0
  BY FS_EmptySet DEF BlockOrders
<1>3. ASSUME NEW o \in orders, RecvFresh(o) PROVE AskedInv'
  <2>1. cmds = <<>> /\ blk = 1 + n - 0
    BY <1>2, <1>3 DEF RecvFresh, PhaseInv
  <2>2. blk' = blk /\ cmds' = o.cmds /\ o.cmds \in Seq(Commands)
    BY <1>3 DEF RecvFresh, SessionTypeOK, LinkTypeOK
  <2>3. Cardinality(BlockOrders(o.cmds)) \in Nat
    BY <2>2, PacketBlocks
  <2>4. BlockOrders(cmds)' = BlockOrders(o.cmds)
    BY <2>2, Zenon DEF BlockOrders
  <2>5. /\ IsFiniteSet(BlocksAsked')
        /\ Cardinality(BlocksAsked') = n + Cardinality(BlockOrders(o.cmds))
    BY <1>1, <1>3, AskedMore
  <2> HIDE DEF n, r
  <2> QED
    BY <1>1, <2>1, <2>2, <2>3, <2>4, <2>5
<1>4. ASSUME \A o \in orders : ~RecvFresh(o) PROVE AskedInv'
  <2>1. BlocksAsked' = BlocksAsked
    BY <1>4, AskedSame
  <2>2. ASSUME UNCHANGED <<blk, cmds>>,
               phase' \in {"listen", "read", "order"}
                 => phase \in {"listen", "read", "order"}
        PROVE  AskedInv'
    BY <1>1, <2>1, <2>2 DEF BlockOrders, IsBlockOrder
  <2>3. ASSUME phase' \notin {"listen", "read", "order"} PROVE AskedInv'
    BY <1>1, <2>1, <2>3
  <2>4. CASE Precache \/ ReadPastEnd \/ RuntimeEnds \/ SendRuntime
    BY <2>3, <2>4 DEF Precache, ReadPastEnd, RuntimeEnds, SendRuntime, playVars
  <2>5. CASE PrecacheDone
    <3>1. blk' = 1 /\ cmds' = <<>> /\ taken = <<>>
      BY <2>5 DEF PrecacheDone, PhaseInv, linkVars
    <3>2. BlocksAsked = {}
      BY <3>1 DEF BlocksAsked, Taken
    <3>3. BlockOrders(cmds)' = BlockOrders(<<>>)
      BY <3>1, Zenon DEF BlockOrders
    <3>4. /\ IsFiniteSet(BlocksAsked') /\ Cardinality(BlocksAsked') = 0
          /\ Cardinality(BlockOrders(cmds)') = 0
      BY <1>1, <1>2, <2>1, <3>2, <3>3, Zenon
    <3> HIDE DEF n, r
    <3> QED
      BY <3>1, <3>4
  <2>6. CASE SendInitDEMPacket /\ UNCHANGED sessionVars
    BY <2>2, <2>6, SendTypes DEF sessionVars, playVars, SessionTypeOK
  <2>7. CASE ListenInVain \/ BlockOrderDone \/ ReadDone
    BY <2>2, <2>7 DEF ListenInVain, BlockOrderDone, ReadDone, linkVars
  <2>8. CASE \E o \in orders : RecvRepeated(o)
    BY <2>2, <2>8 DEF RecvRepeated
  <2>9. CASE ReadPlainOrder \/ ReadBegin
    <3>1. /\ cmds # <<>> /\ ~IsBlockOrder(Head(cmds)) /\ cmds' = Tail(cmds)
          /\ blk' = blk /\ phase = "read"
      BY <2>9 DEF ReadPlainOrder, ReadBegin, linkVars, IsBlockOrder
    <3>2. Cardinality(BlockOrders(Tail(cmds))) = r
      BY <1>1, <3>1, ReadOne
    <3>3. BlockOrders(cmds)' = BlockOrders(Tail(cmds))
      BY <3>1, Zenon DEF BlockOrders
    <3> QED
      BY <1>1, <2>1, <3>1, <3>2, <3>3
  <2>10. CASE ReadBlockOrder
    <3>1. /\ cmds # <<>> /\ IsBlockOrder(Head(cmds)) /\ cmds' = Tail(cmds)
          /\ blk' = blk + 1 /\ phase = "read"
      BY <2>10 DEF ReadBlockOrder, StartBlock, IsBlockOrder
    <3>2. Cardinality(BlockOrders(Tail(cmds))) = r - 1
      BY <1>1, <3>1, ReadOne
    <3>3. BlockOrders(cmds)' = BlockOrders(Tail(cmds))
      BY <3>1, Zenon DEF BlockOrders
    <3>4. blk = 1 + n - r
      BY <3>1
    <3>5. Cardinality(BlocksAsked)' = n /\ Cardinality(BlockOrders(cmds))' = r - 1
      BY <2>1, <3>2, <3>3
    <3>6. IsFiniteSet(BlocksAsked)'
      BY <1>1, <2>1
    <3> HIDE DEF n, r
    <3> QED
      BY <1>1, <3>1, <3>4, <3>5, <3>6
  <2>11. CASE \/ ClientAnswers /\ UNCHANGED sessionVars
              \/ ClientSignsOn \/ ClientKeepsAlive
              \/ UNCHANGED vars
    <3>1. UNCHANGED <<serverVars, playVars>>
      BY <2>11, ClientFrame DEF vars, linkVars, sessionVars
    <3> QED
      BY <2>2, <3>1 DEF playVars
  <2> QED
    BY <1>4, <2>4, <2>5, <2>6, <2>7, <2>8, <2>9, <2>10, <2>11
    DEF Next, PlayServer
<1> QED
  BY <1>3, <1>4

-----------------------------------------------------------------------------
(***************************************************************************)
(* What the client has received.                                           *)
(***************************************************************************)

LEMMA WholeType ==
  ASSUME received \in Seq(Fragment) PROVE WholeBlocks \in Nat
<1>1. /\ {k \in DOMAIN received : received[k].last} \subseteq 1 .. Len(received)
      /\ Len(received) \in Nat
  OBVIOUS
<1>2. IsFiniteSet(1 .. Len(received))
  BY <1>1, FS_Interval
<1>3. IsFiniteSet({k \in DOMAIN received : received[k].last})
  BY <1>1, <1>2, FS_Subset
<1> QED
  BY <1>3, FS_CardinalityType DEF WholeBlocks

LEMMA FragmentsOfBlocks ==
  ASSUME NEW f \in Delivery!Fragments
  PROVE  f.blk \in Nat /\ f.last \in BOOLEAN /\ (f.last <=> Delivery!EndsBlock(f))
<1>1. PICK b \in 1 .. Len(BlockSize) :
        /\ f \in [blk : {b}, off : 0 .. BlockSize[b] - 1, len : 1 .. BlockSize[b],
                  last : BOOLEAN]
        /\ f.last <=> Delivery!EndsBlock(f)
  BY Zenon DEF Delivery!Fragments
<1>2. f.blk = b /\ f.last \in BOOLEAN /\ b \in Nat
  BY <1>1, BlockSizeAssumption
<1> QED
  BY <1>1, <1>2

\* A step of DbsDelivery keeps the file in order and the blocks counted.
LEMMA DeliveryStep ==
  ASSUME received \in Seq(Fragment), FileInv, WholeInv, AbstractStep
  PROVE  FileInv' /\ WholeInv'
<1>1. CASE received' = received
  <2>1. WholeBlocks' = WholeBlocks
    BY <1>1, Zenon DEF WholeBlocks
  <2> QED
    BY <1>1, <2>1, Zenon
    DEF FileInv, WholeInv, Delivery!Follows, Delivery!Starts, Delivery!EndsBlock
<1>2. CASE received' # received
  <2> DEFINE n == Len(received)
             g == received[n]
             L == {k \in DOMAIN received : received[k].last}
  <2>1. PICK f \in Delivery!Fragments :
          /\ \/ received = <<>> /\ Delivery!Starts(f, 1)
             \/ received # <<>> /\ Delivery!Follows(g, f)
          /\ received' = Append(received, f)
    BY <1>2, Zenon
    DEF AbstractStep, Delivery!Next, Delivery!Deliver, Delivery!Confirm
  <2>2. f.blk \in Nat /\ f.last \in BOOLEAN /\ (f.last <=> Delivery!EndsBlock(f))
    BY FragmentsOfBlocks
  <2>3. /\ n \in Nat /\ Len(received') = n + 1 /\ received'[n + 1] = f
        /\ \A k \in 1 .. n : received'[k] = received[k]
        /\ DOMAIN received = 1 .. n /\ DOMAIN received' = 1 .. n + 1
        /\ received' # <<>>
    BY <2>1
  <2>4. FileInv'
    <3>1. ASSUME NEW k \in 1 .. n
          PROVE  Delivery!Follows(received'[k], received'[k + 1])
      <4>1. CASE k = n
        BY <2>1, <2>3, <4>1
      <4>2. CASE k \in 1 .. n - 1
        BY <2>3, <4>2 DEF FileInv
      <4>3. k = n \/ k \in 1 .. n - 1
        <5> HIDE DEF n
        <5>1. n \in Nat
          BY <2>3
        <5> QED
          BY <5>1
      <4> QED
        BY <4>1, <4>2, <4>3, Zenon
    <3>2. ASSUME NEW k \in 1 .. n + 1
          PROVE  received'[k].last <=> Delivery!EndsBlock(received'[k])
      <4>1. CASE k = n + 1
        BY <2>2, <2>3, <4>1
      <4>2. CASE k \in 1 .. n
        BY <2>3, <4>2 DEF FileInv
      <4> QED
        BY <2>3, <4>1, <4>2
    <3> QED
      BY <2>3, <3>1, <3>2 DEF FileInv, Delivery!Follows, Delivery!Starts,
                              Delivery!EndsBlock
  <2>5. WholeBlocks = f.blk - 1
    <3>1. CASE received = <<>>
      BY <2>1, <3>1 DEF WholeInv, Delivery!Starts
    <3>2. CASE received # <<>>
      <4>1. /\ WholeBlocks = IF g.last THEN g.blk ELSE g.blk - 1
            /\ g.last <=> Delivery!EndsBlock(g)
            /\ g.blk \in Nat
        <5>1. n \in 1 .. n /\ g \in Fragment
          BY <2>3, <3>2
        <5>2. g.last <=> Delivery!EndsBlock(g)
          BY <5>1, Zenon DEF FileInv
        <5>3. WholeBlocks = IF g.last THEN g.blk ELSE g.blk - 1
          BY <3>2, Zenon DEF WholeInv
        <5> QED
          BY <5>1, <5>2, <5>3 DEF Fragment
      <4>2. Delivery!Follows(g, f)
        BY <2>1, <3>2
      <4>3. CASE Delivery!EndsBlock(g)
        <5>1. f.blk = g.blk + 1
          BY <4>2, <4>3 DEF Delivery!Follows, Delivery!Starts
        <5> QED
          BY <4>1, <4>3, <5>1
      <4>4. CASE ~Delivery!EndsBlock(g)
        <5>1. f.blk = g.blk
          BY <4>2, <4>4 DEF Delivery!Follows
        <5> QED
          BY <4>1, <4>4, <5>1
      <4> QED
        BY <4>3, <4>4
    <3> QED
      BY <3>1, <3>2
  <2>6. WholeBlocks' = IF f.last THEN WholeBlocks + 1 ELSE WholeBlocks
    <3>1. {k \in DOMAIN received' : received'[k].last}
            = IF f.last THEN L \cup {n + 1} ELSE L
      BY <2>2, <2>3
    <3>2. WholeBlocks' = Cardinality({k \in DOMAIN received' : received'[k].last})
      BY Zenon DEF WholeBlocks
    <3>3. WholeBlocks = Cardinality(L)
      BY Zenon DEF WholeBlocks
    <3>4. n + 1 \notin L
      BY <2>3
    <3>5. IsFiniteSet(L)
      <4>1. L \subseteq 1 .. n /\ IsFiniteSet(1 .. n)
        BY <2>3, FS_Interval
      <4> QED
        BY <4>1, FS_Subset
    <3> HIDE DEF L
    <3>6. Cardinality(L \cup {n + 1}) = Cardinality(L) + 1
      BY <3>4, <3>5, FS_AddElement
    <3> QED
      BY <3>1, <3>2, <3>3, <3>6
  <2>7. WholeInv'
    <3>1. WholeBlocks' = IF f.last THEN f.blk ELSE f.blk - 1
      BY <2>2, <2>5, <2>6
    <3>2. received'[Len(received')] = f /\ received' # <<>>
      BY <2>3
    <3> QED
      BY <3>1, <3>2 DEF WholeInv
  <2> QED
    BY <2>4, <2>7
<1> QED
  BY <1>1, <1>2

\* A precache block that was not delivered is never made good.
LEMMA KeptStep ==
  ASSUME [Next]_vars PROVE (Kept' => Kept) /\ (unrel' = {} => unrel = {})
<1> USE DEF Kept
<1>1. CASE SendInitDEMPacket /\ UNCHANGED sessionVars
  BY <1>1 DEF sessionVars, playVars
<1>2. CASE Precache \/ PrecacheDone \/ ReadPlainOrder \/ ReadBlockOrder
           \/ ReadPastEnd \/ BlockOrderDone \/ ReadBegin \/ RuntimeEnds
           \/ SendRuntime
  BY <1>2 DEF Precache, PrecacheDone, ReadPlainOrder, ReadBlockOrder,
              ReadPastEnd, BlockOrderDone, ReadBegin, RuntimeEnds, SendRuntime,
              playVars
<1>3. CASE ListenInVain \/ ReadDone
           \/ \E o \in orders : RecvRepeated(o) \/ RecvFresh(o)
  BY <1>3 DEF ListenInVain, ReadDone, RecvRepeated, RecvFresh, EndOfListening
<1>4. CASE \/ ClientAnswers /\ UNCHANGED sessionVars
           \/ ClientSignsOn \/ ClientKeepsAlive
           \/ UNCHANGED vars
  BY <1>4, ClientFrame DEF vars, sessionVars, playVars
<1> QED
  BY <1>1, <1>2, <1>3, <1>4 DEF Next, PlayServer

-----------------------------------------------------------------------------
(***************************************************************************)
(* The sign-on keeps the link in order, and its steps are DbsDelivery's.   *)
(***************************************************************************)

LEMMA SignOnStep ==
  ASSUME SessionTypeOK, PhaseInv, Kept, DataInv, [Next]_vars, ~SendRuntime
  PROVE  DataInv' /\ AbstractStep
<1>1. LinkInv
  BY DEF LinkInv, DataInv, SessionTypeOK
<1>2. ASSUME LinkInv' PROVE DataInv'
  BY <1>2 DEF LinkInv, DataInv
<1>3. ASSUME UNCHANGED linkVars PROVE DataInv' /\ AbstractStep
  BY <1>1, <1>2, <1>3, ClientTalkStep
<1>4. CASE Precache \/ ReadBlockOrder
  <2>1. result # "failed" /\ StartBlock
    BY <1>4 DEF Precache, ReadBlockOrder, PhaseInv, Kept
  <2> QED
    BY <1>1, <1>2, <2>1, StartBlockStep DEF Caller
<1>5. CASE SendInitDEMPacket
  BY <1>1, <1>2, <1>5, TransmitStep, TransmitFailsStep, WaitStep, Zenon
  DEF SendInitDEMPacket
<1>6. CASE \/ PrecacheDone \/ ListenInVain \/ ReadPlainOrder \/ ReadPastEnd
           \/ BlockOrderDone \/ ReadBegin \/ ReadDone \/ RuntimeEnds
           \/ UNCHANGED vars
  BY <1>3, <1>6 DEF PrecacheDone, ListenInVain, ReadPlainOrder, ReadPastEnd,
                    BlockOrderDone, ReadBegin, ReadDone, RuntimeEnds, vars
<1>7. CASE \E o \in orders : RecvRepeated(o) \/ RecvFresh(o)
  <2>1. UNCHANGED <<serverVars, clientVars, frags, acks>>
    BY <1>7 DEF RecvRepeated, RecvFresh
  <2>2. /\ UNCHANGED <<blk, off, seq, received, frags, acks, result>>
        /\ InHand' <=> InHand
    BY <2>1 DEF serverVars, clientVars, InHand
  <2> QED
    BY <2>2, SameHand DEF AbstractStep
<1>8. CASE ClientAnswers
  BY <1>1, <1>2, <1>8, ClientTalkStep, ClientRecvStep, Zenon DEF ClientAnswers
<1>9. CASE ClientSignsOn \/ ClientKeepsAlive
  <2>1. PICK packet \in Seq(Commands) : ClientOrder(packet)
    <3>1. CASE ClientSignsOn
      <4>1. stage + 1 \in 1 .. Len(Script) /\ Script[stage + 1] \subseteq Seq(Commands)
        BY <3>1, ScriptAssumption DEF ClientSignsOn, SessionTypeOK
      <4> QED
        BY <3>1, <4>1 DEF ClientSignsOn
    <3>2. CASE ClientKeepsAlive
      <4>1. <<"keepalive">> \in Seq(Commands)
        BY DEF Commands
      <4> QED
        BY <3>2, <4>1 DEF ClientKeepsAlive
    <3> QED
      BY <1>9, <3>1, <3>2
  <2> QED
    BY <1>1, <1>2, <2>1, ClientTalkStep
<1> QED
  BY <1>4, <1>5, <1>6, <1>7, <1>8, <1>9 DEF Next, PlayServer

-----------------------------------------------------------------------------
(***************************************************************************)
(* The runtime phase.                                                      *)
(***************************************************************************)

\* When the sign-on is over the client has every block read so far.
LEMMA SignedOn ==
  ASSUME SessionTypeOK, PhaseInv, DataInv, ReceivedInv, precached,
         phase = "runtime"
  PROVE  /\ Len(received) = seq /\ WholeBlocks = blk
         /\ \A m \in frags : m.seq < Len(received)
<1>1. /\ ~InHand /\ result = "sent" /\ seq \in Nat /\ blk \in Nat
      /\ received \in Seq(Fragment)
      /\ \A m \in frags : m.seq \in Nat
  BY DEF PhaseInv, SessionTypeOK, LinkTypeOK, InHand
<1>2. Len(received) = seq
  BY <1>1 DEF DataInv, CounterInv, AheadInv
<1>3. seq > 0 /\ received[seq].blk = blk /\ received[seq].last
  BY <1>1 DEF DataInv, IdleInv
<1>4. WholeBlocks = blk
  BY <1>1, <1>2, <1>3 DEF ReceivedInv, Kept, WholeInv
<1>5. \A m \in frags : m.seq < Len(received)
  BY <1>1, <1>2 DEF DataInv, FragsInv
<1> QED
  BY <1>2, <1>4, <1>5

LEMMA RuntimeStep ==
  ASSUME SessionTypeOK, PhaseInv, SignOnInv, RuntimeInv, ReceivedInv,
         [Next]_vars, PhaseInv'
  PROVE  RuntimeInv' /\ (precached /\ unrel # {} => received' = received)
<1> DEFINE w == WholeBlocks
           l == Len(received)
<1>1. /\ w \in Nat /\ l \in Nat /\ seq \in Nat /\ blk \in Nat
      /\ \A u \in unrel : u.seq \in Nat /\ u.blk \in Nat
  BY WholeType DEF SessionTypeOK, LinkTypeOK
<1>2. ASSUME received' = received PROVE WholeBlocks' = w
  BY <1>2, Zenon DEF WholeBlocks
<1>3. CASE SendRuntime
  <2>1. /\ blk' = blk + 1 /\ seq' = seq + 1 /\ phase' = phase /\ phase = "runtime"
        /\ unrel' = unrel \cup {[seq |-> seq, blk |-> blk + 1]}
        /\ received' = received /\ frags' = frags /\ precached' = precached
    BY <1>3 DEF SendRuntime, clientVars, netVars, playVars
  <2>2. WholeBlocks' = w
    BY <1>2, <2>1
  <2>3. ASSUME precached
        PROVE  /\ \A m \in frags : m.seq < l
               /\ blk - w = seq - l
               /\ \A u \in unrel : u.blk - w = u.seq - l + 1
    <3>1. CASE unrel = {}
      <4>1. DataInv
        BY <2>3, <3>1 DEF SignOnInv, Kept
      <4>2. l = seq /\ w = blk /\ \A m \in frags : m.seq < l
        BY <2>1, <2>3, <4>1, SignedOn
      <4> HIDE DEF w, l
      <4> QED
        BY <1>1, <3>1, <4>2
    <3>2. CASE unrel # {}
      BY <2>1, <2>3, <3>2 DEF RuntimeInv
    <3> QED
      BY <3>1, <3>2
  <2>4. ASSUME precached
        PROVE  /\ blk' - w = seq' - l
               /\ \A u \in unrel' : u.blk - w = u.seq - l + 1
    <3> HIDE DEF w, l
    <3> QED
      BY <1>1, <2>1, <2>3, <2>4
  <2> QED
    BY <2>1, <2>2, <2>3, <2>4 DEF RuntimeInv
<1>4. CASE ~SendRuntime
  <2>1. ASSUME precached', unrel' # {}
        PROVE  /\ precached /\ unrel' = unrel /\ received' = received
               /\ frags' = frags /\ phase \in {"runtime", "ended"}
               /\ phase' = "runtime" => /\ phase = "runtime"
                                       /\ blk' = blk /\ seq' = seq
    <3>1. phase' \in {"runtime", "ended"}
      BY <2>1 DEF PhaseInv
    <3>2. unrel' = unrel
      BY <1>4, ClientFrame
      DEF Next, PlayServer, Precache, PrecacheDone, sessionVars, ListenInVain,
          RecvRepeated, RecvFresh, ReadPlainOrder, ReadBlockOrder, ReadPastEnd,
          BlockOrderDone, ReadBegin, ReadDone, RuntimeEnds, vars
    <3>3. phase \in {"runtime", "ended"} /\ pc = "idle"
      BY <2>1, <3>2 DEF PhaseInv, SessionTypeOK
    <3>4. CASE \/ ClientAnswers /\ UNCHANGED sessionVars
               \/ ClientSignsOn \/ ClientKeepsAlive
      <4>1. UNCHANGED <<serverVars, playVars, unrel, taken, precached, frags>>
        BY <3>4, ClientFrame
      <4>2. ASSUME NEW packet, ClientOrder(packet) PROVE received' = received
        BY <4>2 DEF ClientOrder
      <4>3. ASSUME NEW m \in frags, ClientRecv(m) PROVE received' = received
        <5>1. m.seq < l
          BY <2>1, <3>2, <4>1 DEF RuntimeInv
        <5>2. m.seq \in Nat
          BY DEF SessionTypeOK, LinkTypeOK
        <5> QED
          BY <1>1, <4>3, <5>1, <5>2 DEF ClientRecv
      <4>4. received' = received
        BY <3>4, <4>2, <4>3
        DEF ClientAnswers, ClientAcked, ClientSignsOn, ClientKeepsAlive
      <4> QED
        BY <2>1, <3>2, <3>3, <4>1, <4>4 DEF serverVars, playVars
    <3>5. CASE RuntimeEnds \/ UNCHANGED vars
      BY <2>1, <3>2, <3>3, <3>5
      DEF RuntimeEnds, vars, linkVars, serverVars, clientVars, netVars,
          sessionVars, playVars
    <3> QED
      BY <1>4, <3>3, <3>4, <3>5
      DEF Next, PlayServer, Precache, PrecacheDone, ListenInVain, RecvRepeated,
          RecvFresh, ReadPlainOrder, ReadBlockOrder, ReadPastEnd,
          BlockOrderDone, ReadBegin, ReadDone, SendInitDEMPacket, Transmit,
          TransmitFails, NothingHeard, RecvAck, RecvKeepAlive, RecvOrder
  <2>2. RuntimeInv'
    BY <1>2, <2>1 DEF RuntimeInv
  <2>3. ASSUME precached, unrel # {} PROVE precached' /\ unrel' # {}
    <3>1. phase \in {"runtime", "ended"}
      BY <2>3 DEF PhaseInv
    <3>2. precached' = precached
      BY <1>4, <3>1, ClientFrame
      DEF Next, PlayServer, Precache, PrecacheDone, sessionVars, ListenInVain,
          RecvRepeated, RecvFresh, ReadPlainOrder, ReadBlockOrder, ReadPastEnd,
          BlockOrderDone, ReadBegin, ReadDone, RuntimeEnds, vars
    <3> QED
      BY <2>3, <3>2, KeptStep
  <2> QED
    BY <2>1, <2>2, <2>3
<1> QED
  BY <1>3, <1>4

LEMMA LinkAndFileStep ==
  ASSUME SessionTypeOK, PhaseInv, SignOnInv, RuntimeInv, ReceivedInv,
         [Next]_vars, PhaseInv'
  PROVE  SignOnInv' /\ RuntimeInv' /\ ReceivedInv'
<1>1. (Kept' => Kept) /\ (unrel' = {} => unrel = {})
  BY KeptStep
<1>2. SignOnInv'
  <2> SUFFICES ASSUME Kept', unrel' = {} PROVE DataInv'
    BY DEF SignOnInv
  <2>1. ~SendRuntime
    BY DEF SendRuntime
  <2> QED
    BY <1>1, <2>1, SignOnStep DEF SignOnInv
<1>3. RuntimeInv' /\ (precached /\ unrel # {} => received' = received)
  BY RuntimeStep
<1>4. ReceivedInv'
  <2> SUFFICES ASSUME Kept' PROVE FileInv' /\ WholeInv'
    BY DEF ReceivedInv
  <2>1. Kept /\ FileInv /\ WholeInv /\ received \in Seq(Fragment)
    BY <1>1 DEF ReceivedInv, SessionTypeOK, LinkTypeOK
  <2>2. ASSUME received' = received PROVE FileInv' /\ WholeInv'
    <3>1. WholeBlocks' = WholeBlocks
      BY <2>2, Zenon DEF WholeBlocks
    <3> QED
      BY <2>1, <2>2, <3>1, Zenon
      DEF FileInv, WholeInv, Delivery!Follows, Delivery!Starts,
          Delivery!EndsBlock
  <2>3. CASE SendRuntime
    BY <2>2, <2>3 DEF SendRuntime, clientVars
  <2>4. CASE unrel = {} /\ ~SendRuntime
    <3>1. AbstractStep
      BY <2>1, <2>4, SignOnStep DEF SignOnInv
    <3> QED
      BY <2>1, <3>1, DeliveryStep
  <2>5. CASE unrel # {}
    BY <1>3, <2>1, <2>2, <2>5 DEF Kept, PhaseInv
  <2> QED
    BY <2>3, <2>4, <2>5
<1> QED
  BY <1>2, <1>3, <1>4

-----------------------------------------------------------------------------
(***************************************************************************)
(* The theorems.                                                           *)
(***************************************************************************)

LEMMA SessionStarts == SessionInit => SessionInv
<1> SUFFICES ASSUME SessionInit PROVE SessionInv
  OBVIOUS
<1>1. LinkInv
  BY InitStep DEF SessionInit
<1>2. /\ phase = "start" /\ tries = 0 /\ heard = FALSE /\ runtime = FALSE
      /\ cseqused = FALSE /\ cseq = 0 /\ cmds = <<>>
      /\ unrel = {} /\ stage = 0 /\ taken = <<>> /\ precached = FALSE
      /\ pc = "idle" /\ blk = 0 /\ result = "none" /\ orders = {}
      /\ orderAcks = {} /\ received = <<>>
  BY DEF SessionInit, LinkInit
<1>3. SessionTypeOK
  <2>1. /\ 0 \in 0 .. MaxRetry /\ 0 \in 0 .. MaxOrders /\ 0 \in 0 .. Len(Script)
        /\ <<>> \in Seq(Commands) /\ <<>> \in Seq(0 .. MaxOrders)
    BY MaxRetryAssumption, MaxOrdersAssumption, ScriptAssumption
  <2> QED
    BY <1>1, <1>2, <2>1 DEF SessionTypeOK, LinkInv
<1>4. OrderInv /\ PhaseInv
  BY <1>2 DEF OrderInv, OrdersInv, TakenInv, AckedIsTaken, PhaseInv
<1>5. AskedInv
  <2>1. BlocksAsked = {}
    BY <1>2 DEF BlocksAsked
  <2> QED
    BY <1>2, <2>1, FS_EmptySet DEF AskedInv, OneBlockPerOrder
<1>6. SignOnInv /\ RuntimeInv
  BY <1>1, <1>2 DEF SignOnInv, RuntimeInv, LinkInv, DataInv
<1>7. ReceivedInv
  <2>1. WholeBlocks = 0
    <3>1. {k \in DOMAIN received : received[k].last} = {}
      BY <1>2
    <3> QED
      BY <3>1, FS_EmptySet DEF WholeBlocks
  <2> QED
    BY <1>2, <2>1 DEF ReceivedInv, FileInv, WholeInv
<1> QED
  BY <1>3, <1>4, <1>5, <1>6, <1>7 DEF SessionInv, OrderInv

\* The inductive invariant holds in every reachable state of a session of
\* PlayServer with its client.
THEOREM SessionInvariant == Spec => []SessionInv
<1>1. SessionInit => SessionInv
  BY SessionStarts
<1>2. SessionInv /\ [Next]_vars => SessionInv'
  <2> SUFFICES ASSUME SessionInv, [Next]_vars PROVE SessionInv'
    OBVIOUS
  <2> USE DEF SessionInv
  <2>1. SessionTypeOK'
    BY TypeStep
  <2>2. OrderInv'
    BY OrderStep DEF OrderInv
  <2>3. PhaseInv'
    BY PhaseStep
  <2>4. AskedInv'
    BY AskedStep DEF OrderInv
  <2>5. SignOnInv' /\ RuntimeInv' /\ ReceivedInv'
    BY <2>3, LinkAndFileStep
  <2> QED
    BY <2>1, <2>2, <2>3, <2>4, <2>5 DEF OrderInv
<1> QED
  BY <1>1, <1>2, PTL DEF Spec

\* The variables of PlayServer keep their types; while it waits or reads, the
\* counter of its waiting loop is below maxretry, and SendInitDEMPacket runs
\* only where PlayServer called it.
THEOREM SessionTypeCorrect == Spec => []SessionTypeOK
<1>1. SessionInv => SessionTypeOK
  BY DEF SessionInv
<1> QED
  BY <1>1, SessionInvariant, PTL

\* PlayServer, and SendInitDEMPacket on its behalf, acknowledges no order that
\* it has not acted upon, keep-alives apart.
THEOREM AckedOrdersAreTaken == Spec => []AckedIsTaken
<1>1. SessionInv => AckedIsTaken
  BY DEF SessionInv
<1> QED
  BY <1>1, SessionInvariant, PTL

\* Each "prespawn" and "spawn " of a client moves the demo on by one block,
\* however often the packet arrives: shm[player].cseq tells the repetitions.
THEOREM EachOrderOneBlock == Spec => []OneBlockPerOrder
<1>1. SessionInv => OneBlockPerOrder
  BY DEF SessionInv, AskedInv
<1> QED
  BY <1>1, SessionInvariant, PTL

\* A client that got the precache block sees the demo in file order, in the
\* sign-on and, under the numbers that follow, in the runtime phase.
THEOREM DemoIsInOrder == Spec => []DemoInOrder
<1>1. SessionInv => DemoInOrder
  <2> SUFFICES ASSUME SessionInv, precached
               PROVE  /\ \A k \in 1 .. Len(received) - 1 :
                           Delivery!Follows(received[k], received[k + 1])
                      /\ \A u \in unrel :
                           u.blk - WholeBlocks = u.seq - Len(received) + 1
    BY DEF DemoInOrder
  <2>1. FileInv
    BY DEF SessionInv, ReceivedInv, Kept
  <2>2. ASSUME NEW u \in unrel
        PROVE  u.blk - WholeBlocks = u.seq - Len(received) + 1
    BY DEF SessionInv, RuntimeInv
  <2> QED
    BY <2>1, <2>2 DEF FileInv
<1> QED
  BY <1>1, SessionInvariant, PTL

\* After a precache block that arrived, "DEM packet sended" is true of every
\* block: a call of SendInitDEMPacket that returned 1 has delivered its block.
THEOREM SendedIfPrecached == Spec => [](precached => SendedIsReceived)
<1>1. SessionInv => (precached => SendedIsReceived)
  <2> SUFFICES ASSUME SessionInv, precached, phase = "order",
                      pc = "idle", result = "sent"
               PROVE  /\ Len(received) = seq
                      /\ received[Len(received)].blk = blk
                      /\ received[Len(received)].last
                      /\ Delivery!EndsBlock(received[Len(received)])
    BY DEF SendedIsReceived, SentIsReceived
  <2>1. DataInv /\ ~InHand
    BY DEF SessionInv, SignOnInv, PhaseInv, Kept, InHand
  <2>2. Len(received) = seq
    BY <2>1 DEF DataInv, CounterInv, AheadInv
  <2> QED
    BY <2>1, <2>2 DEF DataInv, IdleInv
<1> QED
  BY <1>1, SessionInvariant, PTL
=============================================================================
