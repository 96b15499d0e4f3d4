---------------------------- MODULE DbsDelivery -----------------------------
(***************************************************************************)
(* What the reliable part of the DBS sign-on promises, without retries,    *)
(* acknowledgements or a network: the client receives the fragments of the *)
(* demo's blocks in file order, none missing and none twice, and the       *)
(* server never counts a fragment the client does not have.  At most one   *)
(* fragment is on its way.                                                 *)
(***************************************************************************)
EXTENDS Naturals, Sequences

CONSTANTS BlockSize   \* the bytes of each block of the demo file

VARIABLES
  received,   \* the fragments the client has, in the order it got them
  confirmed   \* how many of them the server knows the client has

\* A fragment is a stretch of a block; last is set on the one that ends it.
EndsBlock(f) == f.off + f.len = BlockSize[f.blk]
Fragments ==
  UNION {{f \in [blk : {b}, off : 0 .. BlockSize[b] - 1, len : 1 .. BlockSize[b],
                 last : BOOLEAN] :
            f.off + f.len <= BlockSize[b] /\ (f.last <=> EndsBlock(f))} :
         b \in 1 .. Len(BlockSize)}

\* Fragment g starts block b.
Starts(g, b) == g.blk = b /\ g.off = 0
\* Fragment g is the one that comes after fragment f in the file.
Follows(f, g) ==
  \/ EndsBlock(f) /\ Starts(g, f.blk + 1)
  \/ ~EndsBlock(f) /\ g.blk = f.blk /\ g.off = f.off + f.len

Init == received = <<>> /\ confirmed = 0

Deliver ==
  /\ confirmed = Len(received)
  /\ \E f \in Fragments :
       /\ \/ received = <<>> /\ Starts(f, 1)
          \/ received # <<>> /\ Follows(received[Len(received)], f)
       /\ received' = Append(received, f)
  /\ UNCHANGED confirmed

Confirm ==
  /\ confirmed < Len(received)
  /\ confirmed' = confirmed + 1
  /\ UNCHANGED received

Next == Deliver \/ Confirm

Spec == Init /\ [][Next]_<<received, confirmed>>
=============================================================================
