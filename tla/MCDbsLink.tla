------------------------------ MODULE MCDbsLink ------------------------------
(* A demo whose blocks take two fragments (the second one full), one that   *)
(* is not full, and two again (the second one not full).                    *)
EXTENDS DbsLink

MCBlockSize == <<4, 1, 3>>
=============================================================================
