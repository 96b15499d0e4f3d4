------------------------------ MODULE MCDemCut ------------------------------
(* Three files: sign-on, names and an ordinary frame; sign-on and names    *)
(* only; a single frame with nothing but a camera.                         *)
EXTENDS DemCut

CONSTANTS long, pair, short

SignOn == [empty |-> FALSE, final |-> TRUE,  multi |-> FALSE]
Names  == [empty |-> FALSE, final |-> FALSE, multi |-> TRUE]
Plain  == [empty |-> FALSE, final |-> FALSE, multi |-> FALSE]
Camera == [empty |-> TRUE,  final |-> FALSE, multi |-> FALSE]

MCFrames ==
  [f \in Files |-> IF f = long THEN <<SignOn, Names, Plain>>
                   ELSE IF f = pair THEN <<SignOn, Names>>
                   ELSE <<Camera>>]
=============================================================================
