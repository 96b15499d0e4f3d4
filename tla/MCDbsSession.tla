---------------------------- MODULE MCDbsSession -----------------------------
(* A demo of four blocks, the first of two fragments.  The client signs on  *)
(* as a Quake client does: "prespawn", then its name and "spawn ", then     *)
(* "begin"; in place of "begin" it may ask for two blocks more, of which    *)
(* the demo holds one.                                                      *)
EXTENDS DbsSession

MCBlockSize == <<3, 2, 2, 1>>
MCScript == <<{<<"prespawn">>}, {<<"name", "spawn">>},
              {<<"begin">>, <<"prespawn", "spawn">>}>>
=============================================================================
