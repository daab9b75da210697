-------------------------------- MODULE Tool --------------------------------
(* A command line tool: where its main is, and the status it exits with.   *)
VARIABLES pc, code

Exits(c) == pc' = "done" /\ code' = c
=============================================================================
