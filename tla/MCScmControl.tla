---------------------------- MODULE MCScmControl ----------------------------
(* ScmControl with one partition, letters A to F, of which C to F can be   *)
(* given and C is taken, and two services that depend on it.               *)
EXTENDS ScmControl

MCSystem == { {0, 2} }
=============================================================================
