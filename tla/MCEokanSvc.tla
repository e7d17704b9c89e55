----------------------------- MODULE MCEokanSvc -----------------------------
(* EokanSvc with three partitions and letters A to F, of which C to F can  *)
(* be given; the letters C and E may be taken.                             *)
EXTENDS EokanSvc

MCSystem == { {0}, {0, 2}, {2, 4} }
=============================================================================
