------------------------------ MODULE MCCompra ------------------------------
(***************************************************************************)
(* Three orders of one client: two in the branch "centro", one in "norte". *)
(***************************************************************************)
EXTENDS CompraMembresia

MCSucursalDe == [o \in 1..MaxOrdenes |-> IF o = 3 THEN "norte" ELSE "centro"]
=============================================================================
