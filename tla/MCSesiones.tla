---------------------------- MODULE MCSesiones ----------------------------
(***************************************************************************)
(* A client who also works in the shop: the stricter of two policies, of   *)
(* one session to replace and of two.                                      *)
(***************************************************************************)
EXTENDS Sesiones, TLC

MCReglas == {[max |-> 1, accion |-> "confirm_replace"], [max |-> 2, accion |-> "allow"]}
Simetria == Permutations(Procesos) \cup Permutations(Sesiones) \cup Permutations(Proveedor)
=============================================================================
