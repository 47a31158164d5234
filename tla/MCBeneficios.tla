---------------------------- MODULE MCBeneficios ----------------------------
(***************************************************************************)
(* One visit, alone or with a companion, and three plans: one of its       *)
(* branch, with fewer courtesies than services, one of another branch and  *)
(* one more of the first.                                                  *)
(***************************************************************************)
EXTENDS Beneficios

CONSTANTS titular, otro

MCTitularDe == [c \in Citas |-> titular]
MCSucursal == [c \in Citas |-> "centro"]
MCSucursalPlan == <<"centro", "norte", "centro">>
MCServicios == <<2, 1, 1>>
MCCortesias == <<1, 0, 0>>
=============================================================================
