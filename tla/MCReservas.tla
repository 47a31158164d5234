----------------------------- MODULE MCReservas -----------------------------
(***************************************************************************)
(* A small instance of Reservas: one client asks for g1 (the titular c1    *)
(* and a companion c2) and for g2 (c3 alone, nothing to pay).              *)
(***************************************************************************)
EXTENDS Reservas

MCInicio == [c \in Citas |-> 2]
MCGrupoIntent == [i \in Intents |-> "g1"]
MCUnCliente == [g \in Grupos |-> "ana"]

\* A group of two members and a group of one
MCGrupoDe == [c \in Citas |-> IF c = "c3" THEN "g2" ELSE "g1"]
MCAncla == [g \in Grupos |-> IF g = "g1" THEN "c1" ELSE "c3"]
MCSinChoque == {}
=============================================================================
