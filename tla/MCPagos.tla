------------------------------ MODULE MCPagos ------------------------------
(***************************************************************************)
(* Small instances of PagosPixel.  In the first, ana's group g1 is paid    *)
(* with up to two intents while g2, of beto and with nothing to pay, wants *)
(* its slot.  In the second, g1 has the titular c1 and a companion c2.     *)
(***************************************************************************)
EXTENDS PagosPixel

MCInicio == [c \in Citas |-> 6]
MCClienteDe == [g \in Grupos |-> IF g = "g1" THEN "ana" ELSE "beto"]
MCUnCreador == [g \in Grupos |-> {"u1"}]
MCGrupoIntent == [i \in Intents |-> "g1"]

\* Two groups that compete for one slot
MCGrupoDe == [c \in Citas |-> IF c = "c1" THEN "g1" ELSE "g2"]
MCAncla == [g \in Grupos |-> IF g = "g1" THEN "c1" ELSE "c2"]
MCChoca == {<<"c1", "c2">>, <<"c2", "c1">>}

\* One group of two members
MCGrupoDeDos == [c \in Citas |-> "g1"]
MCAnclaDos == [g \in Grupos |-> "c1"]
MCSinChoque == {}
=============================================================================
