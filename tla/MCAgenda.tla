------------------------------ MODULE MCAgenda ------------------------------
(***************************************************************************)
(* Small instances of AgendaSSE.  Row 4 belongs to another branch than the *)
(* one the browsers watch.                                                 *)
(***************************************************************************)
EXTENDS AgendaSSE

MCSucEvento == [e \in Eventos |-> IF e = 4 THEN "norte" ELSE "centro"]
MCSucCliente == [c \in Clientes |-> "centro"]
MCUnaIp == [c \in Clientes |-> "ip1"]
=============================================================================
