---------------------------- MODULE SagaBorrado ----------------------------
(***************************************************************************)
(* What the deletion of an account promises, whatever requests take part   *)
(* in it and however often one of them dies: access is closed first, then  *)
(* the personal data goes, then the files the deletion undertook to remove *)
(* are verified absent, and only then the identity is deleted; the request *)
(* ends when the identity is gone.  No step is ever taken back.            *)
(***************************************************************************)
CONSTANT Archivos      \* files an account may have

VARIABLES
    cuenta,       \* activa, inactiva (access closed), anonima
    restos,       \* files undertaken and not yet verified absent
    identidad,    \* the identity provider knows the user
    terminada     \* the request says that the account is deleted

saga == <<cuenta, restos, identidad, terminada>>

SagaInit == cuenta = "activa" /\ restos = {} /\ identidad = TRUE /\ terminada = FALSE

\* Access is closed; the files may be listed now or with the anonymization.
Cerrar ==
    /\ cuenta = "activa" /\ cuenta' = "inactiva"
    /\ restos' \in SUBSET Archivos
    /\ UNCHANGED <<identidad, terminada>>

Anonimizar ==
    /\ cuenta = "inactiva" /\ cuenta' = "anonima"
    /\ restos' \in SUBSET Archivos /\ restos \subseteq restos'
    /\ UNCHANGED <<identidad, terminada>>

Verificar ==
    /\ cuenta = "anonima"
    /\ restos' \in SUBSET restos /\ restos' # restos
    /\ UNCHANGED <<cuenta, identidad, terminada>>

BorrarIdentidad ==
    /\ cuenta = "anonima" /\ restos = {}
    /\ identidad = TRUE /\ identidad' = FALSE
    /\ UNCHANGED <<cuenta, restos, terminada>>

Terminar ==
    /\ identidad = FALSE
    /\ terminada = FALSE /\ terminada' = TRUE
    /\ UNCHANGED <<cuenta, restos, identidad>>

SagaNext == Cerrar \/ Anonimizar \/ Verificar \/ BorrarIdentidad \/ Terminar
SagaSpec == SagaInit /\ [][SagaNext]_saga
=============================================================================
