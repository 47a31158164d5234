-------------------------- MODULE Campanas_proofs ---------------------------
(***************************************************************************)
(* Proofs about Campanas, for any recipients and processes and any number  *)
(* of attempts, failures and editions.                                     *)
(*                                                                         *)
(* CorreoUnico is kept because whoever delivers or cancels holds the lock  *)
(* (ConCandado): from the verification of a row to the note of its outcome *)
(* nobody else sends to its client, so the message that leaves is the      *)
(* first (EnTurno).  A delivery that has read the campaign scheduled finds *)
(* it scheduled and not finished until its end (EnCurso), which is why     *)
(* nothing leaves after the cancellation and why what was counted closes   *)
(* the campaign only with nothing left (Medido).                           *)
(***************************************************************************)
EXTENDS Campanas, FiniteSetTheorems, TLAPS

ConFila == {"omitir", "enviar", "anotar"}
Entregando == ConFila \cup {"fila", "medir"}

\* Whoever is past the lock has it, and only the note of a message that left
\* says so.
ConCandado ==
    \A p \in Procesos :
        /\ proc[p].paso # "libre" => candado = p
        /\ proc[p].paso \in ConFila => proc[p].fila \in Clientes
        /\ proc[p].salio => proc[p].paso = "anotar"

\* A delivery past the reading of the campaign finds it as it was.
EnCurso ==
    /\ \A p \in Procesos : proc[p].paso \in Entregando => campana = "programada" /\ ~finalizada
    /\ campana = "borrador" => ~finalizada

\* The row at hand, until its outcome is noted
EnTurno ==
    \A p \in Procesos :
        /\ proc[p].paso = "enviar" => ciertos[proc[p].fila] = 0
        /\ proc[p].paso = "anotar" => ciertos[proc[p].fila] = IF proc[p].salio THEN 1 ELSE 0
        /\ proc[p].paso \in {"enviar", "anotar"} =>
              envio[proc[p].fila] = proc[p].fuente \/ proc[p].fila \in borrados

\* What was counted complete is complete until it is written.
Medido ==
    \A p \in Procesos :
        proc[p].paso = "medir" /\ Completa(proc[p].cuenta) =>
            Con("pendiente") \cup Con("fallido") = {}

Borrados == \A c \in borrados : envio[c] = "omitido"

CampInv ==
    /\ CampanasTypeOK /\ ConCandado /\ EnCurso /\ EnTurno /\ Medido /\ Borrados
    /\ CorreoUnico /\ FinalizadaCompleta /\ OmisionContada

-----------------------------------------------------------------------------
(* What is counted *)

\* Counting the rows gives numbers, and those of a complete campaign when
\* nothing is left.
LEMMA CuentaBien ==
  ASSUME CampanasAssumption
  PROVE  /\ CuentaActual \in Cuentas
         /\ Completa(CuentaActual) => Con("pendiente") \cup Con("fallido") = {}
<1>1. /\ \A e : IsFiniteSet(Con(e)) /\ Cardinality(Con(e)) \in Nat
      /\ Cardinality({c \in Clientes : envio[c] # "ninguno"}) \in Nat
  BY FS_Subset, FS_CardinalityType DEF CampanasAssumption, Con
<1>2. \A e : Cardinality(Con(e)) = 0 => Con(e) = {}
  BY <1>1, FS_EmptySet
<1> QED
  BY <1>1, <1>2 DEF CuentaActual, Cuentas, Completa

-----------------------------------------------------------------------------
(* Every step keeps the invariant. *)

LEMMA LeerBorradorBien ==
  ASSUME CampanasAssumption, CampInv, LeerBorrador
  PROVE  CampInv'
<1>1. /\ CampanasTypeOK' /\ ConCandado' /\ EnCurso' /\ EnTurno' /\ Medido' /\ Borrados'
      /\ CorreoUnico' /\ FinalizadaCompleta' /\ OmisionContada'
  BY DEF CampInv, LeerBorrador, CampanasTypeOK, ConCandado, EnCurso, FinalizadaCompleta,
         Con, EnTurno, CorreoUnico, Borrados, Medido, OmisionContada
<1> QED
  BY <1>1 DEF CampInv

LEMMA EscribirBorradorBien ==
  ASSUME CampanasAssumption, CampInv, EscribirBorrador
  PROVE  CampInv'
<1>1. CampanasTypeOK'
  <2>1. contenido' \in Nat
    BY DEF CampInv, CampanasTypeOK, EscribirBorrador
  <2> QED
    BY <2>1 DEF CampInv, CampanasTypeOK, EscribirBorrador
<1>2. /\ ConCandado' /\ EnCurso' /\ EnTurno' /\ Medido' /\ Borrados' /\ CorreoUnico'
      /\ FinalizadaCompleta' /\ OmisionContada'
  BY DEF CampInv, EscribirBorrador, ConCandado, EnCurso, FinalizadaCompleta, Con, EnTurno,
         CorreoUnico, Borrados, Medido, OmisionContada
<1> QED
  BY <1>1, <1>2 DEF CampInv

LEMMA VencerBien ==
  ASSUME CampanasAssumption, CampInv, Vencer
  PROVE  CampInv'
<1>1. /\ CampanasTypeOK' /\ ConCandado' /\ EnCurso' /\ EnTurno' /\ Medido' /\ Borrados'
      /\ CorreoUnico' /\ FinalizadaCompleta' /\ OmisionContada'
  BY DEF CampInv, Vencer, CampanasTypeOK, ConCandado, EnCurso, FinalizadaCompleta, Con,
         EnTurno, CorreoUnico, Borrados, Medido, OmisionContada
<1> QED
  BY <1>1 DEF CampInv

LEMMA CambiarClienteBien ==
  ASSUME CampanasAssumption, CampInv, NEW c \in Clientes,
         NEW e \in {"elegible", "no_elegible"}, CambiarCliente(c, e)
  PROVE  CampInv'
<1>1. /\ CampanasTypeOK' /\ ConCandado' /\ EnCurso' /\ EnTurno' /\ Medido' /\ Borrados'
      /\ CorreoUnico' /\ FinalizadaCompleta' /\ OmisionContada'
  BY DEF CampInv, CambiarCliente, CampanasTypeOK, ConCandado, EnCurso, FinalizadaCompleta,
         Con, EnTurno, CorreoUnico, Borrados, Medido, OmisionContada
<1> QED
  BY <1>1 DEF CampInv

LEMMA EliminarCuentaBien ==
  ASSUME CampanasAssumption, CampInv, NEW c \in Clientes, EliminarCuenta(c)
  PROVE  CampInv'
<1>1. CampanasTypeOK'
  BY DEF CampInv, EliminarCuenta, CampanasTypeOK
<1>2. EnTurno'
  BY DEF CampInv, EliminarCuenta, EnTurno
<1>3. Medido'
  BY DEF CampInv, EliminarCuenta, Medido, Con
<1>4. Borrados'
  BY DEF CampInv, EliminarCuenta, CampanasTypeOK, Borrados
<1>5. CorreoUnico'
  BY DEF CampInv, EliminarCuenta, CorreoUnico
<1>6. FinalizadaCompleta'
  BY DEF CampInv, EliminarCuenta, FinalizadaCompleta, Con
<1>7. OmisionContada'
  <2>1. /\ Con("ninguno")' = Con("ninguno")
        /\ Con("omitido")' \ borrados' = Con("omitido") \ borrados
    BY DEF EliminarCuenta, Con
  <2> QED
    BY <2>1 DEF CampInv, OmisionContada, EliminarCuenta
<1>8. ConCandado' /\ EnCurso'
  BY DEF CampInv, EliminarCuenta, ConCandado, EnCurso
<1> QED
  BY <1>1, <1>2, <1>3, <1>4, <1>5, <1>6, <1>7, <1>8 DEF CampInv

LEMMA ProgramarBien ==
  ASSUME CampanasAssumption, CampInv, NEW x \in SUBSET Clientes, Programar(x)
  PROVE  CampInv'
<1>1. CampanasTypeOK'
  <2> DEFINE D == {c \in Clientes \ x : Elegible(c)}
  <2>1. Cardinality(D) \in Nat /\ Cardinality(Clientes \ D) \in Nat
    BY FS_Subset, FS_CardinalityType DEF CampanasAssumption
  <2> QED
    BY <2>1 DEF CampInv, CampanasTypeOK, Programar
<1>2. EnCurso'
  BY DEF CampInv, Programar, EnCurso
<1>3. OmisionContada'
  <2> DEFINE D == {c \in Clientes \ x : Elegible(c)}
  <2>1. Con("ninguno")' = Clientes \ D /\ Con("omitido")' = {}
    BY DEF Programar, Con
  <2> QED
    BY <2>1 DEF OmisionContada, Programar
<1>4. ConCandado' /\ EnTurno' /\ Medido' /\ Borrados' /\ CorreoUnico' /\ FinalizadaCompleta'
  BY DEF CampInv, Programar, Programable, CampanasTypeOK, ConCandado, ConFila, EnCurso,
         EnTurno, Entregando, CorreoUnico, Borrados, Medido, FinalizadaCompleta
<1> QED
  BY <1>1, <1>2, <1>3, <1>4 DEF CampInv

LEMMA TomarBien ==
  ASSUME CampanasAssumption, CampInv, NEW p \in Procesos,
         NEW r \in [paso : {"leer", "cancelar"}, fuente : {"pendiente", "fallido"},
                    solo : BOOLEAN],
         Tomar(p, r)
  PROVE  CampInv'
<1>1. CampanasTypeOK'
  <2> DEFINE q == [Libre EXCEPT !.paso = r.paso, !.fuente = r.fuente, !.solo = r.solo]
  <2>1. proc[p] \in Registro
    BY DEF CampInv, CampanasTypeOK
  <2>2. q \in Registro
    BY <2>1 DEF Registro, Pasos, Libre, Cuentas
  <2>3. proc' = [proc EXCEPT ![p] = q]
    BY <2>1 DEF Tomar, Registro
  <2>4. proc' \in [Procesos -> Registro]
    BY <2>1, <2>2, <2>3 DEF CampInv, CampanasTypeOK
  <2> QED
    BY <2>4 DEF CampInv, CampanasTypeOK, Tomar
<1>2. ConCandado'
  BY DEF CampInv, Tomar, CandadoLibre, Libre, ConCandado, ConFila
<1>3. /\ EnCurso' /\ EnTurno' /\ Medido' /\ Borrados' /\ CorreoUnico' /\ FinalizadaCompleta'
      /\ OmisionContada'
  BY DEF CampInv, Tomar, ConCandado, EnCurso, ConFila, Entregando, FinalizadaCompleta, Con,
         EnTurno, CorreoUnico, Borrados, Medido, OmisionContada
<1> QED
  BY <1>1, <1>2, <1>3 DEF CampInv

LEMMA LeerBien ==
  ASSUME CampanasAssumption, CampInv, NEW p \in Procesos, Leer(p)
  PROVE  CampInv'
<1>1. CampanasTypeOK'
  <2> DEFINE S == IF proc[p].solo /\ ~vencida THEN {} ELSE Con(proc[p].fuente)
  <2>1. proc[p] \in Registro /\ Libre \in Registro
    BY DEF CampInv, CampanasTypeOK, Registro, Pasos, Cuentas, Libre
  <2>2. [proc[p] EXCEPT !.paso = "fila", !.cola = S] \in Registro
    BY <2>1 DEF Registro, Pasos, Con
  <2>3. \/ proc' = [proc EXCEPT ![p] = [proc[p] EXCEPT !.paso = "fila", !.cola = S]]
        \/ proc' = [proc EXCEPT ![p] = Libre]
    BY <2>1, ZenonT(40) DEF Leer, Registro
  <2>4. proc' \in [Procesos -> Registro]
    BY <2>1, <2>2, <2>3, SMTT(30) DEF CampInv, CampanasTypeOK
  <2> QED
    BY <2>4 DEF CampInv, CampanasTypeOK, Leer, CandadoSuelto
<1>2. ConCandado'
  BY DEF CampInv, Leer, Libre, Registro, CampanasTypeOK, ConCandado, ConFila
<1>3. EnCurso'
  BY DEF CampInv, Leer, Entregable, Libre, Registro, CampanasTypeOK, EnCurso, ConFila,
         Entregando, FinalizadaCompleta
<1>4. /\ proc[p] \in Registro /\ proc[p].paso = "leer" /\ ~proc[p].salio
      /\ \A o \in Procesos : proc[o] \in Registro
  BY DEF CampInv, CampanasTypeOK, Leer, ConCandado
<1>5. \A o \in Procesos :
        \/ proc'[o] = proc[o]
        \/ proc'[o].paso \in {"libre", "fila"} /\ ~proc'[o].salio /\ ~proc[o].salio
  <2>1. TAKE o \in Procesos
  <2>2. CASE o # p
    BY <2>2, <1>4 DEF CampInv, CampanasTypeOK, Leer
  <2>3. CASE o = p
    BY <2>3, <1>4 DEF CampInv, CampanasTypeOK, Leer, Registro, Libre
  <2> QED
    BY <2>2, <2>3
<1>6. UNCHANGED <<campana, finalizada, totales, envio, ciertos, borrados>>
  BY DEF Leer
<1>7. EnTurno'
  BY <1>5, <1>6 DEF CampInv, EnTurno
<1>8. Medido' /\ Borrados'
  BY <1>5, <1>6 DEF CampInv, Medido, Borrados, Con, Completa
<1>9. CorreoUnico'
  BY <1>5, <1>6 DEF CampInv, CorreoUnico
<1>10. FinalizadaCompleta' /\ OmisionContada'
  BY <1>6 DEF CampInv, FinalizadaCompleta, OmisionContada, Con
<1> QED
  BY <1>1, <1>2, <1>3, <1>7, <1>8, <1>9, <1>10 DEF CampInv

LEMMA VerificarBien ==
  ASSUME CampanasAssumption, CampInv, NEW p \in Procesos, NEW c \in Clientes,
         Verificar(p, c)
  PROVE  CampInv'
<1>1. CampanasTypeOK'
  <2> DEFINE q == [proc[p] EXCEPT !.cola = @ \ {c}]
  <2>1. proc[p] \in Registro
    BY DEF CampInv, CampanasTypeOK
  <2>2. q \in Registro
    BY <2>1 DEF Registro
  <2>3. \A k \in {"enviar", "omitir"} : [q EXCEPT !.fila = c, !.paso = k] \in Registro
    BY <2>2 DEF Registro, Pasos
  <2> QED
    BY <2>1, <2>2, <2>3 DEF CampInv, CampanasTypeOK, Verificar
<1>2. ConCandado'
  BY DEF CampInv, Verificar, ConCandado
<1>3. EnTurno'
  BY DEF CampInv, Verificar, Registro, CampanasTypeOK, ConCandado, EnCurso, EnTurno,
         ConFila, Entregando, CorreoUnico, Borrados
<1>4. /\ EnCurso' /\ Medido' /\ Borrados' /\ CorreoUnico' /\ FinalizadaCompleta'
      /\ OmisionContada'
  BY DEF CampInv, Verificar, ConCandado, EnCurso, Entregando, FinalizadaCompleta, Con,
         Medido, Borrados, CorreoUnico, OmisionContada
<1> QED
  BY <1>1, <1>2, <1>3, <1>4 DEF CampInv

LEMMA OmitirBien ==
  ASSUME CampanasAssumption, CampInv, NEW p \in Procesos, Omitir(p)
  PROVE  CampInv'
<1>1. CampanasTypeOK'
  <2> DEFINE r == [proc[p] EXCEPT !.paso = "fila", !.fila = Nadie, !.hubo = TRUE]
  <2>1. proc[p] \in Registro
    BY DEF CampInv, CampanasTypeOK
  <2>2. r \in Registro
    BY <2>1 DEF Registro, Pasos
  <2>3. proc' = [proc EXCEPT ![p] = r]
    BY <2>1 DEF Omitir, Registro
  <2>4. proc' \in [Procesos -> Registro]
    BY <2>1, <2>2, <2>3 DEF CampInv, CampanasTypeOK
  <2>5. envio' \in [Clientes -> {"ninguno", "pendiente", "enviado", "fallido", "omitido"}]
    BY DEF CampInv, CampanasTypeOK, Omitir
  <2>6. totales' \in [destinatarios : Nat, pendientes : Nat, enviados : Nat, fallidos : Nat,
                      omitidos : Nat]
    <3> DEFINE n == IF Omitible(p, proc[p].fila) THEN 1 ELSE 0
    <3>1. \A m \in Nat : Menos(m, n) \in Nat /\ m + n \in Nat
      BY DEF Menos
    <3>2. /\ totales.omitidos + n \in Nat
          /\ Menos(totales.pendientes, n) \in Nat /\ Menos(totales.fallidos, n) \in Nat
      BY <3>1 DEF CampInv, CampanasTypeOK
    <3> QED
      BY <3>2 DEF CampInv, CampanasTypeOK, Omitir
  <2> QED
    BY <2>4, <2>5, <2>6 DEF CampInv, CampanasTypeOK, Omitir
<1>2. ConCandado'
  BY DEF CampInv, Omitir, CampanasTypeOK, ConCandado, ConFila
<1>3. EnTurno'
  BY DEF CampInv, Omitir, CampanasTypeOK, ConCandado, EnTurno
<1>4. Medido'
  BY DEF CampInv, Omitir, CampanasTypeOK, Medido, Con
<1>5. FinalizadaCompleta'
  BY DEF CampInv, Omitir, FinalizadaCompleta, Con
<1>6. OmisionContada'
  <2> DEFINE c == proc[p].fila
             A == Con("ninguno") \cup (Con("omitido") \ borrados)
  <2>1. CASE Omitible(p, c)
    <3>1. A' = A \cup {c} /\ c \notin A
      BY <2>1 DEF CampInv, CampanasTypeOK, ConCandado, ConFila, Omitir, Registro
    <3>2. IsFiniteSet(A)
      BY FS_Subset DEF CampanasAssumption, Con
    <3> QED
      <4>1. Cardinality(A \cup {c}) = Cardinality(A) + 1
        BY <3>1, <3>2, FS_AddElement
      <4>2. totales'.omitidos = totales.omitidos + 1
        BY <2>1 DEF Omitir
      <4> QED
        BY <3>1, <4>1, <4>2 DEF CampInv, OmisionContada, Omitir
  <2>2. CASE ~Omitible(p, c)
    <3>1. A' = A
      BY <2>2 DEF Omitir, Omitible, Con
    <3> QED
      <4>1. totales'.omitidos = totales.omitidos
        BY <2>2 DEF CampInv, CampanasTypeOK, Omitir
      <4> QED
        BY <3>1, <4>1 DEF CampInv, OmisionContada, Omitir
  <2> QED
    BY <2>1, <2>2
<1>7. EnCurso' /\ Borrados' /\ CorreoUnico'
  BY DEF CampInv, Omitir, Registro, CampanasTypeOK, ConCandado, ConFila
<1> QED
  BY <1>1, <1>2, <1>3, <1>4, <1>5, <1>6, <1>7 DEF CampInv

LEMMA EnviarCorreoBien ==
  ASSUME CampanasAssumption, CampInv, NEW p \in Procesos, NEW e \in BOOLEAN,
         EnviarCorreo(p, e)
  PROVE  CampInv'
<1>1. CampanasTypeOK'
  <2> DEFINE r == [proc[p] EXCEPT !.paso = "anotar", !.salio = e, !.hubo = TRUE]
  <2>1. proc[p] \in Registro
    BY DEF CampInv, CampanasTypeOK
  <2>2. r \in Registro
    BY <2>1 DEF Registro, Pasos
  <2>3. proc' = [proc EXCEPT ![p] = r]
    BY <2>1 DEF EnviarCorreo, Registro
  <2>4. proc' \in [Procesos -> Registro]
    BY <2>1, <2>2, <2>3 DEF CampInv, CampanasTypeOK
  <2>5. ciertos' \in [Clientes -> Nat]
    <3>1. \A d \in Clientes : ciertos[d] + 1 \in Nat
      BY DEF CampInv, CampanasTypeOK
    <3> QED
      BY <3>1 DEF CampInv, CampanasTypeOK, EnviarCorreo
  <2> QED
    BY <2>4, <2>5 DEF CampInv, CampanasTypeOK, EnviarCorreo
<1>2. ConCandado'
  BY DEF CampInv, EnviarCorreo, CampanasTypeOK, ConCandado, ConFila
<1>3. EnTurno'
  BY DEF CampInv, EnviarCorreo, CampanasTypeOK, ConCandado, EnTurno, ConFila
<1>4. CorreoUnico'
  BY DEF CampInv, EnviarCorreo, CampanasTypeOK, EnTurno, CorreoUnico
<1>5. EnCurso' /\ Medido' /\ Borrados' /\ FinalizadaCompleta' /\ OmisionContada'
  BY DEF CampInv, EnviarCorreo, CampanasTypeOK, EnCurso, ConFila, Entregando,
         FinalizadaCompleta, Con, Medido, Borrados, OmisionContada
<1> QED
  BY <1>1, <1>2, <1>3, <1>4, <1>5 DEF CampInv

LEMMA AnotarBien ==
  ASSUME CampanasAssumption, CampInv, NEW p \in Procesos, Anotar(p)
  PROVE  CampInv'
<1>1. CampanasTypeOK'
  <2> DEFINE r == [proc[p] EXCEPT !.paso = "fila", !.fila = Nadie, !.salio = FALSE]
  <2>1. proc[p] \in Registro
    BY DEF CampInv, CampanasTypeOK
  <2>2. r \in Registro
    BY <2>1 DEF Registro, Pasos
  <2>3. proc' = [proc EXCEPT ![p] = r]
    BY <2>1 DEF Anotar, Registro
  <2>4. proc' \in [Procesos -> Registro]
    BY <2>1, <2>2, <2>3 DEF CampInv, CampanasTypeOK
  <2>5. envio' \in [Clientes -> {"ninguno", "pendiente", "enviado", "fallido", "omitido"}]
    BY DEF CampInv, CampanasTypeOK, Anotar, EstadoAnotado
  <2>6. intentos' \in [Clientes -> Nat]
    <3>1. \A d \in Clientes : intentos[d] + 1 \in Nat
      BY DEF CampInv, CampanasTypeOK
    <3> QED
      BY <3>1 DEF CampInv, CampanasTypeOK, Anotar
  <2> QED
    BY <2>4, <2>5, <2>6 DEF CampInv, CampanasTypeOK, Anotar
<1>2. ConCandado'
  BY DEF CampInv, Anotar, CampanasTypeOK, ConCandado, ConFila
<1>3. EnTurno'
  BY DEF CampInv, Anotar, CampanasTypeOK, ConCandado, EnTurno
<1>4. Medido'
  BY DEF CampInv, Anotar, CampanasTypeOK, ConCandado, Medido
<1>5. Borrados'
  BY DEF CampInv, Anotar, Borrados
<1>6. CorreoUnico'
  BY DEF CampInv, Anotar, EstadoAnotado, CampanasTypeOK, EnTurno, CorreoUnico
<1>7. FinalizadaCompleta'
  BY DEF CampInv, Anotar, EnCurso, ConFila, Entregando, FinalizadaCompleta
<1>8. OmisionContada'
  <2>1. /\ Con("ninguno")' = Con("ninguno")
        /\ Con("omitido")' \ borrados' = Con("omitido") \ borrados
    BY DEF CampInv, CampanasTypeOK, Registro, Anotar, Con
  <2> QED
    BY <2>1 DEF CampInv, OmisionContada, Anotar
<1>9. EnCurso'
  BY DEF CampInv, Anotar, EnCurso, ConFila, Entregando
<1> QED
  BY <1>1, <1>2, <1>3, <1>4, <1>5, <1>6, <1>7, <1>8, <1>9 DEF CampInv

LEMMA ContarBien ==
  ASSUME CampanasAssumption, CampInv, NEW p \in Procesos, Contar(p)
  PROVE  CampInv'
<1>1. CampanasTypeOK'
  <2>1. proc[p] \in Registro /\ Libre \in Registro
    BY DEF CampInv, CampanasTypeOK, Registro, Pasos, Cuentas, Libre
  <2>2. [proc[p] EXCEPT !.paso = "medir", !.cuenta = CuentaActual] \in Registro
    BY <2>1, CuentaBien DEF Registro, Pasos
  <2>3. \/ proc' = [proc EXCEPT ![p] = [proc[p] EXCEPT !.paso = "medir", !.cuenta = CuentaActual]]
        \/ proc' = [proc EXCEPT ![p] = Libre]
    BY <2>1, ZenonT(40) DEF Contar, Registro
  <2>4. proc' \in [Procesos -> Registro]
    BY <2>1, <2>2, <2>3 DEF CampInv, CampanasTypeOK
  <2> QED
    BY <2>4 DEF CampInv, CampanasTypeOK, Contar, CandadoSuelto
<1>2. ConCandado'
  BY DEF CampInv, Contar, Libre, Registro, CampanasTypeOK, ConCandado, ConFila
<1>3. EnCurso'
  BY DEF CampInv, Contar, EnCurso, Entregando
<1>4. Medido'
  <2>1. Con("pendiente")' = Con("pendiente") /\ Con("fallido")' = Con("fallido")
    BY DEF Contar, Con
  <2>2. proc'[p].paso = "medir" => proc'[p].cuenta = CuentaActual
    BY DEF CampInv, CampanasTypeOK, Registro, Contar, Libre
  <2>3. \A q \in Procesos \ {p} : proc'[q] = proc[q]
    BY DEF CampInv, CampanasTypeOK, Contar
  <2>4. \A n : Completa(n)' <=> Completa(n)
    BY DEF Completa
  <2> QED
    BY <2>1, <2>2, <2>3, <2>4, CuentaBien DEF CampInv, Medido
<1>5. EnTurno' /\ Borrados' /\ CorreoUnico' /\ FinalizadaCompleta' /\ OmisionContada'
  BY DEF CampInv, Contar, Libre, Registro, CampanasTypeOK, ConCandado, EnTurno, CorreoUnico,
         Borrados, FinalizadaCompleta, Con, OmisionContada
<1> QED
  BY <1>1, <1>2, <1>3, <1>4, <1>5 DEF CampInv

LEMMA MedirBien ==
  ASSUME CampanasAssumption, CampInv, NEW p \in Procesos, Medir(p)
  PROVE  CampInv'
<1>1. CampanasTypeOK'
  <2>1. proc[p] \in Registro /\ Libre \in Registro
    BY DEF CampInv, CampanasTypeOK, Registro, Pasos, Cuentas, Libre
  <2>2. totales' \in [destinatarios : Nat, pendientes : Nat, enviados : Nat, fallidos : Nat,
                      omitidos : Nat]
    BY <2>1 DEF CampInv, CampanasTypeOK, Medir, ConCuenta, Registro, Cuentas
  <2>3. proc' \in [Procesos -> Registro]
    BY <2>1 DEF CampInv, CampanasTypeOK, Medir
  <2> QED
    BY <2>2, <2>3 DEF CampInv, CampanasTypeOK, Medir, Completa, CandadoSuelto
<1>2. ConCandado'
  BY DEF CampInv, Medir, Libre, CampanasTypeOK, ConCandado, ConFila
<1>3. EnCurso'
  BY DEF CampInv, Medir, Libre, CampanasTypeOK, ConCandado, EnCurso, ConFila, Entregando
<1>4. FinalizadaCompleta'
  BY DEF CampInv, Medir, Medido, FinalizadaCompleta, Con
<1>5. OmisionContada'
  BY DEF CampInv, Medir, ConCuenta, OmisionContada, Con
<1>6. EnTurno' /\ Medido' /\ Borrados' /\ CorreoUnico'
  BY DEF CampInv, Medir, Libre, ConCandado, EnTurno, CorreoUnico, Borrados, Medido, Con
<1> QED
  BY <1>1, <1>2, <1>3, <1>4, <1>5, <1>6 DEF CampInv

LEMMA CancelarLeerBien ==
  ASSUME CampanasAssumption, CampInv, NEW p \in Procesos, CancelarLeer(p)
  PROVE  CampInv'
<1>1. CampanasTypeOK'
  <2>1. proc[p] \in Registro /\ Libre \in Registro
    BY DEF CampInv, CampanasTypeOK, Registro, Pasos, Cuentas, Libre
  <2>2. [proc[p] EXCEPT !.paso = "contar"] \in Registro
    BY <2>1 DEF Registro, Pasos
  <2>3. \/ proc' = [proc EXCEPT ![p] = [proc[p] EXCEPT !.paso = "contar"]]
        \/ proc' = [proc EXCEPT ![p] = Libre]
    BY <2>1 DEF CancelarLeer, Registro
  <2>4. proc' \in [Procesos -> Registro]
    BY <2>1, <2>2, <2>3 DEF CampInv, CampanasTypeOK
  <2> QED
    BY <2>4 DEF CampInv, CampanasTypeOK, CancelarLeer, CandadoSuelto
<1>2. ConCandado'
  BY DEF CampInv, CancelarLeer, Libre, Registro, CampanasTypeOK, ConCandado, ConFila
<1>3. EnCurso'
  BY SMTT(30) DEF CampInv, CancelarLeer, Libre, Registro, CampanasTypeOK, EnCurso, ConFila,
         Entregando
<1>4. EnTurno'
  BY SMTT(30) DEF CampInv, CancelarLeer, Libre, Registro, CampanasTypeOK, EnCurso, EnTurno
<1>5. Medido'
  BY DEF CampInv, CancelarLeer, Libre, Registro, CampanasTypeOK, Medido, Con
<1>6. CorreoUnico'
  BY DEF CampInv, CancelarLeer, ConCandado, CorreoUnico
<1>7. FinalizadaCompleta'
  BY DEF CampInv, CancelarLeer, FinalizadaCompleta, Con
<1>8. Borrados' /\ OmisionContada'
  BY DEF CampInv, CancelarLeer, Borrados, OmisionContada, Con
<1> QED
  BY <1>1, <1>2, <1>3, <1>4, <1>5, <1>6, <1>7, <1>8 DEF CampInv

LEMMA CancelarContarBien ==
  ASSUME CampanasAssumption, CampInv, NEW p \in Procesos, CancelarContar(p)
  PROVE  CampInv'
<1>1. CampanasTypeOK'
  <2> DEFINE r == [proc[p] EXCEPT !.paso = "cerrar", !.cuenta = CuentaActual]
  <2>1. proc[p] \in Registro
    BY DEF CampInv, CampanasTypeOK
  <2>2. r \in Registro
    BY <2>1, CuentaBien DEF Registro, Pasos
  <2>3. proc' = [proc EXCEPT ![p] = r]
    BY <2>1 DEF CancelarContar, Registro
  <2>4. proc' \in [Procesos -> Registro]
    BY <2>1, <2>2, <2>3 DEF CampInv, CampanasTypeOK
  <2> QED
    BY <2>4 DEF CampInv, CampanasTypeOK, CancelarContar
<1>2. ConCandado'
  BY DEF CampInv, CancelarContar, CampanasTypeOK, ConCandado, ConFila
<1>3. /\ EnCurso' /\ EnTurno' /\ Medido' /\ Borrados' /\ CorreoUnico' /\ FinalizadaCompleta'
      /\ OmisionContada'
  BY DEF CampInv, CancelarContar, CampanasTypeOK, EnCurso, ConFila, Entregando,
         FinalizadaCompleta, Con, EnTurno, CorreoUnico, Borrados, Medido, OmisionContada
<1> QED
  BY <1>1, <1>2, <1>3 DEF CampInv

LEMMA CancelarCerrarBien ==
  ASSUME CampanasAssumption, CampInv, NEW p \in Procesos, CancelarCerrar(p)
  PROVE  CampInv'
<1>1. CampanasTypeOK'
  <2>1. proc[p] \in Registro /\ Libre \in Registro
    BY DEF CampInv, CampanasTypeOK, Registro, Pasos, Cuentas, Libre
  <2> QED
    BY <2>1
    DEF CampInv, CampanasTypeOK, CancelarCerrar, CandadoSuelto, ConCuenta, Registro, Cuentas
<1>2. ConCandado'
  BY DEF CampInv, CancelarCerrar, Libre, CampanasTypeOK, ConCandado, ConFila
<1>3. EnCurso'
  BY DEF CampInv, CancelarCerrar, Libre, ConCandado, EnCurso, ConFila, Entregando
<1>4. /\ EnTurno' /\ Medido' /\ Borrados' /\ CorreoUnico' /\ FinalizadaCompleta'
      /\ OmisionContada'
  BY DEF CampInv, CancelarCerrar, Libre, ConCandado, EnTurno, CorreoUnico, Borrados, Medido,
         FinalizadaCompleta, OmisionContada
<1> QED
  BY <1>1, <1>2, <1>3, <1>4 DEF CampInv

LEMMA CaerBien ==
  ASSUME CampanasAssumption, CampInv, NEW p \in Procesos, Caer(p)
  PROVE  CampInv'
<1>1. CampanasTypeOK'
  <2>1. proc[p] \in Registro /\ Libre \in Registro
    BY DEF CampInv, CampanasTypeOK, Registro, Pasos, Cuentas, Libre
  <2>2. ciertos' \in [Clientes -> Nat]
    BY DEF CampInv, CampanasTypeOK, ConCandado, EnTurno, Caer
  <2> QED
    BY <2>1, <2>2 DEF CampInv, CampanasTypeOK, Caer
<1>2. ConCandado'
  BY DEF CampInv, Caer, Libre, CampanasTypeOK, ConCandado, ConFila
<1>3. EnTurno'
  BY DEF CampInv, Caer, Libre, CampanasTypeOK, ConCandado, EnTurno
<1>4. CorreoUnico'
  BY DEF CampInv, Caer, ConCandado, EnTurno, CorreoUnico
<1>5. EnCurso' /\ Medido' /\ Borrados' /\ FinalizadaCompleta' /\ OmisionContada'
  BY DEF CampInv, Caer, Libre, EnCurso, ConFila, Entregando, FinalizadaCompleta, Con,
         Medido, Borrados, OmisionContada
<1> QED
  BY <1>1, <1>2, <1>3, <1>4, <1>5 DEF CampInv

-----------------------------------------------------------------------------
(* The invariant *)

LEMMA InicioBien == ASSUME CampanasAssumption, Init PROVE CampInv
<1>1. CampanasTypeOK
  <2>1. Libre \in Registro
    BY DEF Registro, Pasos, Cuentas, Libre
  <2>2. fallos \in 0..MaxFallos
    BY DEF CampanasAssumption, Init
  <2> QED
    BY <2>1, <2>2 DEF Init, CampanasTypeOK
<1>2. \A p \in Procesos : proc[p].paso = "libre" /\ ~proc[p].salio
  BY DEF Init, Libre
<1> QED
  BY <1>1, <1>2
  DEF Init, CampInv, ConCandado, EnCurso, EnTurno, Medido, Borrados, ConFila, Entregando,
      CorreoUnico, FinalizadaCompleta, OmisionContada

LEMMA PasoBien == ASSUME CampanasAssumption, CampInv, [Next]_vars PROVE CampInv'
<1>1. ASSUME NEW p \in Procesos, Agenda(p) \/ Enviar(p) \/ Reintentar(p) \/ Cancelar(p)
      PROVE  CampInv'
  <2>1. PICK r \in [paso : {"leer", "cancelar"}, fuente : {"pendiente", "fallido"},
                    solo : BOOLEAN] : Tomar(p, r)
    BY <1>1 DEF Agenda, Enviar, Reintentar, Cancelar
  <2> QED
    BY <2>1, TomarBien
<1>2. ASSUME NEW p \in Procesos, Paso(p) PROVE CampInv'
  BY <1>2, LeerBien, VerificarBien, OmitirBien, EnviarCorreoBien, AnotarBien, ContarBien,
     MedirBien, CancelarLeerBien, CancelarContarBien, CancelarCerrarBien DEF Paso
<1>3. CASE UNCHANGED vars
  BY <1>3
  DEF vars, CampInv, CampanasTypeOK, ConCandado, EnCurso, EnTurno, Medido, Borrados,
      CorreoUnico, FinalizadaCompleta, OmisionContada, Con
<1> QED
  BY <1>1, <1>2, <1>3, LeerBorradorBien, EscribirBorradorBien, VencerBien, ProgramarBien,
     CambiarClienteBien, EliminarCuentaBien, CaerBien DEF Next

\* The inductive invariant holds in every reachable state.
THEOREM CampanasInvariante == CampanasSpec => []CampInv
<1>1. Init => CampInv
  BY InicioBien, CampanasAssumption
<1>2. CampInv /\ [Next]_vars => CampInv'
  BY PasoBien, CampanasAssumption
<1> QED
  BY <1>1, <1>2, PTL DEF CampanasSpec

\* The rows, the counters, the lock and the deliveries have their types; what
\* is sent and lost with its process was counted as sent.
THEOREM CampanasTipo == CampanasSpec => []CampanasTypeOK
<1>1. CampInv => CampanasTypeOK
  BY DEF CampInv
<1> QED
  BY <1>1, CampanasInvariante, PTL

\* However many ticks, sends and retries overlap, fail and repeat, a client
\* gets one message, and another only after one reported as failed or lost.
THEOREM CampanasCorreoUnico == CampanasSpec => []CorreoUnico
<1>1. CampInv => CorreoUnico
  BY DEF CampInv
<1> QED
  BY <1>1, CampanasInvariante, PTL

\* A campaign shown as finished has nothing left to send or to retry, although
\* its rows are counted in one statement and it is closed in another.
THEOREM CampanasFinalizada == CampanasSpec => []FinalizadaCompleta
<1>1. CampInv => FinalizadaCompleta
  BY DEF CampInv
<1> QED
  BY <1>1, CampanasInvariante, PTL

\* A row omitted by a delivery is counted once, although its account may be
\* deleted between its verification and its update.
THEOREM CampanasOmision == CampanasSpec => []OmisionContada
<1>1. CampInv => OmisionContada
  BY DEF CampInv
<1> QED
  BY <1>1, CampanasInvariante, PTL

\* After the cancellation nobody is about to send, so nothing leaves.
THEOREM CampanasCalla == CampanasSpec => CanceladaCalla
<1>1. CampInv /\ [Next]_vars =>
        [campana = "cancelada" =>
            \A p \in Procesos : proc[p].paso = "enviar" => proc'[p].paso # "anotar"]_vars
  BY DEF CampInv, EnCurso, ConFila, Entregando
<1> QED
  BY <1>1, CampanasInvariante, PTL DEF CampanasSpec, CanceladaCalla
=============================================================================
