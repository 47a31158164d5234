--------------------------- MODULE BorradoCuenta ---------------------------
(***************************************************************************)
(* The deletion of one account (services/accountDeletionService.js): the   *)
(* request of a client, confirmed with a one-use token and carried out by  *)
(* a public endpoint, and the request of a member of the staff, approved   *)
(* by an administrator.  Both run the same stages, each in requests that   *)
(* may die, be repeated and overlap:                                       *)
(*    evaluada/aprobada -> procesando -> storage_pendiente ->              *)
(*    auth_pendiente -> completada                                         *)
(* Each transaction is one step; the calls to Storage and to the identity  *)
(* provider are steps of their own, under a session-level advisory lock.   *)
(***************************************************************************)
EXTENDS Integers, FiniteSets

CONSTANTS
    Procesos,        \* requests that may carry out the deletion at one time
    Archivos,        \* rows of storage_assets the account may have
    MaxTokens,       \* bound: execution tokens issued
    MaxSolicitudes,  \* bound: requests created
    MaxVuelo,        \* bound: requests of other endpoints in flight at a time
    MaxFallos        \* bound: failed calls and requests that die

ASSUME BorradoAssumption ==
    /\ MaxTokens \in Nat /\ MaxSolicitudes \in Nat /\ MaxVuelo \in Nat /\ MaxFallos \in Nat
    /\ "nadie" \notin Procesos

VARIABLES
    tipo,          \* tipo_sujeto: cliente or personal
    estado,        \* estado_codigo of the request
    token,         \* execution_token_hash: which token, or NULO
    emitidos,      \* tokens issued so far
    reauth,        \* reautenticado_at: which login
    edad,          \* 0 fresh, 1 the login is too old to start, 2 the token too
    solicitudes,   \* requests created so far
    cuenta,        \* activa, inactiva, anonima
    datos,         \* the row of personas holds personal data
    operaciones,   \* citas, holds, payments or dependencies that block
    vuelo,         \* requests of other endpoints admitted and not finished
    fila,          \* status of each row of storage_assets
    objetos,       \* files whose object exists in Storage
    enlaces,       \* files with a signed upload URL not used yet
    tardios,       \* history: uploaded after their absence was verified
    instantanea,   \* storage_asset_ids of the request
    identidad,     \* the identity provider knows the user
    candado,       \* session that holds the advisory lock of the user
    proc,          \* one record per request that carries out the deletion
    fallos         \* failures so far

solicitud == <<tipo, estado, token, emitidos, reauth, edad, solicitudes>>
sujeto == <<cuenta, datos, operaciones, vuelo>>
archivos == <<fila, objetos, enlaces, tardios, instantanea>>
vars == <<solicitud, sujeto, archivos, identidad, candado, proc, fallos>>

-----------------------------------------------------------------------------
(* Values *)

NULO == 0
Nadie == "nadie"
Terminales == {"completada", "rechazada", "cancelada"}
Confirmables == {"pendiente_confirmacion", "bloqueada"}
ConToken == {"evaluada", "procesando", "storage_pendiente", "auth_pendiente", "completada"}
Tecnicos == {"procesando", "storage_pendiente", "auth_pendiente"}
Estados == {"ninguna", "pendiente_aprobacion", "aprobada"} \cup Terminales \cup Confirmables \cup ConToken

\* Sections that hold the session lock across calls to other services.
EnArchivos == {"quitar", "cerrarArchivos"}
EnAuth == {"borrarAuth", "cerrarAuth"}
EnSeccion == EnArchivos \cup EnAuth
Rutinas == {"libre", "cargar", "limpiar", "ejecutar", "anonimizar", "archivos", "auth"} \cup EnSeccion

Registros == [pc : Rutinas, admin : BOOLEAN, token : 0..MaxTokens, reauth : 0..MaxTokens,
              pendientes : SUBSET Archivos, fallidas : SUBSET Archivos]

Libre == [pc |-> "libre", admin |-> FALSE, token |-> NULO, reauth |-> NULO,
          pendientes |-> {}, fallidas |-> {}]

\* The stage that a state leads to in the three orchestrators.
Etapa(e) == CASE e \in {"evaluada", "aprobada"} -> "ejecutar"
              [] e = "procesando" -> "anonimizar"
              [] e = "storage_pendiente" -> "archivos"
              [] e = "auth_pendiente" -> "auth"

\* Rows that the selection of the account's files returns.
Vigentes == {a \in Archivos : fila[a] \in {"viva", "cuarentena"}}
Nuevas == Vigentes \ instantanea
TodasEliminadas == \A a \in instantanea : fila[a] = "eliminada"

\* pg_advisory_xact_lock waits for the session that holds the lock.
CandadoLibre == candado = Nadie

Pasa(p, donde) == proc' = [proc EXCEPT ![p].pc = donde]
Termina(p) == proc' = [proc EXCEPT ![p] = Libre]
Suelta(p) == candado' = IF candado = p THEN Nadie ELSE candado

-----------------------------------------------------------------------------
(* The request of a client and its token *)

\* operaciones stands for the appointments, holds, payment intents and
\* payments that the evaluation of the account counts as blocking.
Bloqueada == operaciones

Crear ==
    /\ tipo = "cliente" /\ cuenta = "activa" /\ CandadoLibre
    /\ estado = "ninguna" \/ estado \in Terminales
    /\ solicitudes < MaxSolicitudes
    /\ solicitudes' = solicitudes + 1
    /\ estado' = IF Bloqueada THEN "bloqueada" ELSE "pendiente_confirmacion"
    /\ UNCHANGED <<tipo, token, emitidos, reauth, edad, sujeto, archivos, identidad, candado, proc, fallos>>

\* The session's login is recent; to give the stored one again is a replay.
LoginReciente(r) == r # NULO /\ (r = reauth => edad = 0)

\* What a confirmation writes: a token of its own and the login it was made
\* with (r), or neither.
Confirmada(r) ==
    /\ estado' = "evaluada"
    /\ emitidos' = emitidos + 1 /\ token' = emitidos + 1
    /\ reauth' = r /\ edad' = 0

Impedida ==
    /\ estado' = "bloqueada" /\ token' = NULO /\ reauth' = NULO
    /\ UNCHANGED <<emitidos, edad>>

\* The login may be the stored one again, while it is fresh, or a new one.  A
\* request already evaluada gets a new token without a new evaluation.
Confirmar ==
    /\ tipo = "cliente" /\ CandadoLibre
    /\ emitidos < MaxTokens
    /\ \E r \in {reauth, emitidos + 1} :
        /\ LoginReciente(r)
        /\ \/ estado = "evaluada" /\ Confirmada(r)
           \/ estado \in Confirmables /\ ~Bloqueada /\ Confirmada(r)
           \/ estado \in Confirmables /\ Bloqueada /\ Impedida
    /\ UNCHANGED <<tipo, solicitudes, sujeto, archivos, identidad, candado, proc, fallos>>

\* REAUTH_MAX_AGE_SECONDS and EXECUTION_TOKEN_TTL_MINUTES go by.
Tiempo ==
    /\ estado = "evaluada" /\ edad < 2
    /\ edad' = edad + 1
    /\ UNCHANGED <<tipo, estado, token, emitidos, reauth, solicitudes>>
    /\ UNCHANGED <<sujeto, archivos, identidad, candado, proc, fallos>>

-----------------------------------------------------------------------------
(* The request of a member of the staff and its decision *)

\* An active user of the staff whose person and employee are his alone.
PersonalApto == tipo = "personal" /\ cuenta = "activa"

CrearPersonal ==
    /\ PersonalApto /\ CandadoLibre
    /\ estado \in {"ninguna"} \cup Terminales
    /\ solicitudes < MaxSolicitudes
    /\ solicitudes' = solicitudes + 1
    /\ estado' = "pendiente_aprobacion"
    /\ UNCHANGED <<tipo, token, emitidos, reauth, edad, sujeto, archivos, identidad, candado, proc, fallos>>

Decide(e) ==
    /\ tipo = "personal" /\ CandadoLibre
    /\ estado = "pendiente_aprobacion"
    /\ estado' = e
    /\ UNCHANGED <<tipo, token, emitidos, reauth, edad, solicitudes>>
    /\ UNCHANGED <<sujeto, archivos, identidad, candado, fallos>>

Cancelar == Decide("cancelada") /\ UNCHANGED proc
Rechazar == Decide("rechazada") /\ UNCHANGED proc

\* Appointments, agenda and sales of the employee that somebody must take over.
Dependencias == operaciones

\* The request of the administrator who approves goes on to carry it out.
Aprobar(p) ==
    /\ proc[p].pc = "libre" /\ ~Dependencias
    /\ Decide("aprobada")
    /\ proc' = [proc EXCEPT ![p] = [Libre EXCEPT !.pc = "cargar", !.admin = TRUE]]

-----------------------------------------------------------------------------
(* Requests that carry out the deletion *)

\* The public endpoint, with any token the client was ever given.
Iniciar(p) ==
    /\ tipo = "cliente" /\ proc[p].pc = "libre"
    /\ \E t \in 1..emitidos :
        proc' = [proc EXCEPT ![p] = [Libre EXCEPT !.pc = "cargar", !.token = t]]
    /\ UNCHANGED <<solicitud, sujeto, archivos, identidad, candado, fallos>>

\* An administrator retries what was started; for a client one at a time
\* (the lock admin_retry).
PuedeReintentar ==
    \/ tipo = "personal" /\ estado \in Tecnicos \cup {"aprobada"}
    \/ /\ tipo = "cliente" /\ estado \in Tecnicos
       /\ \A q \in Procesos : ~proc[q].admin

Reintentar(p) ==
    /\ proc[p].pc = "libre" /\ PuedeReintentar
    /\ proc' = [proc EXCEPT ![p] = [Libre EXCEPT !.pc = "cargar", !.admin = TRUE]]
    /\ UNCHANGED <<solicitud, sujeto, archivos, identidad, candado, fallos>>

\* The start of every iteration.  The public endpoint reads the row without a
\* lock and compares the hash of its token.
CargaCliente(p) ==
    /\ ~proc[p].admin
    /\ IF token = NULO \/ token # proc[p].token \/ estado = "completada" THEN Termina(p)
       ELSE IF estado = "evaluada" /\ edad = 2 THEN Pasa(p, "limpiar")
       ELSE proc' = [proc EXCEPT ![p].pc = Etapa(estado), ![p].reauth = reauth]

CargaAdmin(p) ==
    /\ proc[p].admin
    /\ IF estado \in Tecnicos \cup (IF tipo = "personal" THEN {"aprobada"} ELSE {})
       THEN Pasa(p, Etapa(estado)) ELSE Termina(p)

Cargar(p) ==
    /\ proc[p].pc = "cargar"
    /\ CargaCliente(p) \/ CargaAdmin(p)
    /\ UNCHANGED <<solicitud, sujeto, archivos, identidad, candado, fallos>>

\* clearAccountDeletionExecutionToken: whatever token the row has by then.
Limpiar(p) ==
    /\ proc[p].pc = "limpiar"
    /\ token' = IF estado = "completada" THEN token ELSE NULO
    /\ Termina(p)
    /\ UNCHANGED <<tipo, estado, emitidos, reauth, edad, solicitudes>>
    /\ UNCHANGED <<sujeto, archivos, identidad, candado, fallos>>

\* The login read with the token is too old, or the row has a later one.
ReautVencida(p) == edad > 0 \/ proc[p].reauth < reauth

-----------------------------------------------------------------------------
(* Stage 1: access is closed *)

SinAcceso ==
    /\ estado' = "procesando" /\ cuenta' = "inactiva"
    /\ UNCHANGED <<tipo, token, emitidos, reauth, edad, solicitudes, datos, operaciones, vuelo>>

EjecutarCliente(p) ==
    /\ tipo = "cliente"
    /\ \/ /\ estado = "evaluada" /\ ReautVencida(p)
          /\ Pasa(p, "limpiar")
          /\ UNCHANGED <<solicitud, sujeto>>
       \/ /\ estado = "evaluada" /\ ~ReautVencida(p) /\ Bloqueada
          /\ Impedida /\ Termina(p)
          /\ UNCHANGED <<tipo, solicitudes, sujeto>>
       \/ /\ estado = "evaluada" /\ ~ReautVencida(p) /\ ~Bloqueada
          /\ SinAcceso /\ Pasa(p, "cargar")
       \/ /\ estado = "procesando"
          /\ Pasa(p, "cargar")
          /\ UNCHANGED <<solicitud, sujeto>>
       \/ /\ estado \notin {"evaluada", "procesando"}
          /\ Termina(p)
          /\ UNCHANGED <<solicitud, sujeto>>
    /\ UNCHANGED archivos

\* The dependencies found are written and rolled back with the refusal.
EjecutarPersonal(p) ==
    /\ tipo = "personal"
    /\ IF estado = "aprobada" /\ ~Dependencias
       THEN SinAcceso /\ instantanea' = Vigentes /\ Pasa(p, "cargar")
       ELSE Termina(p) /\ UNCHANGED <<solicitud, sujeto, instantanea>>
    /\ UNCHANGED <<fila, objetos, enlaces, tardios>>

Ejecutar(p) ==
    /\ proc[p].pc = "ejecutar" /\ CandadoLibre
    /\ EjecutarCliente(p) \/ EjecutarPersonal(p)
    /\ UNCHANGED <<identidad, candado, fallos>>

-----------------------------------------------------------------------------
(* Stage 2: the personal data *)

ListaParaAnonimizar == cuenta = "inactiva"

\* What the redaction writes and the verification after it demands.
SinDatos == cuenta' = "anonima" /\ datos' = FALSE

Anonimizada(e) ==
    /\ estado' = e
    /\ SinDatos
    /\ UNCHANGED <<tipo, token, emitidos, reauth, edad, solicitudes, operaciones, vuelo>>

\* Mutant of AnonimizarCliente: a repeated request anonymizes again.
AnonimizarClienteOtraVez(p) ==
    /\ tipo = "cliente" /\ CandadoLibre
    /\ instantanea' = Vigentes
    /\ Anonimizada(IF Vigentes = {} THEN "auth_pendiente" ELSE "storage_pendiente")
    /\ Pasa(p, "cargar")

AnonimizarCliente(p) ==
    /\ tipo = "cliente" /\ CandadoLibre
    /\ \/ /\ estado = "procesando" /\ ListaParaAnonimizar
          /\ instantanea' = Vigentes
          /\ Anonimizada(IF Vigentes = {} THEN "auth_pendiente" ELSE "storage_pendiente")
          /\ Pasa(p, "cargar")
       \/ /\ estado \in {"storage_pendiente", "auth_pendiente"}
          /\ Pasa(p, "cargar")
          /\ UNCHANGED <<solicitud, sujeto, instantanea>>
       \/ /\ estado = "completada" \/ (estado = "procesando" /\ ~ListaParaAnonimizar)
          /\ Termina(p)
          /\ UNCHANGED <<solicitud, sujeto, instantanea>>

\* The stage of the staff takes no advisory lock and always goes by Storage.
AnonimizarPersonal(p) ==
    /\ tipo = "personal"
    /\ IF estado = "procesando"
       THEN Anonimizada("storage_pendiente") /\ Pasa(p, "cargar")
       ELSE Termina(p) /\ UNCHANGED <<solicitud, sujeto>>
    /\ UNCHANGED instantanea

Anonimizar(p) ==
    /\ proc[p].pc = "anonimizar"
    /\ AnonimizarCliente(p) \/ AnonimizarPersonal(p)
    /\ UNCHANGED <<fila, objetos, enlaces, tardios, identidad, candado, fallos>>

-----------------------------------------------------------------------------
(* Stage 3: the files *)

\* Rows not yet tombstoned are quarantined; the deletion goes on with the
\* files whose row it read before that.
Cuarentena == [a \in Archivos |-> IF a \in instantanea /\ fila[a] # "eliminada"
                                  THEN "cuarentena" ELSE fila[a]]
PorQuitar == {a \in instantanea : tipo = "personal" \/ fila[a] # "eliminada"}

TomarArchivos(p) ==
    /\ candado' = p
    /\ fila' = Cuarentena
    /\ proc' = [proc EXCEPT ![p].pc = IF PorQuitar = {} THEN "cerrarArchivos" ELSE "quitar",
                            ![p].pendientes = PorQuitar, ![p].fallidas = {}]

PrepararArchivos(p) ==
    /\ proc[p].pc = "archivos" /\ CandadoLibre
    /\ \/ estado = "storage_pendiente" /\ Nuevas = {} /\ TomarArchivos(p)
       \/ /\ estado = "auth_pendiente" \/ (tipo = "personal" /\ estado = "completada")
          /\ Pasa(p, "cargar") /\ UNCHANGED <<candado, fila>>
       \/ /\ \/ estado = "storage_pendiente" /\ Nuevas # {}
             \/ tipo = "cliente" /\ estado = "completada"
          /\ Termina(p) /\ UNCHANGED <<candado, fila>>
    /\ UNCHANGED <<solicitud, sujeto, objetos, enlaces, tardios, instantanea, identidad, fallos>>

Sigue(p, a) ==
    /\ a \in proc[p].pendientes
    /\ UNCHANGED <<solicitud, sujeto, fila, enlaces, tardios, instantanea, identidad, candado>>

TrasQuitar(p, a) == IF proc[p].pendientes = {a} THEN "cerrarArchivos" ELSE "quitar"

\* Mutant of Quitar: an object that is absent is not taken for removed.
QuitarPresente(p, a) ==
    /\ proc[p].pc = "quitar" /\ Sigue(p, a)
    /\ objetos' = objetos \ {a}
    /\ proc' = [proc EXCEPT ![p].pc = TrasQuitar(p, a), ![p].pendientes = @ \ {a},
                            ![p].fallidas = IF a \in objetos THEN @ ELSE @ \cup {a}]
    /\ UNCHANGED fallos

\* The object was absent, or remove() deleted it.
Quitar(p, a) ==
    /\ proc[p].pc = "quitar" /\ Sigue(p, a)
    /\ objetos' = objetos \ {a}
    /\ proc' = [proc EXCEPT ![p].pc = TrasQuitar(p, a), ![p].pendientes = @ \ {a}]
    /\ UNCHANGED fallos

\* remove() failed and the object is still there.
NoQuitar(p, a) ==
    /\ proc[p].pc = "quitar" /\ Sigue(p, a)
    /\ a \in objetos /\ fallos < MaxFallos
    /\ fallos' = fallos + 1
    /\ proc' = [proc EXCEPT ![p].pc = TrasQuitar(p, a), ![p].pendientes = @ \ {a},
                            ![p].fallidas = @ \cup {a}]
    /\ UNCHANGED objetos

Lapidas(S) == [a \in Archivos |-> IF a \in S THEN "eliminada" ELSE fila[a]]

\* Mutant of CerrarCliente: a file that could not be removed does not stop it.
CerrarClientePeseAFallas(p) ==
    /\ tipo = "cliente"
    /\ fila' = Lapidas(instantanea) /\ estado' = "auth_pendiente"
    /\ proc' = [proc EXCEPT ![p] = [@ EXCEPT !.pc = "cargar", !.fallidas = {}]]

\* After a failure the public endpoint answers that the call may be repeated;
\* the administrator's loop goes on.
CerrarCliente(p) ==
    /\ tipo = "cliente"
    /\ fila' = Lapidas(instantanea \ proc[p].fallidas)
    /\ estado' = IF proc[p].fallidas = {} THEN "auth_pendiente" ELSE estado
    /\ IF proc[p].fallidas = {} \/ proc[p].admin
       THEN proc' = [proc EXCEPT ![p] = [@ EXCEPT !.pc = "cargar", !.fallidas = {}]]
       ELSE Termina(p)

\* The stage of the staff decides by what Storage holds now, and refuses
\* files that appeared meanwhile.
CerrarPersonal(p) ==
    LET ausentes == instantanea \ objetos
    IN  /\ tipo = "personal"
        /\ fila' = IF Nuevas = {} THEN Lapidas(ausentes) ELSE fila
        /\ IF Nuevas = {} /\ ausentes = instantanea
           THEN /\ estado' = "auth_pendiente"
                /\ proc' = [proc EXCEPT ![p] = [@ EXCEPT !.pc = "cargar", !.fallidas = {}]]
           ELSE estado' = estado /\ Termina(p)

CerrarArchivos(p) ==
    /\ proc[p].pc = "cerrarArchivos"
    /\ CerrarCliente(p) \/ CerrarPersonal(p)
    /\ candado' = Nadie
    /\ UNCHANGED <<tipo, token, emitidos, reauth, edad, solicitudes>>
    /\ UNCHANGED <<sujeto, objetos, enlaces, tardios, instantanea, identidad, fallos>>

-----------------------------------------------------------------------------
(* Stage 4: the identity *)

\* What the stage checks again before it touches the identity.
PreparadaCliente == cuenta = "anonima" /\ ~datos /\ TodasEliminadas
PreparadaPersonal == cuenta # "activa"
Preparada == IF tipo = "cliente" THEN PreparadaCliente ELSE PreparadaPersonal

\* Mutant of PrepararAuth: the stage does not wait for the lock.
PrepararAuthSinCandado(p) ==
    /\ proc[p].pc = "auth"
    /\ \/ estado = "auth_pendiente" /\ Preparada /\ candado' = p /\ Pasa(p, "borrarAuth")
       \/ estado = "completada" /\ Pasa(p, "cargar") /\ UNCHANGED candado
       \/ estado = "auth_pendiente" /\ ~Preparada /\ Termina(p) /\ UNCHANGED candado
    /\ UNCHANGED <<solicitud, sujeto, archivos, identidad, fallos>>

PrepararAuth(p) ==
    /\ proc[p].pc = "auth" /\ CandadoLibre
    /\ \/ estado = "auth_pendiente" /\ Preparada /\ candado' = p /\ Pasa(p, "borrarAuth")
       \/ estado = "completada" /\ Pasa(p, "cargar") /\ UNCHANGED candado
       \/ estado = "auth_pendiente" /\ ~Preparada /\ Termina(p) /\ UNCHANGED candado
    /\ UNCHANGED <<solicitud, sujeto, archivos, identidad, fallos>>

\* deleteUser did its work, or there was no user; getUserById confirms it.
BorrarAuth(p) ==
    /\ proc[p].pc = "borrarAuth"
    /\ identidad' = FALSE
    /\ Pasa(p, "cerrarAuth")
    /\ UNCHANGED <<solicitud, sujeto, archivos, candado, fallos>>

\* Mutant of FallaAuth: a failed deletion is taken for a done one.
FallaAuthPorBuena(p) ==
    /\ proc[p].pc = "borrarAuth" /\ fallos < MaxFallos
    /\ fallos' = fallos + 1
    /\ identidad' \in {identidad, FALSE}
    /\ Pasa(p, "cerrarAuth")
    /\ UNCHANGED <<solicitud, sujeto, archivos, candado>>

\* A lookup, the deletion or the verification failed; the deletion may have
\* been carried out all the same.  The stage ends with 503 and stays pending.
FallaAuth(p) ==
    /\ proc[p].pc = "borrarAuth" /\ fallos < MaxFallos
    /\ fallos' = fallos + 1
    /\ identidad' \in {identidad, FALSE}
    /\ candado' = Nadie /\ Termina(p)
    /\ UNCHANGED <<solicitud, sujeto, archivos>>

\* For a client the stage is prepared a second time.
CerrarAuth(p) ==
    /\ proc[p].pc = "cerrarAuth"
    /\ candado' = Nadie
    /\ IF tipo = "cliente" /\ ~Preparada
       THEN UNCHANGED estado /\ Termina(p)
       ELSE estado' = "completada" /\ Pasa(p, "cargar")
    /\ UNCHANGED <<tipo, token, emitidos, reauth, edad, solicitudes>>
    /\ UNCHANGED <<sujeto, archivos, identidad, fallos>>

-----------------------------------------------------------------------------
(* Failures and the rest of the system *)

\* A transaction is rolled back (40001, lost connection) or the process dies;
\* the end of the session frees its lock.
Caer(p) ==
    /\ proc[p].pc # "libre" /\ fallos < MaxFallos
    /\ fallos' = fallos + 1
    /\ Termina(p) /\ Suelta(p)
    /\ UNCHANGED <<solicitud, sujeto, archivos, identidad>>

\* Other endpoints check the account once and commit later: a reservation, a
\* change of the profile (clients), the preparation of an upload.
EnVuelo == {"reserva", "foto"} \cup (IF tipo = "cliente" THEN {"perfil"} ELSE {})

Admitir ==
    /\ cuenta = "activa" /\ Cardinality(vuelo) < MaxVuelo
    /\ \E k \in EnVuelo \ vuelo : vuelo' = vuelo \cup {k}
    /\ UNCHANGED <<solicitud, cuenta, datos, operaciones, archivos, identidad, candado, proc, fallos>>

Reservar ==
    /\ "reserva" \in vuelo
    /\ vuelo' = vuelo \ {"reserva"} /\ operaciones' = TRUE
    /\ UNCHANGED <<solicitud, cuenta, datos, archivos, identidad, candado, proc, fallos>>

GuardarPerfil ==
    /\ "perfil" \in vuelo
    /\ vuelo' = vuelo \ {"perfil"} /\ datos' = TRUE
    /\ UNCHANGED <<solicitud, cuenta, operaciones, archivos, identidad, candado, proc, fallos>>

\* prepareStorageUpload: the row first, the object later through the URL.
PrepararFoto ==
    /\ "foto" \in vuelo /\ vuelo' = vuelo \ {"foto"}
    /\ \E a \in Archivos :
        /\ fila[a] = "libre"
        /\ fila' = [fila EXCEPT ![a] = "viva"]
        /\ enlaces' = enlaces \cup {a}
    /\ UNCHANGED <<solicitud, cuenta, datos, operaciones, objetos, tardios, instantanea, identidad, candado, proc, fallos>>

\* Files the deletion in progress already found absent or removed.
YaQuitados == {a \in Archivos : fila[a] = "eliminada"}
    \cup UNION {instantanea \ (proc[p].pendientes \cup proc[p].fallidas) :
                p \in {q \in Procesos : tipo = "cliente" /\ proc[q].pc \in EnArchivos}}

Subir(a) ==
    /\ a \in enlaces
    /\ enlaces' = enlaces \ {a} /\ objetos' = objetos \cup {a}
    /\ tardios' = IF a \in YaQuitados THEN tardios \cup {a} ELSE tardios
    /\ UNCHANGED <<solicitud, sujeto, fila, instantanea, identidad, candado, proc, fallos>>

\* Appointments end, holds lapse, payments are settled.
Resolver ==
    /\ operaciones /\ operaciones' = FALSE
    /\ UNCHANGED <<solicitud, cuenta, datos, vuelo, archivos, identidad, candado, proc, fallos>>

-----------------------------------------------------------------------------
(* The specification *)

BorradoInit ==
    /\ tipo \in {"cliente", "personal"}
    /\ estado = "ninguna" /\ token = NULO /\ emitidos = 0 /\ reauth = NULO /\ edad = 0
    /\ solicitudes = 0
    /\ cuenta = "activa" /\ datos = TRUE /\ operaciones \in BOOLEAN /\ vuelo = {}
    /\ fila \in [Archivos -> {"libre", "viva"}]
    /\ objetos = {a \in Archivos : fila[a] = "viva"}
    /\ enlaces = {} /\ tardios = {} /\ instantanea = {}
    /\ identidad = TRUE
    /\ candado = Nadie
    /\ proc = [p \in Procesos |-> Libre]
    /\ fallos = 0

\* What a request does by itself, failures apart.
Paso(p) ==
    \/ Cargar(p) \/ Limpiar(p) \/ Ejecutar(p) \/ Anonimizar(p)
    \/ PrepararArchivos(p) \/ (\E a \in Archivos : Quitar(p, a)) \/ CerrarArchivos(p)
    \/ PrepararAuth(p) \/ BorrarAuth(p) \/ CerrarAuth(p)

Falla(p) == (\E a \in Archivos : NoQuitar(p, a)) \/ FallaAuth(p) \/ Caer(p)

BorradoNext ==
    \/ Crear \/ Confirmar \/ Tiempo
    \/ CrearPersonal \/ Cancelar \/ Rechazar
    \/ \E p \in Procesos : Aprobar(p) \/ Iniciar(p) \/ Reintentar(p) \/ Paso(p) \/ Falla(p)
    \/ Admitir \/ Reservar \/ GuardarPerfil \/ PrepararFoto \/ (\E a \in Archivos : Subir(a)) \/ Resolver

\* A request that runs goes on, and an administrator who retries a deletion
\* under way gets through in the end.
BorradoFairness ==
    /\ \A p \in Procesos : WF_vars(Paso(p))
    /\ SF_vars(\E p \in Procesos : Reintentar(p))

BorradoSpec == BorradoInit /\ [][BorradoNext]_vars /\ BorradoFairness

-----------------------------------------------------------------------------
(* Properties *)

\* Type correctness, and the database's own check: only a request that may be
\* carried out has a token.
BorradoTypeOK ==
    /\ tipo \in {"cliente", "personal"} /\ estado \in Estados
    /\ token \in 0..emitidos /\ emitidos \in 0..MaxTokens /\ reauth \in 0..emitidos
    /\ edad \in 0..2 /\ solicitudes \in 0..MaxSolicitudes /\ fallos \in 0..MaxFallos
    /\ cuenta \in {"activa", "inactiva", "anonima"}
    /\ datos \in BOOLEAN /\ operaciones \in BOOLEAN /\ identidad \in BOOLEAN
    /\ vuelo \subseteq {"reserva", "perfil", "foto"}
    /\ fila \in [Archivos -> {"libre", "viva", "cuarentena", "eliminada"}]
    /\ objetos \subseteq Archivos /\ enlaces \subseteq Archivos
    /\ tardios \subseteq Archivos /\ instantanea \subseteq Archivos
    /\ candado \in Procesos \cup {Nadie}
    /\ proc \in [Procesos -> Registros]
    /\ token # NULO => estado \in ConToken

\* The identity is deleted last: when the provider no longer knows the user,
\* the account is anonymous and no file of the list is left in Storage but
\* those uploaded after they had been found absent.
IdentidadAlFinal ==
    ~identidad => /\ cuenta = "anonima" /\ estado \in {"auth_pendiente", "completada"}
                  /\ instantanea \cap objetos \subseteq tardios

\* A request says that the account is deleted only when the identity is gone
\* and every row of the list is a tombstone.
CompletadaSinRestos == estado = "completada" => ~identidad /\ TodasEliminadas

\* The sections that call Storage or the identity provider exclude each other.
UnaSeccion ==
    \A p, q \in Procesos : proc[p].pc \in EnSeccion /\ proc[q].pc \in EnSeccion => p = q

\* A tombstone is never brought back by a retry that quarantines the list
\* again; the writers of services/storageService.js refuse a tombstone.
LapidaFinal == [][\A a \in Archivos : fila[a] = "eliminada" => fila'[a] = "eliminada"]_vars

\* The deletion keeps the promise of SagaBorrado, step by step.
Saga == INSTANCE SagaBorrado WITH
            restos <- {a \in instantanea : fila[a] # "eliminada"},
            terminada <- estado = "completada"
SagaSpec == Saga!SagaSpec

\* A deletion that began is completed, unless it needs a person: a file that
\* is not on its list, or personal data written back by a late request.
EnRevision ==
    \/ estado = "storage_pendiente" /\ Nuevas # {}
    \/ estado = "auth_pendiente" /\ datos
BorradoTermina == (estado \in Tecnicos) ~> (estado = "completada" \/ EnRevision)

\* A client's request that has begun or ended can still be resumed with its
\* token (20260711163541_account_deletion_execution_token_v1.sql:14).
CredencialViva == tipo = "cliente" /\ estado \in ConToken \ {"evaluada"} => token # NULO

\* No file of the account that is not on the list lets the request go on to
\* the identity (accountDeletionService.js:3669).
AvanceSinNuevas ==
    [][estado = "storage_pendiente" /\ estado' = "auth_pendiente" => Nuevas = {}]_vars
=============================================================================
