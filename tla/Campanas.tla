------------------------------ MODULE Campanas ------------------------------
(***************************************************************************)
(* One e-mail campaign of the back office: its draft, its schedule with a  *)
(* row of comunicaciones_envios per recipient, the deliveries (the timer   *)
(* of the server, POST /enviar and POST /reintentar-fallidos), and its     *)
(* cancellation.                                                           *)
(*                                                                         *)
(* A delivery runs outside any transaction, under an advisory lock that    *)
(* belongs to its connection: every statement and every call to the mail   *)
(* server is a step.  Meanwhile the recipients withdraw their consent,     *)
(* change their address or delete their account.                           *)
(***************************************************************************)
EXTENDS Naturals, FiniteSets

CONSTANTS
    Clientes,
    Procesos,       \* requests, and ticks of the timer
    Nadie,          \* no process, no client
    MaxIntentos,    \* bound: a row that failed so many times is not retried here
    MaxFallos,      \* processes or connections that may be lost
    MaxEdiciones    \* versions of the content

ASSUME CampanasAssumption ==
    /\ IsFiniteSet(Clientes) /\ Nadie \notin Procesos \cup Clientes
    /\ MaxIntentos \in Nat /\ MaxFallos \in Nat /\ MaxEdiciones \in Nat \ {0}

VARIABLES
    campana,        \* comunicaciones_campanias.estado
    contenido,      \* version of its subject and text
    vencida,        \* enviar_en of its rows has passed
    totales,        \* its counters
    finalizada,     \* finalizada_at is set
    envio,          \* comunicaciones_envios.estado_envio; "ninguno": no row
    intentos,       \* comunicaciones_envios.intentos
    cliente,        \* the rules of eligibility now; with a row, at its address
    candado,        \* the process whose connection holds the advisory lock
    proc,           \* deliveries and cancellations under way
    editor,         \* a PATCH has read the draft and not written it yet
    ciertos,        \* history: messages sent to the client (to 2), but for those
                    \* reported as failed or lost with their process
    borrados,       \* history: rows taken away by the deletion of an account
    fallos

vars == <<campana, contenido, vencida, totales, finalizada, envio, intentos, cliente,
          candado, proc, editor, ciertos, borrados, fallos>>

Cuentas == [destinatarios : Nat, pendientes : Nat, enviados : Nat, fallidos : Nat]
Libre == [paso |-> "libre", fuente |-> "pendiente", solo |-> FALSE, cola |-> {},
          fila |-> Nadie, salio |-> FALSE, hubo |-> FALSE,
          cuenta |-> [destinatarios |-> 0, pendientes |-> 0, enviados |-> 0, fallidos |-> 0]]

\* The rows in one state
Con(e) == {c \in Clientes : envio[c] = e}

Init ==
    /\ campana = "borrador" /\ contenido = 1 /\ vencida = FALSE
    /\ totales = [destinatarios |-> 0, pendientes |-> 0, enviados |-> 0, fallidos |-> 0,
                  omitidos |-> 0]
    /\ finalizada = FALSE
    /\ envio = [c \in Clientes |-> "ninguno"]
    /\ intentos = [c \in Clientes |-> 0]
    /\ cliente \in [Clientes -> {"elegible", "no_elegible"}]
    /\ candado = Nadie
    /\ proc = [p \in Procesos |-> Libre]
    /\ editor = FALSE
    /\ ciertos = [c \in Clientes |-> 0]
    /\ borrados = {}
    /\ fallos = 0

-----------------------------------------------------------------------------
(* The draft *)

\* PATCH /comunicacion/campanias/:id reads the state without a lock...
LeerBorrador ==
    /\ ~editor /\ campana = "borrador" /\ contenido < MaxEdiciones
    /\ editor' = TRUE
    /\ UNCHANGED <<campana, contenido, vencida, totales, finalizada, envio, intentos, cliente,
                   candado, proc, ciertos, borrados, fallos>>

\* ...and writes the content whatever the state is by then.
EscribirBorrador ==
    /\ editor
    /\ editor' = FALSE
    /\ contenido' = contenido + 1
    /\ UNCHANGED <<campana, vencida, totales, finalizada, envio, intentos, cliente,
                   candado, proc, ciertos, borrados, fallos>>

\* buildEligibilityEvaluationCte
Elegible(c) == cliente[c] = "elegible"

Programable == campana = "borrador"

\* POST /comunicacion/campanias/:id/programar, in a transaction that holds the
\* campaign FOR UPDATE: a row for every eligible client but the ones excluded by
\* hand.  On a scheduled campaign it answers and changes nothing.
Programar(excluidos) ==
    LET destinatarios == {c \in Clientes \ excluidos : Elegible(c)}
    IN  /\ Programable /\ \A c \in Clientes : envio[c] = "ninguno"
        /\ destinatarios # {}
        /\ campana' = "programada"
        /\ envio' = [c \in Clientes |-> IF c \in destinatarios THEN "pendiente" ELSE "ninguno"]
        /\ totales' = [destinatarios |-> Cardinality(destinatarios),
                       pendientes |-> Cardinality(destinatarios),
                       enviados |-> 0, fallidos |-> 0,
                       omitidos |-> Cardinality(Clientes \ destinatarios)]
        /\ UNCHANGED <<contenido, vencida, finalizada, intentos, cliente, candado, proc, editor,
                       ciertos, borrados, fallos>>

\* now() passes enviar_en
Vencer ==
    /\ campana # "borrador" /\ ~vencida
    /\ vencida' = TRUE
    /\ UNCHANGED <<campana, contenido, totales, finalizada, envio, intentos, cliente,
                   candado, proc, editor, ciertos, borrados, fallos>>

-----------------------------------------------------------------------------
(* The recipients *)

\* Consent given or withdrawn, account disabled or enabled, address changed
CambiarCliente(c, e) ==
    /\ cliente[c] # "eliminado" /\ e # cliente[c]
    /\ cliente' = [cliente EXCEPT ![c] = e]
    /\ UNCHANGED <<campana, contenido, vencida, totales, finalizada, envio, intentos,
                   candado, proc, editor, ciertos, borrados, fallos>>

\* The deletion of the account omits the row that waits, and leaves the
\* counters of the campaign as they are.
EliminarCuenta(c) ==
    /\ cliente[c] # "eliminado"
    /\ cliente' = [cliente EXCEPT ![c] = "eliminado"]
    /\ envio' = [envio EXCEPT ![c] = IF @ = "pendiente" THEN "omitido" ELSE @]
    /\ borrados' = IF envio[c] = "pendiente" THEN borrados \cup {c} ELSE borrados
    /\ UNCHANGED <<campana, contenido, vencida, totales, finalizada, intentos,
                   candado, proc, editor, ciertos, fallos>>

-----------------------------------------------------------------------------
(* Deliveries *)

\* Mutant: a delivery that ends keeps its lock.
CandadoRetenido == candado

\* pg_advisory_unlock
CandadoSuelto == Nadie

\* Mutant: the lock is not waited for.
CandadoLibreSiempre == TRUE

\* pg_try_advisory_lock
CandadoLibre == candado = Nadie

Tomar(p, r) ==
    /\ proc[p].paso = "libre" /\ CandadoLibre
    /\ candado' = p
    /\ proc' = [proc EXCEPT ![p] = [Libre EXCEPT !.paso = r.paso, !.fuente = r.fuente,
                                                  !.solo = r.solo]]
    /\ UNCHANGED <<campana, contenido, vencida, totales, finalizada, envio, intentos, cliente,
                   editor, ciertos, borrados, fallos>>

\* runCommunicationScheduledDispatchTick, for a campaign with due rows.  What
\* has changed since they were listed is looked up again under the lock.
Agenda(p) ==
    /\ campana = "programada" /\ vencida /\ Con("pendiente") # {}
    /\ Tomar(p, [paso |-> "leer", fuente |-> "pendiente", solo |-> TRUE])

\* POST /comunicacion/campanias/:id/enviar.  Without rows to send it is refused.
Enviar(p) ==
    /\ Con("pendiente") # {}
    /\ Tomar(p, [paso |-> "leer", fuente |-> "pendiente", solo |-> FALSE])

\* POST /comunicacion/campanias/:id/reintentar-fallidos
Reintentar(p) ==
    /\ Con("fallido") # {} /\ \A c \in Con("fallido") : intentos[c] < MaxIntentos
    /\ Tomar(p, [paso |-> "leer", fuente |-> "fallido", solo |-> FALSE])

\* Mutant: the state of the campaign is not looked at under the lock.
EntregableSiempre == TRUE

Entregable == campana = "programada"

\* The campaign and the rows of the source state are read.
Leer(p) ==
    /\ proc[p].paso = "leer"
    /\ LET filas == IF proc[p].solo /\ ~vencida THEN {} ELSE Con(proc[p].fuente)
       IN  IF Entregable /\ filas # {}
           THEN /\ proc' = [proc EXCEPT ![p].paso = "fila", ![p].cola = filas]
                /\ UNCHANGED candado
           ELSE /\ proc' = [proc EXCEPT ![p] = Libre]
                /\ candado' = CandadoSuelto
    /\ UNCHANGED <<campana, contenido, vencida, totales, finalizada, envio, intentos, cliente,
                   editor, ciertos, borrados, fallos>>

\* The next row, in the order of their random ids: it is skipped when its state
\* has changed, else the rules of eligibility are looked at again.
Verificar(p, c) ==
    /\ proc[p].paso = "fila" /\ c \in proc[p].cola
    /\ LET q == [proc[p] EXCEPT !.cola = @ \ {c}]
       IN  proc' = [proc EXCEPT ![p] =
                       IF envio[c] # q.fuente THEN q
                       ELSE [q EXCEPT !.fila = c,
                                      !.paso = IF Elegible(c) THEN "enviar" ELSE "omitir"]]
    /\ UNCHANGED <<campana, contenido, vencida, totales, finalizada, envio, intentos, cliente,
                   candado, editor, ciertos, borrados, fallos>>

Menos(n, k) == IF n >= k THEN n - k ELSE 0

\* Mutant: the row is counted although its state has changed.
OmitibleSiempre(p, c) == TRUE

Omitible(p, c) == envio[c] = proc[p].fuente

\* One statement: the row, if it is still in its state, and the counters
Omitir(p) ==
    LET c == proc[p].fila
        n == IF Omitible(p, c) THEN 1 ELSE 0
    IN  /\ proc[p].paso = "omitir"
        /\ envio' = [envio EXCEPT ![c] = IF @ = proc[p].fuente THEN "omitido" ELSE @]
        /\ totales' = [totales EXCEPT
                          !.omitidos = @ + n,
                          !.pendientes = IF proc[p].fuente = "pendiente" THEN Menos(@, n) ELSE @,
                          !.fallidos = IF proc[p].fuente = "fallido" THEN Menos(@, n) ELSE @]
        /\ proc' = [proc EXCEPT ![p].paso = "fila", ![p].fila = Nadie, ![p].hubo = TRUE]
        /\ UNCHANGED <<campana, contenido, vencida, finalizada, intentos, cliente,
                       candado, editor, ciertos, borrados, fallos>>

\* mailer.sendMail: a message reported as not sent may have been accepted all
\* the same.
EnviarCorreo(p, enviado) ==
    LET c == proc[p].fila
    IN  /\ proc[p].paso = "enviar"
        /\ ciertos' = [ciertos EXCEPT ![c] = IF enviado /\ @ < 2 THEN @ + 1 ELSE @]
        /\ proc' = [proc EXCEPT ![p].paso = "anotar", ![p].salio = enviado, ![p].hubo = TRUE]
        /\ UNCHANGED <<campana, contenido, vencida, totales, finalizada, envio, intentos, cliente,
                       candado, editor, borrados, fallos>>

EstadoAnotado(enviado) == IF enviado THEN "enviado" ELSE "fallido"

\* The outcome is written on the row, whatever its state is by then.
Anotar(p) ==
    LET c == proc[p].fila
    IN  /\ proc[p].paso = "anotar"
        /\ envio' = [envio EXCEPT ![c] = EstadoAnotado(proc[p].salio)]
        /\ intentos' = [intentos EXCEPT ![c] = IF @ < MaxIntentos THEN @ + 1 ELSE @]
        /\ borrados' = borrados \ {c}
        /\ proc' = [proc EXCEPT ![p].paso = "fila", ![p].fila = Nadie, ![p].salio = FALSE]
        /\ UNCHANGED <<campana, contenido, vencida, totales, finalizada, cliente,
                       candado, editor, ciertos, fallos>>

CuentaActual ==
    [destinatarios |-> Cardinality({c \in Clientes : envio[c] # "ninguno"}),
     pendientes |-> Cardinality(Con("pendiente")),
     enviados |-> Cardinality(Con("enviado")),
     fallidos |-> Cardinality(Con("fallido"))]

\* refreshCommunicationCampaignMetrics counts the rows...  A tick that neither
\* tried nor omitted any ends here.
Contar(p) ==
    /\ proc[p].paso = "fila" /\ proc[p].cola = {}
    /\ IF proc[p].solo /\ ~proc[p].hubo
       THEN proc' = [proc EXCEPT ![p] = Libre] /\ candado' = CandadoSuelto
       ELSE proc' = [proc EXCEPT ![p].paso = "medir", ![p].cuenta = CuentaActual] /\ UNCHANGED candado
    /\ UNCHANGED <<campana, contenido, vencida, totales, finalizada, envio, intentos, cliente,
                   editor, ciertos, borrados, fallos>>

ConCuenta(n) ==
    [totales EXCEPT !.destinatarios = n.destinatarios, !.pendientes = n.pendientes,
                    !.enviados = n.enviados, !.fallidos = n.fallidos]

\* Mutant: rows that failed do not keep the campaign open.
CompletaConFallidos(n) == n.pendientes = 0

Completa(n) == n.pendientes = 0 /\ n.fallidos = 0

\* ...and writes what it counted.  The lock is given back.
Medir(p) ==
    LET n == proc[p].cuenta
    IN  /\ proc[p].paso = "medir"
        /\ totales' = ConCuenta(n)
        /\ finalizada' = Completa(n)
        /\ proc' = [proc EXCEPT ![p] = Libre]
        /\ candado' = CandadoSuelto
        /\ UNCHANGED <<campana, contenido, vencida, envio, intentos, cliente,
                       editor, ciertos, borrados, fallos>>

-----------------------------------------------------------------------------
(* POST /comunicacion/campanias/:id/cancelar: three statements under the lock *)

Cancelar(p) ==
    Tomar(p, [paso |-> "cancelar", fuente |-> "pendiente", solo |-> FALSE])

\* The campaign is read; a cancelled one stays as it is.
CancelarLeer(p) ==
    /\ proc[p].paso = "cancelar"
    /\ IF campana = "cancelada"
       THEN proc' = [proc EXCEPT ![p] = Libre] /\ candado' = CandadoSuelto
       ELSE proc' = [proc EXCEPT ![p].paso = "contar"] /\ UNCHANGED candado
    /\ UNCHANGED <<campana, contenido, vencida, totales, finalizada, envio, intentos, cliente,
                   editor, ciertos, borrados, fallos>>

CancelarContar(p) ==
    /\ proc[p].paso = "contar"
    /\ proc' = [proc EXCEPT ![p].paso = "cerrar", ![p].cuenta = CuentaActual]
    /\ UNCHANGED <<campana, contenido, vencida, totales, finalizada, envio, intentos, cliente,
                   candado, editor, ciertos, borrados, fallos>>

CancelarCerrar(p) ==
    /\ proc[p].paso = "cerrar"
    /\ campana' = "cancelada"
    /\ totales' = ConCuenta(proc[p].cuenta)
    /\ finalizada' = TRUE
    /\ proc' = [proc EXCEPT ![p] = Libre]
    /\ candado' = CandadoSuelto
    /\ UNCHANGED <<contenido, vencida, envio, intentos, cliente,
                   editor, ciertos, borrados, fallos>>

-----------------------------------------------------------------------------
(* Failures *)

\* The connection is lost, or the process dies.  The lock is free at once, and
\* whatever the mail server did with the message is not written.
Caer(p) ==
    /\ fallos < MaxFallos /\ proc[p].paso # "libre"
    /\ fallos' = fallos + 1
    /\ candado' = IF candado = p THEN Nadie ELSE candado
    /\ proc' = [proc EXCEPT ![p] = Libre]
    /\ ciertos' = [c \in Clientes |-> IF proc[p].salio /\ proc[p].fila = c
                                      THEN ciertos[c] - 1 ELSE ciertos[c]]
    /\ UNCHANGED <<campana, contenido, vencida, totales, finalizada, envio, intentos, cliente,
                   editor, borrados>>

-----------------------------------------------------------------------------
Paso(p) ==
    \/ Leer(p) \/ (\E c \in Clientes : Verificar(p, c)) \/ Omitir(p)
    \/ (\E e \in BOOLEAN : EnviarCorreo(p, e))
    \/ Anotar(p) \/ Contar(p) \/ Medir(p)
    \/ CancelarLeer(p) \/ CancelarContar(p) \/ CancelarCerrar(p)

Next ==
    \/ LeerBorrador \/ EscribirBorrador \/ Vencer
    \/ \E x \in SUBSET Clientes : Programar(x)
    \/ \E c \in Clientes :
          \/ \E e \in {"elegible", "no_elegible"} : CambiarCliente(c, e)
          \/ EliminarCuenta(c)
    \/ \E p \in Procesos :
          \/ Agenda(p) \/ Enviar(p) \/ Reintentar(p) \/ Cancelar(p)
          \/ Paso(p) \/ Caer(p)

CampanasSpec == Init /\ [][Next]_vars

\* The timer ticks, the hour comes, and whoever runs goes on to its end: what
\* fails is Caer.
CampanasFairSpec ==
    /\ CampanasSpec
    /\ WF_vars(Vencer)
    /\ WF_vars(\E p \in Procesos : Agenda(p))
    /\ \A p \in Procesos : WF_vars(Paso(p))

-----------------------------------------------------------------------------
(* Properties *)

Pasos == {"libre", "leer", "fila", "omitir", "enviar", "anotar", "medir",
          "cancelar", "contar", "cerrar"}
Registro == [paso : Pasos, fuente : {"pendiente", "fallido"}, solo : BOOLEAN,
             cola : SUBSET Clientes, fila : Clientes \cup {Nadie},
             salio : BOOLEAN, hubo : BOOLEAN, cuenta : Cuentas]

CampanasTypeOK ==
    /\ campana \in {"borrador", "programada", "cancelada"}
    /\ contenido \in Nat /\ vencida \in BOOLEAN /\ finalizada \in BOOLEAN /\ editor \in BOOLEAN
    /\ totales \in [destinatarios : Nat, pendientes : Nat, enviados : Nat, fallidos : Nat,
                    omitidos : Nat]
    /\ envio \in [Clientes -> {"ninguno", "pendiente", "enviado", "fallido", "omitido"}]
    /\ intentos \in [Clientes -> Nat]
    /\ cliente \in [Clientes -> {"elegible", "no_elegible", "eliminado"}]
    /\ candado \in Procesos \cup {Nadie}
    /\ proc \in [Procesos -> Registro]
    /\ ciertos \in [Clientes -> Nat]
    /\ borrados \subseteq Clientes
    /\ fallos \in 0..MaxFallos

\* Ticks, sends and retries that overlap, fail and repeat send a client one
\* message, and another only after one that was reported as failed or was lost
\* with its process; and the row says that it was sent.
CorreoUnico ==
    \A c \in Clientes :
        /\ ciertos[c] <= 1
        /\ ciertos[c] = 1 => \/ envio[c] = "enviado"
                            \/ \E p \in Procesos : proc[p].fila = c /\ proc[p].salio

\* A campaign shown as finished has nothing left to send or to retry.
FinalizadaCompleta ==
    campana = "programada" /\ finalizada => Con("pendiente") \cup Con("fallido") = {}

\* Each row omitted by a delivery is counted once, whatever happens to it
\* between its verification and its update.
OmisionContada ==
    campana = "programada" =>
        totales.omitidos = Cardinality(Con("ninguno") \cup (Con("omitido") \ borrados))

\* No message leaves after the cancellation.
CanceladaCalla ==
    [][campana = "cancelada" =>
          \A p \in Procesos : proc[p].paso = "enviar" => proc'[p].paso # "anotar"]_vars

\* Every row that is due is sent, fails or is omitted, or the campaign is
\* cancelled first.
EnviosSalen ==
    \A c \in Clientes :
        envio[c] = "pendiente" /\ vencida ~> envio[c] # "pendiente" \/ campana = "cancelada"

\* The content is edited only in a draft.
EdicionSoloBorrador == [][contenido' # contenido => campana = "borrador"]_vars

\* The counters of a scheduled campaign that nobody is delivering are those of
\* its rows.
ContadoresAlDia ==
    campana # "borrador" /\ candado = Nadie => totales = ConCuenta(CuentaActual)
=============================================================================
