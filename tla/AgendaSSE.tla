----------------------------- MODULE AgendaSSE -----------------------------
(***************************************************************************)
(* The realtime channel of the agenda: the outbox that database triggers   *)
(* fill inside the transactions that change availability, the dispatcher   *)
(* that polls it (services/agendaEventDispatcher.js), and the event        *)
(* streams opened by browsers (routes/v1/public/agendaEventos.js).         *)
(*                                                                         *)
(* JavaScript runs to completion between two awaits, so a step is one      *)
(* database statement or one callback.  A query whose result is used after *)
(* other callbacks could run (the poll, a replay batch) is two steps: the  *)
(* statement takes its rows, a later step delivers them.                   *)
(***************************************************************************)
EXTENDS Integers, Sequences, FiniteSets, FiniteSetsExt

CONSTANTS
    Eventos,       \* 1..n, the values of id_evento
    SucEvento,     \* [Eventos -> branches], id_sucursal of each row
    Clientes,      \* browsers; each has at most one stream open
    SucCliente,    \* [Clientes -> branches], the branch it watches
    Ips,
    IpDe,          \* [Clientes -> Ips]
    MaxPorIp,      \* AGENDA_SSE_MAX_CONNECTIONS_PER_IP
    MaxGlobal,     \* AGENDA_SSE_MAX_CONNECTIONS_GLOBAL
    Lote,          \* AGENDA_EVENTS_BATCH_SIZE
    BufferMax,     \* AGENDA_SSE_CLIENT_BUFFER_MAX
    LoteReenvio,   \* AGENDA_SSE_REPLAY_BATCH_SIZE
    MaxReenvio,    \* AGENDA_SSE_REPLAY_MAX_EVENTS
    Capacidad,     \* frames a socket holds when write() starts to return false
    MaxPeticiones, \* bound: streams a browser opens
    MaxPercances   \* bound: failed queries, deaths of the process and cleanings
                   \* that delete something, counted together

ASSUME AgendaAssumption ==
    /\ Eventos \subseteq Nat \ {0}
    /\ IpDe \in [Clientes -> Ips]
    /\ IsFiniteSet(Clientes)
    /\ MaxPorIp \in Nat /\ MaxGlobal \in Nat
    /\ Lote \in Nat \ {0} /\ LoteReenvio \in Nat \ {0} /\ MaxReenvio \in Nat
    /\ BufferMax \in Nat \ {0} /\ Capacidad \in Nat \ {0}

VARIABLES
    enVuelo,      \* rows inserted by transactions that have not committed
    asignado,     \* last id taken from the sequence
    outbox,       \* rows visible to a query
    confirmados,  \* history: rows ever committed
    tardios,      \* history: rows committed under an already visible greater id
    purgados,     \* history: rows deleted before the dispatcher or a replay
                  \* under way had read them, or while a transaction with a
                  \* smaller id was still open
    activo,       \* the process runs (running)
    cursor,       \* cursor
    poll,         \* activePoll: reading or not, and the rows it read
    porIp,        \* perIp
    con,          \* one record per browser: its request and its subscriber
    cliente,      \* one record per browser: what it knows
    percances     \* mishaps so far

bd == <<enVuelo, asignado, outbox, confirmados, tardios, purgados>>
proceso == <<activo, cursor, poll>>
vars == <<bd, proceso, porIp, con, cliente, percances>>

-----------------------------------------------------------------------------
(* Values *)

RESYNC == 0                       \* the frame agenda.resync.required
NULO == 0                         \* no id: lastEventId null, lastSentId null
EnAlta == {"marca", "limites", "leer", "reenviar"}
Rutinas == {"fuera", "sucursal", "vivo"} \cup EnAlta

\* rutina: where the request's handler waits ("vivo": the route holds the
\* subscriber).  ido: the route's closed flag.  sordo: history, a drain event
\* fired before the route held the subscriber that waited for it.
Inactiva ==
    [rutina |-> "fuera", suscrito |-> FALSE, socket |-> "cerrado", ido |-> FALSE,
     pausado |-> FALSE, sordo |-> FALSE, cola |-> <<>>, transito |-> <<>>,
     enviado |-> NULO, desde |-> NULO, marca |-> 0, actual |-> 0,
     reenviados |-> 0, lote |-> {}]

PollLibre == [leyendo |-> FALSE, filas |-> {}]

MaxId(S) == Max(S \cup {0})
MinId(S) == IF S = {} THEN 0 ELSE Min(S)

\* ORDER BY id_evento LIMIT n
Primeras(S, n) == {e \in S : Cardinality({d \in S : d < e}) < n}
Ordenada(S) == CHOOSE q \in [1..Cardinality(S) -> S] : \A i, j \in DOMAIN q : i < j => q[i] < q[j]

\* The last id among the frames of q, or previo when q carries none.
UltimoId(q, previo) ==
    LET ids == {i \in DOMAIN q : q[i] # RESYNC}
    IN  IF ids = {} THEN previo ELSE q[Max(ids)]

-----------------------------------------------------------------------------
(* The subscriber: operators on its record *)

\* flush.  write() takes every frame and answers false once the socket holds
\* Capacidad frames; the frame that got false stays at the head of the queue.
\* On a stream that was ended or destroyed write() answers true and drops.
Volcar(s) ==
    LET libres == IF s.socket # "abierto" THEN Len(s.cola)
                  ELSE Max({0, Capacidad - 1 - Len(s.transito)})
        n == IF libres < Len(s.cola) THEN libres ELSE Len(s.cola)
        escritas == IF n < Len(s.cola) THEN n + 1 ELSE n
    IN  IF ~s.suscrito \/ s.pausado THEN s
        ELSE [s EXCEPT !.cola = SubSeq(@, n + 1, Len(@)),
                       !.pausado = n < Len(s.cola),
                       !.enviado = UltimoId(SubSeq(s.cola, 1, n), @),
                       !.transito = IF s.socket = "abierto"
                                    THEN @ \o SubSeq(s.cola, 1, escritas) ELSE @]

\* closeRaw: reply.raw.end(); what the socket holds is still sent.
CerrarSocket(s) == IF s.socket = "abierto" THEN [s EXCEPT !.socket = "terminando"] ELSE s

\* closeWithResync of a full queue.  The queue is full only while paused, so
\* flush returns at once and the resync frame is never written.
Desbordar(s) ==
    [CerrarSocket(Volcar([s EXCEPT !.cola = Append(@, RESYNC)])) EXCEPT !.suscrito = FALSE]

\* closeLocal
CerrarLocal(s) ==
    IF s.suscrito THEN [CerrarSocket(s) EXCEPT !.suscrito = FALSE, !.cola = <<>>] ELSE s

\* Rows of a batch that deliver and enqueueFrame let through.
Nuevas(c, s, filas) ==
    {e \in filas : SucEvento[e] = SucCliente[c] /\ (s.enviado = NULO \/ e > s.enviado)}

\* deliver of the rows of a batch, in order of id.
Entregar(c, s, filas) ==
    LET t == Volcar([s EXCEPT !.cola = @ \o Ordenada(Nuevas(c, s, filas))])
    IN  IF ~s.suscrito \/ Nuevas(c, s, filas) = {} THEN s
        ELSE IF Len(t.cola) > BufferMax THEN Desbordar(t) ELSE t

\* Mutant of Liberar: the last subscriber of an address leaves its entry.
LiberarSinBorrar(bajas) ==
    [ip \in Ips |-> LET n == Cardinality({c \in bajas : IpDe[c] = ip})
                    IN  IF porIp[ip] <= n THEN porIp[ip] ELSE porIp[ip] - n]

\* releaseIp for every subscriber that a step removed from the map.
Liberar(bajas) ==
    [ip \in Ips |-> LET n == Cardinality({c \in bajas : IpDe[c] = ip})
                    IN  IF porIp[ip] <= n THEN 0 ELSE porIp[ip] - n]

Registrados == {c \in Clientes : con[c].suscrito}

\* The step replaces the record of c; a subscriber it closes leaves the counters.
Cambia(c, s) ==
    /\ con' = [con EXCEPT ![c] = s]
    /\ porIp' = Liberar(IF con[c].suscrito /\ ~s.suscrito THEN {c} ELSE {})

Percance ==
    /\ percances < MaxPercances
    /\ percances' = percances + 1

-----------------------------------------------------------------------------
(* The database *)

\* registrar_evento_agenda_v1: a trigger takes the next id of the sequence.
Insertar ==
    /\ asignado + 1 \in Eventos
    /\ asignado' = asignado + 1
    /\ enVuelo' = enVuelo \cup {asignado + 1}
    /\ UNCHANGED <<outbox, confirmados, tardios, purgados, proceso, porIp, con, cliente, percances>>

\* The transaction that changed the agenda commits...
Confirmar(e) ==
    /\ e \in enVuelo
    /\ enVuelo' = enVuelo \ {e}
    /\ outbox' = outbox \cup {e}
    /\ confirmados' = confirmados \cup {e}
    /\ tardios' = IF e < MaxId(confirmados) THEN tardios \cup {e} ELSE tardios
    /\ UNCHANGED <<asignado, purgados, proceso, porIp, con, cliente, percances>>

\* ... or rolls back, and its id is never used again.
Revertir(e) ==
    /\ e \in enVuelo
    /\ enVuelo' = enVuelo \ {e}
    /\ UNCHANGED <<asignado, outbox, confirmados, tardios, purgados, proceso, porIp, con,
                   cliente, percances>>

\* limpiar_agenda_eventos_outbox_v1: the oldest rows, up to some id.
Limpiar(k) ==
    /\ Percance
    /\ k \in outbox
    /\ outbox' = {e \in outbox : e > k}
    /\ LET reenvio == \E c \in Clientes : con[c].rutina \in {"leer", "reenviar"}
       IN  purgados' = purgados \cup
               {e \in outbox \ outbox' : \/ reenvio \/ (activo /\ e > cursor)
                                        \/ \E d \in enVuelo : d < e}
    /\ UNCHANGED <<enVuelo, asignado, confirmados, tardios, proceso, porIp, con, cliente>>

-----------------------------------------------------------------------------
(* The dispatcher *)

\* pollOnce up to its await
PollConsulta ==
    /\ activo /\ ~poll.leyendo
    /\ poll' = [leyendo |-> TRUE, filas |-> Primeras({e \in outbox : e > cursor}, Lote)]
    /\ UNCHANGED <<bd, activo, cursor, porIp, con, cliente, percances>>

\* A live row reaches a subscriber that is still replaying its past.
Adelanta(c) == con[c].rutina \in EnAlta /\ con[c].desde # NULO
               /\ con[c].suscrito /\ Nuevas(c, con[c], poll.filas) # {}

\* Mutant of PollReparte: the cursor jumps to the greatest id there is now.
PollReparteHastaElFin ==
    /\ activo /\ poll.leyendo
    /\ con' = [c \in Clientes |-> Entregar(c, con[c], poll.filas)]
    /\ porIp' = Liberar({c \in Registrados : ~con'[c].suscrito})
    /\ cursor' = IF poll.filas = {} THEN cursor ELSE MaxId(outbox \cup poll.filas)
    /\ poll' = PollLibre
    /\ cliente' = [c \in Clientes |-> [cliente[c] EXCEPT !.adelantado = @ \/ Adelanta(c)]]
    /\ UNCHANGED <<bd, activo, percances>>

\* Mutant of PollReparte: with no subscriber the cursor stays.
PollReparteSiHayAlguien ==
    /\ activo /\ poll.leyendo
    /\ con' = [c \in Clientes |-> Entregar(c, con[c], poll.filas)]
    /\ porIp' = Liberar({c \in Registrados : ~con'[c].suscrito})
    /\ cursor' = IF poll.filas = {} \/ Registrados = {} THEN cursor ELSE MaxId(poll.filas)
    /\ poll' = PollLibre
    /\ cliente' = [c \in Clientes |-> [cliente[c] EXCEPT !.adelantado = @ \/ Adelanta(c)]]
    /\ UNCHANGED <<bd, activo, percances>>

\* pollOnce after its await: every row to every subscriber, then the cursor.
PollReparte ==
    /\ activo /\ poll.leyendo
    /\ con' = [c \in Clientes |-> Entregar(c, con[c], poll.filas)]
    /\ porIp' = Liberar({c \in Registrados : ~con'[c].suscrito})
    /\ cursor' = IF poll.filas = {} THEN cursor ELSE MaxId(poll.filas)
    /\ poll' = PollLibre
    /\ cliente' = [c \in Clientes |-> [cliente[c] EXCEPT !.adelantado = @ \/ Adelanta(c)]]
    /\ UNCHANGED <<bd, activo, percances>>

\* The query of the poll fails; the finally block allows the next poll.
PollFalla ==
    /\ activo /\ poll.leyendo
    /\ Percance
    /\ poll' = PollLibre
    /\ UNCHANGED <<bd, activo, cursor, porIp, con, cliente>>

\* The process ends, by stop or by a crash, and every stream with it.
Caer ==
    /\ activo
    /\ Percance
    /\ activo' = FALSE
    /\ poll' = PollLibre
    /\ porIp' = [ip \in Ips |-> 0]
    /\ con' = [c \in Clientes |-> Inactiva]
    /\ UNCHANGED <<bd, cursor, cliente>>

\* start: the cursor begins at the greatest id there is.
Arrancar ==
    /\ ~activo
    /\ activo' = TRUE
    /\ cursor' = MaxId(outbox)
    /\ UNCHANGED <<bd, poll, porIp, con, cliente, percances>>

-----------------------------------------------------------------------------
(* A stream: GET /v1/public/agenda/eventos, subscribe and replay *)

\* The browser asks, with its Last-Event-ID if it has one, and the handler
\* waits for the branch.
Pedir(c) ==
    /\ activo
    /\ con[c].rutina = "fuera" /\ con[c].socket = "cerrado"
    /\ cliente[c].peticiones < MaxPeticiones
    /\ cliente' = [cliente EXCEPT ![c].peticiones = @ + 1]
    /\ Cambia(c, [Inactiva EXCEPT !.rutina = "sucursal", !.socket = "abierto",
                                  !.desde = cliente[c].ultimo])
    /\ UNCHANGED <<bd, proceso, percances>>

\* canAcceptConnection
Admite(c) == Cardinality(Registrados) < MaxGlobal /\ porIp[IpDe[c]] < MaxPorIp

\* After the branch is loaded: the limits, the listeners of the stream, and
\* subscribe up to its first await, all in one turn.  The listeners see only
\* what happens from here on.
Registrar(c) ==
    /\ con[c].rutina = "sucursal"
    /\ Admite(c)
    /\ con' = [con EXCEPT ![c].rutina = "marca", ![c].suscrito = TRUE]
    /\ porIp' = [porIp EXCEPT ![IpDe[c]] = @ + 1]
    /\ cliente' = IF con[c].desde = NULO
                  THEN [cliente EXCEPT ![c].base = MaxId(confirmados)] ELSE cliente
    /\ UNCHANGED <<bd, proceso, percances>>

\* 429, with no stream
Rechazar(c) ==
    /\ con[c].rutina = "sucursal"
    /\ ~Admite(c)
    /\ Cambia(c, Inactiva)
    /\ UNCHANGED <<bd, proceso, cliente, percances>>

\* Mutant of Concluir: the route keeps the subscriber without looking.
ConcluirSinMirar(c, s) == Cambia(c, [Volcar(s) EXCEPT !.rutina = "vivo"])

\* subscribe returns and subscribeAgendaRealtimeSafely looks whether the
\* stream was closed meanwhile.
Concluir(c, s) ==
    LET t == Volcar(s)
    IN  IF t.ido THEN Cambia(c, [CerrarLocal(t) EXCEPT !.rutina = "fuera"])
        ELSE Cambia(c, [t EXCEPT !.rutina = "vivo"])

\* The replay was refused: resync, and the live rows start at the watermark.
Rehusar(c, s) ==
    IF s.suscrito
    THEN Concluir(c, [Volcar([s EXCEPT !.cola = Append(@, RESYNC)]) EXCEPT !.enviado = s.marca])
    ELSE Concluir(c, [s EXCEPT !.enviado = s.marca])

\* while (current < watermark)
Seguir(c, s) ==
    IF s.actual < s.marca THEN Cambia(c, [s EXCEPT !.rutina = "leer"]) ELSE Concluir(c, s)

\* getCurrentWatermark
LeerMarca(c) ==
    /\ con[c].rutina = "marca"
    /\ IF con[c].desde = NULO THEN Concluir(c, con[c])
       ELSE Cambia(c, [con[c] EXCEPT !.marca = MaxId(outbox), !.rutina = "limites"])
    /\ UNCHANGED <<bd, proceso, cliente, percances>>

\* Mutant of LeerLimites: a replay is accepted when its rows are gone.
LeerLimitesSinHistoria(c) ==
    LET s == con[c]
    IN  /\ s.rutina = "limites"
        /\ IF s.desde > MaxId(outbox) THEN Rehusar(c, s)
           ELSE Seguir(c, [s EXCEPT !.actual = s.desde])
        /\ UNCHANGED <<bd, proceso, cliente, percances>>

\* getRetentionBounds and the two refusals that depend on it
LeerLimites(c) ==
    LET s == con[c]
    IN  /\ s.rutina = "limites"
        /\ IF \/ s.desde > MaxId(outbox)
              \/ MinId(outbox) > 0 /\ s.desde < MinId(outbox) - 1
           THEN Rehusar(c, s)
           ELSE Seguir(c, [s EXCEPT !.actual = s.desde])
        /\ UNCHANGED <<bd, proceso, cliente, percances>>

\* The query of a replay batch
LeerReenvio(c) ==
    LET filas == Primeras({e \in outbox : /\ SucEvento[e] = SucCliente[c]
                                          /\ e > con[c].actual /\ e <= con[c].marca}, LoteReenvio)
    IN  /\ con[c].rutina = "leer"
        /\ Cambia(c, [con[c] EXCEPT !.rutina = "reenviar", !.lote = filas])
        /\ UNCHANGED <<bd, proceso, cliente, percances>>

\* Its rows, of which at most MaxReenvio in the whole replay are delivered
Reenviar(c) ==
    LET s == con[c]
        filas == Primeras(s.lote, MaxReenvio - s.reenviados)
        t == [Entregar(c, s, filas) EXCEPT !.reenviados = @ + Cardinality(filas), !.lote = {},
                                           !.actual = MaxId(filas \cup {@})]
    IN  /\ s.rutina = "reenviar"
        /\ \/ filas # s.lote /\ Rehusar(c, t)
           \/ filas = s.lote /\ Cardinality(filas) < LoteReenvio /\ Concluir(c, t)
           \/ filas = s.lote /\ Cardinality(filas) = LoteReenvio /\ Seguir(c, t)
        /\ UNCHANGED <<bd, proceso, cliente, percances>>

\* A query of subscribe fails.  closeLocal ends the stream, so the resync frame
\* the route writes afterwards is dropped.
AltaFalla(c) ==
    LET s == CerrarLocal(con[c])
    IN  /\ con[c].rutina \in {"marca", "limites", "leer"}
        /\ Percance
        /\ Cambia(c, [s EXCEPT !.rutina = "fuera", !.ido = TRUE])
        /\ UNCHANGED <<bd, proceso, cliente>>

-----------------------------------------------------------------------------
(* The sockets and the browsers *)

\* What a browser knows after the frames q: an event is known by its frame, and
\* a resync frame makes it load the agenda again.
Recibe(k, q) ==
    [k EXCEPT !.conoce = @ \cup {q[i] : i \in DOMAIN q} \cup
                         IF RESYNC \in {q[i] : i \in DOMAIN q} THEN confirmados ELSE {},
              !.ultimo = UltimoId(q, @)]

\* Mutant of Vaciar: drain does not clear draining.
VaciarSinReanudar(c) ==
    /\ con[c].socket = "abierto" /\ con[c].transito # <<>>
    /\ cliente' = [cliente EXCEPT ![c] = Recibe(@, con[c].transito)]
    /\ Cambia(c, [con[c] EXCEPT !.transito = <<>>])
    /\ UNCHANGED <<bd, proceso, percances>>

\* The browser reads everything the socket holds.  If write() had answered
\* false, drain fires: the route resumes the subscriber it holds, if any.
Vaciar(c) ==
    LET s == con[c]
        t == [s EXCEPT !.transito = <<>>]
        drena == Len(s.transito) >= Capacidad
    IN  /\ s.socket = "abierto" /\ s.transito # <<>>
        /\ cliente' = [cliente EXCEPT ![c] = Recibe(@, s.transito)]
        /\ \/ ~drena /\ Cambia(c, t)
           \/ drena /\ s.rutina = "vivo" /\ Cambia(c, Volcar([t EXCEPT !.pausado = FALSE]))
           \/ drena /\ s.rutina # "vivo" /\ Cambia(c, [t EXCEPT !.sordo = s.pausado])
        /\ UNCHANGED <<bd, proceso, percances>>

\* cleanup of the route when its stream is over
Limpieza(s) ==
    IF s.rutina = "vivo" THEN [CerrarLocal(s) EXCEPT !.rutina = "fuera", !.ido = TRUE]
    ELSE [s EXCEPT !.ido = TRUE]

\* finish: an ended stream has been read to its last frame.
Terminar(c) ==
    LET s == con[c]
    IN  /\ s.socket = "terminando"
        /\ cliente' = [cliente EXCEPT ![c] = Recibe(@, s.transito)]
        /\ Cambia(c, Limpieza([s EXCEPT !.socket = "cerrado", !.transito = <<>>]))
        /\ UNCHANGED <<bd, proceso, percances>>

\* The connection is lost after the first n frames in it were read.  Before
\* Registrar the route has no listener that could notice.
Desconectar(c) ==
    LET s == [con[c] EXCEPT !.socket = "cerrado", !.transito = <<>>]
    IN  /\ con[c].socket # "cerrado"
        /\ \E n \in 0..Len(con[c].transito) :
               cliente' = [cliente EXCEPT ![c] = Recibe(@, SubSeq(con[c].transito, 1, n))]
        /\ Cambia(c, IF s.rutina = "sucursal" THEN s ELSE Limpieza(s))
        /\ UNCHANGED <<bd, proceso, percances>>

-----------------------------------------------------------------------------
(* Specification *)

AgendaInit ==
    /\ enVuelo = {} /\ asignado = 0
    /\ outbox = {} /\ confirmados = {} /\ tardios = {} /\ purgados = {}
    /\ activo = FALSE /\ cursor = 0 /\ poll = PollLibre
    /\ porIp = [ip \in Ips |-> 0]
    /\ con = [c \in Clientes |-> Inactiva]
    /\ cliente = [c \in Clientes |-> [conoce |-> {}, ultimo |-> 0, base |-> 0,
                                      adelantado |-> FALSE, peticiones |-> 0]]
    /\ percances = 0

BaseDeDatos ==
    \/ Insertar
    \/ \E e \in Eventos : Confirmar(e) \/ Revertir(e) \/ Limpiar(e)

Despachador == PollConsulta \/ PollReparte \/ PollFalla \/ Caer \/ Arrancar

Alta(c) ==
    \/ Pedir(c) \/ Registrar(c) \/ Rechazar(c) \/ LeerMarca(c) \/ LeerLimites(c)
    \/ LeerReenvio(c) \/ Reenviar(c) \/ AltaFalla(c)

Red(c) == Vaciar(c) \/ Terminar(c) \/ Desconectar(c)

AgendaNext == BaseDeDatos \/ Despachador \/ \E c \in Clientes : Alta(c) \/ Red(c)

AgendaSpec == AgendaInit /\ [][AgendaNext]_vars
-----------------------------------------------------------------------------
(* Properties *)

ConInfo == [rutina : Rutinas, suscrito : BOOLEAN, socket : {"abierto", "terminando", "cerrado"},
            ido : BOOLEAN, pausado : BOOLEAN, sordo : BOOLEAN,
            cola : Seq(Eventos \cup {RESYNC}), transito : Seq(Eventos \cup {RESYNC}),
            enviado : Nat, desde : Nat, marca : Nat, actual : Nat,
            reenviados : 0..MaxReenvio, lote : SUBSET Eventos]

\* The values every variable may take; a subscriber queues at most BufferMax
\* rows (clientBufferMax of the dispatcher), by polls and replays together.
AgendaTypeOK ==
    /\ enVuelo \subseteq Eventos /\ asignado \in Nat
    /\ outbox \cup tardios \cup purgados \subseteq confirmados
    /\ confirmados \subseteq Eventos
    /\ activo \in BOOLEAN /\ cursor \in Nat
    /\ poll \in [leyendo : BOOLEAN, filas : SUBSET Eventos]
    /\ porIp \in [Ips -> Nat]
    /\ con \in [Clientes -> ConInfo]
    /\ \A c \in Clientes : con[c].suscrito =>
           Cardinality({i \in DOMAIN con[c].cola : con[c].cola[i] # RESYNC}) <= BufferMax
    /\ cliente \in [Clientes -> [conoce : SUBSET (Eventos \cup {RESYNC}), ultimo : Nat,
                                 base : Nat, adelantado : BOOLEAN, peticiones : Nat]]
    /\ percances \in Nat

\* reserveIp and releaseIp: the counter of an address is the number of its
\* subscribers in the map, however they leave it: overflow during a poll or a
\* replay, failure of subscribe, end of the stream, end of the process.
ConexionesContadas ==
    \A ip \in Ips : porIp[ip] = Cardinality({c \in Registrados : IpDe[c] = ip})

\* canAcceptConnection and subscribe run in one turn, so concurrent requests
\* never exceed the limits.
LimiteConexiones ==
    /\ Cardinality(Registrados) <= MaxGlobal
    /\ \A ip \in Ips : Cardinality({c \in Registrados : IpDe[c] = ip}) <= MaxPorIp

\* A stream whose end the route noticed leaves no subscriber behind once its
\* handler is done, also when it ended while subscribe was waiting
\* (subscribeAgendaRealtimeSafely).
SinFugaVista ==
    \A c \in Clientes :
        con[c].ido /\ con[c].rutina \notin EnAlta => ~con[c].suscrito

\* Whoever closes the connection, its place is given back: no subscriber
\* outlives its connection.
SinFuga ==
    \A c \in Clientes :
        con[c].suscrito /\ con[c].rutina = "vivo" => con[c].socket # "cerrado"

\* A paused subscriber has a drain event to come that will resume it, unless
\* that event fired while the route did not yet hold the subscriber.
DrenajePendiente ==
    \A c \in Clientes :
        con[c].suscrito /\ con[c].pausado /\ ~con[c].sordo /\ con[c].socket = "abierto"
            => Len(con[c].transito) >= Capacidad

\* Rows of its branch that a browser's Last-Event-ID covers and it never got.
Perdidos(c) ==
    {e \in confirmados : /\ SucEvento[e] = SucCliente[c]
                         /\ cliente[c].base < e /\ e <= cliente[c].ultimo
                         /\ e \notin cliente[c].conoce}

\* Last-Event-ID is a safe place to resume from, through lost connections,
\* overflows, refused replays, cleanings and restarts.  The exceptions are the
\* races the code has: rows committed after a greater id, live rows that
\* overtook a replay, and rows cleaned too soon, under the reader that was
\* about to read them or over a smaller id that commits later and passes for
\* the oldest one (which takes a poll, a replay or a transaction that is late
\* by a whole day).
PosicionSegura ==
    \A c \in Clientes : ~cliente[c].adelantado => Perdidos(c) \subseteq tardios \cup purgados

\* id_evento is a durable sequence and Last-Event-ID a place in it: what comes
\* up to it was seen.  The first two races of PosicionSegura break it.
UltimoIdSeguro == \A c \in Clientes : Perdidos(c) \subseteq purgados

EnCamino(c) ==
    LET frames == con[c].transito \o con[c].cola IN {frames[i] : i \in DOMAIN frames}

\* The cursor never leaves a row behind: on a live stream every row up to the
\* cursor was received, is on its way, or is covered by a resync on its way.
SinHuecos ==
    \A c \in Clientes :
        LET s == con[c]
            inicio == IF s.desde = NULO THEN cliente[c].base ELSE s.desde
        IN  s.suscrito /\ s.rutina = "vivo" /\ s.socket = "abierto" /\ ~cliente[c].adelantado
              => \A e \in outbox \ tardios :
                   SucEvento[e] = SucCliente[c] /\ inicio < e /\ e <= cursor
                     => EnCamino(c) \cap {e, RESYNC} # {} \/ e \in cliente[c].conoce

\* schedule rearms the timer after every poll, failed or not.
AgendaFairness == WF_vars(PollConsulta) /\ WF_vars(PollReparte)
AgendaFairSpec == AgendaSpec /\ AgendaFairness

\* Every visible row is dispatched while the process lives, although polls fail
\* and are limited to a batch.
CursorAvanza ==
    \A e \in Eventos :
        (activo /\ e \in outbox) ~> (~activo \/ e \notin outbox \/ cursor >= e)
=============================================================================
