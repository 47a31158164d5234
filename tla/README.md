# MasterFade backend: TLA+ verification project

MasterFade takes bookings for barbershops: a Fastify server over PostgreSQL in
which a client (or a guest) reserves slots for a group of people, holds them for
a few minutes, pays online or confirms without payment, and the shop operates
the appointments. Around that it sells memberships, counts points, keeps
sessions, sends campaigns by e-mail and deletes accounts. The rules live partly
in JavaScript (`src/`) and partly in PL/pgSQL (`db/migrations`). Several writers
touch the same rows with no common coordinator: requests, the cron job of the
database, the sweep every request runs first, timers of the server, and
providers whose answers may be late or never come. The modules here model those
writers, TLC checks them on small instances and TLAPS proves the central safety
properties for instances of any size.

Paths below are relative to the root of the repository.

## Inventory

| Part | State | Operations | What is hard | Module |
|---|---|---|---|---|
| Booking core (`services/agendaService.js`, `routes/v1/citas.js`, `routes/v1/public/citas.js`, `routes/v1/admin/citas.js`, `services/appointmentConfirmationService.js`, `db/migrations/20260701_fase_1_*`, `20260702_fase_1b1_*`, `20260701_microfase_2a2_*`) | `citas`, `citas_grupos`, `citas_holds`, `payment_intents` | reserve, release, discard, lapse, confirm without payment, change state, two different expiry sweeps | the sweeps race with everything; one is not a transaction; handlers decide on reads made before their transaction | `Reservas` |
| PixelPay payment (`routes/v1/public/pagos.js`, `services/payments/*`, `db/migrations/pixel/*`) | intents, `payments`, `pixelpay_sale_attempts` | crear-intent, sale, status, durable reconciliation | uncertain charges, crashes around the provider call, recovery of expired reservations | `PagosPixel`, `AgendaAbstracta` |
| Availability (`public/agenda.js`, `agendaService.js`, `validar_horario_reserva_v1`) | schedules, exceptions, blocks | starts of a day, curated offer, choice of barber | boundaries of stretches; JavaScript offers and SQL checks again by other rules | `Disponibilidad`, `Jornada` |
| Operation of the chair (`booking/adminBookingService.js`, `admin/citas.js`) | `citas` | arrival, start with its delay, end, rescheduling, no-show | moving citas while others are offered and inserted | `Jornada` |
| Agenda outbox and realtime (`services/agendaEventDispatcher.js`, `routes/v1/public/agendaEventos.js`, `db/migrations/20260703010000_*`, `20260703020000_*`) | outbox rows, `cursor`, `subscribers`, `perIp`, one queue per stream | emit, clean, poll, subscribe, replay, close | commit order is not sequence order; live rows and replays share a stream; streams end at every point of their opening | `AgendaSSE` |
| Account deletion (`services/accountDeletionService.js` and its routes) | request, execution token, files, identity | request, confirm, approve, four stages, retry | each stage calls another service and may die; uploads and profiles written meanwhile | `BorradoCuenta`, `SagaBorrado` |
| Memberships (`services/membershipService.js`, `routes/v1/admin/plans.js`) | orders, intents, subscriptions | order, intent, Sale, activation, recovery, expiry | the Sale and the recovery race for one payment | `CompraMembresia` |
| Points, rewards and use of the membership (`services/pointsService.js`, `masterPuntosService.js`, `membershipService.js`) | signed ledger, cycles, consumptions | grant, redeem, adjust, expire, consume | four ways to confirm, each of which grants and redeems | `Beneficios` |
| Campaigns by e-mail (`routes/v1/admin/configuracion.js`) | campaign, one row per recipient, advisory lock | schedule, send, retry, cancel, timer | a delivery is not a transaction; recipients change meanwhile | `Campanas` |
| Sessions (`services/securityService.js`, `authRecovery.js`, `supabaseSessionGuard.js`, `routes/v1/auth.js`) | sessions here and at the provider, failures, lock | login, exchange, close, password reset, administration | two systems of sessions and a reset in three calls | `Sesiones` |
| Authenticated payments, webhooks, TodoPago (`routes/v1/pagos.js`) | intents, `payment_events` | intent, webhook, mock | events delivered twice or out of order | none |
| Idempotent requests (`bookingCanonicalReservationService.js`, SQL wrappers) | request rows with hash and result | obtain, finalize, replay | a retry while the first is in progress | none |
| Promotions | rules, uses with a quota | validate, reserve, apply, return | quotas under concurrent reservations | none |
| Guest registration, Storage | requests, files | request, consume; upload, replace | single use; file and row changed separately | none |
| Back office, catalogue, reports, infrastructure | rows | CRUD | write skew between handlers of the catalogue | none |

What makes each part correct, as stated in `docs/booking-business-rules.md`, the
migrations and the tests: no barber is booked twice; an abandoned reservation
frees its slot; a client has one pending group; closed appointments stay closed
unless a payment made in time reopens them; a charge is made once and ends in a
confirmed group or stays visible for a manual reconciliation; what is offered
can be reserved; a client who is in the shop is attended; a browser that resumes
from its Last-Event-ID misses nothing, and a connection that is gone holds no
place; the identity of a deleted account goes last; a payment gives one plan; a
visit gives one point and consumes once; a client gets a campaign once; a reset
of the password ends every older session. `PROJECT.json` lists the hazards found
in the code at their lines with the properties that cover them.

## Modules

### Reservas

The reservation tables and their writers up to the charge of an online payment:
alone, its `Spec` opens payments and abandons them.

* State: `cita`, `hold`, `vence` (per appointment), `intent`, `intentVence`,
  `pagadoAt` (per payment intent) are the columns of the tables; `barrido` is the
  request that is inside the JavaScript sweep, with the list of citas it read;
  `decidido` is a handler that has read a group and not yet begun its
  transaction; `ahora` is the clock.
* Step size: a PostgreSQL transaction or an autocommitted statement is one step.
  The SQL functions take row and advisory locks in the transaction, so their
  effect is one step. `expireStaleAppointmentReservations` issues four statements
  outside any transaction: four steps (`BarridoHolds`, `BarridoCitas`,
  `BarridoIntents`, `BarridoNoShow`), with `BarridoCae` for a failure before any of
  them. The transaction of the request that ran the sweep comes after it
  (`LiberarHold`, `EstadoAdmin`, `DecidirVencer`, `DecidirSinPago`, or
  `SoloLectura` for a read). `expireReservationsBestEffort` swallows the failure
  and goes on; elsewhere the failure ends the request.
* `CrearReserva` is `crear_reserva_canonica_v1` with everything it does in its
  transaction: the client's sweep, the pending check, the sweep of the slots it
  wants, the unique index of holds and the exclusion constraint.
* `ExpirarVencidas` is the cron job (every minute, `fn_reconcile_pending_payments`).
* The state of a group is a function of its citas (`EstadoGrupo`), as the trigger
  `fn_sincronizar_grupo_cita` keeps it.

### PagosPixel and AgendaAbstracta

Extends it with the PixelPay payment of a group. `CrearIntent` and
`ActivarIntent` are the two transactions of `/crear-intent`, built on the table
steps `InsertarIntent` and `EsperarPago` of `Reservas`. A Sale is a
claim (`VentaReclamar`, transaction with `proteger_reserva_pago_v1`), the answer of
the provider together with the best-effort finalization of the attempt
(`VentaResponde`; a lost finalization is one of its outcomes), and then either
`VentaCierra`, or `VentaReferencias` and `VentaReconcilia`. `PagoCae` stops the
request at any point, with the card charged or not. `EstadoReconcilia`
(`/pixelpay/status`) and `ReconciliaDurable` are later reconciliations.
`/pixelpay/status` reads the stored uuid, the provider's answer and the approval
before its transaction; each of them never goes back once it is there, so reading
and confirming are one step. Amounts are abstracted: the recalculation is
deterministic, so what can change between intent and confirmation is whether the
promotions still apply (`promo`). The provider is an environment: it charges or
not, and its approval means a charge.

`AgendaAbstracta` is what barbers and clients are promised, without holds, hours,
intents, requests or crashes. A cita is free, set aside, firm, lapsed or closed
(`Vista` gives it from `estado_cita_codigo`); a group takes all its slots at once and
only free ones, the slots of others lapsing in the same step to make room; what
is set aside becomes firm, lapses or is given up; a group is charged only after
it was reserved, and paid for once, whole, after its charge. The one way back is
the payment, which takes lapsed slots again if nobody else has them.
`ImplementaAgenda` says that `PagosPixel` does no more: sweeps in one transaction or in
four statements, releases, discards, decisions taken on an old reading and
reconciliations are each one of these steps, or show nothing of them.

### Disponibilidad and Jornada

`Disponibilidad` is the arithmetic of a day as operators: merging and subtracting
stretches (`Mezclar`, `Restar`), the opening of a day with its exceptions, the gaps
a service fits in, the starts of a gap and what they leave, the score and the
curated page. Instants are integers on a grid. Lists whose order decides nothing
are sets; the two folds over sorted stretches are kept as folds. What the
administrators may enter is stated as the code checks it (`FilasBien`, `ExcepcionesBien`,
`BloqueosBien`): no row, block or exception is empty, but rows of one barber may overlap and
their lunch may end before it begins. The rows of `bloqueos_agenda`, which no code
inserts any more, are taken to be as well formed as the others.

`Jornada` is one day of one branch over those operators. Its variables are the
rows of the calendar (`publicado`, `propio`, `excepciones`, `bloqueos`, `heredados`),
the citas, the clock, and what each reservation request found free (`eleccion`).
A reservation is two steps, the JavaScript check (`Elegir`) and the SQL insertion
with its own check (`Reservar`, `Validar`), because READ COMMITTED lets others
commit between the two statements. Every handler of the chair begins with the
no-show sweep, which is part of its action (`T`); a start propagates its delay
(`Retrasar`), each moved cita against the exclusion constraint.

### AgendaSSE

The realtime channel of the agenda, which shares no state with the reservation
but the database transactions that fill its outbox.

* State: `enVuelo` and `outbox` are rows before and after the commit of their
  transaction; `cursor`, `poll` and `porIp` are variables of the dispatcher; `con`
  holds for each browser the request (`rutina`, where its handler waits; `ido`, the
  route's `closed`) and its subscriber (`cola`, `pausado` for `draining`, `enviado` for
  `lastSentId`); `transito` is what its socket holds; `cliente` is what the browser
  knows and its Last-Event-ID. `confirmados`, `tardios`, `purgados` and the fields
  `sordo`, `base` and `adelantado` are history: no action depends on them but
  through what a browser reloads (`confirmados` stands for the agenda itself).
* Step size: JavaScript runs to completion between two awaits. A poll and a
  replay batch are two steps each, one that reads (`PollConsulta`, `LeerReenvio`)
  and one that delivers (`PollReparte`, `Reenviar`). `Registrar` is the limits, the
  listeners and the synchronous part of `subscribe`, which run in one turn after
  the branch is loaded; then `LeerMarca`, `LeerLimites` and the batches each wait.
  `Concluir` is the end of `subscribe` and of `subscribeAgendaRealtimeSafely`.
* A socket accepts frames and answers `false` when it holds `Capacidad` of them; the
  frame that got `false` stays at the head of the queue and is written again after
  `drain`, as in `flush`. `Desbordar` writes no resync frame: a queue is full only
  while the subscriber is paused, and `flush` then returns at once.
* `Vaciar`, `Terminar` and `Desconectar` are the browser that reads, the stream ended
  by the server and read to its end, and the connection lost with part of what it
  held. The listeners of the route react in the same step; a browser that leaves
  before they exist is not noticed.

### BorradoCuenta and SagaBorrado

The deletion of one account. `Crear`, `Confirmar`, `CrearPersonal`, `Aprobar`, `Cancelar`
and `Rechazar` bring a request to the point where it may be carried out, with its
one-use token and the age of the login (`edad`). Then any of several requests
(`proc`) runs the four stages: `Ejecutar` closes the access, `Anonimizar` removes the
personal data, `PrepararArchivos`/`Quitar`/`NoQuitar`/`CerrarArchivos` work through the
files, and `PrepararAuth`/`BorrarAuth`/`FallaAuth`/`CerrarAuth` end with the identity.
Every transaction is a step; the calls to Storage and to the identity provider
are steps of their own under the session-level advisory lock (`candado`); `Caer`
ends a request anywhere and frees its lock. Requests of other endpoints that were
admitted before the access was closed (`vuelo`) finish later: a reservation, a
profile, a signed upload (`enlaces`).

`SagaBorrado` is what a deletion promises in five steps: access is closed, the
data goes, the files are verified absent, the identity is deleted, the request
ends, and nothing is taken back. `BorradoCuenta` implements it with `restos` as the
files of the list without a tombstone and `terminada` as the last state; every
failure, retry and overlap is a stutter.

### CompraMembresia

The purchase of plans by one client: orders, an intent per order, the Sale in
`VentaReclamar`, `VentaResponde`, `VentaCerrar` or `VentaVerificar` and
`VentaConfirmar` (each a transaction, `Caer` between any two), the sweep of expired
intents (`Barrer`), the recovery from the state endpoint (`Recuperar`), and the end of
a plan by its time, by a person or with the account. `evidencia` is the durable
approval, stored in time or late. `Activar` is the insertion of the subscription
with what it replaces.

### Beneficios

The points, rewards and consumptions of one client through his visits. Every
handler runs in one transaction under the client's advisory lock or his
subscription, so each is one step: the two holds, the four confirmations, the
operation, the end of a visit that consumes the membership, and what changes
points and plans outside the visits. `acumulado` holds a row per point given with
its cycle; `canje`, `manual` and `vencimiento` are the other rows of the ledger;
`Vista` is `vw_points_balance` and `Saldo` what a handler finds after
`fn_points_materialize_expired_cycles`.

### Campanas

One campaign: draft, schedule with a row per recipient, deliveries and
cancellation. A delivery runs outside any transaction under an advisory lock of
its connection (`candado`), so every statement and every call to the mail server
is a step of a process (`proc`): `Leer`, and for each row `Verificar`, then `Omitir` or
`EnviarCorreo` and `Anotar`, then `Contar` and `Medir`; a cancellation is `CancelarLeer`,
`CancelarContar`, `CancelarCerrar`. Meanwhile recipients withdraw consent, change
address or delete their account. `Caer` loses a process or a connection anywhere.
The editor's read and write are two steps, as in the code.

The lock belongs to the session (`routes/v1/admin/configuracion.js:1309`), here as in
`BorradoCuenta`: the models suppose a connection that keeps its session, direct or by the
pooler's port 5432 as in `.env.example`. `config/db-connection.js:162` also accepts
the transaction pooler on 6543, where the lock and the statements it covers
may be on different sessions.

### Sesiones

The access of one account: sessions of the application (`sesion`) against its
password (`clave`) and its sessions at the provider (`prov`). Login, exchange and
reset are processes of several statements and calls under an advisory lock on the
address (`candado`): `Verificar`, `Admitir`, `Revisar`, `Abrir`, `Acertar`, and `Revocar`,
`CambiarClave`, `SalirDeTodas`; administrators and logout take no lock. `cerrada` is
history: the password of the last reset that was confirmed.

The modules named `MC...` give the constants their values, and those named
`..._proofs` hold the theorems. Definitions marked `Mutant` in the modules are
faulty variants of one below them; they are not part of any specification and
show that the properties can fail.

## Runs

| Run | Instance | Shows |
|---|---|---|
| `ReservasCliente` | one client, a group of two and a free group of one, a crash, fairness | one live pending group per client; every abandoned reservation leaves the pending states, but for the citas whose hold a failed sweep had just expired (`Varada`) |
| `PagosDisputa` | a paid group against a free group on one slot, one intent, a crash | no double booking; one Sale per intent; the hour of the payment lies inside the holds; a confirmed intent stands on a charge with its citas and holds; every step is one of `AgendaAbstracta` or shows nothing of it |
| `PagosGrupo` | a group of two with a promotion, two intents of one creator | one charge per group |
| `AgendaEntrega` | one browser that opens two streams, rows 1 to 3 of its branch and 4 of another, queue and replay of one row, a mishap | Last-Event-ID never covers a row that was neither received nor replaced by a resync, but for the races `PosicionSegura` names; the cursor leaves no row of a live stream behind; a paused subscriber has a drain to come |
| `AgendaConexiones` | two browsers for the places of their address, two rows, polls of one row, two mishaps, fairness | exact counters; no subscriber after an end the route noticed; every visible row is dispatched while the process lives |
| `BorradoCuenta` | two requests over one account with two files, a failure, an admitted request of another endpoint, fairness | one request at a time in each section; a completed deletion left nothing; the identity goes last; the saga of `SagaBorrado` is implemented; a deletion that began is completed or waits for a person |
| `CompraMembresia` | three orders of a client in two branches, two crashes, fairness | one payment and one plan per order, for a charge verified in time; no Sale behind an open doubt; no late answer reopens; an approval stored in time ends in its plan |
| `Beneficios` | a visit alone or with a companion, three plans, two rewards, fairness | a point per confirmed cita and none for a redeemed one; consumption within the plans and once per cita; the balance shown is the one used; a visit that began ends |
| `BeneficiosTitular` | the same instance | **violated**: the end of a companion's visit consumes the titular's plan |
| `Campanas` | two recipients, two processes, two attempts, a failure, fairness | one message per client, another only after one reported as failed or lost; a finished campaign has nothing left; omissions are counted once; silence after the cancellation; what is due leaves |
| `Sesiones` | two processes, two sessions of each kind, two policies, a crash | a confirmed reset ends every earlier access; the limit of sessions holds; no session opens under the lock that refused passwords impose |
| `Jornada` | one day of two barbers, three citas, two requests, two changes of the calendar, fairness | the offer is what fits, what was offered at the hour of the check is what the insertion accepts; the curated page keeps every period; arrivals keep their order; a client who arrived is attended, moved or missed |

The violated run checks a sentence of `docs/booking-business-rules.md`, quoted under
`findings` in `PROJECT.json`.

### Divergences without a run

These were met while modelling: TLC shows them on the instances above, or the
code does at the lines named. Some are properties a module defines and no run
checks.

* Reservations and payments. A request that fails inside the JavaScript sweep
  after its first statement leaves the cita pending and its slot taken for good:
  the hold the cron job looks for is gone. `Varada` names those citas, and
  `SlotLiberado` says that a failure leaves no other. Confirmation without payment accepts a
  hold that lapsed after the handler looked. The JavaScript sweep expires a doubtful charge
  that the SQL sweep keeps, and returns no use of a promotion, where the SQL one
  does. A group whose intents belong to two creators
  can be charged twice: for a guest group the creator is the oldest active user,
  which changes when that user is disabled. The durable recovery confirms a
  group whose holds lapsed since the approval, which is what
  `20260924010000_pixelpay_reconciliation_window.sql` is for, while
  `docs/booking-business-rules.md:503` asks for a live hold.
* Operator. `booking/adminBookingService.js:1357-1359` takes `MIN` of a `uuid`, which
  PostgreSQL 17 does not have.
* Realtime. A row committed after a greater id is never sent nor replayed, and
  Last-Event-ID covers it. A live row that arrives while a replay waits for its
  query raises `lastSentId`, and the replayed rows are dropped as old. Rows cleaned
  while a transaction with a smaller id is open are lost without a resync, since
  the row that commits later passes for the oldest one that is kept. A browser
  that leaves while its branch is loaded keeps its place until the process ends.
* Benefits. The last service of a plan is not covered at the hold of a second
  cita and is consumed when that one ends; a visit that redeems a reward also
  consumes the plan; a manual adjustment can leave the balance below zero
  (`BeneficioUnico`, `SaldoNoNegativo`). A plan bought later can be replaced by the
  recovery of an earlier order (`PlanNuevoSobrevive`).
* Campaigns. The editor writes back what it read, over a campaign scheduled
  meanwhile; counters are behind the rows while a delivery is under way.
* Sessions. Two administrators can each take the other's role away and leave none
  (`countActiveSuperAdmins` is read before either commits).
* Deletion. A request that finds its login too old clears, in a later statement,
  whatever token the row holds by then, also the newer one another request is
  using, and the client can no longer resume the deletion (`CredencialViva`). A
  file prepared while the listed ones are removed does not keep the request of a
  client from going on to the identity (`AvanceSinNuevas`).
* The day. A start between two blocks that touch, or in hours opened by an
  exception, is offered and refused by SQL; a block created between the check and the
  insertion is not seen, because SQL reads `bloqueos_agenda`, which nothing writes.
  `iniciar-atencion` is refused while a delay of five minutes or more would push
  a cita over the next one; it looks at no other cita of the
  barber in progress. Rescheduling drops the buffer of the service from the end.
  A start that begins at this moment is offered and refused. A start that crosses
  the border of a period is in no page of the curated view. The night of that view
  has two stretches, before 6 and after 18: with a gap that begins off the step in the
  early one, the page recommends a start inside it before one that begins a gap
  in the evening. The proof found this: `CuradoFiel` said that a start of a gap
  always comes first, and now says by how much. A late barber's
  next client is swept to `no_show` after the grace.

### Bounds

* Clock: TTL 1 and `MaxTiempo` 2 (`ReservasCliente`) or 3, and in the payment runs a
  grace of 2, give each hold the times before, at and after its expiry, and the
  same after an extension. Appointments start at 2 in the reservation run, so
  that the no-show sweep runs, and at 6, beyond the horizon, in the payment runs.
* Citas and groups: two groups are what a conflict needs (one slot, one client);
  two members are what a partial effect on a group needs; two intents are what a
  double charge needs. A group is requested once: a second request of the same
  people is another group.
* At most one request is inside the sweep and one handler between its read and
  its transaction. Sweeps are idempotent over the rows they select; what two of
  them could do to each other is done by the cron job and by the handlers.
* Agenda: four rows are what a queue at its limit, a second batch and a row of
  another branch need; two streams per browser are one connection and one
  resumption. `MaxPercances` counts failed queries, deaths of the process and
  cleanings together.
* Deletion: two requests overlap; two files are a part done and a part left; two
  tokens and two requests are one that is used or refused and its successor.
* Purchase: two orders compete in a branch and one is in another; two crashes
  are one before and one after a recovery.
* Benefits: of the three plans one of the branch has more services than
  courtesies, one belongs to another branch and one follows the first; two cycles
  are one that expires and its successor.
* Campaigns: two recipients are one at hand and one left; two attempts are one
  that fails and the last.
* Sessions: two of each kind are one that stays and one that goes; a threshold
  of two has a failure below it; one change of the password is one reset. The instance is symmetric in processes and in
  sessions, and no property of the run is temporal.
* The day is a grid of eight instants with starts every two, a service of two
  and a separation of three, enough for a start cut on each side by schedule, lunch,
  block and cita. The limit on alternatives is not reached.
* `MaxCaidas`, `MaxFallos` and the like bound failures, each by what the broken
  intermediate states need.
* Only the reservation and payment runs check deadlock. In the others the instance
  stops when rows, streams, citas, orders or mishaps are spent, while the system would
  go on.

### Fairness

Each fair specification assumes no more than a mechanism of the code gives.

* `Reservas`: the clock, the cron job
  (`cron.schedule('masterfade-reconcile-payments', '* * * * *', ...)`), and the
  statements of a sweep that has begun (the server runs them one after another; a
  failure is `BarridoCae`). No user, operator or provider is assumed to act.
* `AgendaSSE`: the two halves of a poll; `schedule` rearms the timer in the `finally`
  block of every poll, and a query answers or fails.
* `BorradoCuenta`: the statements of a request (weak), and that an administrator
  repeats the request for a deletion that is stopped and can be repeated
  (strong). The second is an assumption about people: nothing in the code
  retries by itself.
* `CompraMembresia`: the client keeps asking for the state of his order, which is
  what recovers it (`Recuperar`), and plans end in time.
* `Beneficios`, `Jornada`: the barber asks again to begin or end a visit that was
  refused; the clock and the end of plans.
* `Campanas`: the timer of the plugin, the clock, the statements of a process.

## Theorems

All are proved for every value of the constants that the assumptions of the
modules admit: any number of citas, groups, clients, intents, browsers, rows,
requests, files, orders, plans, recipients, processes and sessions, any limits and any
times. TLC evaluates the assumptions in the runs. Each inductive invariant was
checked by TLC on the instance of its run before it was proved.

### Reservations and payments

* `ReservasTipo`, `PagosTipo`: type correctness, inductive as it stands. The step
  that needs thought is the confirmation, whose hour must be known
  (`AprobacionDurable` rules out NULL).
* `ReservasSinSolape`, `PagosSinSolape`: `PasoConserva` shows that no operation but
  the reservation RPC brings a cita into an occupying state; `CrearConserva` and the
  confirmation are the two places that consult the exclusion constraint.
  `OcuparLibre` closes both with the symmetry of overlap.
* `ReservasUnaPendiente`, `PagosUnaPendiente`: nothing revives a lapsed reservation,
  and a live one always shows in the check of the RPC because its group is
  active (`VigenteEsPendiente`). With payments, a claim extends only live holds.
* `ReservasHoldFinal`: a consumed hold is final. `SinCitaSinHold` keeps holds and
  citas born together, and `Firme` is what each step keeps of a consumed one.
* `PagosEnVentana`: not inductive alone: a reservation made over a paid group
  would reset the expiry. `VentanaInv` adds that the citas of a paid group exist,
  which the RPC refuses (`PasoVence`).
* `PagosInvariante`: `PagoInv` joins the types, `SinCitaSinHold`, `CobroCoherente` (what
  each phase of a Sale, and each evidence of an attempt, says of the charge),
  `VentaUnica`, `PagoConfirmaReserva` and `PagoNoRetrocede`. `PagosVentaUnica` and
  `PagosConfirma` are parts of it, and `PagosReapertura` follows from it step by step:
  the only actions that bring a cita back go through `Confirmar` of a charged intent.
* `PagosImplementa` is the refinement of `AgendaAbstracta`. The invariant `AgendaInv` adds to
  `PagoInv` that the citas of an intent exist, so that nothing is charged for a
  group that was not reserved. `Mudanza` turns a step that moves citas along one
  edge of the abstract states into a step of the agenda, and `TablasAgenda` finds the edge of
  each operation. `PagadasFirmes` is why a sweep shows only as lapses: what it finds paid is
  firm already. `ConfirmarEsPagar` takes from `PagoInv` that the whole group is taken and
  that it was charged and never paid before. `PagosPromesa` proves what follows from
  the abstract steps alone (`PasoPromesa`) and brings it back to the tables; it says again, by
  a second road, that no barber is booked twice.
* `PagosCobroUnico`: one charge per group when its intents have one creator, which is
  the assumption `UnSoloCreador` of the theorem and what the run's instance has; without it the
  claim is false, as noted above. `GrupoInv` adds what makes the next intent wait
  for the former: every intent leaves a trace (`Rastro`), belongs to the creator
  (`DelCreador`), one is open at a time (`UnicoAbierto`), a charge keeps its
  intent open until its hour (`Plazo`, `Retenido`), and one of them is charged
  (`CargaUnica`).

### Realtime

* `AgendaContadas`, `AgendaLimite`, `AgendaSinFugaVista`: `ConexionesInv` is their
  conjunction with the place of the handler: a subscriber is in the map only
  while its handler runs or the route holds it (`Bien`), which is why `Registrar`
  always adds one that was not there. Whatever a step takes out of the map it
  takes off the counters (`BajasContadas`).
* `AgendaTipo`, `AgendaPosicion`, `AgendaSinHuecos`, `AgendaDrenaje`: `FlujoInv` is the
  conjunction of what holds of the rows (`DatosInv`: a row is in one place, and ids
  not confirmed are in flight or new), of the dispatcher (`DespachoInv`: the rows of a
  poll are the next of the outbox without a gap), of the shape of a stream
  (`Forma`) and, for each browser, of four parts: `Posicion`, every row of its branch below
  its Last-Event-ID was received, replaced, late, or cleaned too soon; `Sano`, the
  frames of socket and queue carry its rows in the order of their ids and without gaps, from what the
  browser knows to what the subscriber was given; `Desde` and `AlDia`, rows from the place
  where the stream started to its own position, or to the cursor, are in that
  channel; and `Repone`, after a refused replay a resync is on its way. A new row lies
  beyond every id or is late; a row cleaned in time lies below every row that is
  visible or in flight, so that the bounds the replay reads refuse it; a batch of a poll or a
  replay has no gaps; and a reader that loses the end of its channel knows only a
  prefix of it. Each of these is a lemma on sequences, and the steps of one
  stream are lemmas on records (`CerradoFlujo`, `Recibe`, `Repite` and their like), so
  that an action only says which of them it is.

### Account deletion

`BorradoInvariante`: `BorradoInv` joins the types, `Secciones` (who is inside a section
holds the lock), `Etapas` (what each state of the request says of the data, files and
identity) and `Ausentes` (a tombstone means no file). `BorradoTipo`,
`BorradoUnaSeccion`, `BorradoCompletada`, `BorradoIdentidad` and `BorradoLapida` follow.
`BorradoImplementa` is the refinement: every action is a step of `SagaBorrado` or a
stutter, under the mapping `restos`/`terminada`.

### Memberships, points, campaigns, sessions

* `CompraInvariante`: types, `PagadaUnaVez` and `Ligadura`, which ties the phase of a Sale,
  its intent, its order and the stored approval. `CompraPagadaUnaVez`,
  `CompraSinSegundoCobro` and `CompraSinReapertura` follow.
* `BeneficiosInvariante`: types, `PuntosJustos`, `ConsumoAcotado`, and the facts on which a
  confirmation rests: rows belong to citas that had them (`FilasInv`), a visit is
  one group (`GrupoInv`), one plan is active per branch (`PlanUnico`), and a cycle with
  points exists (`CicloHay`). `BeneficiosLecturaFiel` rests on the sums of the ledger, taken
  apart row by row (`SumaParcial` to `SumaJunta`, by least counterexample): a cycle has no
  row of expiry until it is marked expired (`VencimientoFinal`), and the row written then
  takes out exactly what the view had already left out of a cycle that is due.
* `CampanasInvariante`: `ConCandado` (one process delivers), `EnCurso`, `EnTurno` and
  `Medido` (what a delivery has seen of the campaign, of the row at hand and of
  the counters is still so), `Borrados`, with `CorreoUnico`, `FinalizadaCompleta`
  and `OmisionContada` as parts. `CampanasCalla` is the action property.
* `SesionesInvariante`: whoever is past the lock holds it (`ConCandado`), what he looked at
  is still so (`Pasadas`, `Credencial`, `SinActivas`, `Cuenta`), with `ResetCierraTodo` and
  `LimiteSesiones` as parts. `SesionesBloqueoVale` is an action property that
  follows.

### Availability and the day

* `TurnosDelDiaFiel`, a lemma on operators: for any rows, exceptions and busy stretches, the
  starts of a day are those that the open and free instants leave. The lists of
  the code are folds over sorted sequences. `PlegadoVale` says what such a fold computes,
  position by position; it rests on `PliegueExiste`, the recursion theorem for
  finite sets, proved by a least counterexample. `OrdenadosLista` shows that the sort lists every
  stretch once, by counting those before it. `MezclarFiel`, `HuecosFiel` and `RecortarFiel`
  then say of each operation that it leaves exactly the instants it should, in
  stretches that do not touch (`Separados`), which is what makes the rest before and after a
  start the distance to the ends of its own stretch (`AtrasEs`, `AdelanteEs`).
* `JornadaTipos`: `JornadaTypeOK` is inductive. It says what the lists need: rows, blocks and
  exceptions that are not empty, and citas that last some time and no longer than their service
  with its buffer, through insertion, delay and rescheduling, where a cita moves
  to a start that was offered and so is an instant (`OpcionesEnteras`).
* `JornadaOfertaExacta` and `JornadaOfertaReservable` follow from it in every state.
  In the latter each instant of an offered start is open, free and to come, so that the
  SQL can only refuse the minute that has begun or the schedule. The proof found two cases
  the instance does not hold: rows of one barber that overlap (`PUT /horarios` does not compare
  them), and a lunch that ends before it begins, which `normalizeInterval` drops and
  `validar_horario_reserva_v1` applies. The property names them.
* `ExposicionFiel`, a lemma on operators, and `JornadaCuradoFiel`: the ranking lists every start of the period once
  (`ClasificadosLista`), because no two starts of a barber's offer are at one time (`OfertaTurnero`, from stretches that do
  not touch), and the cut is a fold whose every step shows a start last or hides it (`ExponerCurado`).
  What comes first is then the best by the score. `InicioGana` weighs the score: a start that begins its gap
  has 470 points more than one that does not, and loses at most one for each minute it comes later.
  `AutoAsignadoEs` shows that the barber whose offer is shown is one of the branch.
* `JornadaInvariante`: `DiaInv` adds that no barber has two live citas at a time (`Apartadas`, the exclusion
  constraint seen from every writer) and that the members of a request that
  is about to insert are not in the agenda yet. An insertion and each cita of a delay ask the constraint
  (`InsertarAparte`, `RetrasarUnaEs`); an emergency move never meets it, because its start is free for the
  whole service at the barber it takes (`OpcionesLibres`).
* `JornadaColaEnOrden`, the action property: since two citas of a barber never begin at one time, the queue lists
  each of them once (`ColaLista`), and a delay that is not refused puts all of them later by the same time
  (`RetrasarTodos`, one step of the fold after another). The assumptions behind it are that a cita belongs
  to one request and that the agenda given at the start of the day has no overlap.

### What is only model-checked

* Liveness: `SlotLiberado`, `CursorAvanza`, `BorradoTermina`, `AprobadaSeActiva`,
  `AtencionTermina`, `EnviosSalen`, `LlegadaSeAtiende`. The prover does not reach
  fairness and ENABLED.

The induction theorems of the library take an operator as parameter and cannot be used
here. Induction is possible all the same where a least or greatest
counterexample exists: `HayMinimo` and `HayMaximo` get one from the
well-foundedness of inclusion on finite sets, and the counts of `Sesiones`, the
sequences of `AgendaSSE`, the sums of `Beneficios` and the folds of `Disponibilidad` are proved so.

## Not modelled

* Reservations: validation of input, prices and taxes, e-mail, audit rows,
  row-lock order and deadlocks inside PostgreSQL (a transaction that is aborted is
  a step that does not happen), `deleted_at`, the branch scope of the sweep (it only
  narrows it), `SKIP LOCKED` and the limit of 500 rows of the cron job (rows left
  out are taken a minute later), the keys that make a request idempotent.
* Realtime: which changes of which tables make a row and with what motive,
  heartbeats (they carry no id), the `retry` line, the wait of `stop` for a poll
  under way (it is a poll followed by the end of the process), malformed
  requests, and a cleaning that skips locked rows (it deletes the oldest visible
  rows up to some id).
* Deletion: the limit of iterations of an orchestration, serialization failures
  (a step that does not happen or `Caer`), a COMMIT whose answer is lost, the details of a
  review. Subscriptions, points, roles and sessions of the account are one flag.
* Memberships and points: the simulator of payments, replays by idempotency key,
  the migration of the older points, the balance per service of a plan, alerts.
* Campaigns: content, listings and previews.
* Sessions: rate limits, alerts, the reserve of connections, the relabelling of a revoked session
  as expired. It is assumed that a process does not lose the connection
  of its lock and go on, that the provider's global sign-out ends all its
  sessions, and that a lock lasts longer than the window of the failures (30 and 15 minutes).
* The day: listings over a range of dates, tariffs of a barber, wording. Reads of
  the several members of a group are one `Elegir`.
* Whole parts: catalogue, promotions, idempotent replays, people and roles,
  storage, guest registration, TodoPago and webhooks, with the reason in
  `PROJECT.json`. Of the catalogue it is known from reading that its
  guards read other tables without locking them: a service can end without branch by
  two removals in different branches, a package can be activated while one of
  its services is removed, and `PATCH /paquetes/:id` and its `/estado` take their locks in opposite
  orders. The quota of a promotion is checked and then inserted, so that two
  reservations can both take the last use (`docs/booking-business-rules.md:54`).

## Plan

Modelled, checked and proved: reservations, payments, realtime, deletion, purchase, benefits,
campaigns, sessions, availability and the day. Next:

1. Modules for the catalogue with its guards, and for promotion quotas across both sweeps.
2. Idempotent requests, and webhooks over the same intents.
