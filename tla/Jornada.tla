------------------------------ MODULE Jornada -------------------------------
(***************************************************************************)
(* One day of one branch: the calendar the administrators keep (schedules, *)
(* blocks and exceptions), the starts the booking pages offer from it, the *)
(* reservation of what was offered, and the operation of the chairs       *)
(* (arrival, attention with its delay, emergency rescheduling, no-show).   *)
(*                                                                         *)
(* A PostgreSQL transaction is one step, but for a reservation, which is   *)
(* two: the JavaScript check of what is free (Elegir) and the SQL function *)
(* that inserts the citas (Reservar).  Both run in one READ COMMITTED      *)
(* transaction, so the second sees what others committed after the first.  *)
(* The handlers of the operation begin with the sweep, autocommitted.      *)
(***************************************************************************)
EXTENDS Disponibilidad

CONSTANTS
    Barberos,     \* the active barbers of the branch
    Rango,        \* [Barberos -> Nat], the order of their names and ids
    Citas,        \* the appointments that may be requested
    Agendas,      \* the citas already given when the day begins: tables, a set
    Solicitudes,  \* reservation requests
    Miembros,     \* [Solicitudes -> Seq(Citas)], in orden_integrante
    Dur, Buf,     \* [Citas -> Nat], duracion_total_min and buffer_total_min
    Pide,         \* [Citas -> Barberos or NADA], the barber asked for
    Propios,      \* [Barberos -> the rows his own schedule may have, a set of sets]
    Publicables,  \* the blocks a published schedule may have, a set of sets
    Excepcionales,  \* the exceptions of the branch that may be entered
    Bloqueables,  \* the stretches a barber may be blocked for
    Heredados,    \* rows of bloqueos_agenda, which no code inserts any more
    PorDefecto,   \* the rows used while nothing is configured
    FinDia,       \* the end of the day
    Gracia,       \* AUTO_NO_SHOW_GRACE_MINUTES
    Umbral,       \* OPERATIONAL_DELAY_PROPAGATION_THRESHOLD_MINUTES
    Ventana,      \* STATUS_CHANGE_WINDOW_MINUTES
    MaxTiempo,    \* bound: the clock stops here
    MaxNovedades  \* bound: citas given, requests, changes of the calendar or of a place

ASSUME JornadaAssumption ==
    /\ Rango \in [Barberos -> Nat] /\ \A a, b \in Barberos : Rango[a] = Rango[b] => a = b
    /\ Dur \in [Citas -> Nat \ {0}] /\ Buf \in [Citas -> Nat]
    /\ Pide \in [Citas -> Barberos \cup {NADA}] /\ NADA \notin Barberos
    /\ {FinDia, Gracia, Umbral, Ventana, MaxTiempo, MaxNovedades} \subseteq Nat
    /\ IsFiniteSet(Barberos) /\ IsFiniteSet(Citas)
    /\ Miembros \in [Solicitudes -> Seq(Citas)]
    /\ \A r, s \in Solicitudes : r # s => Range(Miembros[r]) \cap Range(Miembros[s]) = {}

VARIABLES
    publicado,    \* blocks of the published schedule for this weekday, or NADA
    propio,       \* [Barberos -> rows of horarios_semanales_empleados]
    excepciones,  \* agenda_excepciones_sucursal of the day
    bloqueos,     \* agenda_bloqueos_empleados
    heredados,    \* bloqueos_agenda
    cita,         \* public.citas
    eleccion,     \* [Solicitudes -> what the check found free, per member]
    ahora,        \* the clock
    novedades     \* citas given, requests and changes so far

calendario == <<publicado, propio, excepciones, bloqueos, heredados>>
vars == <<calendario, cita, eleccion, ahora, novedades>>

Pendientes == {"en_espera", "pendiente_pago"}
PorAtender == Pendientes \cup {"confirmada", "en_salon"}
Activas == PorAtender \cup {"en_atencion"}     \* OPERATIONAL_APPOINTMENT_STATES
Estados == Activas \cup {"nueva", "cancelada", "expirada", "no_show", "completada"}

CitaNueva == [estado |-> "nueva", barbero |-> NADA, ini |-> 0, fin |-> 0]
Largo(c) == Dur[c] + Buf[c]

\* A row of the cita c: it lasts no longer than the service, and some time once it
\* has been asked for.
CitaBien(c, x) ==
    /\ x = [estado |-> x.estado, barbero |-> x.barbero, ini |-> x.ini, fin |-> x.fin]
    /\ x.estado \in Estados /\ x.ini \in Int /\ x.fin \in Int
    /\ x.fin <= x.ini + Largo(c)
    /\ x.estado # "nueva" => x.ini < x.fin
CitasBien(f) == f = [c \in Citas |-> f[c]] /\ \A c \in Citas : CitaBien(c, f[c])

\* No barber has two live citas at a time.
Apartadas(f) ==
    \A c, d \in Citas :
        c # d /\ f[c].barbero = f[d].barbero /\ {f[c].estado, f[d].estado} \subseteq Activas
        => ~Chocan(f[c], f[d])

BloqueosBien(B) ==
    /\ IsFiniteSet(B)
    /\ \A x \in B : x.ini \in Int /\ x.fin \in Int /\ x.ini < x.fin

ASSUME CalendarioAssumption ==
    /\ \A b \in Barberos : \A filas \in Propios[b] : FilasBien(filas)
    /\ \A filas \in Publicables \cup {PorDefecto} : FilasBien(filas)
    /\ \A e \in Excepcionales : ExcepcionesBien({e})
    /\ \A x \in Bloqueables : BloqueosBien({x})
    /\ BloqueosBien(Heredados)
    /\ \A f \in Agendas : CitasBien(f) /\ Apartadas(f)

JornadaTypeOK ==
    /\ publicado # NADA => FilasBien(publicado)
    /\ propio = [b \in Barberos |-> propio[b]] /\ \A b \in Barberos : FilasBien(propio[b])
    /\ ExcepcionesBien(excepciones)
    /\ BloqueosBien(bloqueos) /\ BloqueosBien(heredados)
    /\ CitasBien(cita)
    /\ eleccion = [s \in Solicitudes |-> eleccion[s]]
    /\ \A s \in Solicitudes : \A k \in DOMAIN Miembros[s] :
         eleccion[s] # <<>> => eleccion[s][k].ini \in Int
    /\ ahora \in Nat

Init ==
    /\ publicado = NADA
    /\ propio \in {f \in [Barberos -> UNION Range(Propios)] : \A b \in Barberos : f[b] \in Propios[b]}
    /\ excepciones = {} /\ bloqueos = {} /\ heredados = Heredados
    /\ cita \in Agendas
    /\ eleccion = [s \in Solicitudes |-> <<>>]
    /\ ahora = 0
    /\ novedades = Cardinality({c \in Citas : cita[c] # CitaNueva})

Novedad == novedades < MaxNovedades /\ novedades' = novedades + 1

-----------------------------------------------------------------------------
(* What the JavaScript of the agenda offers *)

\* The schedule the branch lends to a barber without rows: that of the first
\* barber who has some.
Plantilla ==
    LET conFilas == {b \in Barberos : propio[b] # {}}
    IN  IF conFilas = {} THEN PorDefecto
        ELSE propio[CHOOSE b \in conFilas : \A d \in conFilas : Rango[b] <= Rango[d]]

\* Mutant: a published day without blocks falls back on the barber's rows.
MutantFilas(b) ==
    IF publicado \notin {NADA, {}} THEN publicado
    ELSE IF propio[b] # {} THEN propio[b]
    ELSE Plantilla

\* getSchedulesForBarberOnDate.  A published version without blocks for the day
\* is a closed branch, and does not fall back on the barber's own rows.
Filas(b) ==
    IF publicado # NADA THEN publicado
    ELSE IF propio[b] # {} THEN propio[b]
    ELSE Plantilla

\* getBusyIntervalsForBarber, when the table reads f: blocks of both tables and
\* live citas, those with their buffer whatever their fin_at says.
Ocupado(f, b) ==
    {Tramo(x.ini, x.fin) : x \in {y \in bloqueos \cup heredados : y.barbero = b}}
    \cup {Tramo(f[c].ini, f[c].ini + Largo(c)) :
            c \in {d \in Citas : f[d].barbero = b /\ f[d].estado \in Activas}}

Oferta(f, b, largo) == TurnosDelDia(Filas(b), excepciones, Ocupado(f, b), largo, ahora)

\* resolveBookingSelection: the starts that are accepted, each with the barber
\* asked for or every barber of the branch who offers it, by id.
Opciones(f, pedido, largo) ==
    LET ofrece == [b \in {d \in Barberos : pedido \in {NADA, d}} |->
                     {s.ini : s \in Oferta(f, b, largo)}]
    IN  [t \in UNION Range(ofrece) |->
           EnOrden({b \in DOMAIN ofrece : t \in ofrece[b]}, LAMBDA a, b : Rango[a] < Rango[b])]

\* resolveEffectiveDayAvailability: without a barber asked for, the page shows
\* the offer of the one who is free first, the first of them by name.
AutoAsignado(largo) ==
    LET ofrece == [b \in Barberos |-> {s.ini : s \in Oferta(cita, b, largo)}]
        libres == {b \in Barberos : ofrece[b] # {}}
        primero == [b \in libres |-> Min(ofrece[b])]
    IN  IF libres = {} THEN NADA
        ELSE CHOOSE b \in libres : \A d \in libres \ {b} :
                 \/ primero[b] < primero[d]
                 \/ primero[b] = primero[d] /\ Rango[b] < Rango[d]

-----------------------------------------------------------------------------
(* What the SQL of the reservation accepts *)

\* The whole service in one row, and clear of its lunch.
Cabe(x, filas) ==
    \E f \in filas : Dentro(x, f) /\ (f.almuerzo = NADA \/ ~Chocan(x, f.almuerzo))

\* validar_horario_reserva_v1 looks the schedule up by itself, and reads neither
\* the exceptions of the branch nor agenda_bloqueos_empleados.
EnHorario(b, x) ==
    \/ publicado # NADA /\ Cabe(x, publicado)
    \/ publicado = NADA /\ propio[b] # {} /\ Cabe(x, propio[b])
    \/ publicado = NADA /\ propio[b] = {} /\ Cabe(x, Plantilla)

\* ex_citas_solape_barbero, and the check of the function before it.
Solapa(f, b, x) ==
    \E c \in Citas : f[c].barbero = b /\ f[c].estado \in Activas /\ Chocan(f[c], x)

\* The verdict of the function on one member, when the table reads f.
Validar(f, b, x) ==
    IF x.ini <= ahora THEN "MF_RESERVA_INICIO_EN_PASADO"
    ELSE IF \E y \in heredados : y.barbero = b /\ Chocan(x, y) THEN "MF_SLOT_BLOCKED"
    ELSE IF Solapa(f, b, x) THEN "MF_SLOT_TAKEN"
    ELSE IF ~EnHorario(b, x) THEN "MF_SLOT_OUTSIDE_SCHEDULE"
    ELSE "ok"

\* crear_reserva_canonica_v1_core: the members of a request one after the other
\* with the barbers p; the first that fails undoes them all.
InsertarUno(s, p, r, k) ==
    LET c == Miembros[s][k]
        x == Tramo(eleccion[s][k].ini, eleccion[s][k].ini + Largo(c))
        v == Validar(r.filas, p[k], x)
    IN  IF r.motivo # "ok" THEN r
        ELSE IF v # "ok" THEN [motivo |-> v, filas |-> r.filas]
        ELSE [motivo |-> "ok",
              filas  |-> [r.filas EXCEPT ![c] = [estado |-> "en_espera", barbero |-> p[k],
                                                 ini |-> x.ini, fin |-> x.fin]]]
Insertar(s, p) ==
    FoldLeft(LAMBDA r, k : InsertarUno(s, p, r, k), [motivo |-> "ok", filas |-> cita],
             [k \in DOMAIN Miembros[s] |-> k])

\* buildAssignmentAttemptsFromIntegrantes: the barbers of each member in every
\* combination, but for one barber twice at the same start.
Combinaciones(e) ==
    FoldLeft(LAMBDA ps, m :
        LET n == Len(m.barberos)
        IN  [i \in 1 .. Len(ps) * n |->
               Append(ps[((i - 1) \div n) + 1], m.barberos[((i - 1) % n) + 1])],
        << <<>> >>, e)
Intentos(e) ==
    SelectSeq(Combinaciones(e),
              LAMBDA p : \A i, j \in DOMAIN p : i # j /\ p[i] = p[j] => e[i].ini # e[j].ini)

\* crear_reserva_canonica_v1: only a start taken meanwhile leads to the next
\* attempt, any other failure is the answer.
Veredicto(s) ==
    LET I == Intentos(eleccion[s])
        decide == {i \in DOMAIN I : Insertar(s, I[i]).motivo # "MF_SLOT_TAKEN"}
    IN  IF decide = {} THEN [motivo |-> "MF_SLOT_TAKEN", filas |-> cita]
        ELSE Insertar(s, I[Min(decide)])

-----------------------------------------------------------------------------
(* Reservation *)

\* POST /hold up to the call of the SQL: every member has a start that is free.
Elegir(s) ==
    /\ Novedad
    /\ eleccion[s] = <<>>
    /\ \A k \in DOMAIN Miembros[s] : cita[Miembros[s][k]].estado = "nueva"
    /\ LET M == Miembros[s]
           opciones == [k \in DOMAIN M |-> Opciones(cita, Pide[M[k]], Largo(M[k]))]
       IN  \E h \in [DOMAIN M -> 0 .. FinDia] :
             /\ \A k \in DOMAIN M : h[k] \in DOMAIN opciones[k]
             /\ eleccion' = [eleccion EXCEPT ![s] =
                  [k \in DOMAIN M |-> [ini |-> h[k], barberos |-> opciones[k][h[k]]]]]
    /\ UNCHANGED <<calendario, cita, ahora>>

\* The call of the SQL, and the commit or the answer with its error.
Reservar(s) ==
    /\ eleccion[s] # <<>>
    /\ LET v == Veredicto(s) IN cita' = IF v.motivo = "ok" THEN v.filas ELSE cita
    /\ eleccion' = [eleccion EXCEPT ![s] = <<>>]
    /\ UNCHANGED <<calendario, ahora, novedades>>

-----------------------------------------------------------------------------
(* The operation of the chairs *)

\* expireStaleAppointmentReservations, the citas nobody came to.
TrasNoShow(f) ==
    [c \in Citas |-> IF f[c].estado = "confirmada" /\ f[c].ini + Gracia <= ahora
                     THEN [f[c] EXCEPT !.estado = "no_show"] ELSE f[c]]
T == TrasNoShow(cita)

\* A read of the agenda: its only effect is the sweep.
Consultar ==
    /\ T # cita
    /\ cita' = T
    /\ UNCHANGED <<calendario, eleccion, ahora, novedades>>

Permitidas(e) ==
    CASE e \in Pendientes    -> {"confirmada", "cancelada", "expirada"}
      [] e = "confirmada"    -> {"en_salon", "cancelada", "no_show"}
      [] e = "en_salon"      -> {"en_atencion", "no_show"}
      [] e = "en_atencion"   -> {"completada"}
      [] OTHER               -> {}

\* PATCH /:id_cita/estado, which also stands for the payment that confirms a
\* hold and the sweep that lets it lapse.
CambiarEstado(c) ==
    /\ \E e \in Permitidas(T[c].estado) :
         /\ e \in {"en_salon", "completada", "no_show"} => ahora >= T[c].ini - Ventana
         /\ cita' = [T EXCEPT ![c].estado = e]
    /\ UNCHANGED <<calendario, eleccion, ahora, novedades>>

\* POST registrar-llegada, at any hour.
RegistrarLlegada(c) ==
    /\ T[c].estado = "confirmada"
    /\ cita' = [T EXCEPT ![c].estado = "en_salon"]
    /\ UNCHANGED <<calendario, eleccion, ahora, novedades>>

\* Mutant: the delay is passed on to the next cita and no further.
MutantTrasEl(f, c) ==
    {d \in Citas \ {c} : /\ f[d].barbero = f[c].barbero
                         /\ f[d].estado \in PorAtender
                         /\ f[d].ini > f[c].ini
                         /\ f[d].ini <= f[c].fin}
TrasEl(f, c) ==
    {d \in Citas \ {c} : /\ f[d].barbero = f[c].barbero
                         /\ f[d].estado \in PorAtender
                         /\ f[d].ini > f[c].ini}

Cola(f, c) == EnOrden(TrasEl(f, c), LAMBDA d, e : f[d].ini < f[e].ini)

\* propagateOperationalDelay: the later citas of the barber, in their order, each
\* by an UPDATE of its own that the exclusion constraint may refuse.
RetrasarUna(retraso, r, d) ==
    LET x == [r.filas[d] EXCEPT !.ini = @ + retraso, !.fin = @ + retraso]
    IN  IF Solapa([r.filas EXCEPT ![d].estado = "nueva"], x.barbero, x)
        THEN [r EXCEPT !.ok = FALSE]
        ELSE [r EXCEPT !.filas[d] = x]
Retrasar(f, c, retraso) ==
    FoldLeft(LAMBDA r, d : RetrasarUna(retraso, r, d), [ok |-> TRUE, filas |-> f],
             Cola(f, c))

Retraso(c) == Max({0, ahora - T[c].ini})

\* Mutant: an earlier cita of the barber that is still open holds the next one up.
MutantIniciar(c) ==
    /\ T[c].estado = "en_salon"
    /\ \A d \in Citas : T[d].barbero = T[c].barbero /\ T[d].ini < T[c].ini => T[d].estado \notin Activas
    /\ LET f == [T EXCEPT ![c].estado = "en_atencion"]
           r == Retrasar(f, c, Retraso(c))
       IN  IF Retraso(c) < Umbral THEN cita' = f ELSE r.ok /\ cita' = r.filas
    /\ UNCHANGED <<calendario, eleccion, ahora, novedades>>

\* POST iniciar-atencion, with the delay it passes on; it asks neither whether
\* the barber is attending somebody else nor whether the hour has come.
Iniciar(c) ==
    /\ T[c].estado = "en_salon"
    /\ LET f == [T EXCEPT ![c].estado = "en_atencion"]
           r == Retrasar(f, c, Retraso(c))
       IN  IF Retraso(c) < Umbral THEN cita' = f ELSE r.ok /\ cita' = r.filas
    /\ UNCHANGED <<calendario, eleccion, ahora, novedades>>

\* POST finalizar-atencion.
Finalizar(c) ==
    /\ T[c].estado = "en_atencion"
    /\ cita' = [T EXCEPT ![c].estado = "completada"]
    /\ UNCHANGED <<calendario, eleccion, ahora, novedades>>

\* performEmergencyReschedule: the check of the booking pages, which counts the
\* cita itself as busy, and an UPDATE whose fin_at leaves the buffer out.
Mudanzas(f, c) ==
    UNION {LET opciones == Opciones(f, p, Largo(c))
           IN  {[f EXCEPT ![c] =
                   [estado |-> IF @.estado = "en_salon" THEN "confirmada" ELSE @.estado,
                    barbero |-> opciones[t][1], ini |-> t, fin |-> t + Dur[c]]] :
                t \in DOMAIN opciones}
           : p \in Barberos \cup {NADA}}

\* POST /:id_cita/reagendar-emergencia.
Reagendar(c) ==
    /\ Novedad
    /\ T[c].estado \in Activas
    /\ cita' \in Mudanzas(T, c)
    /\ UNCHANGED <<calendario, eleccion, ahora>>

\* POST /reagendar-emergencia/lote, with two items: the citas of one barber, all
\* or none.  The second is checked against the table with the first moved.
ReagendarLote(c, d) ==
    /\ Novedad
    /\ c # d /\ T[c].barbero = T[d].barbero
    /\ {T[c].estado, T[d].estado} \subseteq Activas
    /\ \E f \in Mudanzas(T, c) : cita' \in Mudanzas(f, d)
    /\ UNCHANGED <<calendario, eleccion, ahora>>

-----------------------------------------------------------------------------
(* The calendar *)

\* PUT /sucursales/:id/horarios archives what was published.
PublicarHorario ==
    /\ Novedad
    /\ publicado' \in Publicables \ {publicado}
    /\ UNCHANGED <<propio, excepciones, bloqueos, heredados, cita, eleccion, ahora>>

\* PUT /horarios/:id_empleado replaces the rows of the barber.
PonerHorario(b) ==
    /\ Novedad
    /\ \E filas \in Propios[b] \ {propio[b]} : propio' = [propio EXCEPT ![b] = filas]
    /\ UNCHANGED <<publicado, excepciones, bloqueos, heredados, cita, eleccion, ahora>>

\* POST /bloqueos, and /dias-inhabilitados for one barber; neither looks at the
\* citas already given.
CrearBloqueo(b) ==
    /\ Novedad
    /\ \E x \in Bloqueables :
         bloqueos' = bloqueos \cup {[barbero |-> b, ini |-> x.ini, fin |-> x.fin]}
    /\ bloqueos' # bloqueos
    /\ UNCHANGED <<publicado, propio, excepciones, heredados, cita, eleccion, ahora>>

\* DELETE /bloqueos finds the row in either table.
BorrarBloqueo ==
    /\ Novedad
    /\ \E x \in bloqueos \cup heredados :
         IF x \in bloqueos
         THEN bloqueos' = bloqueos \ {x} /\ UNCHANGED heredados
         ELSE heredados' = heredados \ {x} /\ UNCHANGED bloqueos
    /\ UNCHANGED <<publicado, propio, excepciones, cita, eleccion, ahora>>

\* POST and DELETE /dias-inhabilitados for the branch: the same exception is not
\* entered twice.
CrearExcepcion ==
    /\ Novedad
    /\ \E e \in Excepcionales \ excepciones : excepciones' = excepciones \cup {e}
    /\ UNCHANGED <<publicado, propio, bloqueos, heredados, cita, eleccion, ahora>>

BorrarExcepcion ==
    /\ Novedad
    /\ \E e \in excepciones : excepciones' = excepciones \ {e}
    /\ UNCHANGED <<publicado, propio, bloqueos, heredados, cita, eleccion, ahora>>

PasarTiempo ==
    /\ ahora < MaxTiempo /\ ahora' = ahora + 1
    /\ UNCHANGED <<calendario, cita, eleccion, novedades>>

-----------------------------------------------------------------------------
Next ==
    \/ \E s \in Solicitudes : Elegir(s) \/ Reservar(s)
    \/ Consultar
    \/ \E c \in Citas : \/ CambiarEstado(c) \/ RegistrarLlegada(c)
                        \/ Iniciar(c) \/ Finalizar(c) \/ Reagendar(c)
    \/ \E c, d \in Citas : ReagendarLote(c, d)
    \/ PublicarHorario \/ (\E b \in Barberos : PonerHorario(b) \/ CrearBloqueo(b))
    \/ BorrarBloqueo \/ CrearExcepcion \/ BorrarExcepcion
    \/ PasarTiempo

Spec == Init /\ [][Next]_vars

\* The clock runs, the barber asks again to start a client who waits in the shop
\* and ends every attention he began.
FairSpec ==
    /\ Spec
    /\ WF_vars(PasarTiempo)
    /\ \A c \in Citas : WF_vars(Iniciar(c)) /\ WF_vars(Finalizar(c))

-----------------------------------------------------------------------------
(* Properties *)

Largos == {Largo(c) : c \in Citas}

\* The instants the branch is open for the barber, by what each mode means.
Abierto(b) ==
    LET de(modo) == Instantes(TramosDe(excepciones, modo))
        filas == UNION {Instantes({f}) \ (IF f.almuerzo = NADA THEN {} ELSE Instantes({f.almuerzo}))
                        : f \in Filas(b)}
    IN  IF \E e \in excepciones : e.modo = "cierre_total" THEN {}
        ELSE ((IF de("horario_especial") = {} THEN filas ELSE de("horario_especial"))
              \cup de("apertura_extra")) \ de("cierre_parcial")

\* The free instants next to t without a break, on one side and the other.
Atras(L, t) == Cardinality({u \in L : u < t /\ u .. t \subseteq L \cup {t}})
Adelante(L, t) == Cardinality({u \in L : u >= t /\ t .. u \subseteq L})

\* The stretches of the agenda, merged, cut and trimmed, offer exactly the starts
\* on the step whose every instant is open, free and to come, and that leave
\* nothing too short to sell before or after them.
OfertaExacta ==
    \A b \in Barberos :
        LET L == {u \in Abierto(b) \ Instantes(Ocupado(cita, b)) : u >= Piso(ahora)}
        IN  \A largo \in Largos :
            {s.ini : s \in Oferta(cita, b, largo)}
            = {t \in L : /\ t % Paso = 0 /\ t .. t + largo - 1 \subseteq L
                         /\ Vendible(Atras(L, t))
                         /\ Vendible(Adelante(L, t + largo))}

\* What the pages offer, the SQL function accepts if it is asked at once, though
\* it reads the tables by itself.  It refuses the start of this very minute, what
\* only an exception opened, a service across two rows, and one across a lunch
\* that ends before it begins, which the JavaScript takes for none.
OfertaReservable ==
    \A b \in Barberos, largo \in Largos : \A s \in Oferta(cita, b, largo) :
        LET x == Tramo(s.ini, s.ini + largo)
            v == Validar(cita, b, x)
        IN  /\ v \notin {"MF_SLOT_BLOCKED", "MF_SLOT_TAKEN"}
            /\ v = "MF_RESERVA_INICIO_EN_PASADO" => s.ini = ahora
            /\ v = "MF_SLOT_OUTSIDE_SCHEDULE" =>
                 \/ \E e \in excepciones : /\ e.modo \in {"horario_especial", "apertura_extra"}
                                           /\ \E y \in e.tramos : Chocan(x, y)
                 \/ \E f, g \in Filas(b) : f # g /\ Chocan(x, f) /\ Chocan(x, g)
                 \/ \E f \in Filas(b) : /\ f.almuerzo # NADA /\ Chocan(x, f.almuerzo)
                                        /\ f.almuerzo.fin <= f.almuerzo.ini

\* The public page loses no start of a period, shows none twice, keeps those it
\* recommends apart, and hides one only when it is too near to them or they are as
\* many as it shows.  It recommends the start of a gap if there is one, unless each
\* of them comes more than 470 minutes after the start it prefers: only the two
\* stretches of the night are that far apart.
CuradoFiel ==
    \A largo \in Largos : \A b \in {AutoAsignado(largo)} \ {NADA}, p \in DOMAIN Periodos :
        \A S \in {EnPeriodo(Oferta(cita, b, largo), largo, p)} :
        \A r \in {Exposicion(S, largo, Filas(b))} :
            LET vistos == Range(r.elegidos)
                primero == r.elegidos[1]
                lejos(x, y) == x.ini - y.ini >= Separacion \/ y.ini - x.ini >= Separacion
            IN  /\ vistos \cup r.resto = S /\ vistos \cap r.resto = {}
                /\ Cardinality(vistos) = Len(r.elegidos)
                /\ \A x, y \in vistos : x # y => lejos(x, y)
                /\ \A x \in r.resto : Len(r.elegidos) > Limite
                                      \/ \E y \in vistos : ~lejos(x, y)
                /\ \A x \in S : x.ini = x.hueco.ini =>
                      \/ primero.ini = primero.hueco.ini
                      \/ (x.ini - primero.ini) * Minutos > 470

\* A delay passed on never lets one who waits for a barber overtake another.
\* Whom the barber began early, out of turn, is no longer in the queue: the delay
\* of the one he left behind jumps over him.
ColaEnOrden ==
    [][novedades' = novedades =>
        \A c, d \in Citas :
            /\ {cita[c].estado, cita[d].estado, cita'[c].estado, cita'[d].estado} \subseteq PorAtender
            /\ cita[c].barbero = cita[d].barbero
            /\ cita[c].ini < cita[d].ini
            => cita'[c].ini < cita'[d].ini]_vars

\* What keeps that order: no barber has two live citas at a time, and what a request
\* is about to insert is not in the agenda yet.
DiaInv ==
    /\ JornadaTypeOK /\ novedades \in Nat
    /\ Apartadas(cita)
    /\ \A s \in Solicitudes : \A k \in DOMAIN Miembros[s] :
         eleccion[s] # <<>> => cita[Miembros[s][k]].estado = "nueva"

\* A client who is in the shop does not wait for ever: the start that the next
\* appointment of the barber makes fail succeeds once the delay clears it.
LlegadaSeAtiende ==
    \A c \in Citas : cita[c].estado = "en_salon" ~> cita[c].estado # "en_salon"
=============================================================================
