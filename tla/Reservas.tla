------------------------------ MODULE Reservas ------------------------------
(***************************************************************************)
(* The reservation tables of MasterFade (public.citas, citas_holds and the *)
(* booking rows of payment_intents) and every operation on them up to the  *)
(* charge of an online payment: the reservation RPC, the SQL and the       *)
(* JavaScript expiry sweeps, the release of a public hold, the opening of  *)
(* a payment, the discard and the lapse of a pending group, the            *)
(* confirmation of a group with nothing to pay and the operator's change   *)
(* of state.  PagosPixel continues with the charge.                        *)
(*                                                                         *)
(* A PostgreSQL transaction (or one autocommitted statement) is one step.  *)
(* expireStaleAppointmentReservations runs four autocommitted statements   *)
(* before the transaction of the request that called it, so it is four     *)
(* steps with a crash possible between any two of them.                    *)
(***************************************************************************)
EXTENDS Integers, FiniteSets

CONSTANTS
    Citas,          \* the appointments that may be requested
    Grupos,         \* reservation groups; a group is requested as a whole
    Intents,        \* payment intents, numbered in their order of creation
    GrupoDe,        \* [Citas -> Grupos]
    GrupoIntent,    \* [Intents -> Grupos]
    Ancla,          \* [Grupos -> Citas], the titular's cita (orden_integrante 1)
    ClienteDe,      \* [Grupos -> clients], SinCliente for a guest
    SinCliente,
    Choca,          \* pairs of citas of one barber whose ranges overlap
    Inicio,         \* [Citas -> Nat], inicio_at
    Gratis,         \* groups whose total_hnl is zero
    TTL,            \* hold_duracion_min
    VentanaEstado,  \* STATUS_CHANGE_WINDOW_MINUTES
    GraciaNoShow,   \* AUTO_NO_SHOW_GRACE_MINUTES
    MaxTiempo,      \* bound: the clock stops here
    MaxCaidas       \* bound: crashes of a request between two of its steps

ASSUME ReservasAssumption ==
    /\ GrupoDe \in [Citas -> Grupos]
    /\ Intents \subseteq Nat
    /\ GrupoIntent \in [Intents -> Grupos]
    /\ Ancla \in [Grupos -> Citas]
    /\ \A g \in Grupos : GrupoDe[Ancla[g]] = g
    /\ Choca \subseteq Citas \X Citas
    /\ \A c, d \in Citas : <<c, d>> \in Choca => <<d, c>> \in Choca
    /\ Inicio \in [Citas -> Nat]
    /\ Gratis \subseteq Grupos
    /\ TTL \in Nat \ {0}
    /\ VentanaEstado \in Nat
    /\ GraciaNoShow \in Nat
    /\ MaxTiempo \in Nat
    /\ MaxCaidas \in Nat

VARIABLES
    ahora,        \* clock_timestamp()
    cita,         \* estado_cita_codigo, "ninguna" before the row exists
    hold,         \* estado_hold_codigo of the cita's hold
    vence,        \* expires_at of the cita's hold
    intent,       \* estado_intent_codigo
    intentVence,  \* payment_intents.expires_at
    pagadoAt,     \* payment_intents.paid_at
    barrido,      \* the request that runs the JavaScript sweep
    decidido,     \* a handler that read a group and has not begun its transaction
    caidas        \* crashes so far

tablas == <<cita, hold, vence, intent, intentVence, pagadoAt>>
reservasVars == <<ahora, tablas, barrido, decidido, caidas>>

-----------------------------------------------------------------------------
(* States of the rows *)

Pendientes == {"en_espera", "pendiente_pago"}
Ocupan == {"en_espera", "pendiente_pago", "confirmada", "en_salon", "en_atencion"}
Terminales == {"cancelada", "cancelada_por_cliente", "expirada", "no_show", "completada"}
EstadosCita == {"ninguna"} \cup Ocupan \cup Terminales
EstadosHold == {"ninguno", "activo", "expirado", "consumido", "cancelado"}
IntentsActivos == {"creado", "link_generado", "pendiente_confirmacion"}
EstadosIntent == {"ninguno", "confirmado", "fallido", "expirado"} \cup IntentsActivos
PasosBarrido == {"inactivo", "citas", "intents", "no_show", "listo", "listo_con_fallo"}

SinHora == -1                            \* SQL NULL in a timestamp column
Horas == Nat \cup {SinHora}
BarridoInactivo == [paso |-> "inactivo", ref |-> 0, vencidas |-> {}]
NadaDecidido == [op |-> "nada", grupo |-> {}, citas |-> {}]
Operaciones == {"nada", "vencer", "descartar", "sin_pago"}

CitasDe(g) == {c \in Citas : GrupoDe[c] = g}
IntentsDe(g) == {i \in Intents : GrupoIntent[i] = g}

\* fn_sincronizar_grupo_cita: the trigger keeps the group's state a function
\* of the states of its citas.
EstadoGrupo(g) ==
    IF \A c \in CitasDe(g) : cita[c] = "completada" THEN "completado"
    ELSE IF \A c \in CitasDe(g) : cita[c] \in Terminales THEN "cancelado"
    ELSE "activo"

\* Mutant: the exclusion constraint forgets pendiente_pago.
SinChoqueParcial(S, f) ==
    \A c \in S, d \in Citas :
        <<c, d>> \in Choca => d \notin S /\ f[d] \notin Ocupan \ {"pendiente_pago"}

\* The exclusion constraint ex_citas_solape_barbero, for the citas in S
\* entering an occupying state when the table reads f.
SinChoque(S, f) ==
    \A c \in S, d \in Citas : <<c, d>> \in Choca => d \notin S /\ f[d] \notin Ocupan

-----------------------------------------------------------------------------
(* expirar_reservas_vencidas_v1, over the citas in the scope S *)

PagadaEnVentana(c) ==
    \E i \in IntentsDe(GrupoDe[c]) :
        intent[i] = "confirmado" /\ pagadoAt[i] # SinHora /\ pagadoAt[i] <= vence[c]

Pagadas(S) ==
    {c \in S : /\ hold[c] = "activo"
               /\ \/ cita[c] = "confirmada"
                  \/ cita[c] \in Pendientes /\ PagadaEnVentana(c)}

Vencidas(S) ==
    {c \in S : /\ hold[c] = "activo"
               /\ vence[c] <= ahora
               /\ cita[c] \in Pendientes
               /\ ~PagadaEnVentana(c)}

CitaTrasExpirar(pag, ven) ==
    [c \in Citas |-> IF c \in pag THEN "confirmada"
                     ELSE IF c \in ven THEN "expirada" ELSE cita[c]]

HoldTrasExpirar(pag, ven) ==
    [c \in Citas |-> IF c \in pag THEN "consumido"
                     ELSE IF c \in ven THEN "expirado" ELSE hold[c]]

\* Only intents whose Sale never began lapse; pendiente_confirmacion stays.
IntentTrasExpirar(ven) ==
    [i \in Intents |->
        IF /\ intent[i] \in {"creado", "link_generado"}
           /\ \E c \in ven : GrupoDe[c] = GrupoIntent[i]
        THEN "expirado" ELSE intent[i]]

\* The cron job fn_reconcile_pending_payments.
ExpirarVencidas ==
    LET pag == Pagadas(Citas)
        ven == Vencidas(Citas)
    IN  /\ cita' = CitaTrasExpirar(pag, ven)
        /\ hold' = HoldTrasExpirar(pag, ven)
        /\ intent' = IntentTrasExpirar(ven)
        /\ UNCHANGED <<ahora, vence, intentVence, pagadoAt, barrido, decidido, caidas>>

-----------------------------------------------------------------------------
(* crear_reserva_canonica_v1 *)

MismoCliente(g) ==
    {c \in Citas : ClienteDe[g] # SinCliente /\ ClienteDe[GrupoDe[c]] = ClienteDe[g]}

\* mf1b1_expirar_reservas_cliente_v1: unlike the general sweep it does not
\* look for a confirmed payment.
VencidasCliente(g) ==
    {c \in MismoCliente(g) : /\ hold[c] = "activo"
                             /\ vence[c] <= ahora
                             /\ cita[c] \in Pendientes
                             /\ EstadoGrupo(GrupoDe[c]) = "activo"}

\* Mutant: only a group that has reached the payment counts as pending.
PendienteExistenteSoloPago(g) ==
    \E c \in MismoCliente(g) : /\ cita[c] = "pendiente_pago"
                               /\ hold[c] = "activo"
                               /\ vence[c] > ahora

\* The wrapper's MF_RESERVA_PENDIENTE_EXISTENTE check.
PendienteExistente(g) ==
    \E c \in MismoCliente(g) : /\ cita[c] \in Pendientes
                               /\ hold[c] = "activo"
                               /\ vence[c] > ahora
                               /\ EstadoGrupo(GrupoDe[c]) = "activo"

\* uq_citas_holds_usuario_activo: the hold of a group of one member carries the
\* user, and a user has at most one active hold of that kind, lapsed or not.
\* f is the table of holds after the sweeps.
Individual(g) == CitasDe(g) = {Ancla[g]}
HoldUnicoLibre(g, f) ==
    Individual(g) => \A c \in MismoCliente(g) : Individual(GrupoDe[c]) => f[c] # "activo"

CrearReserva(g) ==
    LET nuevas == CitasDe(g)
        cliente == VencidasCliente(g)
        ambito == MismoCliente(g)
                    \cup {d \in Citas : \E c \in nuevas : <<c, d>> \in Choca}
        pag == Pagadas(ambito \ cliente)
        ven == cliente \cup Vencidas(ambito)
        tras == CitaTrasExpirar(pag, ven)
        holdTras == HoldTrasExpirar(pag, ven)
    IN  /\ \A c \in nuevas : cita[c] = "ninguna" /\ ahora < Inicio[c]
        /\ ~PendienteExistente(g)
        /\ HoldUnicoLibre(g, holdTras)
        /\ SinChoque(nuevas, tras)
        /\ cita' = [c \in Citas |-> IF c \in nuevas THEN "en_espera" ELSE tras[c]]
        /\ hold' = [c \in Citas |-> IF c \in nuevas THEN "activo" ELSE holdTras[c]]
        /\ vence' = [c \in Citas |-> IF c \in nuevas THEN ahora + TTL ELSE vence[c]]
        /\ intent' = IntentTrasExpirar(ven)
        /\ UNCHANGED <<ahora, intentVence, pagadoAt, barrido, decidido, caidas>>

-----------------------------------------------------------------------------
(* expireStaleAppointmentReservations: four autocommitted statements *)

BarridoHolds ==
    LET ven == {c \in Citas : hold[c] = "activo" /\ vence[c] <= ahora}
    IN  /\ barrido.paso = "inactivo"
        /\ hold' = [c \in Citas |-> IF c \in ven THEN "expirado" ELSE hold[c]]
        /\ barrido' = [paso |-> "citas", ref |-> ahora, vencidas |-> ven]
        /\ UNCHANGED <<ahora, cita, vence, intent, intentVence, pagadoAt, decidido, caidas>>

\* Mutant: the second statement trusts the list read by the first.
BarridoCitasSinFiltro ==
    /\ barrido.paso = "citas"
    /\ cita' = [c \in Citas |-> IF c \in barrido.vencidas THEN "expirada" ELSE cita[c]]
    /\ barrido' = [barrido EXCEPT !.paso = "intents"]
    /\ UNCHANGED <<ahora, hold, vence, intent, intentVence, pagadoAt, decidido, caidas>>

\* Mutant: HOLD_EXPIRABLE_APPOINTMENT_STATES without en_espera.
BarridoCitasSoloPago ==
    /\ barrido.paso = "citas"
    /\ cita' = [c \in Citas |-> IF c \in barrido.vencidas /\ cita[c] = "pendiente_pago"
                                THEN "expirada" ELSE cita[c]]
    /\ barrido' = [barrido EXCEPT !.paso = "intents"]
    /\ UNCHANGED <<ahora, hold, vence, intent, intentVence, pagadoAt, decidido, caidas>>

BarridoCitas ==
    /\ barrido.paso = "citas"
    /\ cita' = [c \in Citas |-> IF c \in barrido.vencidas /\ cita[c] \in Pendientes
                                THEN "expirada" ELSE cita[c]]
    /\ barrido' = [barrido EXCEPT !.paso = "intents"]
    /\ UNCHANGED <<ahora, hold, vence, intent, intentVence, pagadoAt, decidido, caidas>>

\* ACTIVE_PAYMENT_INTENT_STATES includes pendiente_confirmacion. The provider
\* is then told to cancel the intents; that call changes no table.
BarridoIntents ==
    /\ barrido.paso = "intents"
    /\ intent' = [i \in Intents |->
                    IF /\ intent[i] \in IntentsActivos
                       /\ \/ intentVence[i] <= barrido.ref
                          \/ Ancla[GrupoIntent[i]] \in barrido.vencidas
                    THEN "expirado" ELSE intent[i]]
    /\ barrido' = [barrido EXCEPT !.paso = "no_show"]
    /\ UNCHANGED <<ahora, cita, hold, vence, intentVence, pagadoAt, decidido, caidas>>

BarridoNoShow ==
    /\ barrido.paso = "no_show"
    /\ cita' = [c \in Citas |->
                  IF cita[c] = "confirmada" /\ Inicio[c] + GraciaNoShow <= barrido.ref
                  THEN "no_show" ELSE cita[c]]
    /\ barrido' = [BarridoInactivo EXCEPT !.paso = "listo"]
    /\ UNCHANGED <<ahora, hold, vence, intent, intentVence, pagadoAt, decidido, caidas>>

\* A failed statement ends the request, unless the handler runs the sweep
\* through expireReservationsBestEffort and goes on.
BarridoCae ==
    /\ barrido.paso \in {"inactivo", "citas", "intents", "no_show"}
    /\ caidas < MaxCaidas
    /\ caidas' = caidas + 1
    /\ barrido' \in {BarridoInactivo, [BarridoInactivo EXCEPT !.paso = "listo_con_fallo"]}
    /\ UNCHANGED <<ahora, tablas, decidido>>

\* The read-only endpoints that call the sweep.
SoloLectura ==
    /\ barrido.paso \in {"listo", "listo_con_fallo"}
    /\ barrido' = BarridoInactivo
    /\ UNCHANGED <<ahora, tablas, decidido, caidas>>

-----------------------------------------------------------------------------
(* Transactions of the requests that ran the sweep *)

\* DELETE /v1/public/citas/hold/:id_grupo_cita refuses a group with a cita in
\* any other state.
Liberables == {"en_espera", "cancelada", "cancelada_por_cliente", "expirada"}

LiberarHold(g) ==
    /\ barrido.paso = "listo"
    /\ barrido' = BarridoInactivo
    /\ \A c \in CitasDe(g) : /\ cita[c] \in Liberables
                             /\ hold[c] # "consumido"
    /\ cita' = [c \in Citas |-> IF GrupoDe[c] = g /\ cita[c] = "en_espera"
                                THEN "cancelada" ELSE cita[c]]
    /\ hold' = [c \in Citas |-> IF GrupoDe[c] = g /\ hold[c] = "activo"
                                THEN "expirado" ELSE hold[c]]
    /\ UNCHANGED <<ahora, vence, intent, intentVence, pagadoAt, decidido, caidas>>

\* APPOINTMENT_STATE_TRANSITIONS
Transiciones ==
    [en_espera      |-> {"confirmada", "cancelada", "expirada"},
     pendiente_pago |-> {"confirmada", "cancelada", "expirada"},
     confirmada     |-> {"en_salon", "cancelada", "no_show"},
     en_salon       |-> {"en_atencion", "no_show"},
     en_atencion    |-> {"completada"}]

EstadoHoldAlCerrar(destino) == IF destino = "expirada" THEN "expirado" ELSE "cancelado"

\* PATCH /v1/admin/citas/:id_cita/estado
EstadoAdmin(c, destino) ==
    /\ barrido.paso = "listo"
    /\ barrido' = BarridoInactivo
    /\ cita[c] \in DOMAIN Transiciones
    /\ destino \in Transiciones[cita[c]]
    /\ destino \in {"en_salon", "completada", "no_show"} => ahora + VentanaEstado >= Inicio[c]
    /\ cita' = [cita EXCEPT ![c] = destino]
    /\ hold' = IF hold[c] = "activo" /\ destino \in {"cancelada", "expirada"}
               THEN [hold EXCEPT ![c] = EstadoHoldAlCerrar(destino)]
               ELSE hold
    /\ intent' = [i \in Intents |->
                    IF /\ destino \in {"cancelada", "expirada"}
                       /\ Ancla[GrupoIntent[i]] = c
                       /\ intent[i] \in IntentsActivos
                    THEN "expirado" ELSE intent[i]]
    /\ UNCHANGED <<ahora, vence, intentVence, pagadoAt, decidido, caidas>>

-----------------------------------------------------------------------------
(* Handlers that read the group first and begin their transaction later *)

Decide(op, g, S) ==
    /\ decidido = NadaDecidido
    /\ decidido' = [op |-> op, grupo |-> {g}, citas |-> S]

PendientesDePago(g) == {c \in CitasDe(g) : cita[c] = "pendiente_pago"}

\* The most recent intent of the group, if it is still open
IntentVigente(g) ==
    \E i \in IntentsDe(g) :
        /\ intent[i] \in IntentsActivos
        /\ intentVence[i] > ahora
        /\ \A j \in IntentsDe(g) : intent[j] # "ninguno" => j <= i

\* buildPendingGroupPayload looks at the first pending cita, and the intents
\* hang from the titular's.
GrupoVigente(g) ==
    /\ cita[Ancla[g]] = "pendiente_pago"
    /\ hold[Ancla[g]] = "activo"
    /\ vence[Ancla[g]] > ahora
    /\ IntentVigente(g)

\* GET /v1/citas/pendiente and POST /pendiente/:id/retomar find the group lapsed.
DecidirVencer(g) ==
    /\ barrido.paso \in {"listo", "listo_con_fallo"}
    /\ barrido' = BarridoInactivo
    /\ ClienteDe[g] # SinCliente
    /\ PendientesDePago(g) # {}
    /\ ~GrupoVigente(g)
    /\ Decide("vencer", g, {})
    /\ UNCHANGED <<ahora, tablas, caidas>>

\* markPendingGroupExpired
VencerPendiente(g) ==
    /\ decidido.op = "vencer" /\ g \in decidido.grupo
    /\ decidido' = NadaDecidido
    /\ cita' = [c \in Citas |-> IF GrupoDe[c] = g /\ cita[c] \in Pendientes
                                THEN "expirada" ELSE cita[c]]
    /\ hold' = [c \in Citas |-> IF GrupoDe[c] = g /\ hold[c] = "activo"
                                THEN "expirado" ELSE hold[c]]
    /\ intent' = [i \in Intents |-> IF GrupoIntent[i] = g /\ intent[i] \in IntentsActivos
                                    THEN "expirado" ELSE intent[i]]
    /\ UNCHANGED <<ahora, vence, intentVence, pagadoAt, barrido, caidas>>

\* POST /v1/citas/pendiente/:id/descartar, which runs no sweep.
DecidirDescartar(g) ==
    /\ ClienteDe[g] # SinCliente
    /\ PendientesDePago(g) # {}
    /\ Decide("descartar", g, {})
    /\ UNCHANGED <<ahora, tablas, barrido, caidas>>

DescartarPendiente(g) ==
    /\ decidido.op = "descartar" /\ g \in decidido.grupo
    /\ decidido' = NadaDecidido
    /\ cita' = [c \in Citas |-> IF GrupoDe[c] = g /\ cita[c] \in Pendientes
                                THEN "cancelada_por_cliente" ELSE cita[c]]
    /\ hold' = [c \in Citas |-> IF GrupoDe[c] = g /\ hold[c] # "consumido"
                                THEN "expirado" ELSE hold[c]]
    /\ intent' = [i \in Intents |-> IF GrupoIntent[i] = g /\ intent[i] \in IntentsActivos
                                    THEN "expirado" ELSE intent[i]]
    /\ UNCHANGED <<ahora, vence, intentVence, pagadoAt, barrido, caidas>>

\* POST /v1/citas/hold/:id_grupo_cita/confirmar-sin-pago reads the group ...
DecidirSinPago(g) ==
    LET porConfirmar == {c \in CitasDe(g) : cita[c] # "confirmada"}
    IN  /\ barrido.paso \in {"listo", "listo_con_fallo"}
        /\ barrido' = BarridoInactivo
        /\ g \in Gratis /\ ClienteDe[g] # SinCliente
        /\ porConfirmar # {}
        /\ \A c \in porConfirmar : hold[c] = "activo" /\ vence[c] > ahora
        /\ Decide("sin_pago", g, porConfirmar)
        /\ UNCHANGED <<ahora, tablas, caidas>>

\* ... and confirmAppointmentsWithoutPayment confirms what it read as pending.
ConfirmarSinPago(g) ==
    /\ decidido.op = "sin_pago" /\ g \in decidido.grupo
    /\ decidido' = NadaDecidido
    /\ \A c \in decidido.citas : cita[c] \in Pendientes \cup {"confirmada"}
    /\ cita' = [c \in Citas |-> IF c \in decidido.citas THEN "confirmada" ELSE cita[c]]
    /\ hold' = [c \in Citas |-> IF c \in decidido.citas /\ hold[c] = "activo"
                                THEN "consumido" ELSE hold[c]]
    /\ intent' = [i \in Intents |->
                    IF /\ Ancla[GrupoIntent[i]] \in decidido.citas
                       /\ intent[i] \in IntentsActivos
                    THEN "expirado" ELSE intent[i]]
    /\ UNCHANGED <<ahora, vence, intentVence, pagadoAt, barrido, caidas>>

\* The handler dies, or its transaction is refused and rolled back.
DecisionCae ==
    /\ decidido # NadaDecidido
    /\ decidido' = NadaDecidido
    /\ UNCHANGED <<ahora, tablas, barrido, caidas>>

-----------------------------------------------------------------------------
(* POST /v1/public/pagos/crear-intent, on the tables *)

\* assertPublicGroupPayable and resolveGroupExpiresAt
Pagable(g) ==
    \A c \in CitasDe(g) : cita[c] \in Pendientes /\ hold[c] = "activo" /\ vence[c] > ahora

\* resolveGroupExpiresAt, and the min(expires_at) of the SQL functions, over a
\* table f of expiry times
EsMinimo(v, g, f) == \A c \in CitasDe(g) : v <= f[c]

\* An open intent is returned instead of a new one.
IntentAbierto(j) == intent[j] \in IntentsActivos /\ intentVence[j] > ahora

\* Phase A inserts the intent, due with the first of the holds.
InsertarIntent(i) ==
    LET g == GrupoIntent[i]
    IN  /\ intent[i] = "ninguno"
        /\ \A j \in IntentsDe(g) : j < i => intent[j] # "ninguno"
        /\ Pagable(g) /\ g \notin Gratis
        /\ intent' = [intent EXCEPT ![i] = "creado"]
        /\ \E c \in CitasDe(g) : /\ EsMinimo(vence[c], g, vence)
                                /\ intentVence' = [intentVence EXCEPT ![i] = vence[c]]
        /\ UNCHANGED <<ahora, cita, hold, vence, pagadoAt, barrido, decidido, caidas>>

\* isRevalidatedPaymentGroupValid
Revalidado(i) ==
    Pagable(GrupoIntent[i]) /\ intent[i] = "creado" /\ intentVence[i] > ahora

\* Phase B, activatePixelPayDirectIntent: the group waits for its payment.
EsperarPago(i) ==
    /\ Revalidado(i)
    /\ intent' = [intent EXCEPT ![i] = "link_generado"]
    /\ cita' = [c \in Citas |-> IF GrupoDe[c] = GrupoIntent[i] /\ cita[c] = "en_espera"
                                THEN "pendiente_pago" ELSE cita[c]]
    /\ UNCHANGED <<ahora, hold, vence, intentVence, pagadoAt, barrido, decidido, caidas>>

AbrirPago(i) ==
    \/ InsertarIntent(i) /\ ~\E j \in IntentsDe(GrupoIntent[i]) : IntentAbierto(j)
    \/ EsperarPago(i)

-----------------------------------------------------------------------------
Tic ==
    /\ ahora < MaxTiempo
    /\ ahora' = ahora + 1
    /\ UNCHANGED <<tablas, barrido, decidido, caidas>>

ReservasInit ==
    /\ ahora = 0
    /\ cita = [c \in Citas |-> "ninguna"]
    /\ hold = [c \in Citas |-> "ninguno"]
    /\ vence = [c \in Citas |-> 0]
    /\ intent = [i \in Intents |-> "ninguno"]
    /\ intentVence = [i \in Intents |-> 0]
    /\ pagadoAt = [i \in Intents |-> SinHora]
    /\ barrido = BarridoInactivo
    /\ decidido = NadaDecidido
    /\ caidas = 0

Barrer == BarridoHolds \/ BarridoCitas \/ BarridoIntents \/ BarridoNoShow
             \/ BarridoCae \/ SoloLectura

OperarGrupo(g) ==
    \/ CrearReserva(g) \/ LiberarHold(g)
    \/ DecidirVencer(g) \/ VencerPendiente(g)
    \/ DecidirDescartar(g) \/ DescartarPendiente(g)
    \/ DecidirSinPago(g) \/ ConfirmarSinPago(g)

\* What a payment does not do
ReservasNext ==
    \/ Tic
    \/ ExpirarVencidas
    \/ Barrer
    \/ DecisionCae
    \/ \E g \in Grupos : OperarGrupo(g)
    \/ \E c \in Citas, e \in EstadosCita : EstadoAdmin(c, e)

ReservasFairness ==
    /\ WF_reservasVars(Tic)
    /\ WF_reservasVars(ExpirarVencidas)
    /\ WF_reservasVars(BarridoCitas \/ BarridoIntents \/ BarridoNoShow)

\* Every payment is opened and then abandoned.
NextSinCobro == ReservasNext \/ \E i \in Intents : AbrirPago(i)

Spec == ReservasInit /\ [][NextSinCobro]_reservasVars

FairSpec == Spec /\ ReservasFairness

-----------------------------------------------------------------------------
(* Properties *)

\* Every column of the reservation tables, and the state of the requests in
\* flight, holds a value of its domain.
ReservasTypeOK ==
    /\ ahora \in Nat
    /\ cita \in [Citas -> EstadosCita]
    /\ hold \in [Citas -> EstadosHold]
    /\ vence \in [Citas -> Nat]
    /\ intent \in [Intents -> EstadosIntent]
    /\ intentVence \in [Intents -> Nat]
    /\ pagadoAt \in [Intents -> Horas]
    /\ barrido \in [paso : PasosBarrido, ref : Nat, vencidas : SUBSET Citas]
    /\ decidido \in [op : Operaciones, grupo : SUBSET Grupos, citas : SUBSET Citas]
    /\ caidas \in Nat

\* No barber is booked twice: two citas whose ranges overlap never occupy the
\* barber together, whatever sweeps, releases and confirmations interleave.
SinSolape ==
    \A c, d \in Citas : <<c, d>> \in Choca => cita[c] \notin Ocupan \/ cita[d] \notin Ocupan

ReservaVigente(c) == cita[c] \in Pendientes /\ hold[c] = "activo" /\ vence[c] > ahora

\* A client never has two groups with a live pending reservation at once
\* (MF_RESERVA_PENDIENTE_EXISTENTE), although holds are extended, expired and
\* released by other transactions.
UnaPendientePorCliente ==
    \A c, d \in Citas :
        /\ ReservaVigente(c) /\ ReservaVigente(d)
        /\ ClienteDe[GrupoDe[c]] # SinCliente
        /\ ClienteDe[GrupoDe[c]] = ClienteDe[GrupoDe[d]]
        => GrupoDe[c] = GrupoDe[d]

\* A consumed hold is never taken back, released or expired.
HoldConsumidoFinal ==
    [][\A c \in Citas : hold[c] = "consumido" => hold'[c] = "consumido"]_reservasVars

\* The first statement of a sweep expired the hold and the second never ran:
\* every way to expire a cita starts from an active hold.
Varada(c) ==
    /\ caidas > 0
    /\ hold[c] = "expirado" /\ c \notin barrido.vencidas

\* An abandoned reservation frees its slot: once the hold is due, the cita
\* leaves the pending states, unless a sweep that failed in between expired the
\* hold and left the cita. No other cita suffers from a failed request.
SlotLiberado ==
    \A c \in Citas :
        (cita[c] \in Pendientes /\ vence[c] <= ahora) ~> (cita[c] \notin Pendientes \/ Varada(c))

\* The confirmation of a group with nothing to pay finds every hold of what it
\* confirms active and not yet due.
SinPagoConHoldVigente ==
    [][\A c \in Citas :
          c \in decidido.citas /\ decidido' = NadaDecidido
          /\ cita[c] \in Pendientes /\ cita'[c] = "confirmada"
          => ReservaVigente(c)]_reservasVars

=============================================================================
