--------------------------- MODULE CompraMembresia ---------------------------
(***************************************************************************)
(* Purchase of membership plans by one client: an order per attempt to buy *)
(* (its idempotency key), one payment intent per order, the PixelPay Sale, *)
(* the durable approval, the activation of the subscription and its        *)
(* recovery from POST /planes/pago-intent/:id/estado.                      *)
(*                                                                         *)
(* A Sale is a transaction that claims the intent, the call to the         *)
(* provider, and one or two more transactions; its process may die between *)
(* any two of them.  Each transaction holds FOR UPDATE the intent and the  *)
(* order it reads, so it is one step.  Orders are numbered in the order in *)
(* which they are made: all of them live thirty minutes, and the intent of *)
(* an order expires with it, so they also expire in that order.            *)
(***************************************************************************)
EXTENDS Naturals

CONSTANTS
    MaxOrdenes,     \* orders the client may make: they are 1..MaxOrdenes
    SucursalDe,     \* [1..MaxOrdenes -> branch]: the branch of the offer
    MaxCaidas       \* processes of a Sale that may die

ASSUME CompraAssumption ==
    /\ MaxOrdenes \in Nat /\ MaxCaidas \in Nat
    /\ DOMAIN SucursalDe = 1..MaxOrdenes

VARIABLES
    orden,          \* membership_purchase_orders.estado_orden_codigo
    vigente,        \* expires_at of the order, and of its intent, is in the future
    intento,        \* payment_intents.estado_intent_codigo
    venta,          \* where the process of the Sale is
    cobrado,        \* the provider charged the card
    evidencia,      \* membership.pixelpay.approved_verified: none, in time or late
    suscripcion,    \* the subscription that the order bought
    altas,          \* subscriptions inserted for the order
    cuenta,         \* the client's account may receive benefits
    caidas

vars == <<orden, vigente, intento, venta, cobrado, evidencia, suscripcion, altas,
          cuenta, caidas>>

Ordenes == 1..MaxOrdenes
MismaSucursal(o, p) == SucursalDe[o] = SucursalDe[p]

\* ACTIVE_PAYMENT_INTENT_STATES; an intent of a membership is never "creado"
IntentsActivos == {"link_generado", "pendiente_confirmacion"}
EnVenta == {"cobrando", "aprobada", "incierta", "rechazada", "verificada"}

Init ==
    /\ orden = [o \in Ordenes |-> "ninguna"]
    /\ vigente = [o \in Ordenes |-> FALSE]
    /\ intento = [o \in Ordenes |-> "ninguno"]
    /\ venta = [o \in Ordenes |-> "libre"]
    /\ cobrado = [o \in Ordenes |-> FALSE]
    /\ evidencia = [o \in Ordenes |-> "no"]
    /\ suscripcion = [o \in Ordenes |-> "ninguna"]
    /\ altas = [o \in Ordenes |-> 0]
    /\ cuenta = "activa"
    /\ caidas = 0

-----------------------------------------------------------------------------
(* The order and its intent *)

\* createMembershipPurchaseOrder.  A call that repeats the key of an order gets
\* that order, or a conflict, and changes nothing.
CrearOrden(o) ==
    /\ cuenta = "activa"
    /\ orden[o] = "ninguna" /\ \A p \in 1..(o - 1) : orden[p] # "ninguna"
    /\ orden' = [orden EXCEPT ![o] = "pendiente_pago"]
    /\ vigente' = [vigente EXCEPT ![o] = TRUE]
    /\ UNCHANGED <<intento, venta, cobrado, evidencia, suscripcion, altas, cuenta, caidas>>

\* createMembershipOrderPaymentIntent.  The intent of an order that has one is
\* returned as it is.
CrearIntento(o) ==
    /\ cuenta = "activa"
    /\ orden[o] = "pendiente_pago" /\ vigente[o]
    /\ intento[o] = "ninguno"
    /\ intento' = [intento EXCEPT ![o] = "link_generado"]
    /\ UNCHANGED <<orden, vigente, venta, cobrado, evidencia, suscripcion, altas, cuenta, caidas>>

\* now() passes expires_at
PasarVigencia(o) ==
    /\ vigente[o] /\ \A p \in 1..(o - 1) : ~vigente[p]
    /\ vigente' = [vigente EXCEPT ![o] = FALSE]
    /\ UNCHANGED <<orden, intento, venta, cobrado, evidencia, suscripcion, altas, cuenta, caidas>>

\* The sweep expires every open intent past its time, the ones with a Sale in
\* flight or in doubt included.  It leaves the orders as they are.
VencidosAhora == {o \in Ordenes : intento[o] \in IntentsActivos /\ ~vigente[o]}
Barrer ==
    /\ VencidosAhora # {}
    /\ intento' = [o \in Ordenes |-> IF o \in VencidosAhora THEN "expirado" ELSE intento[o]]
    /\ UNCHANGED <<orden, vigente, venta, cobrado, evidencia, suscripcion, altas, cuenta, caidas>>

-----------------------------------------------------------------------------
(* processMembershipPixelPaySale *)

\* Mutant: the lock of the branch is taken, its pending payments are not looked up.
SinPendienteSinBuscar(o) == TRUE

\* No other payment of the client in the branch waits for its result.
SinPendienteEnSucursal(o) ==
    \A p \in Ordenes \ {o} :
        MismaSucursal(o, p) => intento[p] # "pendiente_confirmacion"

\* The claim
VentaReclamar(o) ==
    /\ cuenta = "activa"
    /\ intento[o] = "link_generado" /\ vigente[o]
    /\ SinPendienteEnSucursal(o)
    /\ intento' = [intento EXCEPT ![o] = "pendiente_confirmacion"]
    /\ venta' = [venta EXCEPT ![o] = "cobrando"]
    /\ UNCHANGED <<orden, vigente, cobrado, evidencia, suscripcion, altas, cuenta, caidas>>

\* The provider's answer: a timeout and an answer that does not verify are both
\* uncertain, and the card may have been charged.
VentaResponde(o, r) ==
    /\ venta[o] = "cobrando"
    /\ venta' = [venta EXCEPT ![o] = r]
    /\ \E c \in BOOLEAN : /\ r = "aprobada" => c
                          /\ r = "rechazada" => ~c
                          /\ cobrado' = [cobrado EXCEPT ![o] = c]
    /\ UNCHANGED <<orden, vigente, intento, evidencia, suscripcion, altas, cuenta, caidas>>

\* Mutant: an uncertain answer fails the intent.
EstadoDudaFallida(r) == IF r = "nunca" THEN "pendiente_confirmacion" ELSE "fallido"

\* Only a definitive refusal fails the intent.
EstadoTrasFallo(r) == IF r = "incierta" THEN "pendiente_confirmacion" ELSE "fallido"

\* Mutant: the answer is written over whatever state the intent has.
PuedeCerrarSiempre(o) == TRUE

\* The answer is written only on an intent that still waits for it.
PuedeCerrar(o) == intento[o] = "pendiente_confirmacion"

\* A Sale that was not approved
VentaCerrar(o) ==
    /\ venta[o] \in {"incierta", "rechazada"}
    /\ venta' = [venta EXCEPT ![o] = "libre"]
    /\ intento' = [intento EXCEPT ![o] =
                      IF PuedeCerrar(o) THEN EstadoTrasFallo(venta[o]) ELSE @]
    /\ UNCHANGED <<orden, vigente, cobrado, evidencia, suscripcion, altas, cuenta, caidas>>

\* persistVerifiedMembershipPixelPayEvidence: the event is stored, whatever the
\* state of the intent, with the time at which it was received.
VentaVerificar(o) ==
    /\ venta[o] = "aprobada"
    /\ venta' = [venta EXCEPT ![o] = "verificada"]
    /\ evidencia' = [evidencia EXCEPT ![o] = IF vigente[o] THEN "a_tiempo" ELSE "tarde"]
    /\ UNCHANGED <<orden, vigente, intento, cobrado, suscripcion, altas, cuenta, caidas>>

-----------------------------------------------------------------------------
(* confirmMembershipPaymentAndActivateSubscription *)

\* Mutant: an intent that the sweep expired cannot be recovered.
ConfirmableSinVencidos(o, recupera) ==
    /\ cuenta = "activa" /\ orden[o] \notin {"pagada", "cancelada"}
    /\ intento[o] \in IntentsActivos

\* The owner may receive benefits, the order was neither paid nor cancelled,
\* and its intent is open, or expired when an approval is being recovered.
Confirmable(o, recupera) ==
    /\ cuenta = "activa" /\ orden[o] \notin {"pagada", "cancelada"}
    /\ \/ intento[o] \in IntentsActivos
       \/ recupera /\ intento[o] = "expirado"

\* uq_subscriptions_cliente_activa: the insertion fails, and the transaction
\* with it, while the client has an active plan in another branch.
SinPlanEnOtraSucursal(o) ==
    \A p \in Ordenes : suscripcion[p] = "activa" => MismaSucursal(o, p)

\* The order is paid, the plan of the same branch is replaced, the new one is
\* inserted, the intent is confirmed and the payment is recorded.
Activar(o) ==
    /\ SinPlanEnOtraSucursal(o)
    /\ orden' = [orden EXCEPT ![o] = "pagada"]
    /\ suscripcion' = [p \in Ordenes |->
                          IF p = o THEN "activa"
                          ELSE IF suscripcion[p] = "activa" /\ MismaSucursal(o, p) THEN "cancelada"
                          ELSE suscripcion[p]]
    /\ altas' = [altas EXCEPT ![o] = @ + 1]
    /\ intento' = [intento EXCEPT ![o] = "confirmado"]

\* Mutant: the trigger takes the payment for one made in time.
PagoSiempreATiempo(o) == TRUE

\* The row of payments gets paid_at = now(); its trigger marks it late after
\* the intent's expires_at, and the activation is rolled back.
PagoATiempo(o) == vigente[o]

\* The last transaction of the Sale.  An error, and a conflict with the deletion
\* of the account, leave the payment to the recovery.
VentaConfirmar(o) ==
    /\ venta[o] = "verificada"
    /\ venta' = [venta EXCEPT ![o] = "libre"]
    /\ \/ Confirmable(o, FALSE) /\ PagoATiempo(o) /\ Activar(o)
       \/ UNCHANGED <<orden, suscripcion, altas, intento>>
    /\ UNCHANGED <<vigente, cobrado, evidencia, cuenta, caidas>>

\* Mutant: an approval verified after the expiry is good enough.
AprobacionCualquiera(o) == evidencia[o] # "no"

\* The stored approval, verified within the life of the order
AprobacionDurable(o) == evidencia[o] = "a_tiempo"

\* reconcileMembershipPixelPayStatus.  The client asks for the state of the
\* payment; with a durable approval the plan is activated, and without one
\* nothing changes: there is no session of the provider to ask about, for it
\* is stored only together with the approval.
Recuperar(o) ==
    /\ AprobacionDurable(o)
    /\ Confirmable(o, TRUE) /\ Activar(o)
    /\ UNCHANGED <<vigente, venta, cobrado, evidencia, cuenta, caidas>>

-----------------------------------------------------------------------------
(* The plan's end, the account's end, and crashes *)

\* ensureSubscriptionLifecycle, run by the next reservation or visit: the plan
\* is past its end or its services are used up.
VencerPlan(o) ==
    /\ suscripcion[o] = "activa"
    /\ suscripcion' = [suscripcion EXCEPT ![o] = "vencida"]
    /\ UNCHANGED <<orden, vigente, intento, venta, cobrado, evidencia, altas, cuenta, caidas>>

\* cancelMembership, cancelMembershipBySubscription
CancelarPlan(o) ==
    /\ cuenta = "activa" /\ suscripcion[o] = "activa"
    /\ suscripcion' = [suscripcion EXCEPT ![o] = "cancelada"]
    /\ UNCHANGED <<orden, vigente, intento, venta, cobrado, evidencia, altas, cuenta, caidas>>

\* The deletion of the account begins: refused while an intent is open, it
\* cancels the plans and the unpaid orders.
EliminarCuenta ==
    /\ cuenta = "activa"
    /\ \A o \in Ordenes : intento[o] \notin IntentsActivos
    /\ cuenta' = "eliminada"
    /\ orden' = [o \in Ordenes |-> IF orden[o] = "pendiente_pago" THEN "cancelada" ELSE orden[o]]
    /\ suscripcion' = [o \in Ordenes |->
                          IF suscripcion[o] = "activa" THEN "cancelada" ELSE suscripcion[o]]
    /\ UNCHANGED <<vigente, intento, venta, cobrado, evidencia, altas, caidas>>

\* The process of a Sale dies; a call in flight may have charged the card.
Caer(o) ==
    /\ caidas < MaxCaidas /\ venta[o] \in EnVenta
    /\ caidas' = caidas + 1
    /\ venta' = [venta EXCEPT ![o] = "libre"]
    /\ \E c \in BOOLEAN : /\ venta[o] # "cobrando" => c = cobrado[o]
                          /\ cobrado' = [cobrado EXCEPT ![o] = c]
    /\ UNCHANGED <<orden, vigente, intento, evidencia, suscripcion, altas, cuenta>>

Next ==
    \/ \E o \in Ordenes :
          \/ CrearOrden(o) \/ CrearIntento(o) \/ PasarVigencia(o)
          \/ VentaReclamar(o)
          \/ \E r \in {"aprobada", "incierta", "rechazada"} : VentaResponde(o, r)
          \/ VentaCerrar(o) \/ VentaVerificar(o) \/ VentaConfirmar(o)
          \/ Recuperar(o) \/ VencerPlan(o) \/ CancelarPlan(o) \/ Caer(o)
    \/ Barrer \/ EliminarCuenta

CompraSpec == Init /\ [][Next]_vars

\* The client keeps asking for the state of a payment, and a plan comes to an
\* end: its time or its services run out.
CompraFairSpec ==
    CompraSpec /\ \A o \in Ordenes : WF_vars(Recuperar(o)) /\ WF_vars(VencerPlan(o))

-----------------------------------------------------------------------------
(* Properties *)

CompraTypeOK ==
    /\ orden \in [Ordenes -> {"ninguna", "pendiente_pago", "pagada", "cancelada"}]
    /\ vigente \in [Ordenes -> BOOLEAN]
    /\ intento \in [Ordenes -> {"ninguno", "link_generado", "pendiente_confirmacion",
                                "confirmado", "fallido", "expirado"}]
    /\ venta \in [Ordenes -> {"libre"} \cup EnVenta]
    /\ cobrado \in [Ordenes -> BOOLEAN]
    /\ evidencia \in [Ordenes -> {"no", "a_tiempo", "tarde"}]
    /\ suscripcion \in [Ordenes -> {"ninguna", "activa", "cancelada", "vencida"}]
    /\ altas \in [Ordenes -> 0..1]
    /\ cuenta \in {"activa", "eliminada"}
    /\ caidas \in 0..MaxCaidas

\* The Sale and the recovery race for the same payment and one of them records
\* it: an order is paid exactly when its intent is confirmed, and then it has
\* given one plan, for a charge verified within the life of the order.
PagadaUnaVez ==
    \A o \in Ordenes :
        /\ (orden[o] = "pagada") <=> (intento[o] = "confirmado")
        /\ (orden[o] = "pagada") <=> (altas[o] = 1)
        /\ orden[o] = "pagada" => cobrado[o] /\ evidencia[o] = "a_tiempo"

\* A Sale never begins while another order of the same branch that is still in
\* time may hold a charge that gave no plan: not after a timeout, not after a
\* crash in the middle of the call.
SinSegundoCobro ==
    [][\A o, p \in Ordenes :
          /\ venta[o] # "cobrando" /\ venta'[o] = "cobrando"
          /\ p # o /\ MismaSucursal(o, p) /\ vigente[p]
          /\ (cobrado[p] \/ venta[p] = "cobrando")
          => orden[p] = "pagada"]_vars

\* A late answer never reopens a payment: a confirmed or failed intent stays
\* so, and an expired one is left only to activate an approval stored in time.
SinReapertura ==
    [][\A o \in Ordenes :
          /\ intento[o] \in {"confirmado", "fallido"} => intento'[o] = intento[o]
          /\ intento[o] = "expirado" /\ intento'[o] # "expirado" =>
                intento'[o] = "confirmado" /\ evidencia[o] = "a_tiempo"]_vars

\* A charge whose approval was stored in time ends in its plan, although the
\* process of the Sale died, the sweep expired the intent or a plan of another
\* branch was in the way; unless the account is deleted first.
AprobadaSeActiva ==
    \A o \in Ordenes :
        evidencia[o] = "a_tiempo" ~> (orden[o] = "pagada" \/ cuenta = "eliminada")

\* The recovery of an older payment never cancels a plan bought after it.  The
\* code does not promise it: the activation replaces whatever plan is active.
PlanNuevoSobrevive ==
    [][\A o, p \in Ordenes :
          o < p /\ orden[o] # "pagada" /\ orden'[o] = "pagada" /\ suscripcion[p] = "activa"
          => suscripcion'[p] = "activa"]_vars
=============================================================================
