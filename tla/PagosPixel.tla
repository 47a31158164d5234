----------------------------- MODULE PagosPixel -----------------------------
(***************************************************************************)
(* Online payment of a reservation group with PixelPay, on top of the      *)
(* reservation tables: /crear-intent, /pixelpay/sale, /pixelpay/status and *)
(* the internal reconciliation from a durable approval.                    *)
(*                                                                         *)
(* A Sale request is a transaction that claims the intent, a call to the   *)
(* provider, and then three more database steps; it may die between any    *)
(* two of them.  /pixelpay/status is one step: what it reads before its    *)
(* transaction (the stored payment uuid, the provider's PAID, the approval *)
(* of the attempt) never goes back once it is there.                       *)
(***************************************************************************)
EXTENDS Reservas

CONSTANTS
    Gracia,         \* agendamiento_confirmacion_pago_gracia_min
    Usuarios,       \* users that may own an intent
    Nadie,          \* not a user: the intent does not exist
    CreadoresDe,    \* [Grupos -> SUBSET Usuarios], see resolvePublicIntentCreatorUserId
    ConPromocion    \* groups priced with a promotion

ASSUME PagosAssumption ==
    /\ Gracia \in Nat
    /\ Nadie \notin Usuarios
    /\ CreadoresDe \in [Grupos -> SUBSET Usuarios]
    /\ ConPromocion \subseteq Grupos

VARIABLES
    fase,       \* where the request that works on the intent is
    resultado,  \* what the Sale answered
    finalAt,    \* finalized_at of an approved pixelpay_sale_attempts row
    refs,       \* provider_session_id and referencia_externa are stored
    cobro,      \* the provider has charged the card
    pago,       \* a captured row of payments
    ventas,     \* Sale calls made for the intent
    creadoPor,  \* created_by_usuario_id
    promo       \* the promotions of the group still apply

pagoVars == <<fase, resultado, finalAt, refs, cobro, pago, ventas, creadoPor, promo>>
vars == <<reservasVars, pagoVars>>

Fases == {"nada", "activando", "lista", "enviada", "respondida", "referencias", "fin"}
EnCurso == {"activando", "enviada", "respondida", "referencias"}
Resultados == {"ninguno", "aprobada", "declinada", "incierta"}

-----------------------------------------------------------------------------
(* Shared conditions *)

\* loadDurablePixelPayApproval
AprobacionDurable(i) ==
    /\ finalAt[i] # SinHora
    /\ \A c \in CitasDe(GrupoIntent[i]) : finalAt[i] <= vence[c]

-----------------------------------------------------------------------------
(* POST /crear-intent *)

\* Phase A.  The lookup of an open intent asks for the same creator; finding one
\* changes nothing.
CrearIntent(i, u) ==
    LET g == GrupoIntent[i]
    IN  /\ u \in CreadoresDe[g]
        /\ promo[g]
        /\ ~\E j \in IntentsDe(g) : IntentAbierto(j) /\ creadoPor[j] = u
        /\ InsertarIntent(i)
        /\ creadoPor' = [creadoPor EXCEPT ![i] = u]
        /\ fase' = [fase EXCEPT ![i] = "activando"]
        /\ UNCHANGED <<resultado, finalAt, refs, cobro, pago, ventas, promo>>

\* Phase B
ActivarIntent(i) ==
    /\ fase[i] = "activando"
    /\ fase' = [fase EXCEPT ![i] = "lista"]
    /\ \/ EsperarPago(i)
       \/ ~Revalidado(i) /\ UNCHANGED reservasVars
    /\ UNCHANGED <<resultado, finalAt, refs, cobro, pago, ventas, creadoPor, promo>>

-----------------------------------------------------------------------------
(* POST /pixelpay/sale *)

\* Mutant: a Sale with an unknown result may be tried again.
PuedeReintentar(i) == intent[i] \in {"link_generado", "pendiente_confirmacion"}

\* canStartPixelPaySale
PuedeCobrar(i) == intent[i] = "link_generado"

\* The claim: proteger_reserva_pago_v1 extends the holds for the length of the
\* uncertainty and moves the intent to pendiente_confirmacion.
VentaReclamar(i) ==
    LET g == GrupoIntent[i]
        hasta == ahora + Gracia
        protegidos == [c \in Citas |-> IF GrupoDe[c] = g /\ vence[c] < hasta
                                       THEN hasta ELSE vence[c]]
    IN  /\ Pagable(g) /\ promo[g]
        /\ PuedeCobrar(i)
        /\ vence' = protegidos
        /\ \E c \in CitasDe(g) : /\ EsMinimo(protegidos[c], g, protegidos)
                                /\ intentVence' = [intentVence EXCEPT ![i] = protegidos[c]]
        /\ intent' = [intent EXCEPT ![i] = "pendiente_confirmacion"]
        /\ ventas' = [ventas EXCEPT ![i] = @ + 1]
        /\ fase' = [fase EXCEPT ![i] = "enviada"]
        /\ UNCHANGED <<ahora, cita, hold, pagadoAt, barrido, decidido, caidas,
                       resultado, finalAt, refs, cobro, pago, creadoPor, promo>>

\* The provider answers and the attempt is finalized, best effort: the row of
\* an approved Sale may be left without finalized_at.
VentaResponde(i, r) ==
    /\ fase[i] = "enviada"
    /\ fase' = [fase EXCEPT ![i] = "respondida"]
    /\ resultado' = [resultado EXCEPT ![i] = r]
    /\ \E cobrado \in BOOLEAN :
          /\ r = "aprobada" => cobrado
          /\ r = "declinada" => ~cobrado
          /\ cobro' = [cobro EXCEPT ![i] = @ \/ cobrado]
    /\ \/ r = "aprobada" /\ finalAt' = [finalAt EXCEPT ![i] = ahora]
       \/ UNCHANGED finalAt
    /\ UNCHANGED <<reservasVars, refs, pago, ventas, creadoPor, promo>>

\* Mutant: an uncertain answer is taken for a refusal.
EstadoTrasDuda(r) == IF r = "ninguno" THEN "pendiente_confirmacion" ELSE "fallido"

\* resolvePixelPaySaleFailureState: only a definitive refusal fails the intent.
EstadoTrasFallo(r) == IF r = "declinada" THEN "fallido" ELSE "pendiente_confirmacion"

\* A Sale that was not approved.  References are kept only when the provider's
\* signature and amount were verified.
VentaCierra(i) ==
    /\ fase[i] = "respondida" /\ resultado[i] # "aprobada"
    /\ fase' = [fase EXCEPT ![i] = "fin"]
    /\ IF intent[i] = "pendiente_confirmacion"
       THEN /\ intent' = [intent EXCEPT ![i] = EstadoTrasFallo(resultado[i])]
            /\ \/ resultado[i] = "declinada" /\ refs' = [refs EXCEPT ![i] = TRUE]
               \/ UNCHANGED refs
       ELSE UNCHANGED <<intent, refs>>
    /\ UNCHANGED <<ahora, cita, hold, vence, intentVence, pagadoAt, barrido, decidido, caidas,
                   resultado, finalAt, cobro, pago, ventas, creadoPor, promo>>

VentaReferencias(i) ==
    /\ fase[i] = "respondida" /\ resultado[i] = "aprobada"
    /\ fase' = [fase EXCEPT ![i] = "referencias"]
    /\ refs' = [refs EXCEPT ![i] = TRUE]
    /\ UNCHANGED <<reservasVars, resultado, finalAt, cobro, pago, ventas, creadoPor, promo>>

-----------------------------------------------------------------------------
(* reconcilePixelPayPaid *)

\* recoveryStatesValid
Recuperable(i) ==
    /\ intent[i] = "pendiente_confirmacion"
    /\ \A c \in CitasDe(GrupoIntent[i]) :
          cita[c] \in Pendientes \cup {"expirada"} /\ hold[c] \in {"activo", "expirado"}

\* Mutant: the citas that expired while the charge was uncertain are left out.
PorConfirmarPendientes(g) == {c \in CitasDe(g) : cita[c] \in Pendientes}

\* The rows confirmar_reserva_pagada_v1 turns into confirmada
PorConfirmar(g) == {c \in CitasDe(g) : cita[c] \in Pendientes \cup {"expirada"}}

\* The transaction reaches its commit: the promotions still price the group,
\* confirmar_reserva_pagada_v1 accepts the state of the intent and the hour h
\* of the payment, and no freed slot has been taken since.
Confirmable(i, h) ==
    LET g == GrupoIntent[i]
    IN  /\ promo[g]
        /\ intent[i] \in IntentsActivos \cup {"expirado"}
        /\ \A c \in CitasDe(g) : h <= vence[c]
        /\ SinChoque(PorConfirmar(g), cita)

\* Mutant: paid_at is the hour of the confirmation.
ConfirmarAhora(i, h) ==
    LET g == GrupoIntent[i]
    IN  /\ Confirmable(i, h)
        /\ pago' = [pago EXCEPT ![i] = TRUE]
        /\ intent' = [intent EXCEPT ![i] = "confirmado"]
        /\ pagadoAt' = [pagadoAt EXCEPT ![i] = ahora]
        /\ cita' = [c \in Citas |-> IF c \in PorConfirmar(g) THEN "confirmada" ELSE cita[c]]
        /\ hold' = [c \in Citas |-> IF GrupoDe[c] = g /\ hold[c] \in {"activo", "expirado"}
                                    THEN "consumido" ELSE hold[c]]
        /\ UNCHANGED <<ahora, vence, intentVence, barrido, decidido, caidas,
                       resultado, finalAt, refs, cobro, ventas, creadoPor, promo>>

\* Its effect: the payment, the intent, the citas and the holds at once.
Confirmar(i, h) ==
    LET g == GrupoIntent[i]
    IN  /\ Confirmable(i, h)
        /\ pago' = [pago EXCEPT ![i] = TRUE]
        /\ intent' = [intent EXCEPT ![i] = "confirmado"]
        /\ pagadoAt' = [pagadoAt EXCEPT ![i] = h]
        /\ cita' = [c \in Citas |-> IF c \in PorConfirmar(g) THEN "confirmada" ELSE cita[c]]
        /\ hold' = [c \in Citas |-> IF GrupoDe[c] = g /\ hold[c] \in {"activo", "expirado"}
                                    THEN "consumido" ELSE hold[c]]
        /\ UNCHANGED <<ahora, vence, intentVence, barrido, decidido, caidas,
                       resultado, finalAt, refs, cobro, ventas, creadoPor, promo>>

\* The end of an approved Sale: no recovery of a lapsed reservation, and any
\* refusal leaves the charge for a later reconciliation.
VentaReconcilia(i) ==
    /\ fase[i] = "referencias"
    /\ fase' = [fase EXCEPT ![i] = "fin"]
    /\ \/ Pagable(GrupoIntent[i]) /\ Confirmar(i, ahora)
       \/ /\ ~(Pagable(GrupoIntent[i]) /\ Confirmable(i, ahora))
          /\ UNCHANGED <<reservasVars, resultado, finalAt, refs, cobro, pago, ventas,
                         creadoPor, promo>>

\* POST /pixelpay/status, when the provider says PAID.  With a durable approval
\* the hour of the payment is the approval's, and a lapsed reservation may be
\* recovered.
EstadoReconcilia(i) ==
    /\ refs[i] /\ cobro[i]
    /\ IF AprobacionDurable(i)
       THEN (Pagable(GrupoIntent[i]) \/ Recuperable(i)) /\ Confirmar(i, finalAt[i])
       ELSE Pagable(GrupoIntent[i]) /\ Confirmar(i, ahora)
    /\ UNCHANGED fase

\* reconcilePixelPayFromDurableApproval
ReconciliaDurable(i) ==
    /\ refs[i]
    /\ Recuperable(i) /\ AprobacionDurable(i)
    /\ Confirmar(i, finalAt[i])
    /\ UNCHANGED fase

-----------------------------------------------------------------------------
\* A payment request dies.  If it was waiting for the provider, nobody learns
\* whether the card was charged.
PagoCae(i) ==
    /\ fase[i] \in EnCurso
    /\ caidas < MaxCaidas
    /\ caidas' = caidas + 1
    /\ fase' = [fase EXCEPT ![i] = "fin"]
    /\ \/ fase[i] = "enviada" /\ cobro' = [cobro EXCEPT ![i] = TRUE]
       \/ UNCHANGED cobro
    /\ UNCHANGED <<ahora, tablas, barrido, decidido, resultado, finalAt, refs, pago,
                   ventas, creadoPor, promo>>

\* BOOKING_PROMOTION_NO_LONGER_APPLICABLE: recalculateGroupPromotionsForPayment
\* starts to refuse the group (the promotion ended, or its uses ran out).
PromocionDejaDeAplicar(g) ==
    /\ g \in ConPromocion /\ promo[g]
    /\ promo' = [promo EXCEPT ![g] = FALSE]
    /\ UNCHANGED <<reservasVars, fase, resultado, finalAt, refs, cobro, pago, ventas, creadoPor>>

-----------------------------------------------------------------------------
Init ==
    /\ ReservasInit
    /\ fase = [i \in Intents |-> "nada"]
    /\ resultado = [i \in Intents |-> "ninguno"]
    /\ finalAt = [i \in Intents |-> SinHora]
    /\ refs = [i \in Intents |-> FALSE]
    /\ cobro = [i \in Intents |-> FALSE]
    /\ pago = [i \in Intents |-> FALSE]
    /\ ventas = [i \in Intents |-> 0]
    /\ creadoPor = [i \in Intents |-> Nadie]
    /\ promo = [g \in Grupos |-> TRUE]

Pagar(i) ==
    \/ \E u \in Usuarios : CrearIntent(i, u)
    \/ ActivarIntent(i)
    \/ VentaReclamar(i)
    \/ \E r \in Resultados \ {"ninguno"} : VentaResponde(i, r)
    \/ VentaCierra(i)
    \/ VentaReferencias(i)
    \/ VentaReconcilia(i)
    \/ EstadoReconcilia(i)
    \/ ReconciliaDurable(i)
    \/ PagoCae(i)

Next ==
    \/ ReservasNext /\ UNCHANGED pagoVars
    \/ \E i \in Intents : Pagar(i)
    \/ \E g \in Grupos : PromocionDejaDeAplicar(g)

PagosSpec == Init /\ [][Next]_vars

-----------------------------------------------------------------------------
(* Properties *)

\* The payment columns and the requests in flight hold values of their domains.
PagosTypeOK ==
    /\ ReservasTypeOK
    /\ fase \in [Intents -> Fases]
    /\ resultado \in [Intents -> Resultados]
    /\ finalAt \in [Intents -> Horas]
    /\ refs \in [Intents -> BOOLEAN]
    /\ cobro \in [Intents -> BOOLEAN]
    /\ pago \in [Intents -> BOOLEAN]
    /\ ventas \in [Intents -> Nat]
    /\ creadoPor \in [Intents -> Usuarios \cup {Nadie}]
    /\ promo \in [Grupos -> BOOLEAN]

\* The hour recorded for a confirmed payment is inside the window of every hold
\* of the group, also when the confirmation came after the holds had lapsed and
\* also after another claim extended them.
PagoEnVentana ==
    \A i \in Intents :
        intent[i] = "confirmado" =>
            /\ pagadoAt[i] # SinHora
            /\ \A c \in CitasDe(GrupoIntent[i]) : pagadoAt[i] <= vence[c]

\* A confirmed intent stands on a real charge and a captured payment, and its
\* whole group left the pending and expired states with its holds consumed:
\* no sweep, discard or lapse that was under way takes it back.
PagoConfirmaReserva ==
    \A i \in Intents :
        intent[i] = "confirmado" =>
            /\ cobro[i] /\ pago[i]
            /\ \A c \in CitasDe(GrupoIntent[i]) :
                  cita[c] \notin Pendientes \cup {"ninguna", "expirada"} /\ hold[c] = "consumido"

\* A captured payment is never left with an intent in another state: what closes
\* or expires intents cannot demote a paid one.
PagoNoRetrocede == \A i \in Intents : pago[i] => intent[i] = "confirmado"

\* An intent starts at most one Sale: a retry, a second tab or a Sale whose
\* answer was lost never charges again under the same order.
VentaUnica == \A i \in Intents : ventas[i] <= 1

\* A group is charged at most once, over all its intents.
CobroUnicoPorGrupo ==
    \A i, j \in Intents :
        GrupoIntent[i] = GrupoIntent[j] /\ cobro[i] /\ cobro[j] => i = j

\* A closed cita is reopened only when it had expired and a charged intent of
\* its group is confirmed in the same transaction.
ReaperturaSoloPagada ==
    [][\A c \in Citas :
          cita[c] \in Terminales /\ cita'[c] # cita[c] =>
              /\ cita[c] = "expirada" /\ cita'[c] = "confirmada"
              /\ \E i \in IntentsDe(GrupoDe[c]) : cobro[i] /\ pago'[i] /\ ~pago[i]]_vars

\* An intent whose Sale began keeps the evidence of the uncertain charge: it is
\* never expired.
EvidenciaConservada ==
    [][\A i \in Intents :
          intent[i] = "pendiente_confirmacion" => intent'[i] # "expirado"]_vars

\* A cita, as barbers and clients see it
Vista ==
    [e \in EstadosCita |->
        CASE e = "ninguna" -> "libre"
          [] e \in Pendientes -> "apartada"
          [] e \in Ocupan \ Pendientes -> "firme"
          [] e = "expirada" -> "vencida"
          [] e \in Terminales \ {"expirada"} -> "cerrada"]

\* The tables and the payments keep the promise of AgendaAbstracta, step by step:
\* sweeps, releases, discards and confirmations move a cita only along its
\* states, and a payment takes a whole group that was charged and not yet paid.
Agenda == INSTANCE AgendaAbstracta WITH
    estado <- [c \in Citas |-> Vista[cita[c]]],
    cobrados <- {GrupoIntent[i] : i \in {j \in Intents : cobro[j]}},
    pagados <- {GrupoIntent[i] : i \in {j \in Intents : pago[j]}}

ImplementaAgenda == Agenda!AgendaSpec
=============================================================================
