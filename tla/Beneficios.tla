----------------------------- MODULE Beneficios -----------------------------
(***************************************************************************)
(* The benefits of one client through his visits: the points of loyalty    *)
(* and their yearly cycles, the reward redeemed in a visit, and the        *)
(* services and courtesies of the membership that a visit consumes.        *)
(*                                                                         *)
(* A visit is a group of citas: that of the titular, which names it, and   *)
(* those of his companions.  Every handler runs in one transaction that    *)
(* holds the client's advisory lock or his subscription, so it is a step.  *)
(***************************************************************************)
EXTENDS Integers, FiniteSets, FiniteSetsExt

CONSTANTS
    Citas,
    TitularDe,      \* [Citas -> Citas]: the cita of the titular, who may come
                    \* with all or some of these companions
    Sucursal,       \* [Citas -> branch]
    NPlanes,        \* subscriptions, numbered in the order they are bought
    SucursalPlan,   \* [1..NPlanes -> branch]
    Servicios,      \* [1..NPlanes -> Nat]: the services of the plan
    Cortesias,      \* [1..NPlanes -> Nat]: its courtesies
    Premios,        \* values that points_rules.puntos_para_premio may take
    MaxCiclos,      \* cycles of points
    MaxAjustes      \* adjustments of points outside the visits

ASSUME BeneficiosAssumption ==
    /\ IsFiniteSet(Citas)
    /\ TitularDe \in [Citas -> Citas]
    /\ \A c \in Citas : TitularDe[TitularDe[c]] = TitularDe[c]
    /\ NPlanes \in Nat
    /\ Servicios \in [1..NPlanes -> Nat \ {0}] /\ Cortesias \in [1..NPlanes -> Nat]
    /\ Premios \subseteq Nat \ {0} /\ Premios # {}
    /\ MaxCiclos \in Nat \ {0} /\ MaxAjustes \in Nat

VARIABLES
    cita,           \* citas.estado_cita_codigo; "cerrada": cancelada or no_show
    cobertura,      \* of the titular: what the hold found and priced
    pago,           \* of the group: total_pagar_hnl is zero, owed or charged
    acumulado,      \* the rows that add a point: cita, number of the row, cycle
    canje,          \* points redeemed for the cita, in a row without cycle
    manual,         \* the other rows, added up by cycle (0: without cycle)
    vencimiento,    \* the row that expires the remainder of a cycle
    ciclo,          \* points_cycles; "vencido": active, and due
    premio,         \* the rule in force
    ajustes,
    plan,           \* subscriptions; "pasada": active, and past fin_at; "fin":
                    \* vencida or cancelada
    consumo         \* subscription_consumptions: cita, plan, kind

vars == <<cita, cobertura, pago, acumulado, canje, manual, vencimiento, ciclo,
          premio, ajustes, plan, consumo>>

Planes == 1..NPlanes
Ciclos == 1..MaxCiclos
Clases == {"servicio", "cortesia"}
Titulares == {c \in Citas : TitularDe[c] = c}
Acompanantes(g) == {c \in Citas \ {g} : TitularDe[c] = g}
Grupo(g) == {c \in Citas : TitularDe[c] = g /\ cita[c] # "libre"}
Recompensas == {"recompensa_sin_plan", "recompensa_con_plan"}
EsCanje(g) == cobertura[g] \in Recompensas
\* A cita that was confirmed once
Confirmadas == {"confirmada", "en_salon", "en_atencion", "completada", "cerrada"}

Init ==
    /\ cita = [c \in Citas |-> "libre"]
    /\ cobertura = [g \in Titulares |-> "ninguna"]
    /\ pago = [g \in Titulares |-> "cero"]
    /\ acumulado = {}
    /\ canje = [g \in Titulares |-> 0]
    /\ manual = [k \in 0..MaxCiclos |-> 0]
    /\ vencimiento = [k \in Ciclos |-> 0]
    /\ ciclo = [k \in Ciclos |-> "no"]
    /\ premio \in Premios
    /\ ajustes = 0
    /\ plan = [p \in Planes |-> "no"]
    /\ consumo = {}

-----------------------------------------------------------------------------
(* The balance of points *)

SumaCiclo(filas, k) == Cardinality({r \in filas : r[3] = k}) + manual[k]

\* SUM(puntos), with given rows of points earned and of expired remainders
Libro(filas, vencidos) ==
    SumFunction([k \in 0..MaxCiclos |-> SumaCiclo(filas, k)])
    - SumFunction(canje) - SumFunction(vencidos)

Positivo(n) == IF n > 0 THEN n ELSE 0

\* vw_points_balance: the remainders of the cycles that are due do not count
Vista ==
    Libro(acumulado, vencimiento)
    - SumFunction([k \in {j \in Ciclos : ciclo[j] = "vencido"} |->
                       Positivo(SumaCiclo(acumulado, k))])

\* Mutant: the row is inserted again for a cycle that has expired.
VencimientoRepetido(k) ==
    IF ciclo[k] \in {"vencido", "expirado"} THEN Positivo(SumaCiclo(acumulado, k)) ELSE vencimiento[k]

\* The row of the cycle once fn_points_materialize_expired_cycles has run: the
\* remainder of a cycle that is due, unless it has one (ON CONFLICT DO NOTHING)
VencimientoDe(k) ==
    IF ciclo[k] = "vencido" /\ vencimiento[k] = 0
    THEN Positivo(SumaCiclo(acumulado, k)) ELSE vencimiento[k]
VencimientoTras == [k \in Ciclos |-> VencimientoDe(k)]
CicloTras == [k \in Ciclos |-> IF ciclo[k] = "vencido" THEN "expirado" ELSE ciclo[k]]

\* fn_points_materialize_expired_cycles, then getSaldoActual
SaldoCon(filas) == Libro(filas, VencimientoTras)
Saldo == SaldoCon(acumulado)

\* fn_points_get_or_create_active_cycle
Activos == {k \in Ciclos : ciclo[k] = "activo"}
CicloActual ==
    IF Activos # {} THEN CHOOSE k \in Activos : TRUE
    ELSE CHOOSE k \in Ciclos : ciclo[k] = "no"
\* An empty cycle has no effect, so one is made with its first row.
CicloCon(estados, filas) ==
    IF \E r \in filas : estados[r[3]] = "no"
    THEN [estados EXCEPT ![CicloActual] = "activo"] ELSE estados

-----------------------------------------------------------------------------
(* The membership *)

Usados(p, clase) == Cardinality({c \in Citas : <<c, p, clase>> \in consumo})
\* ensureSubscriptionLifecycle: the active plan, in time and with services left
Vigente(p) == plan[p] = "activa" /\ Usados(p, "servicio") < Servicios[p]

\* Mutant: a plan past its end stays active while it has services left.
PlanSinTiempo(p) ==
    IF plan[p] = "activa" /\ ~Vigente(p) THEN "fin" ELSE plan[p]

\* Its update of a plan that is past its end or has none left
PlanRevisado(p) ==
    IF plan[p] = "pasada" \/ (plan[p] = "activa" /\ ~Vigente(p)) THEN "fin" ELSE plan[p]
PlanTras == [p \in Planes |-> PlanRevisado(p)]

\* hasActivePlan, which looks at the time and not at the services left
HayPlan == \E p \in Planes : plan[p] = "activa"

\* createCoverageTracker: of the branch, and not about to be renewed, which it
\* is with one service left
Cubre(c) ==
    \E p \in Planes : /\ Vigente(p) /\ SucursalPlan[p] = Sucursal[c]
                      /\ Usados(p, "servicio") + 1 < Servicios[p]

\* Mutant: a cita is looked up among the consumptions of this plan only.
YaConsumidoDelPlan(c, p, clase) == <<c, p, clase>> \in consumo

\* getOperationalConsumptionStateForAppointment: of any plan
YaConsumido(c, p, clase) == \E q \in Planes : <<c, q, clase>> \in consumo

\* What the cita has to consume of the plan
Falta(c, p) ==
    {x \in Clases : /\ ~YaConsumido(c, p, x)
                    /\ x = "cortesia" => Cortesias[p] > 0}

\* Mutant: the courtesies left are not looked at.
AlcanzaSinCortesias(c, p) == SucursalPlan[p] = Sucursal[c]

\* Otherwise it is an error 409: the plan is of another branch, or has no
\* courtesy left for this cita (a plan in force has services left).
Alcanza(c, p) ==
    /\ SucursalPlan[p] = Sucursal[c]
    /\ "cortesia" \in Falta(c, p) => Usados(p, "cortesia") < Cortesias[p]

\* consumeMembershipForCompletedAppointment: whether it succeeds, and its rows
EnVigor == {p \in Planes : PlanRevisado(p) \in {"activa", "pasada"}}
Consumible(c) == \A p \in EnVigor : Alcanza(c, p)
ConsumoCon(c) == consumo \cup UNION {{<<c, p, x>> : x \in Falta(c, p)} : p \in EnVigor}

-----------------------------------------------------------------------------
(* Reservations *)

SinPendiente == \A c \in Citas : cita[c] # "pendiente"

\* The hold of g and companions as, with the benefit b of the titular.  Companions
\* and services without benefit are owed; whatever is covered may leave extras.
Reservar(g, as, b) ==
    /\ SinPendiente /\ cita[g] = "libre"
    /\ b = "plan" => Cubre(g)
    /\ cita' = [c \in Citas |-> IF c \in {g} \cup as THEN "pendiente" ELSE cita[c]]
    /\ cobertura' = [cobertura EXCEPT ![g] = b]
    /\ \E v \in {"cero", "debe"} :
          /\ b = "ninguna" \/ as # {} => v = "debe"
          /\ pago' = [pago EXCEPT ![g] = v]
    /\ ciclo' = CicloTras /\ vencimiento' = VencimientoTras
    /\ plan' = PlanTras
    /\ UNCHANGED <<acumulado, canje, manual, premio, ajustes, consumo>>

\* The kind of service that the reward gives depends on having a plan.
RecompensaAhora == IF HayPlan THEN "recompensa_con_plan" ELSE "recompensa_sin_plan"

\* POST /citas/hold: a client with a reward must use it, and alone.
ReservarCliente(g) ==
    \/ Saldo >= premio /\ Reservar(g, {}, RecompensaAhora)
    \/ /\ Saldo < premio
       /\ \E as \in SUBSET Acompanantes(g), b \in {"ninguna", "plan"} : Reservar(g, as, b)

\* POST /admin/citas/hold: the operator chooses.
ReservarOperador(g) ==
    \E as \in SUBSET Acompanantes(g) :
        \/ Saldo >= premio /\ Reservar(g, as, RecompensaAhora)
        \/ \E b \in {"ninguna", "plan"} : Reservar(g, as, b)

\* Both sweeps
Expirar(g) ==
    /\ \E c \in Grupo(g) : cita[c] = "pendiente"
    /\ cita' = [c \in Citas |-> IF c \in Grupo(g) /\ cita[c] = "pendiente"
                                THEN "expirada" ELSE cita[c]]
    /\ UNCHANGED <<cobertura, pago, acumulado, canje, manual, vencimiento, ciclo, premio,
                   ajustes, plan, consumo>>

-----------------------------------------------------------------------------
(* Confirmations *)

\* A row more for each of some citas
FilasDe(filas, cs) ==
    {<<c, Cardinality({r \in filas : r[1] = c}) + 1, CicloActual>> : c \in cs}

\* The trigger of citas gives a point to some of the citas it sees confirmed.
FilasDisparador(ms) == {FilasDe(acumulado, t) : t \in SUBSET ms}

\* applyRewardRedeemForConfirmedGroup, with the rows there are after the
\* trigger: it succeeds unless the kind of reward or the balance has changed.
Redimible(g, filas) ==
    EsCanje(g) => \/ canje[g] # 0
                  \/ cobertura[g] = RecompensaAhora /\ SaldoCon(filas) >= premio

CanjeTras(g) ==
    [canje EXCEPT ![g] = IF EsCanje(g) /\ canje[g] = 0 THEN premio ELSE @]

\* Mutant: the point of the redeemed cita is kept.
FilasTrasCanjeTodas(g, filas) == filas

\* A redeemed cita keeps no point of its own.
FilasTrasCanje(g, filas) ==
    IF EsCanje(g) THEN {r \in filas : r[1] # g} ELSE filas

\* Mutant: the point is given without looking for the one of the trigger.
FilasOtorgadasSiempre(g, filas) ==
    FilasDe(filas, {c \in Grupo(g) : ~(c = g /\ EsCanje(g))})

\* grantEngagementPointsForConfirmedGroup: a point for each cita of the group
\* that has none, but for the one redeemed
FilasOtorgadas(g, filas) ==
    FilasDe(filas, {c \in Grupo(g) : ~(c = g /\ EsCanje(g)) /\ \A r \in filas : r[1] # c})

Confirmar(ms) ==
    cita' = [c \in Citas |-> IF c \in ms THEN "confirmada" ELSE cita[c]]

\* The redemption, which expires what is due first, and the points given
RedimirYOtorgar(g, filas) ==
    LET tras == FilasTrasCanje(g, filas)
        todas == tras \cup FilasOtorgadas(g, tras)
    IN  /\ Redimible(g, filas)
        /\ canje' = CanjeTras(g)
        /\ acumulado' = todas
        /\ vencimiento' = VencimientoTras
        /\ ciclo' = CicloCon(CicloTras, filas \cup todas)

\* consumeMembershipForConfirmedRows: best effort, and only for the titular
ConsumirSiSePuede(c) ==
    /\ consumo' = IF Consumible(c) THEN ConsumoCon(c) ELSE consumo
    /\ plan' = PlanTras

\* POST /citas/:grupo/confirmar-sin-pago with citas to confirm
ConfirmarSinPago(g) ==
    LET ms == {c \in Grupo(g) : cita[c] = "pendiente"}
    IN  /\ pago[g] = "cero"
        /\ ms # {} /\ \A c \in Grupo(g) \ ms : cita[c] = "confirmada"
        /\ Confirmar(ms)
        /\ \E t \in FilasDisparador(ms) : RedimirYOtorgar(g, acumulado \cup t)
        /\ IF g \in ms THEN ConsumirSiSePuede(g) ELSE UNCHANGED <<consumo, plan>>
        /\ UNCHANGED <<cobertura, pago, manual, premio, ajustes>>

\* The same with all of them confirmed, paid ones included
RepetirConfirmacion(g) ==
    /\ cita[g] # "libre" /\ \A c \in Grupo(g) : cita[c] = "confirmada"
    /\ RedimirYOtorgar(g, acumulado)
    /\ ConsumirSiSePuede(g)
    /\ UNCHANGED <<cita, cobertura, pago, manual, premio, ajustes>>

\* The card is charged, and confirmGroupAfterPaid confirms: a reward that can
\* no longer be redeemed rolls the confirmation back, and the charge stays.
Cobrar(g) ==
    /\ pago[g] = "debe" /\ \A c \in Grupo(g) : cita[c] = "pendiente"
    /\ pago' = [pago EXCEPT ![g] = "cobrado"]
    /\ UNCHANGED <<cita, cobertura, acumulado, canje, manual, vencimiento, ciclo, premio,
                   ajustes, plan, consumo>>

ConfirmarPagado(g) ==
    LET ms == {c \in Grupo(g) : cita[c] \in {"pendiente", "expirada"}}
    IN  /\ pago[g] = "cobrado"
        /\ ms # {} /\ \A c \in Grupo(g) \ ms : cita[c] = "confirmada"
        /\ Confirmar(ms)
        /\ \E t \in FilasDisparador(ms) : RedimirYOtorgar(g, acumulado \cup t)
        /\ UNCHANGED <<cobertura, pago, manual, premio, ajustes, plan, consumo>>

\* confirmAdminBookingHold: paid at the shop; a reward is redeemed, and no
\* point is given but those of the trigger.  Its query takes the MIN of uuids,
\* which PostgreSQL 17 does not have; the step is what it does where it runs.
ConfirmarOperador(g) ==
    /\ cita[g] # "libre" /\ \A c \in Grupo(g) : cita[c] = "pendiente"
    /\ Confirmar(Grupo(g))
    /\ \E t \in FilasDisparador(Grupo(g)) :
          LET filas == acumulado \cup t
          IN  /\ Redimible(g, filas)
              /\ canje' = CanjeTras(g)
              /\ acumulado' = FilasTrasCanje(g, filas)
              /\ vencimiento' = IF EsCanje(g) THEN VencimientoTras ELSE vencimiento
              /\ ciclo' = CicloCon(IF EsCanje(g) THEN CicloTras ELSE ciclo, filas)
    /\ UNCHANGED <<cobertura, pago, manual, premio, ajustes, plan, consumo>>

-----------------------------------------------------------------------------
(* The visit *)

\* APPOINTMENT_STATE_TRANSITIONS, but for the completion
Transiciones(e) ==
    CASE e = "pendiente"   -> {"confirmada", "cerrada", "expirada"}
      [] e = "confirmada"  -> {"en_salon", "cerrada"}
      [] e = "en_salon"    -> {"en_atencion", "cerrada"}
      [] OTHER             -> {}

\* PATCH /admin/citas/:id/estado, registrar-llegada, iniciar-atencion and the
\* sweep of those who did not come.  A cita confirmed so redeems nothing.
CambiarEstado(c, e) ==
    /\ e \in Transiciones(cita[c])
    /\ cita' = [cita EXCEPT ![c] = e]
    /\ \E t \in FilasDisparador(IF e = "confirmada" THEN {c} ELSE {}) :
          /\ acumulado' = acumulado \cup t
          /\ ciclo' = CicloCon(ciclo, acumulado')
    /\ UNCHANGED <<cobertura, pago, canje, manual, vencimiento, premio, ajustes, plan, consumo>>

\* finalizar-atencion, and the PATCH to completada.  The membership consumed is
\* that of citas.id_cliente, which the reservation RPC fills with the titular
\* for his companions too.
Finalizar(c) ==
    /\ cita[c] = "en_atencion"
    /\ Consumible(c)
    /\ cita' = [cita EXCEPT ![c] = "completada"]
    /\ consumo' = ConsumoCon(c)
    /\ plan' = PlanTras
    /\ UNCHANGED <<cobertura, pago, acumulado, canje, manual, vencimiento, ciclo, premio, ajustes>>

-----------------------------------------------------------------------------
(* Points and plans outside the visits *)

\* addManualPointsAdjustment: a point more or less, in a row without cycle
AjustarPuntos(n) ==
    /\ ajustes < MaxAjustes
    /\ n = -1 => Saldo >= 1
    /\ ajustes' = ajustes + 1
    /\ manual' = [manual EXCEPT ![0] = @ + n]
    /\ vencimiento' = VencimientoTras /\ ciclo' = CicloTras
    /\ UNCHANGED <<cita, cobertura, pago, acumulado, canje, premio, plan, consumo>>

\* createMasterPuntosCanje: a reward without a visit, in the active cycle
CanjearEnTienda ==
    /\ ajustes < MaxAjustes
    /\ Saldo >= premio
    /\ ajustes' = ajustes + 1
    /\ manual' = [manual EXCEPT ![IF Activos = {} THEN 0 ELSE CicloActual] = @ - premio]
    /\ vencimiento' = VencimientoTras /\ ciclo' = CicloTras
    /\ UNCHANGED <<cita, cobertura, pago, acumulado, canje, premio, plan, consumo>>

\* updateMasterPuntosRegla
CambiarRegla(n) ==
    /\ n # premio /\ premio' = n
    /\ UNCHANGED <<cita, cobertura, pago, acumulado, canje, manual, vencimiento, ciclo,
                   ajustes, plan, consumo>>

\* now() passes vence_at; the last of the cycles stays.
PasarCiclo(k) ==
    /\ ciclo[k] = "activo" /\ \E j \in Ciclos : ciclo[j] = "no"
    /\ ciclo' = [ciclo EXCEPT ![k] = "vencido"]
    /\ UNCHANGED <<cita, cobertura, pago, acumulado, canje, manual, vencimiento, premio,
                   ajustes, plan, consumo>>

\* redeemReward, which prepares a reward for a later hold: it only expires what
\* is due, unless the balance is too low and the transaction is rolled back.
PrepararCanje ==
    /\ Saldo >= premio
    /\ \E k \in Ciclos : ciclo[k] = "vencido"
    /\ vencimiento' = VencimientoTras /\ ciclo' = CicloTras
    /\ UNCHANGED <<cita, cobertura, pago, acumulado, canje, manual, premio, ajustes, plan, consumo>>

\* Activar of CompraMembresia: it replaces the plan of the branch, and fails
\* while there is one of another branch.
ComprarPlan(p) ==
    /\ plan[p] = "no" /\ \A q \in 1..(p - 1) : plan[q] # "no"
    /\ \A q \in Planes : plan[q] \in {"activa", "pasada"} => SucursalPlan[q] = SucursalPlan[p]
    /\ plan' = [q \in Planes |-> IF q = p THEN "activa"
                                 ELSE IF plan[q] \in {"activa", "pasada"} THEN "fin"
                                 ELSE plan[q]]
    /\ UNCHANGED <<cita, cobertura, pago, acumulado, canje, manual, vencimiento, ciclo,
                   premio, ajustes, consumo>>

CancelarPlan(p) ==
    /\ plan[p] \in {"activa", "pasada"}
    /\ plan' = [plan EXCEPT ![p] = "fin"]
    /\ UNCHANGED <<cita, cobertura, pago, acumulado, canje, manual, vencimiento, ciclo,
                   premio, ajustes, consumo>>

\* now() passes fin_at
PasarPlan(p) ==
    /\ plan[p] = "activa"
    /\ plan' = [plan EXCEPT ![p] = "pasada"]
    /\ UNCHANGED <<cita, cobertura, pago, acumulado, canje, manual, vencimiento, ciclo,
                   premio, ajustes, consumo>>

Next ==
    \/ \E g \in Titulares :
          \/ ReservarCliente(g) \/ ReservarOperador(g) \/ Expirar(g)
          \/ ConfirmarSinPago(g) \/ RepetirConfirmacion(g)
          \/ Cobrar(g) \/ ConfirmarPagado(g) \/ ConfirmarOperador(g)
    \/ \E c \in Citas : Finalizar(c) \/ \E e \in Confirmadas \cup {"expirada"} : CambiarEstado(c, e)
    \/ \E n \in {-1, 1} : AjustarPuntos(n)
    \/ CanjearEnTienda
    \/ \E n \in Premios : CambiarRegla(n)
    \/ \E k \in Ciclos : PasarCiclo(k)
    \/ PrepararCanje
    \/ \E p \in Planes : ComprarPlan(p) \/ CancelarPlan(p) \/ PasarPlan(p)

BeneficiosSpec == Init /\ [][Next]_vars

\* The barber finishes the visit he began, as often as he is refused, and the
\* plans come to the end of their time.
BeneficiosFairSpec ==
    /\ BeneficiosSpec
    /\ \A c \in Citas : WF_vars(Finalizar(c))
    /\ \A p \in Planes : WF_vars(PasarPlan(p))

-----------------------------------------------------------------------------
(* Properties *)

\* Types; no expiry row adds points.
BeneficiosTypeOK ==
    /\ cita \in [Citas -> {"libre", "pendiente", "expirada"} \cup Confirmadas]
    /\ cobertura \in [Titulares -> {"ninguna", "plan"} \cup Recompensas]
    /\ pago \in [Titulares -> {"cero", "debe", "cobrado"}]
    /\ acumulado \subseteq Citas \X (Nat \ {0}) \X Ciclos
    /\ canje \in [Titulares -> Nat]
    /\ manual \in [0..MaxCiclos -> Int]
    /\ vencimiento \in [Ciclos -> Nat]
    /\ ciclo \in [Ciclos -> {"no", "activo", "vencido", "expirado"}]
    /\ premio \in Premios
    /\ ajustes \in 0..MaxAjustes
    /\ plan \in [Planes -> {"no", "activa", "pasada", "fin"}]
    /\ consumo \subseteq Citas \X Planes \X Clases

\* A cita gives one point at most although the trigger, the payment and the
\* client's repeated confirmation may all give it; a redeemed one was confirmed,
\* was reserved as a reward, and gives its titular none.
PuntosJustos ==
    /\ \A r, s \in acumulado : r[1] = s[1] => r = s
    /\ \A g \in Titulares :
          canje[g] # 0 => /\ EsCanje(g) /\ cita[g] \in Confirmadas
                          /\ \A r \in acumulado : r[1] # g

\* Whatever order of confirmations and completions, the visits consume no more
\* than each plan has, and a cita consumes one service and one courtesy at most
\* in all the plans together.
ConsumoAcotado ==
    /\ \A p \in Planes : /\ Usados(p, "servicio") <= Servicios[p]
                         /\ Usados(p, "cortesia") <= Cortesias[p]
    /\ \A r, s \in consumo : r[1] = s[1] /\ r[3] = s[3] => r = s

\* The balance that is read without writing is the one that the next handler
\* finds after it expires what is due.
LecturaFiel == Vista = Saldo

\* A visit that began is completed, although a plan of another branch, or one
\* without courtesies, refuses it for a time.
AtencionTermina == \A c \in Citas : cita[c] = "en_atencion" ~> cita[c] = "completada"

\* The membership covers the titular only.
PlanSoloTitular == \A r \in consumo : r[1] \in Titulares

\* A visit that redeems a reward consumes nothing of the plan.
BeneficioUnico == \A r \in consumo : r[1] \in Titulares => ~EsCanje(r[1])

\* The balance is never negative.
SaldoNoNegativo == Saldo >= 0

\* A reward that was given was redeemed.
RecompensaDescontada ==
    \A g \in Titulares : EsCanje(g) /\ cita[g] = "completada" => canje[g] # 0
=============================================================================
