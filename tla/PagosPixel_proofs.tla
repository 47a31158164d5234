-------------------------- MODULE PagosPixel_proofs --------------------------
(***************************************************************************)
(* Theorems about Reservas and PagosPixel, for every set of citas, groups  *)
(* and intents, every relation of overlapping slots and every setting of   *)
(* the times.  The first part is about the operations on the tables, which *)
(* payments share; the second adds the steps of a payment.                 *)
(*                                                                         *)
(* Where a property is not inductive, the invariant adds what protects it: *)
(* the citas of a paid group exist and are past the states a sweep or a    *)
(* discard takes (PagoInv); while a group can still be paid, one intent at *)
(* most is open and the one whose Sale began still waits (GrupoInv).       *)
(*                                                                         *)
(* The last part shows that every step is one of AgendaAbstracta, or shows *)
(* nothing of it: the invariant adds that intents have citas (AgendaInv).  *)
(***************************************************************************)
EXTENDS PagosPixel, TLAPS

-----------------------------------------------------------------------------
(* The operations on the tables *)

\* The empty tables have their types.
LEMMA InicioTipo == ReservasInit => ReservasTypeOK
  BY ReservasAssumption
     DEF ReservasInit, ReservasTypeOK, EstadosCita, EstadosHold, EstadosIntent,
         Horas, SinHora, BarridoInactivo, PasosBarrido, NadaDecidido, Operaciones

\* The three tables after an expiry keep their types, whatever is swept.
LEMMA ExpirarTipo ==
    ASSUME ReservasTypeOK, NEW pag, NEW ven
    PROVE  /\ CitaTrasExpirar(pag, ven) \in [Citas -> EstadosCita]
           /\ HoldTrasExpirar(pag, ven) \in [Citas -> EstadosHold]
           /\ IntentTrasExpirar(ven) \in [Intents -> EstadosIntent]
  BY DEF ReservasTypeOK, CitaTrasExpirar, HoldTrasExpirar, IntentTrasExpirar,
         EstadosCita, Ocupan, Terminales, EstadosHold, EstadosIntent

\* Every operation on the tables keeps their types.
LEMMA PasoTipo == ReservasTypeOK /\ ReservasNext => ReservasTypeOK'
<1> SUFFICES ASSUME ReservasTypeOK, ReservasNext PROVE ReservasTypeOK'
  OBVIOUS
<1> USE ReservasAssumption DEF ReservasTypeOK
<1>1. CASE Tic
  BY <1>1 DEF Tic, tablas
<1>2. CASE ExpirarVencidas
  BY <1>2, ExpirarTipo DEF ExpirarVencidas
<1>3. CASE Barrer
  <2>1. CASE BarridoHolds
    BY <2>1 DEF BarridoHolds, EstadosHold, PasosBarrido
  <2>2. CASE BarridoCitas
    BY <2>2 DEF BarridoCitas, EstadosCita, Terminales, PasosBarrido
  <2>3. CASE BarridoIntents
    BY <2>3 DEF BarridoIntents, EstadosIntent, PasosBarrido
  <2>4. CASE BarridoNoShow
    BY <2>4 DEF BarridoNoShow, EstadosCita, Terminales, PasosBarrido, BarridoInactivo
  <2>5. CASE BarridoCae
    BY <2>5 DEF BarridoCae, tablas, PasosBarrido, BarridoInactivo
  <2>6. CASE SoloLectura
    BY <2>6 DEF SoloLectura, tablas, PasosBarrido, BarridoInactivo
  <2> QED BY <1>3, <2>1, <2>2, <2>3, <2>4, <2>5, <2>6 DEF Barrer
<1>4. CASE DecisionCae
  BY <1>4 DEF DecisionCae, tablas, NadaDecidido, Operaciones
<1>5. ASSUME NEW g \in Grupos, OperarGrupo(g) PROVE ReservasTypeOK'
  <2>1. CASE CrearReserva(g)
    <3> DEFINE cliente == VencidasCliente(g)
               ambito == MismoCliente(g)
                            \cup {d \in Citas : \E c \in CitasDe(g) : <<c, d>> \in Choca}
               pag == Pagadas(ambito \ cliente)
               ven == cliente \cup Vencidas(ambito)
    <3>1. /\ CitaTrasExpirar(pag, ven) \in [Citas -> EstadosCita]
          /\ HoldTrasExpirar(pag, ven) \in [Citas -> EstadosHold]
          /\ IntentTrasExpirar(ven) \in [Intents -> EstadosIntent]
      BY ExpirarTipo
    <3>2. /\ cita' = [c \in Citas |-> IF c \in CitasDe(g) THEN "en_espera"
                                      ELSE CitaTrasExpirar(pag, ven)[c]]
          /\ hold' = [c \in Citas |-> IF c \in CitasDe(g) THEN "activo"
                                      ELSE HoldTrasExpirar(pag, ven)[c]]
          /\ vence' = [c \in Citas |-> IF c \in CitasDe(g) THEN ahora + TTL ELSE vence[c]]
          /\ intent' = IntentTrasExpirar(ven)
          /\ UNCHANGED <<ahora, intentVence, pagadoAt, barrido, decidido, caidas>>
      BY <2>1 DEF CrearReserva
    <3>3. cita' \in [Citas -> EstadosCita] /\ hold' \in [Citas -> EstadosHold]
      BY <3>1, <3>2 DEF EstadosCita, EstadosHold, Ocupan
    <3>4. vence' \in [Citas -> Nat]
      BY <3>2
    <3> QED BY <3>1, <3>2, <3>3, <3>4
  <2>2. CASE LiberarHold(g)
    BY <2>2
    DEF LiberarHold, EstadosCita, EstadosHold, Terminales, BarridoInactivo, PasosBarrido
  <2>3. CASE DecidirVencer(g)
    BY <2>3 DEF DecidirVencer, Decide, tablas, Operaciones, BarridoInactivo, PasosBarrido
  <2>4. CASE VencerPendiente(g)
    BY <2>4 DEF VencerPendiente, NadaDecidido, Operaciones, EstadosCita, EstadosHold,
                EstadosIntent, Terminales
  <2>5. CASE DecidirDescartar(g)
    BY <2>5 DEF DecidirDescartar, Decide, tablas, Operaciones
  <2>6. CASE DescartarPendiente(g)
    BY <2>6 DEF DescartarPendiente, NadaDecidido, Operaciones, EstadosCita, EstadosHold,
                EstadosIntent, Terminales
  <2>7. CASE DecidirSinPago(g)
    BY <2>7 DEF DecidirSinPago, Decide, CitasDe, tablas, Operaciones, BarridoInactivo,
                PasosBarrido
  <2>8. CASE ConfirmarSinPago(g)
    BY <2>8 DEF ConfirmarSinPago, NadaDecidido, Operaciones, EstadosCita, EstadosHold,
                EstadosIntent, Ocupan
  <2> QED BY <1>5, <2>1, <2>2, <2>3, <2>4, <2>5, <2>6, <2>7, <2>8 DEF OperarGrupo
<1>6. ASSUME NEW c \in Citas, NEW e \in EstadosCita, EstadoAdmin(c, e)
      PROVE  ReservasTypeOK'
  BY <1>6 DEF EstadoAdmin, EstadoHoldAlCerrar, EstadosHold, EstadosIntent, BarridoInactivo,
              PasosBarrido
<1> QED BY <1>1, <1>2, <1>3, <1>4, <1>5, <1>6 DEF ReservasNext

\* The opening of a payment keeps the types: an intent is due with a hold.
LEMMA AbrirTipo == ASSUME ReservasTypeOK, NEW i \in Intents, AbrirPago(i) PROVE ReservasTypeOK'
<1> USE DEF ReservasTypeOK
<1>1. CASE InsertarIntent(i)
  <2>1. intentVence' \in [Intents -> Nat]
    BY <1>1 DEF InsertarIntent, CitasDe
  <2> QED BY <1>1, <2>1 DEF InsertarIntent, EstadosIntent, IntentsActivos
<1>2. CASE EsperarPago(i)
  BY <1>2 DEF EsperarPago, EstadosIntent, IntentsActivos, EstadosCita, Ocupan
<1> QED BY <1>1, <1>2 DEF AbrirPago

\* Type correctness: in every reachable state the reservation tables and the
\* requests in flight hold values of their domains.
THEOREM ReservasTipo == Spec => []ReservasTypeOK
<1>1. ReservasTypeOK /\ UNCHANGED reservasVars => ReservasTypeOK'
  BY DEF ReservasTypeOK, reservasVars, tablas
<1>2. ReservasTypeOK /\ NextSinCobro => ReservasTypeOK'
  BY PasoTipo, AbrirTipo DEF NextSinCobro
<1> QED BY InicioTipo, <1>1, <1>2, PTL DEF Spec

-----------------------------------------------------------------------------
(* What a step may not do to a cita it does not create *)

\* The step brings c neither into the states that hold the barber, nor into
\* the pending ones, nor back to an active hold, and leaves its expiry alone.
Conserva(c) ==
    /\ cita'[c] \in Ocupan => cita[c] \in Ocupan
    /\ cita'[c] \in Pendientes => cita[c] \in Pendientes
    /\ cita'[c] = "ninguna" => cita[c] = "ninguna"
    /\ hold'[c] = "activo" => hold[c] = "activo"
    /\ vence'[c] = vence[c]

\* The expiry of holds confirms citas that already hold their slot and closes
\* pending ones.
LEMMA ExpirarConserva ==
    ASSUME ReservasTypeOK, NEW S, NEW pag \in SUBSET Pagadas(S), NEW ven, NEW c \in Citas
    PROVE  /\ CitaTrasExpirar(pag, ven)[c] \in Ocupan => cita[c] \in Ocupan
           /\ CitaTrasExpirar(pag, ven)[c] \in Pendientes => cita[c] \in Pendientes
           /\ CitaTrasExpirar(pag, ven)[c] = "ninguna" => cita[c] = "ninguna"
           /\ HoldTrasExpirar(pag, ven)[c] = "activo" => hold[c] = "activo"
<1>1. c \in pag => cita[c] \in Pendientes \cup {"confirmada"}
  BY DEF Pagadas
<1>2. CASE c \in pag
  BY <1>1, <1>2 DEF CitaTrasExpirar, HoldTrasExpirar, Ocupan, Pendientes
<1>3. CASE c \notin pag
  BY <1>3 DEF CitaTrasExpirar, HoldTrasExpirar, Ocupan, Pendientes
<1> QED BY <1>2, <1>3

\* The clock never goes back.
LEMMA PasoReloj == ReservasTypeOK /\ ReservasNext => ahora' \in Nat /\ ahora' >= ahora
<1> SUFFICES ASSUME ReservasTypeOK, ReservasNext PROVE ahora' \in Nat /\ ahora' >= ahora
  OBVIOUS
<1>1. CASE Tic
  BY <1>1 DEF Tic, ReservasTypeOK
<1>2. CASE ~Tic
  <2>1. CASE ExpirarVencidas \/ Barrer \/ DecisionCae
    BY <2>1 DEF ExpirarVencidas, Barrer, BarridoHolds, BarridoCitas, BarridoIntents,
                BarridoNoShow, BarridoCae, SoloLectura, DecisionCae, ReservasTypeOK
  <2>2. ASSUME NEW g \in Grupos, OperarGrupo(g) PROVE ahora' = ahora
    BY <2>2 DEF OperarGrupo, CrearReserva, LiberarHold, DecidirVencer, VencerPendiente,
                DecidirDescartar, DescartarPendiente, DecidirSinPago, ConfirmarSinPago
  <2>3. ASSUME NEW c \in Citas, NEW e \in EstadosCita, EstadoAdmin(c, e) PROVE ahora' = ahora
    BY <2>3 DEF EstadoAdmin
  <2> QED BY <1>2, <2>1, <2>2, <2>3 DEF ReservasNext, ReservasTypeOK
<1> QED BY <1>1, <1>2

\* Among the operations on the tables, only the reservation RPC creates.
LEMMA PasoConserva ==
    ASSUME ReservasTypeOK, ReservasNext, \A g \in Grupos : ~CrearReserva(g)
    PROVE  \A c \in Citas : Conserva(c)
<1> TAKE c \in Citas
<1> USE DEF ReservasTypeOK, Conserva
<1>1. CASE Tic
  BY <1>1 DEF Tic, tablas
<1>2. CASE ExpirarVencidas
  <2> DEFINE pag == Pagadas(Citas)
             ven == Vencidas(Citas)
  <2>1. /\ cita' = CitaTrasExpirar(pag, ven)
        /\ hold' = HoldTrasExpirar(pag, ven)
        /\ vence' = vence
    BY <1>2 DEF ExpirarVencidas
  <2> HIDE DEF pag, ven
  <2>2. pag \in SUBSET Pagadas(Citas)
    BY DEF pag
  <2> QED BY <2>1, <2>2, ExpirarConserva
<1>3. CASE Barrer
  BY <1>3 DEF Barrer, BarridoHolds, BarridoCitas, BarridoIntents, BarridoNoShow, BarridoCae,
              SoloLectura, tablas, Ocupan, Pendientes
<1>4. CASE DecisionCae
  BY <1>4 DEF DecisionCae, tablas
<1>5. ASSUME NEW g \in Grupos, OperarGrupo(g) PROVE Conserva(c)
  <2>1. CASE LiberarHold(g)
    BY <2>1 DEF LiberarHold, Ocupan, Pendientes
  <2>2. CASE DecidirVencer(g) \/ DecidirDescartar(g) \/ DecidirSinPago(g)
    BY <2>2 DEF DecidirVencer, DecidirDescartar, DecidirSinPago, tablas
  <2>3. CASE VencerPendiente(g) \/ DescartarPendiente(g)
    BY <2>3 DEF VencerPendiente, DescartarPendiente, Ocupan, Pendientes
  <2>4. CASE ConfirmarSinPago(g)
    BY <2>4 DEF ConfirmarSinPago, Ocupan, Pendientes
  <2> QED BY <1>5, <2>1, <2>2, <2>3, <2>4 DEF OperarGrupo
<1>6. ASSUME NEW d \in Citas, NEW e \in EstadosCita, EstadoAdmin(d, e)
      PROVE  Conserva(c)
  <2>1. /\ cita[d] \in DOMAIN Transiciones
        /\ e \in Transiciones[cita[d]]
        /\ cita' = [cita EXCEPT ![d] = e]
        /\ vence' = vence
    BY <1>6 DEF EstadoAdmin
  <2>2. hold'[c] = "activo" => hold[c] = "activo"
    BY <1>6 DEF EstadoAdmin, EstadoHoldAlCerrar
  <2>3. cita[d] \in Ocupan /\ e \notin Pendientes \cup {"ninguna"}
    BY <2>1 DEF Transiciones, Ocupan, Pendientes
  <2> QED BY <2>1, <2>2, <2>3
<1> QED BY <1>1, <1>2, <1>3, <1>4, <1>5, <1>6 DEF ReservasNext

\* The opening of a payment moves the citas between the pending states.
LEMMA AbrirConserva ==
    ASSUME ReservasTypeOK, NEW i \in Intents, AbrirPago(i)
    PROVE  ahora' = ahora /\ \A c \in Citas : Conserva(c)
  BY DEF ReservasTypeOK, AbrirPago, InsertarIntent, EsperarPago, Conserva, Ocupan,
         Pendientes

\* The reservation RPC adds the citas of its group to a slot the exclusion
\* constraint finds free, for a client without a live pending group.
LEMMA CrearConserva ==
    ASSUME ReservasTypeOK, NEW g \in Grupos, CrearReserva(g)
    PROVE  /\ ahora' = ahora
           /\ ~PendienteExistente(g)
           /\ \A c \in Citas : c \notin CitasDe(g) => Conserva(c)
           /\ \A c \in CitasDe(g) : cita[c] = "ninguna" /\ cita'[c] = "en_espera"
           /\ \A c \in CitasDe(g), d \in Citas :
                 <<c, d>> \in Choca => d \notin CitasDe(g) /\ cita'[d] \notin Ocupan
<1> DEFINE cliente == VencidasCliente(g)
           ambito == MismoCliente(g)
                        \cup {d \in Citas : \E c \in CitasDe(g) : <<c, d>> \in Choca}
           pag == Pagadas(ambito \ cliente)
           ven == cliente \cup Vencidas(ambito)
           tras == CitaTrasExpirar(pag, ven)
<1>1. /\ \A c \in CitasDe(g) : cita[c] = "ninguna"
      /\ ~PendienteExistente(g)
      /\ SinChoque(CitasDe(g), tras)
      /\ cita' = [c \in Citas |-> IF c \in CitasDe(g) THEN "en_espera" ELSE tras[c]]
      /\ hold' = [c \in Citas |-> IF c \in CitasDe(g) THEN "activo"
                                  ELSE HoldTrasExpirar(pag, ven)[c]]
      /\ vence' = [c \in Citas |-> IF c \in CitasDe(g) THEN ahora + TTL ELSE vence[c]]
      /\ ahora' = ahora
  BY DEF CrearReserva
<1>2. ASSUME NEW c \in Citas, c \notin CitasDe(g) PROVE Conserva(c)
  <2> HIDE DEF pag, ven
  <2>1. pag \in SUBSET Pagadas(ambito \ cliente)
    BY DEF pag
  <2>2. /\ cita'[c] = tras[c] /\ hold'[c] = HoldTrasExpirar(pag, ven)[c]
        /\ vence'[c] = vence[c]
    BY <1>1, <1>2
  <2> QED BY <2>1, <2>2, ExpirarConserva DEF Conserva
<1>3. CitasDe(g) \subseteq Citas
  BY DEF CitasDe
<1> HIDE DEF tras
<1>4. \A c \in CitasDe(g), d \in Citas :
          <<c, d>> \in Choca => d \notin CitasDe(g) /\ cita'[d] \notin Ocupan
  BY <1>1 DEF SinChoque
<1> QED BY <1>1, <1>2, <1>3, <1>4

-----------------------------------------------------------------------------
(* No double booking *)

\* A step that brings into the occupying states at most the citas of S, none of
\* which overlaps an occupying cita afterwards, books no barber twice.
LEMMA OcuparLibre ==
    ASSUME SinSolape, NEW S,
           \A c \in Citas : cita'[c] \in Ocupan => cita[c] \in Ocupan \/ c \in S,
           \A c \in S, d \in Citas : <<c, d>> \in Choca => cita'[d] \notin Ocupan
    PROVE  SinSolape'
  BY ReservasAssumption DEF SinSolape

\* Every operation on the reservation tables keeps the slots disjoint.
LEMMA PasoSolape == ReservasTypeOK /\ SinSolape /\ ReservasNext => SinSolape'
<1> SUFFICES ASSUME ReservasTypeOK, SinSolape, ReservasNext PROVE SinSolape'
  OBVIOUS
<1>1. CASE \A g \in Grupos : ~CrearReserva(g)
  <2>1. \A c \in Citas : cita'[c] \in Ocupan => cita[c] \in Ocupan
    BY <1>1, PasoConserva DEF Conserva
  <2> QED BY <2>1 DEF SinSolape
<1>2. ASSUME NEW g \in Grupos, CrearReserva(g) PROVE SinSolape'
  <2>1. \A c \in Citas : cita'[c] \in Ocupan => cita[c] \in Ocupan \/ c \in CitasDe(g)
    BY <1>2, CrearConserva DEF Conserva
  <2>2. \A c \in CitasDe(g), d \in Citas : <<c, d>> \in Choca => cita'[d] \notin Ocupan
    BY <1>2, CrearConserva
  <2> QED BY <2>1, <2>2, OcuparLibre
<1> QED BY <1>1, <1>2

\* No barber is booked twice, for any number of groups, citas and clients and
\* any relation of overlap: the exclusion constraint is consulted where a cita
\* enters its slot, and no other operation brings a cita back into one.
THEOREM ReservasSinSolape == Spec => []SinSolape
<1>1. ReservasInit => SinSolape
  BY DEF ReservasInit, SinSolape, Ocupan
<1>2. SinSolape /\ UNCHANGED reservasVars => SinSolape'
  BY DEF SinSolape, reservasVars, tablas
<1>3. ReservasTypeOK /\ SinSolape /\ NextSinCobro => SinSolape'
  <2> SUFFICES ASSUME ReservasTypeOK, SinSolape, NEW i \in Intents, AbrirPago(i)
               PROVE  SinSolape'
    BY PasoSolape DEF NextSinCobro
  <2>1. \A c \in Citas : cita'[c] \in Ocupan => cita[c] \in Ocupan
    BY AbrirConserva DEF Conserva
  <2> QED BY <2>1 DEF SinSolape
<1> QED BY <1>1, <1>2, <1>3, ReservasTipo, PTL DEF Spec

-----------------------------------------------------------------------------
(* One pending group per client *)

\* A live reservation shows in the check of the reservation RPC: its group is
\* active, because one of its citas is neither completed nor closed.
LEMMA VigenteEsPendiente ==
    ASSUME ReservasTypeOK, NEW g \in Grupos, NEW c \in Citas, ReservaVigente(c),
           ClienteDe[g] # SinCliente, ClienteDe[GrupoDe[c]] = ClienteDe[g]
    PROVE  PendienteExistente(g)
<1>1. c \in CitasDe(GrupoDe[c])
  BY DEF CitasDe
<1>2. cita[c] # "completada" /\ cita[c] \notin Terminales
  BY DEF ReservaVigente, Pendientes, Terminales
<1>3. EstadoGrupo(GrupoDe[c]) = "activo"
  BY <1>1, <1>2 DEF EstadoGrupo
<1> QED BY <1>3 DEF PendienteExistente, MismoCliente, ReservaVigente

\* No operation on the reservation tables gives a client a second live group.
LEMMA PasoUnaPendiente ==
    ReservasTypeOK /\ UnaPendientePorCliente /\ ReservasNext => UnaPendientePorCliente'
<1> SUFFICES ASSUME ReservasTypeOK, UnaPendientePorCliente, ReservasNext
             PROVE  UnaPendientePorCliente'
  OBVIOUS
<1>0. ReservasTypeOK'
  BY PasoTipo
<1>1. CASE \A g \in Grupos : ~CrearReserva(g)
  <2>1. \A c \in Citas : ReservaVigente(c)' => ReservaVigente(c)
    BY <1>0, <1>1, PasoConserva, PasoReloj DEF Conserva, ReservaVigente, ReservasTypeOK
  <2> QED BY <2>1 DEF UnaPendientePorCliente
<1>2. ASSUME NEW g \in Grupos, CrearReserva(g) PROVE UnaPendientePorCliente'
  <2>1. \A c \in Citas : c \notin CitasDe(g) /\ ReservaVigente(c)' => ReservaVigente(c)
    BY <1>2, CrearConserva DEF Conserva, ReservaVigente
  <2>2. \A c \in Citas : ReservaVigente(c) /\ ClienteDe[g] # SinCliente
                            => ClienteDe[GrupoDe[c]] # ClienteDe[g]
    BY <1>2, CrearConserva, VigenteEsPendiente
  <2>3. \A c \in Citas : c \in CitasDe(g) <=> GrupoDe[c] = g
    BY DEF CitasDe
  <2> QED BY <2>1, <2>2, <2>3 DEF UnaPendientePorCliente
<1> QED BY <1>1, <1>2

\* MF_RESERVA_PENDIENTE_EXISTENTE keeps a client to one live pending group, for
\* any number of groups: no sweep, release or discard revives a lapsed one.
THEOREM ReservasUnaPendiente == Spec => []UnaPendientePorCliente
<1>1. ReservasInit => UnaPendientePorCliente
  BY DEF ReservasInit, UnaPendientePorCliente, ReservaVigente, Pendientes
<1>2. UnaPendientePorCliente /\ UNCHANGED reservasVars => UnaPendientePorCliente'
  BY DEF UnaPendientePorCliente, ReservaVigente, reservasVars, tablas
<1>3. ReservasTypeOK /\ UnaPendientePorCliente /\ NextSinCobro => UnaPendientePorCliente'
  <2> SUFFICES ASSUME ReservasTypeOK, UnaPendientePorCliente, NEW i \in Intents, AbrirPago(i)
               PROVE  UnaPendientePorCliente'
    BY PasoUnaPendiente DEF NextSinCobro
  <2>1. \A c \in Citas : ReservaVigente(c)' => ReservaVigente(c)
    BY AbrirConserva DEF Conserva, ReservaVigente
  <2> QED BY <2>1 DEF UnaPendientePorCliente
<1> QED BY <1>1, <1>2, <1>3, ReservasTipo, PTL DEF Spec

-----------------------------------------------------------------------------
(* What is closed, attended or paid stays so *)

\* There is no live or consumed hold without its cita.
SinCitaSinHold == \A c \in Citas : cita[c] = "ninguna" => hold[c] \notin {"activo", "consumido"}

\* The step reopens no closed cita, expires or takes back none that left the
\* pending states, and keeps the consumed holds.
Firme(c) ==
    /\ cita[c] \in Terminales => cita'[c] = cita[c]
    /\ cita[c] \notin Pendientes \cup {"ninguna", "expirada"}
          => cita'[c] \notin Pendientes \cup {"ninguna", "expirada"}
    /\ cita[c] # "ninguna" /\ hold[c] = "consumido" => hold'[c] = "consumido"
    /\ cita'[c] = "ninguna" => hold'[c] \notin {"activo", "consumido"}

\* The expiry touches only pending and confirmed citas with an active hold.
LEMMA ExpirarFirme ==
    ASSUME ReservasTypeOK, SinCitaSinHold, NEW S, NEW pag \in SUBSET Pagadas(S), NEW ven,
           NEW c \in Citas,
           c \in ven => cita[c] \in Pendientes /\ hold[c] = "activo",
           cita'[c] = CitaTrasExpirar(pag, ven)[c], hold'[c] = HoldTrasExpirar(pag, ven)[c]
    PROVE  Firme(c)
<1>1. c \in pag => cita[c] \in Pendientes \cup {"confirmada"} /\ hold[c] = "activo"
  BY DEF Pagadas
<1>2. CASE c \in pag
  BY <1>1, <1>2 DEF CitaTrasExpirar, HoldTrasExpirar, Firme, Pendientes, Terminales
<1>3. CASE c \in ven \ pag
  BY <1>3 DEF CitaTrasExpirar, HoldTrasExpirar, Firme, Pendientes, Terminales
<1>4. CASE c \notin ven \cup pag
  BY <1>4 DEF CitaTrasExpirar, HoldTrasExpirar, Firme, SinCitaSinHold
<1> QED BY <1>2, <1>3, <1>4

\* No operation on the tables goes back on a cita or on its hold.
LEMMA PasoFirme ==
    ASSUME ReservasTypeOK, SinCitaSinHold, ReservasNext
    PROVE  \A c \in Citas : Firme(c)
<1> TAKE c \in Citas
<1> USE DEF ReservasTypeOK, SinCitaSinHold
<1>1. CASE Tic \/ DecisionCae
  BY <1>1 DEF Tic, DecisionCae, tablas, Firme
<1>2. CASE ExpirarVencidas
  <2> DEFINE pag == Pagadas(Citas)
             ven == Vencidas(Citas)
  <2>1. cita' = CitaTrasExpirar(pag, ven) /\ hold' = HoldTrasExpirar(pag, ven)
    BY <1>2 DEF ExpirarVencidas
  <2>2. /\ pag \in SUBSET Pagadas(Citas)
        /\ c \in ven => cita[c] \in Pendientes /\ hold[c] = "activo"
    BY DEF Vencidas
  <2> HIDE DEF pag, ven
  <2> QED BY <2>1, <2>2, ExpirarFirme
<1>3. CASE Barrer
  BY <1>3 DEF Barrer, BarridoHolds, BarridoCitas, BarridoIntents, BarridoNoShow, BarridoCae,
              SoloLectura, tablas, Firme, Pendientes, Terminales
<1>4. ASSUME NEW g \in Grupos, OperarGrupo(g) PROVE Firme(c)
  <2>1. CASE CrearReserva(g)
    <3> DEFINE cliente == VencidasCliente(g)
               ambito == MismoCliente(g)
                            \cup {d \in Citas : \E e \in CitasDe(g) : <<e, d>> \in Choca}
               pag == Pagadas(ambito \ cliente)
               ven == cliente \cup Vencidas(ambito)
    <3>1. /\ \A d \in CitasDe(g) : cita[d] = "ninguna"
          /\ cita' = [d \in Citas |-> IF d \in CitasDe(g) THEN "en_espera"
                                      ELSE CitaTrasExpirar(pag, ven)[d]]
          /\ hold' = [d \in Citas |-> IF d \in CitasDe(g) THEN "activo"
                                      ELSE HoldTrasExpirar(pag, ven)[d]]
      BY <2>1 DEF CrearReserva
    <3>2. /\ pag \in SUBSET Pagadas(ambito \ cliente)
          /\ c \in ven => cita[c] \in Pendientes /\ hold[c] = "activo"
      BY DEF Vencidas, VencidasCliente
    <3> HIDE DEF pag, ven
    <3>3. CASE c \in CitasDe(g)
      BY <3>1, <3>3 DEF Firme, Terminales
    <3>4. CASE c \notin CitasDe(g)
      BY <3>1, <3>2, <3>4, ExpirarFirme
    <3> QED BY <3>3, <3>4
  <2>2. CASE LiberarHold(g)
    BY <2>2 DEF LiberarHold, Firme, Pendientes, Terminales
  <2>3. CASE DecidirVencer(g) \/ DecidirDescartar(g) \/ DecidirSinPago(g)
    BY <2>3 DEF DecidirVencer, DecidirDescartar, DecidirSinPago, tablas, Firme
  <2>4. CASE VencerPendiente(g) \/ DescartarPendiente(g)
    BY <2>4 DEF VencerPendiente, DescartarPendiente, Firme, Pendientes, Terminales
  <2>5. CASE ConfirmarSinPago(g)
    BY <2>5 DEF ConfirmarSinPago, Firme, Pendientes, Terminales
  <2> QED BY <1>4, <2>1, <2>2, <2>3, <2>4, <2>5 DEF OperarGrupo
<1>5. ASSUME NEW d \in Citas, NEW e \in EstadosCita, EstadoAdmin(d, e)
      PROVE  Firme(c)
  <2>1. /\ cita[d] \in DOMAIN Transiciones
        /\ e \in Transiciones[cita[d]]
        /\ cita' = [cita EXCEPT ![d] = e]
    BY <1>5 DEF EstadoAdmin
  <2>2. \/ hold'[c] = hold[c]
        \/ hold[c] = "activo" /\ hold'[c] \in {"expirado", "cancelado"}
    <3>1. EstadoHoldAlCerrar(e) \in {"expirado", "cancelado"}
      BY DEF EstadoHoldAlCerrar
    <3>2. \/ hold' = hold
          \/ hold[d] = "activo" /\ hold' = [hold EXCEPT ![d] = EstadoHoldAlCerrar(e)]
      BY <1>5 DEF EstadoAdmin
    <3> QED BY <3>1, <3>2
  <2>3. /\ cita[d] \notin Terminales \cup {"ninguna"}
        /\ e \notin Pendientes \cup {"ninguna"}
        /\ e = "expirada" => cita[d] \in Pendientes
    BY <2>1 DEF Transiciones, Terminales, Pendientes
  <2> QED BY <2>1, <2>2, <2>3 DEF Firme
<1> QED BY <1>1, <1>2, <1>3, <1>4, <1>5 DEF ReservasNext

\* A consumed hold is never taken back: no sweep, release, discard or change of
\* state expires or cancels what a confirmation consumed.
THEOREM ReservasHoldFinal == Spec => HoldConsumidoFinal
<1>1. ReservasInit => SinCitaSinHold
  BY DEF ReservasInit, SinCitaSinHold
<1>2. ReservasTypeOK /\ SinCitaSinHold /\ [NextSinCobro]_reservasVars =>
        /\ SinCitaSinHold'
        /\ [\A c \in Citas : hold[c] = "consumido" => hold'[c] = "consumido"]_reservasVars
  <2> SUFFICES ASSUME ReservasTypeOK, SinCitaSinHold, [NextSinCobro]_reservasVars
               PROVE  \A c \in Citas : Firme(c)
    BY DEF SinCitaSinHold, Firme
  <2>1. CASE ReservasNext
    BY <2>1, PasoFirme
  <2>2. ASSUME NEW i \in Intents, AbrirPago(i) PROVE \A c \in Citas : Firme(c)
    BY <2>2
    DEF AbrirPago, InsertarIntent, EsperarPago, ReservasTypeOK, SinCitaSinHold, Firme,
                Pendientes, Terminales
  <2>3. CASE UNCHANGED reservasVars
    BY <2>3 DEF reservasVars, tablas, SinCitaSinHold, Firme
  <2> QED BY <2>1, <2>2, <2>3 DEF NextSinCobro
<1> QED BY <1>1, <1>2, ReservasTipo, PTL DEF Spec, HoldConsumidoFinal


-----------------------------------------------------------------------------
(* Type correctness *)

\* Payments start with no intent created and nothing charged.
LEMMA PagosInicioTipo == Init => PagosTypeOK
  BY InicioTipo, PagosAssumption
     DEF Init, PagosTypeOK, Fases, Resultados, Horas, SinHora

\* The confirmation keeps the types when the hour of the payment is known.
LEMMA ConfirmarTipo ==
    ASSUME PagosTypeOK, NEW i \in Intents, NEW h \in Nat, Confirmar(i, h),
           fase' \in [Intents -> Fases]
    PROVE  PagosTypeOK'
  BY DEF PagosTypeOK, ReservasTypeOK, Confirmar, EstadosCita, Ocupan, EstadosHold,
         EstadosIntent, Horas

\* Every step keeps the types: an expiry taken as the minimum over a group is the
\* expiry of one of its citas, and an approval is used only once it has its hour.
LEMMA PagosPasoTipo == PagosTypeOK /\ [Next]_vars => PagosTypeOK'
<1> SUFFICES ASSUME PagosTypeOK, [Next]_vars PROVE PagosTypeOK'
  OBVIOUS
<1> USE DEF PagosTypeOK
<1>1. CASE ReservasNext /\ UNCHANGED pagoVars
  BY <1>1, PasoTipo DEF pagoVars
<1>2. ASSUME NEW i \in Intents, Pagar(i) PROVE PagosTypeOK'
  <2> USE DEF ReservasTypeOK
  <2>1. ASSUME NEW u \in Usuarios, CrearIntent(i, u) PROVE PagosTypeOK'
    <3>1. ReservasTypeOK'
      <4>1. intentVence' \in [Intents -> Nat]
        BY <2>1 DEF CrearIntent, InsertarIntent, CitasDe
      <4> QED BY <2>1, <4>1 DEF CrearIntent, InsertarIntent, EstadosIntent, IntentsActivos
    <3> QED BY <2>1, <3>1 DEF CrearIntent, Fases
  <2>2. CASE ActivarIntent(i)
    <3>1. fase' \in [Intents -> Fases]
      BY <2>2 DEF ActivarIntent, Fases
    <3>2. CASE EsperarPago(i)
      <4>1. ReservasTypeOK'
        BY <3>2, AbrirTipo DEF AbrirPago
      <4> QED BY <2>2, <3>1, <4>1 DEF ActivarIntent
    <3>3. CASE UNCHANGED reservasVars
      BY <2>2, <3>1, <3>3 DEF ActivarIntent, reservasVars, tablas
    <3> QED BY <2>2, <3>2, <3>3 DEF ActivarIntent
  <2>3. CASE VentaReclamar(i)
    <3>1. vence' \in [Citas -> Nat] /\ intentVence' \in [Intents -> Nat]
      BY <2>3, PagosAssumption DEF VentaReclamar, CitasDe
    <3> QED BY <2>3, <3>1 DEF VentaReclamar, Fases, EstadosIntent, IntentsActivos
  <2>4. ASSUME NEW r \in Resultados \ {"ninguno"}, VentaResponde(i, r) PROVE PagosTypeOK'
    BY <2>4 DEF VentaResponde, reservasVars, tablas, Fases, Horas
  <2>5. CASE VentaCierra(i)
    BY <2>5 DEF VentaCierra, EstadoTrasFallo, Fases, EstadosIntent, IntentsActivos
  <2>6. CASE VentaReferencias(i)
    BY <2>6 DEF VentaReferencias, reservasVars, tablas, Fases
  <2>7. CASE VentaReconcilia(i)
    <3>1. fase' \in [Intents -> Fases]
      BY <2>7 DEF VentaReconcilia, Fases
    <3>2. CASE Confirmar(i, ahora)
      BY <3>1, <3>2, ConfirmarTipo
    <3>3. CASE UNCHANGED <<reservasVars, resultado, finalAt, refs, cobro, pago, ventas,
                           creadoPor, promo>>
      BY <3>1, <3>3 DEF reservasVars, tablas
    <3> QED BY <2>7, <3>2, <3>3 DEF VentaReconcilia
  <2>8. CASE EstadoReconcilia(i) \/ ReconciliaDurable(i)
    <3>1. UNCHANGED fase
      BY <2>8 DEF EstadoReconcilia, ReconciliaDurable
    <3>2. PICK h \in {ahora, finalAt[i]} :
             Confirmar(i, h) /\ (h = finalAt[i] => AprobacionDurable(i) \/ h = ahora)
      BY <2>8 DEF EstadoReconcilia, ReconciliaDurable
    <3>3. h \in Nat
      BY <3>2 DEF AprobacionDurable, Horas
    <3> QED BY <3>1, <3>2, <3>3, ConfirmarTipo
  <2>9. CASE PagoCae(i)
    <3>1. cobro' \in [Intents -> BOOLEAN]
      BY <2>9 DEF PagoCae
    <3>2. fase' \in [Intents -> Fases] /\ caidas' \in Nat
      BY <2>9 DEF PagoCae, Fases
    <3> QED BY <2>9, <3>1, <3>2 DEF PagoCae, tablas
  <2> QED BY <1>2, <2>1, <2>2, <2>3, <2>4, <2>5, <2>6, <2>7, <2>8, <2>9 DEF Pagar
<1>3. ASSUME NEW g \in Grupos, PromocionDejaDeAplicar(g) PROVE PagosTypeOK'
  BY <1>3 DEF PromocionDejaDeAplicar, reservasVars, tablas, ReservasTypeOK
<1>4. CASE UNCHANGED vars
  BY <1>4 DEF vars, reservasVars, tablas, pagoVars, ReservasTypeOK
<1> QED BY <1>1, <1>2, <1>3, <1>4 DEF Next

\* Type correctness: also while payments are in flight, the tables hold values
\* of their domains; in particular an hour stored for a payment is one.
THEOREM PagosTipo == PagosSpec => []PagosTypeOK
  BY PagosInicioTipo, PagosPasoTipo, PTL DEF PagosSpec

-----------------------------------------------------------------------------
(* What a step of a payment does to the reservation *)

\* The steps that confirm nothing may move a cita to the payment, and a claim
\* may extend the holds of a group that is still payable.
SinConfirmar(g) ==
    /\ UNCHANGED <<ahora, hold, pagadoAt>>
    /\ \A c \in Citas : \/ cita'[c] = cita[c]
                        \/ cita[c] = "en_espera" /\ cita'[c] = "pendiente_pago"
    /\ \A c \in Citas : \/ vence'[c] = vence[c]
                        \/ GrupoDe[c] = g /\ Pagable(g) /\ vence'[c] >= vence[c]
    /\ \A j \in Intents : intent'[j] = "confirmado" => intent[j] = "confirmado"

\* The group is confirmed at the hour h, found payable or recoverable and with
\* some trace of a charge.
CobroDe(i, h) ==
    /\ Confirmar(i, h)
    /\ Pagable(GrupoIntent[i]) \/ Recuperable(i)
    /\ fase[i] = "referencias" \/ cobro[i] \/ finalAt[i] # SinHora
    /\ fase' = fase \/ fase' = [fase EXCEPT ![i] = "fin"]

\* The three reconciliations confirm at the hour of a durable approval or now.
LEMMA Reconciliar ==
    ASSUME PagosTypeOK, NEW i \in Intents,
           \/ VentaReconcilia(i) /\ Pagable(GrupoIntent[i]) /\ Confirmar(i, ahora)
           \/ EstadoReconcilia(i) \/ ReconciliaDurable(i)
    PROVE  \E h \in Nat : CobroDe(i, h)
<1>1. PICK h \in {ahora, finalAt[i]} : CobroDe(i, h) /\ (h = ahora \/ AprobacionDurable(i))
  BY DEF VentaReconcilia, EstadoReconcilia, ReconciliaDurable, CobroDe, AprobacionDurable
<1>2. h \in Nat
  BY <1>1 DEF AprobacionDurable, Horas, PagosTypeOK, ReservasTypeOK
<1> QED BY <1>1, <1>2

\* A step of a payment either confirms the group or confirms nothing.
LEMMA PasoDePago ==
    ASSUME PagosTypeOK, NEW i \in Intents, Pagar(i)
    PROVE  \/ \E h \in Nat : CobroDe(i, h)
           \/ SinConfirmar(GrupoIntent[i])
<1> USE DEF PagosTypeOK, ReservasTypeOK, SinConfirmar
<1>1. ASSUME NEW u \in Usuarios, CrearIntent(i, u) PROVE SinConfirmar(GrupoIntent[i])
  BY <1>1 DEF CrearIntent, InsertarIntent
<1>2. CASE ActivarIntent(i)
  BY <1>2 DEF ActivarIntent, EsperarPago, reservasVars, tablas
<1>3. CASE VentaReclamar(i)
  BY <1>3, PagosAssumption DEF VentaReclamar
<1>4. CASE \/ VentaReferencias(i)
           \/ \E r \in Resultados \ {"ninguno"} : VentaResponde(i, r)
  BY <1>4 DEF VentaReferencias, VentaResponde, reservasVars, tablas
<1>5. CASE VentaCierra(i)
  BY <1>5 DEF VentaCierra, EstadoTrasFallo
<1>6. CASE PagoCae(i)
  BY <1>6 DEF PagoCae, tablas
<1>7. CASE VentaReconcilia(i) /\ ~(Pagable(GrupoIntent[i]) /\ Confirmar(i, ahora))
  BY <1>7 DEF VentaReconcilia, reservasVars, tablas
<1>8. CASE \/ VentaReconcilia(i) /\ Pagable(GrupoIntent[i]) /\ Confirmar(i, ahora)
           \/ EstadoReconcilia(i) \/ ReconciliaDurable(i)
  BY <1>8, Reconciliar
<1> QED BY <1>1, <1>2, <1>3, <1>4, <1>5, <1>6, <1>7, <1>8 DEF Pagar

\* The steps that are neither an operation on the tables nor one of a payment
\* leave the tables alone.
LEMMA OtrosPasos ==
    ASSUME UNCHANGED vars \/ \E g \in Grupos : PromocionDejaDeAplicar(g)
    PROVE  UNCHANGED <<ahora, cita, hold, vence, intent, pagadoAt>>
  BY DEF PromocionDejaDeAplicar, vars, reservasVars, tablas

-----------------------------------------------------------------------------
(* No double booking, also when expired citas come back *)

\* A confirmation takes only slots that nobody took after they were freed.
LEMMA PagosPasoSolape == PagosTypeOK /\ SinSolape /\ [Next]_vars => SinSolape'
<1> SUFFICES ASSUME PagosTypeOK, SinSolape, [Next]_vars PROVE SinSolape'
  OBVIOUS
<1>1. CASE ReservasNext
  BY <1>1, PasoSolape DEF PagosTypeOK
<1>2. ASSUME NEW i \in Intents, Pagar(i) PROVE SinSolape'
  <2>1. CASE SinConfirmar(GrupoIntent[i])
    BY <2>1 DEF SinConfirmar, SinSolape, Ocupan
  <2>2. ASSUME NEW h \in Nat, Confirmar(i, h) PROVE SinSolape'
    <3> DEFINE S == PorConfirmar(GrupoIntent[i])
    <3>1. /\ SinChoque(S, cita)
          /\ cita' = [c \in Citas |-> IF c \in S THEN "confirmada" ELSE cita[c]]
      BY <2>2 DEF Confirmar, Confirmable
    <3>2. S \subseteq Citas
      BY DEF PorConfirmar, CitasDe
    <3> HIDE DEF S
    <3>3. \A c \in S, d \in Citas : <<c, d>> \in Choca => cita'[d] \notin Ocupan
      BY <3>1 DEF SinChoque
    <3>4. \A c \in Citas : cita'[c] \in Ocupan => cita[c] \in Ocupan \/ c \in S
      BY <3>1
    <3> QED BY <3>3, <3>4, OcuparLibre
  <2> QED BY <1>2, <2>1, <2>2, PasoDePago DEF CobroDe
<1>3. CASE UNCHANGED vars \/ \E g \in Grupos : PromocionDejaDeAplicar(g)
  BY <1>3, OtrosPasos DEF SinSolape
<1> QED BY <1>1, <1>2, <1>3 DEF Next

\* No barber is booked twice although a payment may confirm citas that had
\* expired, whatever Sales, crashes and rebookings came in between.
THEOREM PagosSinSolape == PagosSpec => []SinSolape
<1>1. Init => SinSolape
  BY DEF Init, ReservasInit, SinSolape, Ocupan
<1> QED BY <1>1, PagosPasoSolape, PagosTipo, PTL DEF PagosSpec

-----------------------------------------------------------------------------
(* One pending group per client, also when holds are extended *)

\* A claim extends only live holds, and a confirmation leaves nothing pending.
LEMMA PagosPasoUnaPendiente ==
    PagosTypeOK /\ UnaPendientePorCliente /\ [Next]_vars => UnaPendientePorCliente'
<1> SUFFICES ASSUME PagosTypeOK, UnaPendientePorCliente, [Next]_vars
             PROVE  UnaPendientePorCliente'
  OBVIOUS
<1>1. CASE ReservasNext
  BY <1>1, PasoUnaPendiente DEF PagosTypeOK
<1>2. ASSUME NEW i \in Intents, Pagar(i) PROVE UnaPendientePorCliente'
  <2>1. \A c \in Citas : ReservaVigente(c)' => ReservaVigente(c)
    <3> TAKE c \in Citas
    <3>1. CASE SinConfirmar(GrupoIntent[i])
      BY <3>1 DEF SinConfirmar, ReservaVigente, Pagable, CitasDe, Pendientes
    <3>2. ASSUME NEW h \in Nat, Confirmar(i, h)
          PROVE  ReservaVigente(c)' => ReservaVigente(c)
      BY <3>2 DEF Confirmar, ReservaVigente, Pendientes, PagosTypeOK, ReservasTypeOK
    <3> QED BY <1>2, <3>1, <3>2, PasoDePago DEF CobroDe
  <2> QED BY <2>1 DEF UnaPendientePorCliente
<1>3. CASE UNCHANGED vars \/ \E g \in Grupos : PromocionDejaDeAplicar(g)
  BY <1>3, OtrosPasos DEF UnaPendientePorCliente, ReservaVigente
<1> QED BY <1>1, <1>2, <1>3 DEF Next

\* A client has at most one live pending group although the claim of a Sale
\* extends the holds of a group past their time.
THEOREM PagosUnaPendiente == PagosSpec => []UnaPendientePorCliente
<1>1. Init => UnaPendientePorCliente
  BY DEF Init, ReservasInit, UnaPendientePorCliente, ReservaVigente, Pendientes
<1> QED BY <1>1, PagosPasoUnaPendiente, PagosTipo, PTL DEF PagosSpec

-----------------------------------------------------------------------------
(* The hour of a payment stays inside the holds it paid *)

\* PagoEnVentana is not inductive: a reservation created over the citas of a
\* paid group would set their expiry anew.  What rules it out is that those
\* citas exist, and no operation takes a cita out of existence.
PagoConCitas ==
    \A i \in Intents : intent[i] = "confirmado" =>
        \A c \in CitasDe(GrupoIntent[i]) : cita[c] # "ninguna"

VentanaInv == PagoEnVentana /\ PagoConCitas

\* The operations on the tables touch no paid_at nor the time of an intent, and of
\* the intents they only expire active ones.
IntentSinPago(i) ==
    \/ intent'[i] = intent[i]
    \/ intent[i] \in IntentsActivos /\ intent'[i] = "expirado"

LEMMA PasoIntents ==
    ASSUME ReservasTypeOK, ReservasNext
    PROVE  UNCHANGED <<pagadoAt, intentVence>> /\ \A i \in Intents : IntentSinPago(i)
<1> USE DEF ReservasTypeOK, IntentSinPago
<1>1. CASE Tic \/ ExpirarVencidas \/ Barrer \/ DecisionCae
  BY <1>1 DEF Tic, ExpirarVencidas, IntentTrasExpirar, Barrer, BarridoHolds, BarridoCitas,
              BarridoIntents, BarridoNoShow, BarridoCae, SoloLectura, DecisionCae, tablas,
              IntentsActivos
<1>2. ASSUME NEW g \in Grupos, OperarGrupo(g)
      PROVE  UNCHANGED <<pagadoAt, intentVence>> /\ \A i \in Intents : IntentSinPago(i)
  <2>1. CASE CrearReserva(g)
    <3>1. PICK ven : intent' = IntentTrasExpirar(ven) /\ UNCHANGED <<pagadoAt, intentVence>>
      BY <2>1 DEF CrearReserva
    <3> QED BY <3>1 DEF IntentTrasExpirar, IntentsActivos
  <2>2. CASE LiberarHold(g)
    BY <2>2 DEF LiberarHold
  <2>3. CASE DecidirVencer(g) \/ DecidirDescartar(g) \/ DecidirSinPago(g)
    BY <2>3 DEF DecidirVencer, DecidirDescartar, DecidirSinPago, tablas
  <2>4. CASE VencerPendiente(g) \/ DescartarPendiente(g) \/ ConfirmarSinPago(g)
    BY <2>4 DEF VencerPendiente, DescartarPendiente, ConfirmarSinPago
  <2> QED BY <1>2, <2>1, <2>2, <2>3, <2>4 DEF OperarGrupo
<1>3. ASSUME NEW c \in Citas, NEW e \in EstadosCita, EstadoAdmin(c, e)
      PROVE  UNCHANGED <<pagadoAt, intentVence>> /\ \A i \in Intents : IntentSinPago(i)
  BY <1>3 DEF EstadoAdmin
<1> QED BY <1>1, <1>2, <1>3 DEF ReservasNext

\* An operation on the tables moves the expiry of no existing cita.
LEMMA PasoVence ==
    ASSUME ReservasTypeOK, ReservasNext
    PROVE  \A c \in Citas : cita[c] # "ninguna" => vence'[c] = vence[c] /\ cita'[c] # "ninguna"
<1>1. CASE \A g \in Grupos : ~CrearReserva(g)
  BY <1>1, PasoConserva DEF Conserva
<1>2. ASSUME NEW g \in Grupos, CrearReserva(g), NEW c \in Citas, cita[c] # "ninguna"
      PROVE  vence'[c] = vence[c] /\ cita'[c] # "ninguna"
  BY <1>2, CrearConserva DEF Conserva
<1> QED BY <1>1, <1>2

\* The invariant is kept: a confirmation checks the window, a claim only
\* extends it.
LEMMA PasoVentana == PagosTypeOK /\ VentanaInv /\ [Next]_vars => VentanaInv'
<1> SUFFICES ASSUME PagosTypeOK, VentanaInv, [Next]_vars PROVE VentanaInv'
  OBVIOUS
<1>0. PagosTypeOK'
  BY PagosPasoTipo
<1>1. CASE ReservasNext
  BY <1>1, PasoIntents, PasoVence
     DEF PagosTypeOK, VentanaInv, PagoEnVentana, PagoConCitas, CitasDe, IntentSinPago
<1>2. ASSUME NEW i \in Intents, Pagar(i) PROVE VentanaInv'
  <2>1. CASE SinConfirmar(GrupoIntent[i])
    <3>1. \A c \in Citas : vence'[c] >= vence[c] /\ (cita[c] # "ninguna" => cita'[c] # "ninguna")
      BY <1>0, <2>1 DEF SinConfirmar, PagosTypeOK, ReservasTypeOK
    <3>2. pagadoAt' = pagadoAt
             /\ \A j \in Intents : intent'[j] = "confirmado" => intent[j] = "confirmado"
      BY <2>1 DEF SinConfirmar
    <3>3. \A j \in Intents, c \in Citas :
             pagadoAt[j] # SinHora /\ pagadoAt[j] <= vence[c] => pagadoAt[j] <= vence'[c]
      BY <1>0, <3>1 DEF PagosTypeOK, ReservasTypeOK, Horas
    <3> QED BY <3>1, <3>2, <3>3 DEF VentanaInv, PagoEnVentana, PagoConCitas, CitasDe
  <2>2. ASSUME NEW h \in Nat, Confirmar(i, h),
               \A c \in CitasDe(GrupoIntent[i]) : cita[c] # "ninguna"
        PROVE  VentanaInv'
    <3>1. /\ \A c \in CitasDe(GrupoIntent[i]) : h <= vence[c]
          /\ intent' = [intent EXCEPT ![i] = "confirmado"]
          /\ pagadoAt' = [pagadoAt EXCEPT ![i] = h]
          /\ vence' = vence
          /\ cita' = [c \in Citas |-> IF c \in PorConfirmar(GrupoIntent[i])
                                      THEN "confirmada" ELSE cita[c]]
      BY <2>2 DEF Confirmar, Confirmable
    <3>2. h # SinHora
      BY DEF SinHora
    <3>3. \A c \in Citas : cita[c] # "ninguna" => cita'[c] # "ninguna"
      BY <3>1
    <3>4. PagoEnVentana'
      BY <3>1, <3>2 DEF VentanaInv, PagoEnVentana, CitasDe, PagosTypeOK, ReservasTypeOK
    <3>5. PagoConCitas'
      BY <2>2, <3>1, <3>3 DEF VentanaInv, PagoConCitas, CitasDe, PagosTypeOK, ReservasTypeOK
    <3> QED BY <3>4, <3>5 DEF VentanaInv
  <2> QED BY <1>2, <2>1, <2>2, PasoDePago DEF CobroDe, Pagable, Recuperable, Pendientes
<1>3. CASE UNCHANGED vars \/ \E g \in Grupos : PromocionDejaDeAplicar(g)
  BY <1>3, OtrosPasos DEF VentanaInv, PagoEnVentana, PagoConCitas
<1> QED BY <1>1, <1>2, <1>3 DEF Next

\* The paid_at of a confirmed intent is inside the window of every hold of its
\* group, however late the confirmation came and whatever extended the holds.
THEOREM PagosEnVentana == PagosSpec => []PagoEnVentana
<1>1. Init => VentanaInv
  BY DEF Init, ReservasInit, VentanaInv, PagoEnVentana, PagoConCitas
<1>2. VentanaInv => PagoEnVentana
  BY DEF VentanaInv
<1> QED BY <1>1, <1>2, PasoVentana, PagosTipo, PTL DEF PagosSpec

-----------------------------------------------------------------------------
(* One Sale, one charge, one confirmation *)

\* What an intent says of its charge: a Sale begins once, from link_generado,
\* an approval stands on a charge, and a refused intent was not charged.
CobroCoherente ==
    \A i \in Intents :
        /\ intent[i] \in {"ninguno", "creado", "link_generado"} => ventas[i] = 0
        /\ cobro[i] \/ fase[i] \in {"enviada", "respondida", "referencias"} => ventas[i] # 0
        /\ resultado[i] = "aprobada" \/ finalAt[i] # SinHora => cobro[i]
        /\ fase[i] = "referencias" => resultado[i] = "aprobada"
        /\ fase[i] = "enviada" => ~cobro[i]
        /\ fase[i] = "respondida" /\ resultado[i] = "declinada" => ~cobro[i]
        /\ intent[i] = "fallido" => ~cobro[i] /\ fase[i] = "fin"

PagoInv ==
    /\ PagosTypeOK /\ SinCitaSinHold
    /\ CobroCoherente /\ VentaUnica /\ PagoConfirmaReserva /\ PagoNoRetrocede

\* The operations on the tables change no payment and confirm or begin none.
LEMMA PagoPasoTablas == PagoInv /\ ReservasNext /\ UNCHANGED pagoVars => PagoInv'
<1> SUFFICES ASSUME PagoInv, ReservasNext, UNCHANGED pagoVars PROVE PagoInv'
  OBVIOUS
<1>1. PagosTypeOK'
  BY PagosPasoTipo DEF PagoInv, Next
<1>2. \A c \in Citas : Firme(c)
  BY PasoFirme DEF PagoInv, PagosTypeOK
<1>3. \A i \in Intents : IntentSinPago(i)
  BY PasoIntents DEF PagoInv, PagosTypeOK
<1>4. SinCitaSinHold'
  BY <1>2 DEF SinCitaSinHold, Firme
<1>5. CobroCoherente' /\ VentaUnica' /\ PagoNoRetrocede'
  BY <1>3 DEF PagoInv, pagoVars, CobroCoherente, VentaUnica, PagoNoRetrocede, IntentsActivos,
              IntentSinPago
<1>6. PagoConfirmaReserva'
  BY <1>2, <1>3 DEF PagoInv, pagoVars, PagoConfirmaReserva, Firme, CitasDe, IntentSinPago,
                    IntentsActivos
<1> QED BY <1>1, <1>4, <1>5, <1>6 DEF PagoInv

\* A step that confirms nothing leaves the confirmed groups alone.
LEMMA PagoSinConfirmar ==
    ASSUME PagoInv, NEW g \in Grupos, SinConfirmar(g),
           cobro' \in [Intents -> BOOLEAN], pago' = pago,
           \A j \in Intents : cobro[j] => cobro'[j],
           \A j \in Intents : intent[j] = "confirmado" => intent'[j] = "confirmado"
    PROVE  SinCitaSinHold' /\ PagoConfirmaReserva' /\ PagoNoRetrocede'
  BY DEF PagoInv, SinConfirmar, SinCitaSinHold, PagoConfirmaReserva, PagoNoRetrocede, CitasDe,
         Pendientes, PagosTypeOK

\* A confirmation finds a charge, and consumes every hold of its group.
LEMMA PagoConfirmar ==
    ASSUME PagoInv, NEW i \in Intents, NEW h \in Nat, CobroDe(i, h)
    PROVE  /\ SinCitaSinHold' /\ CobroCoherente' /\ VentaUnica'
           /\ PagoConfirmaReserva' /\ PagoNoRetrocede'
<1> DEFINE g == GrupoIntent[i]
<1>1. /\ pago' = [pago EXCEPT ![i] = TRUE] /\ intent' = [intent EXCEPT ![i] = "confirmado"]
      /\ cita' = [c \in Citas |-> IF c \in PorConfirmar(g) THEN "confirmada" ELSE cita[c]]
      /\ hold' = [c \in Citas |-> IF GrupoDe[c] = g /\ hold[c] \in {"activo", "expirado"}
                                  THEN "consumido" ELSE hold[c]]
      /\ UNCHANGED <<resultado, finalAt, refs, cobro, ventas>>
  BY DEF CobroDe, Confirmar
<1>2. \A c \in CitasDe(g) : /\ cita[c] \in Pendientes \cup {"expirada"}
                            /\ hold[c] \in {"activo", "expirado"}
  BY DEF CobroDe, Pagable, Recuperable
<1>3. \A c \in Citas : IF c \in CitasDe(g) THEN cita'[c] = "confirmada" /\ hold'[c] = "consumido"
                                           ELSE cita'[c] = cita[c] /\ hold'[c] = hold[c]
  BY <1>1, <1>2 DEF PorConfirmar, CitasDe
<1>4. cobro[i] /\ (fase' = fase \/ fase' = [fase EXCEPT ![i] = "fin"])
  BY DEF CobroDe, PagoInv, CobroCoherente
<1>5. SinCitaSinHold'
  BY <1>3 DEF PagoInv, SinCitaSinHold
<1>6. PagoConfirmaReserva' /\ PagoNoRetrocede'
  BY <1>1, <1>3, <1>4 DEF PagoInv, PagoConfirmaReserva, PagoNoRetrocede, CitasDe, Pendientes,
                    PagosTypeOK, ReservasTypeOK
<1>7. CobroCoherente' /\ VentaUnica'
  BY <1>1, <1>4 DEF PagoInv, CobroCoherente, VentaUnica, PagosTypeOK, ReservasTypeOK
<1> QED BY <1>5, <1>6, <1>7

\* The steps of a payment keep the invariant.
LEMMA PagoPasoPagar == ASSUME PagoInv, NEW i \in Intents, Pagar(i) PROVE PagoInv'
<1>0. PagosTypeOK'
  BY PagosPasoTipo DEF PagoInv, Next
<1> SUFFICES SinCitaSinHold' /\ CobroCoherente' /\ VentaUnica' /\ PagoConfirmaReserva'
             /\ PagoNoRetrocede'
  BY <1>0 DEF PagoInv
<1>t. PagosTypeOK
  BY DEF PagoInv
<1> USE <1>t DEF PagosTypeOK, ReservasTypeOK
<1>1. ASSUME SinConfirmar(GrupoIntent[i]), pago' = pago,
             \A j \in Intents : cobro[j] => cobro'[j],
             \A j \in Intents : intent[j] = "confirmado" => intent'[j] = "confirmado"
      PROVE  SinCitaSinHold' /\ PagoConfirmaReserva' /\ PagoNoRetrocede'
  BY <1>0, <1>1, PagoSinConfirmar, ReservasAssumption
<1>2. ASSUME NEW u \in Usuarios, CrearIntent(i, u) PROVE PagoInv'
  <2>1. CobroCoherente' /\ VentaUnica'
    BY <1>2 DEF CrearIntent, InsertarIntent, PagoInv, CobroCoherente, VentaUnica
  <2>2. SinConfirmar(GrupoIntent[i])
    BY <1>2 DEF CrearIntent, InsertarIntent, SinConfirmar
  <2>3. SinCitaSinHold' /\ PagoConfirmaReserva' /\ PagoNoRetrocede'
    BY <1>1, <1>2, <2>2 DEF CrearIntent, InsertarIntent
  <2> QED BY <1>0, <2>1, <2>3 DEF PagoInv
<1>3. CASE ActivarIntent(i)
  <2>1. CobroCoherente' /\ VentaUnica'
    BY <1>3 DEF ActivarIntent, EsperarPago, Revalidado, reservasVars, tablas, PagoInv,
                CobroCoherente, VentaUnica
  <2>2. SinConfirmar(GrupoIntent[i])
    BY <1>3 DEF ActivarIntent, EsperarPago, reservasVars, tablas, SinConfirmar
  <2>3. SinCitaSinHold' /\ PagoConfirmaReserva' /\ PagoNoRetrocede'
    BY <1>1, <1>3, <2>2 DEF ActivarIntent, EsperarPago, Revalidado, reservasVars, tablas
  <2> QED BY <2>1, <2>3
<1>4. CASE VentaReclamar(i)
  <2>1. CobroCoherente' /\ VentaUnica'
    BY <1>4 DEF VentaReclamar, PuedeCobrar, PagoInv, CobroCoherente, VentaUnica
  <2>2. SinConfirmar(GrupoIntent[i])
    BY <1>4, PagosAssumption DEF VentaReclamar, SinConfirmar
  <2>3. SinCitaSinHold' /\ PagoConfirmaReserva' /\ PagoNoRetrocede'
    BY <1>1, <1>4, <2>2 DEF VentaReclamar, PuedeCobrar
  <2> QED BY <2>1, <2>3
<1>5. ASSUME NEW r \in Resultados \ {"ninguno"}, VentaResponde(i, r) PROVE PagoInv'
  <2>1. PICK cobrado \in BOOLEAN :
           /\ r = "aprobada" => cobrado
           /\ r = "declinada" => ~cobrado
           /\ cobro' = [cobro EXCEPT ![i] = @ \/ cobrado]
    BY <1>5 DEF VentaResponde
  <2>2. CobroCoherente' /\ VentaUnica'
    BY <1>5, <2>1 DEF VentaResponde, reservasVars, tablas, PagoInv, CobroCoherente, VentaUnica
  <2>3. SinConfirmar(GrupoIntent[i])
    BY <1>5 DEF VentaResponde, reservasVars, tablas, SinConfirmar
  <2>4. SinCitaSinHold' /\ PagoConfirmaReserva' /\ PagoNoRetrocede'
    BY <1>1, <1>5, <2>1, <2>3 DEF VentaResponde, reservasVars, tablas
  <2> QED BY <1>0, <2>2, <2>4 DEF PagoInv
<1>6. CASE VentaCierra(i)
  <2>1. CobroCoherente' /\ VentaUnica'
    BY <1>6 DEF VentaCierra, EstadoTrasFallo, PagoInv, CobroCoherente, VentaUnica
  <2>2. SinConfirmar(GrupoIntent[i])
    BY <1>6 DEF VentaCierra, EstadoTrasFallo, SinConfirmar
  <2>3. SinCitaSinHold' /\ PagoConfirmaReserva' /\ PagoNoRetrocede'
    BY <1>1, <1>6, <2>2 DEF VentaCierra
  <2> QED BY <2>1, <2>3
<1>7. CASE VentaReferencias(i)
  <2>1. CobroCoherente' /\ VentaUnica'
    BY <1>7 DEF VentaReferencias, reservasVars, tablas, PagoInv, CobroCoherente, VentaUnica
  <2>2. SinConfirmar(GrupoIntent[i])
    BY <1>7 DEF VentaReferencias, reservasVars, tablas, SinConfirmar
  <2>3. SinCitaSinHold' /\ PagoConfirmaReserva' /\ PagoNoRetrocede'
    BY <1>1, <1>7, <2>2 DEF VentaReferencias, reservasVars, tablas
  <2> QED BY <2>1, <2>3
<1>9. CASE PagoCae(i)
  <2>1. /\ UNCHANGED <<tablas, ahora, resultado, finalAt, pago, ventas>>
        /\ fase' = [fase EXCEPT ![i] = "fin"]
        /\ \/ fase[i] = "enviada" /\ cobro' = [cobro EXCEPT ![i] = TRUE]
           \/ cobro' = cobro
    BY <1>9 DEF PagoCae
  <2>2. CobroCoherente' /\ VentaUnica'
    BY <2>1 DEF tablas, PagoInv, CobroCoherente, VentaUnica
  <2>3. SinConfirmar(GrupoIntent[i])
    BY <2>1 DEF tablas, SinConfirmar
  <2>4. \A j \in Intents : cobro[j] => cobro'[j]
    BY <2>1
  <2>5. SinCitaSinHold' /\ PagoConfirmaReserva' /\ PagoNoRetrocede'
    BY <1>1, <2>1, <2>3, <2>4 DEF tablas
  <2> QED BY <2>2, <2>5
<1>10. CASE VentaReconcilia(i) /\ ~(Pagable(GrupoIntent[i]) /\ Confirmar(i, ahora))
  <2>1. /\ UNCHANGED <<tablas, ahora, resultado, finalAt, cobro, ventas>>
        /\ fase' = [fase EXCEPT ![i] = "fin"]
        /\ pago' = pago
    BY <1>10 DEF VentaReconcilia, reservasVars
  <2>2. CobroCoherente' /\ VentaUnica'
    BY <2>1 DEF tablas, PagoInv, CobroCoherente, VentaUnica
  <2>3. SinConfirmar(GrupoIntent[i])
    BY <2>1 DEF tablas, SinConfirmar
  <2>4. SinCitaSinHold' /\ PagoConfirmaReserva' /\ PagoNoRetrocede'
    BY <1>1, <2>1, <2>3 DEF tablas
  <2> QED BY <2>2, <2>4
<1>8. CASE \/ VentaReconcilia(i) /\ Pagable(GrupoIntent[i]) /\ Confirmar(i, ahora)
           \/ EstadoReconcilia(i) \/ ReconciliaDurable(i)
  BY <1>8, Reconciliar, PagoConfirmar
<1> QED BY <1>2, <1>3, <1>4, <1>5, <1>6, <1>7, <1>8, <1>9, <1>10 DEF Pagar, PagoInv

\* The invariant holds in every reachable state.
THEOREM PagosInvariante == PagosSpec => []PagoInv
<1>1. Init => PagoInv
  BY PagosInicioTipo
     DEF Init, ReservasInit, PagoInv, SinCitaSinHold, CobroCoherente, VentaUnica,
         PagoConfirmaReserva, PagoNoRetrocede
<1>2. PagoInv /\ [Next]_vars => PagoInv'
  <2> SUFFICES ASSUME PagoInv, [Next]_vars PROVE PagoInv'
    OBVIOUS
  <2>1. PagosTypeOK'
    BY PagosPasoTipo DEF PagoInv
  <2>2. CASE UNCHANGED vars \/ \E g \in Grupos : PromocionDejaDeAplicar(g)
    <3>1. UNCHANGED <<reservasVars, fase, resultado, finalAt, cobro, pago, ventas>>
      BY <2>2 DEF vars, pagoVars, PromocionDejaDeAplicar
    <3> QED BY <2>1, <3>1 DEF reservasVars, tablas, PagoInv, SinCitaSinHold, CobroCoherente,
                              VentaUnica, PagoConfirmaReserva, PagoNoRetrocede
  <2> QED BY <2>2, PagoPasoTablas, PagoPasoPagar DEF Next
<1> QED BY <1>1, <1>2, PTL DEF PagosSpec

\* An intent starts one Sale at most: no retry, second tab or lost answer
\* charges again under the same order.
THEOREM PagosVentaUnica == PagosSpec => []VentaUnica
<1>1. PagoInv => VentaUnica
  BY DEF PagoInv
<1> QED BY <1>1, PagosInvariante, PTL

\* A confirmed intent stands on a charge and a payment, and nothing under way
\* takes back its citas or its holds; a captured payment is never demoted.
THEOREM PagosConfirma == PagosSpec => [](PagoConfirmaReserva /\ PagoNoRetrocede)
<1>1. PagoInv => PagoConfirmaReserva /\ PagoNoRetrocede
  BY DEF PagoInv
<1> QED BY <1>1, PagosInvariante, PTL

\* A closed cita is reopened only if it had expired, by the confirmation of a
\* charged intent of its group.
THEOREM PagosReapertura == PagosSpec => ReaperturaSoloPagada
<1> DEFINE Reabre(c) ==
      cita[c] \in Terminales /\ cita'[c] # cita[c] =>
          /\ cita[c] = "expirada" /\ cita'[c] = "confirmada"
          /\ \E i \in IntentsDe(GrupoDe[c]) : cobro[i] /\ pago'[i] /\ ~pago[i]
<1>1. PagoInv /\ [Next]_vars => [\A c \in Citas : Reabre(c)]_vars
  <2> SUFFICES ASSUME PagoInv, Next, NEW c \in Citas, cita[c] \in Terminales, cita'[c] # cita[c]
               PROVE  /\ cita[c] = "expirada" /\ cita'[c] = "confirmada"
                      /\ \E i \in IntentsDe(GrupoDe[c]) : cobro[i] /\ pago'[i] /\ ~pago[i]
    OBVIOUS
  <2>1. ~ReservasNext
    BY PasoFirme DEF PagoInv, PagosTypeOK, Firme
  <2>2. ~\E g \in Grupos : PromocionDejaDeAplicar(g)
    BY DEF PromocionDejaDeAplicar, reservasVars, tablas
  <2>3. PICK i \in Intents : Pagar(i)
    BY <2>1, <2>2 DEF Next
  <2>4. ~SinConfirmar(GrupoIntent[i])
    BY DEF SinConfirmar, Terminales
  <2>5. PICK h \in Nat : CobroDe(i, h)
    BY <2>3, <2>4, PasoDePago DEF PagoInv
  <2>6. /\ c \in PorConfirmar(GrupoIntent[i]) /\ cita'[c] = "confirmada"
        /\ pago' = [pago EXCEPT ![i] = TRUE]
    BY <2>5 DEF CobroDe, Confirmar
  <2>7. cita[c] = "expirada" /\ c \in CitasDe(GrupoIntent[i])
    BY <2>6 DEF PorConfirmar, Pendientes, Terminales, CitasDe
  <2>8. cobro[i]
    BY <2>5 DEF CobroDe, PagoInv, CobroCoherente
  <2>9. ~pago[i]
    BY <2>7 DEF PagoInv, PagoNoRetrocede, PagoConfirmaReserva
  <2>10. i \in IntentsDe(GrupoDe[c]) /\ pago'[i]
    BY <2>6, <2>7 DEF IntentsDe, CitasDe, PagoInv, PagosTypeOK
  <2> QED BY <2>6, <2>7, <2>8, <2>9, <2>10
<1> QED BY <1>1, PagosInvariante, PTL DEF PagosSpec, ReaperturaSoloPagada

-----------------------------------------------------------------------------
(* One charge per group, over all its intents *)

\* An intent follows the citas of its group, and what a sweep remembers was due.
Rastro ==
    /\ \A i \in Intents : intent[i] # "ninguno" =>
          \A c \in CitasDe(GrupoIntent[i]) : cita[c] # "ninguna"
    /\ barrido.ref <= ahora
    /\ \A c \in barrido.vencidas : cita[c] # "ninguna" /\ hold[c] # "activo"

\* The intents of a group belong to one user.
UnSoloCreador == \A g \in Grupos : \A u, v \in CreadoresDe[g] : u = v

DelCreador ==
    \A i \in Intents : intent[i] # "ninguno" => creadoPor[i] \in CreadoresDe[GrupoIntent[i]]

\* While a group can be paid, one intent at most is open ...
UnicoAbierto ==
    \A i, j \in Intents :
        /\ intent[i] \in IntentsActivos /\ intent[j] \in IntentsActivos
        /\ GrupoIntent[i] = GrupoIntent[j] /\ Pagable(GrupoIntent[i])
        => i = j

\* ... and due no sooner than some hold ...
Plazo ==
    \A i \in Intents :
        intent[i] \in IntentsActivos /\ Pagable(GrupoIntent[i]) =>
            \E c \in CitasDe(GrupoIntent[i]) : vence[c] <= intentVence[i]

\* ... and an intent whose Sale began is still waiting, or was refused.
Retenido ==
    \A i \in Intents :
        ventas[i] # 0 /\ Pagable(GrupoIntent[i]) =>
            intent[i] \in {"pendiente_confirmacion", "fallido"}

\* Charged, or at the provider
Carga(i) == cobro[i] \/ fase[i] = "enviada"

CargaUnica ==
    \A i, j \in Intents :
        GrupoIntent[i] = GrupoIntent[j] /\ Carga(i) /\ Carga(j) => i = j

GrupoInv == Rastro /\ DelCreador /\ UnicoAbierto /\ Plazo /\ Retenido /\ CargaUnica

\* Every group has the cita of its titular.
LEMMA ConAncla == \A g \in Grupos : Ancla[g] \in CitasDe(g)
  BY ReservasAssumption DEF CitasDe

\* A group that can be paid after an operation on the tables could before, with
\* the same holds, or was just created and has no intents.
LEMMA PagableTablas ==
    ASSUME ReservasTypeOK, Rastro, ReservasNext, NEW g \in Grupos, Pagable(g)'
    PROVE  \/ Pagable(g) /\ \A c \in CitasDe(g) : vence'[c] = vence[c]
           \/ \A i \in IntentsDe(g) : intent[i] = "ninguno"
<1>0. ahora \in Nat /\ ahora' \in Nat /\ ahora' >= ahora /\ vence \in [Citas -> Nat]
  BY PasoReloj DEF ReservasTypeOK
<1>1. ASSUME \A c \in CitasDe(g) : Conserva(c)
      PROVE  Pagable(g) /\ \A c \in CitasDe(g) : vence'[c] = vence[c]
  <2>1. \A c \in CitasDe(g) : /\ cita'[c] \in Pendientes /\ hold'[c] = "activo"
                              /\ vence'[c] > ahora'
    BY DEF Pagable, CitasDe
  <2> QED BY <1>0, <1>1, <2>1 DEF Pagable, Conserva, CitasDe
<1>2. CASE \A k \in Grupos : ~CrearReserva(k)
  BY <1>1, <1>2, PasoConserva DEF CitasDe
<1>3. ASSUME NEW k \in Grupos, CrearReserva(k)
      PROVE  \/ Pagable(g) /\ \A c \in CitasDe(g) : vence'[c] = vence[c]
             \/ \A i \in IntentsDe(g) : intent[i] = "ninguno"
  <2>1. CASE k # g
    <3>1. \A c \in CitasDe(g) : Conserva(c)
      BY <1>3, <2>1, CrearConserva DEF CitasDe
    <3> QED BY <1>1, <3>1
  <2>2. CASE k = g
    <3>1. cita[Ancla[g]] = "ninguna"
      BY <1>3, <2>2, CrearConserva, ConAncla
    <3> QED BY <3>1, ConAncla DEF Rastro, IntentsDe
  <2> QED BY <2>1, <2>2
<1> QED BY <1>2, <1>3

\* A doubtful intent expires only with a hold or a cita of its group.
LEMMA DudaExpira ==
    ASSUME ReservasTypeOK, Rastro, Plazo, ReservasNext, NEW i \in Intents,
           intent[i] = "pendiente_confirmacion", intent'[i] = "expirado"
    PROVE  ~Pagable(GrupoIntent[i])'
<1> DEFINE g == GrupoIntent[i]
<1> USE DEF ReservasTypeOK
<1>0. g \in Grupos /\ Ancla[g] \in CitasDe(g) /\ Ancla[g] \in Citas /\ GrupoDe[Ancla[g]] = g
  BY ConAncla, ReservasAssumption
<1>1. ~(Tic \/ ExpirarVencidas \/ DecisionCae)
  BY DEF Tic, ExpirarVencidas, IntentTrasExpirar, DecisionCae, tablas
<1>2. CASE Barrer
  <2>1. BarridoIntents
    BY <1>2 DEF Barrer, BarridoHolds, BarridoCitas, BarridoNoShow, BarridoCae, SoloLectura, tablas
  <2>2. /\ UNCHANGED <<ahora, cita, hold, vence>>
        /\ intentVence[i] <= barrido.ref \/ Ancla[g] \in barrido.vencidas
    BY <2>1 DEF BarridoIntents
  <2>3. Pagable(g)' <=> Pagable(g)
    BY <2>2 DEF Pagable
  <2>4. ASSUME Pagable(g) PROVE FALSE
    <3>1. Ancla[g] \notin barrido.vencidas
      BY <1>0, <2>4 DEF Pagable, Rastro
    <3>2. PICK c \in CitasDe(g) : vence[c] <= intentVence[i]
      BY <2>4 DEF Plazo, IntentsActivos
    <3>3. vence[c] > ahora /\ vence[c] \in Nat
      BY <2>4, <3>2 DEF Pagable, CitasDe
    <3>4. /\ barrido.ref <= ahora /\ barrido.ref \in Nat /\ intentVence[i] \in Nat
          /\ intentVence[i] <= barrido.ref
      BY <2>2, <3>1 DEF Rastro
    <3> QED BY <3>2, <3>3, <3>4
  <2> QED BY <2>3, <2>4
<1>3. ASSUME NEW k \in Grupos, OperarGrupo(k) PROVE cita'[Ancla[g]] \notin Pendientes
  <2>1. ~CrearReserva(k)
    <3>1. ASSUME CrearReserva(k) PROVE FALSE
      <4>1. PICK ven : intent' = IntentTrasExpirar(ven)
        BY <3>1 DEF CrearReserva
      <4> QED BY <4>1 DEF IntentTrasExpirar
    <3> QED BY <3>1
  <2>2. ~(LiberarHold(k) \/ DecidirVencer(k) \/ DecidirDescartar(k) \/ DecidirSinPago(k))
    BY DEF LiberarHold, DecidirVencer, DecidirDescartar, DecidirSinPago, tablas
  <2>3. CASE VencerPendiente(k) \/ DescartarPendiente(k)
    BY <1>0, <2>3 DEF VencerPendiente, DescartarPendiente, Pendientes
  <2>4. CASE ConfirmarSinPago(k)
    BY <1>0, <2>4 DEF ConfirmarSinPago, Pendientes
  <2> QED BY <1>3, <2>1, <2>2, <2>3, <2>4 DEF OperarGrupo
<1>4. ASSUME NEW c \in Citas, NEW e \in EstadosCita, EstadoAdmin(c, e)
      PROVE  cita'[Ancla[g]] \notin Pendientes
  BY <1>0, <1>4 DEF EstadoAdmin, Pendientes
<1>5. ASSUME cita'[Ancla[g]] \notin Pendientes PROVE ~Pagable(g)'
  BY <1>0, <1>5 DEF Pagable
<1> QED BY <1>1, <1>2, <1>3, <1>4, <1>5 DEF ReservasNext

\* What a sweep remembers stays due: an active hold is a new one.
LEMMA RastroTablas ==
    ASSUME ReservasTypeOK, SinCitaSinHold, Rastro, ReservasNext PROVE Rastro'
<1>1. \A i \in Intents : intent'[i] # "ninguno" => intent[i] # "ninguno"
  BY PasoIntents DEF IntentSinPago, IntentsActivos
<1>2. \A c \in Citas : cita[c] # "ninguna" =>
          cita'[c] # "ninguna" /\ (hold'[c] = "activo" => hold[c] = "activo")
  <2>1. CASE \A g \in Grupos : ~CrearReserva(g)
    BY <2>1, PasoConserva DEF Conserva
  <2>2. ASSUME NEW g \in Grupos, CrearReserva(g), NEW c \in Citas, cita[c] # "ninguna"
        PROVE  cita'[c] # "ninguna" /\ (hold'[c] = "activo" => hold[c] = "activo")
    BY <2>2, CrearConserva DEF Conserva
  <2> QED BY <2>1, <2>2
<1>3. ahora' >= ahora /\ ahora \in Nat /\ ahora' \in Nat
  BY PasoReloj DEF ReservasTypeOK
<1>4. barrido.ref \in Nat /\ barrido.vencidas \subseteq Citas
  BY DEF ReservasTypeOK
<1>5. CASE BarridoHolds
  <2>1. /\ barrido'.ref = ahora /\ ahora' = ahora
        /\ \A c \in barrido'.vencidas : hold[c] = "activo" /\ hold'[c] = "expirado" /\ c \in Citas
        /\ cita' = cita
    BY <1>5 DEF BarridoHolds
  <2>2. \A c \in barrido'.vencidas : cita'[c] # "ninguna" /\ hold'[c] # "activo"
    BY <2>1 DEF SinCitaSinHold
  <2> QED BY <1>1, <1>2, <1>3, <2>1, <2>2 DEF Rastro, CitasDe
<1>6. CASE ~BarridoHolds
  <2>1. /\ barrido'.ref = barrido.ref \/ barrido'.ref = 0
        /\ barrido'.vencidas = barrido.vencidas \/ barrido'.vencidas = {}
    <3>1. CASE Tic \/ ExpirarVencidas \/ DecisionCae
      BY <3>1 DEF Tic, ExpirarVencidas, DecisionCae
    <3>2. CASE Barrer
      BY <1>6, <3>2 DEF Barrer, BarridoCitas, BarridoIntents, BarridoNoShow, BarridoCae,
                        SoloLectura, BarridoInactivo, ReservasTypeOK
    <3>3. ASSUME NEW g \in Grupos, OperarGrupo(g)
          PROVE  barrido' = barrido \/ barrido' = BarridoInactivo
      BY <3>3 DEF OperarGrupo, CrearReserva, LiberarHold, DecidirVencer, VencerPendiente,
                  DecidirDescartar, DescartarPendiente, DecidirSinPago, ConfirmarSinPago
    <3>4. ASSUME NEW c \in Citas, NEW e \in EstadosCita, EstadoAdmin(c, e)
          PROVE  barrido' = BarridoInactivo
      BY <3>4 DEF EstadoAdmin
    <3> QED BY <3>1, <3>2, <3>3, <3>4 DEF ReservasNext, BarridoInactivo
  <2> QED BY <1>1, <1>2, <1>3, <1>4, <2>1 DEF Rastro, CitasDe
<1> QED BY <1>5, <1>6

\* The operations on the tables keep the invariant of the groups.
LEMMA GrupoTablas ==
    ASSUME PagoInv, GrupoInv, ReservasNext, UNCHANGED pagoVars PROVE GrupoInv'
<1>1. /\ \A i \in Intents : IntentSinPago(i)
      /\ UNCHANGED intentVence
  BY PasoIntents DEF PagoInv, PagosTypeOK
<1>2. ASSUME NEW i \in Intents, Pagable(GrupoIntent[i])', intent'[i] # "ninguno"
      PROVE  /\ Pagable(GrupoIntent[i])
             /\ \A c \in CitasDe(GrupoIntent[i]) : vence'[c] = vence[c]
  <2>1. GrupoIntent[i] \in Grupos /\ i \in IntentsDe(GrupoIntent[i])
    BY ReservasAssumption DEF IntentsDe
  <2>2. intent[i] # "ninguno"
    BY <1>1, <1>2 DEF IntentSinPago, IntentsActivos
  <2> QED BY <1>2, <2>1, <2>2, PagableTablas DEF PagoInv, PagosTypeOK, GrupoInv
<1>3. ASSUME NEW i \in Intents, intent'[i] \in IntentsActivos PROVE intent[i] = intent'[i]
  BY <1>1, <1>3 DEF IntentSinPago, IntentsActivos
<1>4. Rastro'
  BY RastroTablas DEF PagoInv, PagosTypeOK, GrupoInv
<1>5. DelCreador' /\ CargaUnica'
  BY <1>1 DEF IntentSinPago, IntentsActivos, GrupoInv, DelCreador, CargaUnica, Carga, pagoVars
<1>6. UnicoAbierto'
  BY <1>2, <1>3 DEF GrupoInv, UnicoAbierto, IntentsActivos
<1>7. Plazo'
  BY <1>1, <1>2, <1>3 DEF GrupoInv, Plazo, IntentsActivos
<1>8. Retenido'
  <2> SUFFICES ASSUME NEW i \in Intents, ventas[i] # 0, Pagable(GrupoIntent[i])'
               PROVE  intent'[i] \in {"pendiente_confirmacion", "fallido"}
    BY DEF Retenido, pagoVars
  <2>1. intent[i] # "ninguno" /\ intent'[i] # "ninguno"
    BY <1>1 DEF PagoInv, CobroCoherente, IntentSinPago
  <2>2. intent[i] \in {"pendiente_confirmacion", "fallido"}
    BY <1>2, <2>1 DEF GrupoInv, Retenido
  <2>3. ~(intent[i] = "pendiente_confirmacion" /\ intent'[i] = "expirado")
    BY DudaExpira DEF PagoInv, PagosTypeOK, GrupoInv
  <2> QED BY <1>1, <2>2, <2>3 DEF IntentSinPago, IntentsActivos
<1> QED BY <1>4, <1>5, <1>6, <1>7, <1>8 DEF GrupoInv

\* A step that confirms nothing makes no group payable.
LEMMA PagableSinConfirmar ==
    ASSUME PagosTypeOK, NEW g, SinConfirmar(g), NEW k, Pagable(k)' PROVE Pagable(k)
<1>1. \A c \in CitasDe(k) : /\ cita[c] \in Pendientes /\ hold[c] = "activo"
                            /\ vence'[c] > ahora
                            /\ vence'[c] = vence[c] \/ (GrupoDe[c] = g /\ Pagable(g))
  BY DEF Pagable, SinConfirmar, CitasDe, Pendientes
<1>2. CASE k = g /\ Pagable(g)
  BY <1>2
<1>3. CASE ~(k = g /\ Pagable(g))
  BY <1>1, <1>3 DEF Pagable, CitasDe
<1> QED BY <1>2, <1>3

\* A step that begins no intent and no Sale, and confirms nothing
LEMMA GrupoQuieto ==
    ASSUME PagoInv, GrupoInv, NEW g, SinConfirmar(g),
           UNCHANGED <<vence, intentVence, barrido, ventas, creadoPor>>,
           \A i \in Intents : \/ intent'[i] = intent[i]
                              \/ intent[i] = "pendiente_confirmacion" /\ intent'[i] = "fallido"
                              \/ intent[i] = "creado" /\ intent'[i] = "link_generado",
           \A i \in Intents : Carga(i)' => Carga(i)
    PROVE  GrupoInv'
<1>1. \A i \in Intents : Pagable(GrupoIntent[i])' => Pagable(GrupoIntent[i])
  BY PagableSinConfirmar DEF PagoInv
<1>2. Rastro'
  BY DEF GrupoInv, Rastro, SinConfirmar, CitasDe, PagoInv, PagosTypeOK, ReservasTypeOK
<1>3. DelCreador' /\ CargaUnica'
  BY DEF GrupoInv, DelCreador, CargaUnica
<1>4. UnicoAbierto'
  BY <1>1 DEF GrupoInv, UnicoAbierto, IntentsActivos
<1>5. Plazo'
  BY <1>1 DEF GrupoInv, Plazo, IntentsActivos
<1>6. Retenido'
  BY <1>1 DEF GrupoInv, Retenido, PagoInv, CobroCoherente
<1> QED BY <1>2, <1>3, <1>4, <1>5, <1>6 DEF GrupoInv

\* A new intent finds none open: one that is due no longer leaves the group
\* with a lapsed hold.
LEMMA GrupoCrear ==
    ASSUME PagoInv, GrupoInv, UnSoloCreador,
           NEW i \in Intents, NEW u \in Usuarios, CrearIntent(i, u)
    PROVE  GrupoInv'
<1> DEFINE g == GrupoIntent[i]
<1>1. /\ intent[i] = "ninguno" /\ intent' = [intent EXCEPT ![i] = "creado"]
      /\ Pagable(g) /\ u \in CreadoresDe[g]
      /\ ~\E j \in IntentsDe(g) : IntentAbierto(j) /\ creadoPor[j] = u
      /\ \E c \in CitasDe(g) : intentVence' = [intentVence EXCEPT ![i] = vence[c]]
      /\ creadoPor' = [creadoPor EXCEPT ![i] = u]
      /\ fase' = [fase EXCEPT ![i] = "activando"]
      /\ UNCHANGED <<ahora, cita, hold, vence, barrido, cobro, ventas>>
  BY DEF CrearIntent, InsertarIntent
<1>2. PagosTypeOK /\ ReservasTypeOK /\ g \in Grupos
  BY ReservasAssumption DEF PagoInv, PagosTypeOK
<1>3. \A j \in IntentsDe(g) : intent[j] \notin IntentsActivos
  <2> SUFFICES ASSUME NEW j \in IntentsDe(g), intent[j] \in IntentsActivos PROVE FALSE
    OBVIOUS
  <2>1. j \in Intents /\ GrupoIntent[j] = g
    BY DEF IntentsDe
  <2>2. PICK c \in CitasDe(g) : vence[c] <= intentVence[j]
    BY <1>1, <2>1 DEF GrupoInv, Plazo
  <2>3. intentVence[j] > ahora
    BY <1>1, <1>2, <2>1, <2>2 DEF Pagable, CitasDe, ReservasTypeOK
  <2>4. creadoPor[j] = u
    BY <1>1, <1>2, <2>1 DEF GrupoInv, DelCreador, UnSoloCreador, IntentsActivos
  <2> QED BY <1>1, <2>3, <2>4 DEF IntentAbierto
<1>4. \A k : Pagable(k)' <=> Pagable(k)
  BY <1>1 DEF Pagable
<1>5. Rastro'
  BY <1>1 DEF GrupoInv, Rastro, Pagable, Pendientes, PagoInv, PagosTypeOK, ReservasTypeOK
<1>6. DelCreador'
  BY <1>1, <1>2 DEF GrupoInv, DelCreador, PagosTypeOK, ReservasTypeOK
<1>7. UnicoAbierto'
  BY <1>1, <1>2, <1>3, <1>4 DEF GrupoInv, UnicoAbierto, IntentsDe, ReservasTypeOK
<1>8. Plazo'
  <2> SUFFICES ASSUME NEW j \in Intents, intent'[j] \in IntentsActivos, Pagable(GrupoIntent[j])'
               PROVE  \E c \in CitasDe(GrupoIntent[j]) : vence'[c] <= intentVence'[j]
    BY DEF Plazo
  <2>1. CASE j = i
    BY <1>1, <1>2, <2>1 DEF CitasDe, ReservasTypeOK
  <2>2. CASE j # i
    BY <1>1, <1>2, <1>4, <2>2 DEF GrupoInv, Plazo, ReservasTypeOK
  <2> QED BY <2>1, <2>2
<1>9. Retenido'
  BY <1>1, <1>2, <1>4 DEF GrupoInv, Retenido, PagoInv, CobroCoherente, ReservasTypeOK
<1>10. CargaUnica'
  BY <1>1, <1>2 DEF GrupoInv, CargaUnica, Carga, PagosTypeOK
<1> QED BY <1>5, <1>6, <1>7, <1>8, <1>9, <1>10 DEF GrupoInv

\* A Sale finds no other intent of its group charged: it would be waiting, and
\* so open.
LEMMA GrupoReclamar ==
    ASSUME PagoInv, GrupoInv, NEW i \in Intents, VentaReclamar(i) PROVE GrupoInv'
<1> DEFINE g == GrupoIntent[i]
<1>1. /\ Pagable(g) /\ intent[i] = "link_generado"
      /\ intent' = [intent EXCEPT ![i] = "pendiente_confirmacion"]
      /\ \E c \in CitasDe(g) : intentVence' = [intentVence EXCEPT ![i] = vence'[c]]
      /\ \A c \in Citas : GrupoDe[c] # g => vence'[c] = vence[c]
      /\ ventas' = [ventas EXCEPT ![i] = @ + 1]
      /\ fase' = [fase EXCEPT ![i] = "enviada"]
      /\ UNCHANGED <<ahora, cita, hold, barrido, cobro, creadoPor>>
  BY DEF VentaReclamar, PuedeCobrar, CitasDe
<1>2. PagosTypeOK /\ ReservasTypeOK /\ g \in Grupos /\ PagosTypeOK' /\ ReservasTypeOK'
  BY ReservasAssumption, PagosPasoTipo DEF PagoInv, PagosTypeOK, Next, Pagar
<1>3. \A k : Pagable(k)' => Pagable(k)
  <2>1. SinConfirmar(g)
    BY <1>1, <1>2, PagosAssumption DEF VentaReclamar, SinConfirmar, ReservasTypeOK
  <2> QED BY <1>2, <2>1, PagableSinConfirmar
<1>4. Rastro' /\ DelCreador'
  BY <1>1, <1>2 DEF GrupoInv, Rastro, DelCreador, ReservasTypeOK
<1>5. \A j \in Intents : intent'[j] \in IntentsActivos => intent[j] \in IntentsActivos
  BY <1>1, <1>2 DEF IntentsActivos, ReservasTypeOK
<1>6. UnicoAbierto'
  BY <1>3, <1>5 DEF GrupoInv, UnicoAbierto
<1>7. Plazo'
  <2> SUFFICES ASSUME NEW j \in Intents, intent'[j] \in IntentsActivos, Pagable(GrupoIntent[j])'
               PROVE  \E c \in CitasDe(GrupoIntent[j]) : vence'[c] <= intentVence'[j]
    BY DEF Plazo
  <2>1. CASE j = i
    BY <1>1, <1>2, <2>1 DEF CitasDe, ReservasTypeOK
  <2>2. CASE j # i
    <3>1. GrupoIntent[j] # g
      BY <1>1, <1>5, <2>2 DEF GrupoInv, UnicoAbierto, IntentsActivos
    <3>2. PICK c \in CitasDe(GrupoIntent[j]) : vence[c] <= intentVence[j]
      BY <1>3, <1>5 DEF GrupoInv, Plazo
    <3> QED BY <1>1, <1>2, <2>2, <3>1, <3>2 DEF CitasDe, ReservasTypeOK
  <2> QED BY <2>1, <2>2
<1>8. Retenido'
  BY <1>1, <1>2, <1>3 DEF GrupoInv, Retenido, PagosTypeOK, ReservasTypeOK
<1>9. CargaUnica'
  <2>1. ASSUME NEW j \in Intents, j # i, GrupoIntent[j] = g PROVE ~Carga(j)
    <3>1. CASE ventas[j] = 0
      BY <3>1 DEF PagoInv, CobroCoherente, Carga
    <3>2. CASE ventas[j] # 0
      <4>1. intent[j] \in {"pendiente_confirmacion", "fallido"}
        BY <1>1, <2>1, <3>2 DEF GrupoInv, Retenido
      <4>2. intent[j] # "pendiente_confirmacion"
        BY <1>1, <2>1 DEF GrupoInv, UnicoAbierto, IntentsActivos
      <4> QED BY <4>1, <4>2 DEF PagoInv, CobroCoherente, Carga
    <3> QED BY <3>1, <3>2
  <2>2. \A j \in Intents : j # i => (Carga(j)' <=> Carga(j))
    BY <1>1, <1>2 DEF Carga, PagosTypeOK
  <2> QED BY <2>1, <2>2 DEF GrupoInv, CargaUnica
<1> QED BY <1>4, <1>6, <1>7, <1>8, <1>9 DEF GrupoInv

\* A confirmed group cannot be paid any more; the others do not change.
LEMMA GrupoConfirmar ==
    ASSUME PagoInv, GrupoInv, NEW i \in Intents, NEW h \in Nat, CobroDe(i, h) PROVE GrupoInv'
<1> DEFINE g == GrupoIntent[i]
<1>1. /\ intent[i] # "ninguno" /\ intent' = [intent EXCEPT ![i] = "confirmado"]
      /\ cita' = [c \in Citas |-> IF c \in PorConfirmar(g) THEN "confirmada" ELSE cita[c]]
      /\ hold' = [c \in Citas |-> IF GrupoDe[c] = g /\ hold[c] \in {"activo", "expirado"}
                                  THEN "consumido" ELSE hold[c]]
      /\ UNCHANGED <<ahora, vence, intentVence, barrido, cobro, ventas, creadoPor>>
      /\ \A j \in Intents : fase'[j] = "enviada" => fase[j] = "enviada"
  BY DEF CobroDe, Confirmar, Confirmable, IntentsActivos, PagoInv, PagosTypeOK
<1>2. PagosTypeOK /\ ReservasTypeOK /\ g \in Grupos
  BY ReservasAssumption DEF PagoInv, PagosTypeOK
<1>3. ~Pagable(g)'
  <2>1. Ancla[g] \in CitasDe(g) /\ Ancla[g] \in Citas
    BY <1>2, ConAncla DEF CitasDe
  <2>2. hold'[Ancla[g]] # "activo"
    BY <1>1, <2>1 DEF CitasDe
  <2> QED BY <2>1, <2>2 DEF Pagable
<1>4. \A k : k # g => (Pagable(k)' <=> Pagable(k))
  BY <1>1 DEF Pagable, PorConfirmar, CitasDe
<1>5. Rastro'
  BY <1>1, <1>2 DEF GrupoInv, Rastro, CitasDe, ReservasTypeOK
<1>6. DelCreador' /\ CargaUnica'
  BY <1>1, <1>2 DEF GrupoInv, DelCreador, CargaUnica, Carga, ReservasTypeOK
<1>7. UnicoAbierto' /\ Plazo' /\ Retenido'
  BY <1>1, <1>2, <1>3, <1>4 DEF GrupoInv, UnicoAbierto, Plazo, Retenido, IntentsActivos,
                               ReservasTypeOK
<1> QED BY <1>5, <1>6, <1>7 DEF GrupoInv

\* The other steps of a payment
LEMMA GrupoPagar ==
    ASSUME PagoInv, GrupoInv, UnSoloCreador, NEW i \in Intents, Pagar(i) PROVE GrupoInv'
<1>t. PagosTypeOK /\ ReservasTypeOK
  BY DEF PagoInv, PagosTypeOK
<1>1. CASE \E u \in Usuarios : CrearIntent(i, u)
  BY <1>1, GrupoCrear
<1>2. CASE VentaReclamar(i)
  BY <1>2, GrupoReclamar
<1>3. CASE ActivarIntent(i)
  <2>1. SinConfirmar(GrupoIntent[i])
    BY <1>t, <1>3 DEF ActivarIntent, EsperarPago, reservasVars, tablas, SinConfirmar,
                      ReservasTypeOK
  <2>2. \A j \in Intents : intent'[j] = intent[j]
                             \/ (intent[j] = "creado" /\ intent'[j] = "link_generado")
    BY <1>t, <1>3 DEF ActivarIntent, EsperarPago, Revalidado, reservasVars, tablas, ReservasTypeOK
  <2>3. UNCHANGED <<vence, intentVence, barrido, ventas, creadoPor>>
    BY <1>3 DEF ActivarIntent, EsperarPago, reservasVars, tablas
  <2>4. \A j \in Intents : Carga(j)' => Carga(j)
    BY <1>t, <1>3 DEF ActivarIntent, Carga, PagosTypeOK
  <2> QED BY <2>1, <2>2, <2>3, <2>4, GrupoQuieto
<1>4. CASE \/ VentaReferencias(i)
           \/ \E r \in Resultados \ {"ninguno"} : VentaResponde(i, r)
           \/ PagoCae(i)
           \/ VentaReconcilia(i) /\ ~(Pagable(GrupoIntent[i]) /\ Confirmar(i, ahora))
  <2>1. UNCHANGED <<tablas, ahora, barrido, ventas, creadoPor>>
    BY <1>4 DEF VentaReferencias, VentaResponde, PagoCae, VentaReconcilia, reservasVars
  <2>2. SinConfirmar(GrupoIntent[i])
    BY <1>t, <2>1 DEF SinConfirmar, tablas, ReservasTypeOK
  <2>3. \A j \in Intents : Carga(j)' => Carga(j)
    BY <1>t, <1>4 DEF VentaReferencias, VentaResponde, PagoCae, VentaReconcilia, Carga, PagosTypeOK
  <2> QED BY <2>1, <2>2, <2>3, GrupoQuieto DEF tablas
<1>5. CASE VentaCierra(i)
  <2>1. SinConfirmar(GrupoIntent[i])
    BY <1>t, <1>5 DEF VentaCierra, EstadoTrasFallo, SinConfirmar, ReservasTypeOK
  <2>2. \A j \in Intents : intent'[j] = intent[j]
                             \/ (intent[j] = "pendiente_confirmacion" /\ intent'[j] = "fallido")
    BY <1>t, <1>5 DEF VentaCierra, EstadoTrasFallo, ReservasTypeOK
  <2>3. \A j \in Intents : Carga(j)' => Carga(j)
    BY <1>t, <1>5 DEF VentaCierra, Carga, PagosTypeOK
  <2> QED BY <1>5, <2>1, <2>2, <2>3, GrupoQuieto DEF VentaCierra
<1>6. CASE \/ VentaReconcilia(i) /\ Pagable(GrupoIntent[i]) /\ Confirmar(i, ahora)
           \/ EstadoReconcilia(i) \/ ReconciliaDurable(i)
  BY <1>t, <1>6, Reconciliar, GrupoConfirmar
<1> QED BY <1>1, <1>2, <1>3, <1>4, <1>5, <1>6 DEF Pagar

\* If the intents of a group belong to one user, the group is charged at most
\* once: no retry, expiry, refusal or death of a Sale lets a second intent be
\* charged beside a first that was, or may have been.
THEOREM PagosCobroUnico ==
    ASSUME UnSoloCreador PROVE PagosSpec => []CobroUnicoPorGrupo
<1>1. Init => GrupoInv
  BY DEF Init, ReservasInit, BarridoInactivo, GrupoInv, Rastro, DelCreador, UnicoAbierto, Plazo,
         Retenido, CargaUnica, Carga, IntentsActivos
<1>2. PagoInv /\ GrupoInv /\ [Next]_vars => GrupoInv'
  <2> SUFFICES ASSUME PagoInv, GrupoInv, [Next]_vars PROVE GrupoInv'
    OBVIOUS
  <2>1. CASE UNCHANGED vars \/ \E g \in Grupos : PromocionDejaDeAplicar(g)
    <3>1. UNCHANGED <<reservasVars, fase, cobro, ventas, creadoPor>>
      BY <2>1 DEF vars, pagoVars, PromocionDejaDeAplicar
    <3>2. \A g : SinConfirmar(g)
      BY <3>1 DEF SinConfirmar, reservasVars, tablas, PagoInv, PagosTypeOK, ReservasTypeOK
    <3> QED BY <3>1, <3>2, GrupoQuieto DEF reservasVars, tablas, Carga
  <2> QED BY <2>1, GrupoTablas, GrupoPagar DEF Next
<1>3. GrupoInv => CobroUnicoPorGrupo
  BY DEF GrupoInv, CargaUnica, Carga, CobroUnicoPorGrupo
<1> QED BY <1>1, <1>2, <1>3, PagosInvariante, PTL DEF PagosSpec

-----------------------------------------------------------------------------
(* The tables and the payments implement AgendaAbstracta *)

\* An intent is only created for citas that exist, and they stay.
ConReserva ==
    \A i \in Intents :
        intent[i] # "ninguno" => \A c \in CitasDe(GrupoIntent[i]) : cita[c] # "ninguna"

AgendaInv == PagoInv /\ ConReserva

\* How barbers and clients see each state.
LEMMA VistaEs ==
    \A x \in EstadosCita :
        /\ Vista[x] = "libre" <=> x = "ninguna"
        /\ Vista[x] = "apartada" <=> x \in Pendientes
        /\ Vista[x] = "firme" <=> x \in Ocupan \ Pendientes
        /\ Vista[x] = "vencida" <=> x = "expirada"
        /\ Vista[x] = "cerrada" <=> x \in Terminales \ {"expirada"}
        /\ Vista[x] \in {"apartada", "firme"} <=> x \in Ocupan
<1> TAKE x \in EstadosCita
<1>1. Vista[x] = CASE x = "ninguna" -> "libre"
                   [] x \in Pendientes -> "apartada"
                   [] x \in Ocupan \ Pendientes -> "firme"
                   [] x = "expirada" -> "vencida"
                   [] x \in Terminales \ {"expirada"} -> "cerrada"
  BY DEF Vista
<1>2. CASE x = "ninguna"
  BY <1>1, <1>2 DEF Pendientes, Ocupan, Terminales
<1>3. CASE x \in Pendientes
  BY <1>1, <1>3 DEF Pendientes, Ocupan, Terminales
<1>4. CASE x \in Ocupan \ Pendientes
  BY <1>1, <1>4 DEF Pendientes, Ocupan, Terminales
<1>5. CASE x = "expirada"
  BY <1>1, <1>5 DEF Pendientes, Ocupan, Terminales
<1>6. CASE x \in Terminales \ {"expirada"}
  BY <1>1, <1>6 DEF Pendientes, Ocupan, Terminales
<1> QED BY <1>2, <1>3, <1>4, <1>5, <1>6 DEF EstadosCita

\* The citas that pass from one of the abstract states to the next move together.
LEMMA Mudanza ==
    ASSUME ReservasTypeOK, ReservasTypeOK', UNCHANGED <<cobro, pago>>,
           NEW de, NEW a,
           <<de, a>> \in {<<"apartada", "vencida">>, <<"apartada", "cerrada">>,
                          <<"apartada", "firme">>, <<"firme", "cerrada">>},
           \A c \in Citas : \/ cita'[c] = cita[c]
                            \/ Vista[cita[c]] = de /\ Vista[cita'[c]] = a
    PROVE  [Agenda!AgendaNext]_(Agenda!agenda)
<1> DEFINE e == [c \in Citas |-> Vista[cita[c]]]
           S == {c \in Citas : cita'[c] # cita[c]}
<1>1. S \in SUBSET {c \in Citas : e[c] = de}
  OBVIOUS
<1>2. e' = [c \in Citas |-> IF c \in S THEN a ELSE e[c]]
  OBVIOUS
<1>3. Agenda!Mudar(de, a)
  BY <1>1, <1>2 DEF Agenda!Mudar, Agenda!En, Agenda!Pasar
<1> QED
  BY <1>3 DEF Agenda!AgendaNext, Agenda!agenda, Agenda!Vencer, Agenda!Soltar,
              Agenda!AfirmarSinPago, Agenda!Cerrar

\* A step that moves no cita and neither charges nor pays is none of the agenda.
LEMMA Quieta ==
    ASSUME UNCHANGED <<cita, cobro, pago>> PROVE [Agenda!AgendaNext]_(Agenda!agenda)
  BY DEF Agenda!agenda

\* What a sweep finds paid is confirmed already: no intent is confirmed beside a
\* pending cita of its group.
LEMMA PagadasFirmes ==
    ASSUME PagoInv, NEW S
    PROVE  \A c \in Pagadas(S) : c \in S /\ (c \in Citas => cita[c] = "confirmada")
<1> SUFFICES ASSUME NEW c \in Pagadas(S), c \in Citas, cita[c] \in Pendientes, PagadaEnVentana(c)
             PROVE  FALSE
  BY DEF Pagadas
<1>1. PICK i \in IntentsDe(GrupoDe[c]) : intent[i] = "confirmado"
  BY DEF PagadaEnVentana
<1>2. i \in Intents /\ c \in CitasDe(GrupoIntent[i])
  BY DEF IntentsDe, CitasDe
<1> QED
  BY <1>1, <1>2 DEF PagoInv, PagoConfirmaReserva

\* A reservation sets its slots aside whole; what lapses makes room.
LEMMA CrearEsApartar ==
    ASSUME PagoInv, NEW g \in Grupos, CrearReserva(g), ReservasTypeOK', UNCHANGED <<cobro, pago>>
    PROVE  Agenda!Apartar(g)
<1> DEFINE cliente == VencidasCliente(g)
           ambito == MismoCliente(g)
                        \cup {d \in Citas : \E c \in CitasDe(g) : <<c, d>> \in Choca}
           pag == Pagadas(ambito \ cliente)
           ven == cliente \cup Vencidas(ambito)
           tras == CitaTrasExpirar(pag, ven)
           e == [c \in Citas |-> Vista[cita[c]]]
           V == {c \in Citas : c \in ven}
           medio == [c \in Citas |-> IF c \in V THEN "vencida" ELSE e[c]]
<1>t. ReservasTypeOK
  BY DEF PagoInv, PagosTypeOK
<1>1. /\ \A c \in CitasDe(g) : c \in Citas /\ cita[c] = "ninguna"
      /\ SinChoque(CitasDe(g), tras)
      /\ cita' = [c \in Citas |-> IF c \in CitasDe(g) THEN "en_espera" ELSE tras[c]]
  BY DEF CrearReserva, CitasDe
<1>2. \A c \in pag : c \in Citas => cita[c] = "confirmada"
  BY PagadasFirmes
<1>3. \A c \in ven : cita[c] \in Pendientes
  BY DEF Vencidas, VencidasCliente
<1>4. tras \in [Citas -> EstadosCita]
  BY <1>t, ExpirarTipo
<1>5. \A c \in Citas : medio[c] = Vista[tras[c]]
  <2> TAKE c \in Citas
  <2> HIDE DEF pag, ven
  <2>1. CASE c \in pag
    <3>1. c \notin ven /\ tras[c] = "confirmada" /\ cita[c] = "confirmada"
      BY <1>2, <1>3, <2>1 DEF CitaTrasExpirar, Pendientes
    <3> QED BY <3>1
  <2>2. CASE c \in ven \ pag
    <3>1. tras[c] = "expirada"
      BY <2>2 DEF CitaTrasExpirar
    <3>2. Vista[tras[c]] = "vencida"
      BY <1>4, <3>1, VistaEs
    <3> QED BY <2>2, <3>2
  <2>3. CASE c \notin ven \cup pag
    BY <2>3 DEF CitaTrasExpirar
  <2> QED BY <2>1, <2>2, <2>3
<1>6. V \in SUBSET {c \in Citas : e[c] = "apartada"}
  BY <1>t, <1>3, VistaEs DEF ReservasTypeOK
<1>7. CitasDe(g) \subseteq {c \in Citas : e[c] = "libre"}
  BY <1>t, <1>1, VistaEs DEF ReservasTypeOK
<1> HIDE DEF tras, V
<1>8. \A c \in CitasDe(g), d \in Citas :
          <<c, d>> \in Choca => d \notin CitasDe(g) /\ medio[d] \notin {"apartada", "firme"}
  BY <1>1, <1>4, <1>5, VistaEs DEF SinChoque
<1>9. e' = [c \in Citas |-> IF c \in CitasDe(g) THEN "apartada" ELSE medio[c]]
  <2>1. \A c \in Citas : Vista[cita'[c]] = IF c \in CitasDe(g) THEN "apartada" ELSE medio[c]
    <3> TAKE c \in Citas
    <3>1. "en_espera" \in EstadosCita /\ "en_espera" \in Pendientes
      BY DEF EstadosCita, Ocupan, Pendientes
    <3>2. Vista["en_espera"] = "apartada"
      BY <3>1, VistaEs
    <3> QED BY <1>1, <1>5, <3>2
  <2> QED BY <2>1
<1> HIDE DEF medio
<1>10. \E W \in SUBSET {c \in Citas : e[c] = "apartada"} :
          LET t == [c \in Citas |-> IF c \in W THEN "vencida" ELSE e[c]]
          IN  /\ \A c \in CitasDe(g), d \in Citas :
                    <<c, d>> \in Choca => d \notin CitasDe(g) /\ t[d] \notin {"apartada", "firme"}
              /\ e' = [c \in Citas |-> IF c \in CitasDe(g) THEN "apartada" ELSE t[c]]
  BY <1>6, <1>8, <1>9 DEF medio
<1> HIDE DEF e
<1> QED
  BY <1>7, <1>10 DEF e, CitasDe, Agenda!Apartar, Agenda!Del, Agenda!En, Agenda!Pasar, Agenda!Cabe,
                     Agenda!Tomada

\* Every other operation on the tables moves some citas from one of the abstract
\* states to the next.
LEMMA TablasAgenda ==
    ASSUME PagoInv, ReservasNext, ReservasTypeOK', UNCHANGED pagoVars
    PROVE  [Agenda!AgendaNext]_(Agenda!agenda)
<1>t. ReservasTypeOK /\ UNCHANGED <<cobro, pago>>
  BY DEF PagoInv, PagosTypeOK, pagoVars
<1> USE <1>t
<1> DEFINE Pasa(de, a) == \A c \in Citas : \/ cita'[c] = cita[c]
                                           \/ Vista[cita[c]] = de /\ Vista[cita'[c]] = a
<1>v. ASSUME \A c \in Citas : \/ cita'[c] = cita[c]
                              \/ cita[c] \in Pendientes /\ cita'[c] = "expirada"
      PROVE  Pasa("apartada", "vencida")
  BY <1>v, VistaEs DEF ReservasTypeOK
<1>s. ASSUME \A c \in Citas : \/ cita'[c] = cita[c]
                              \/ /\ cita[c] \in Pendientes
                                 /\ cita'[c] \in {"cancelada", "cancelada_por_cliente"}
      PROVE  Pasa("apartada", "cerrada")
  <2>1. {"cancelada", "cancelada_por_cliente"} \subseteq Terminales \ {"expirada"}
    BY DEF Terminales
  <2> QED BY <1>s, <2>1, VistaEs DEF ReservasTypeOK
<1>f. ASSUME \A c \in Citas : \/ cita'[c] = cita[c]
                              \/ cita[c] \in Pendientes /\ cita'[c] = "confirmada"
      PROVE  Pasa("apartada", "firme")
  <2>1. "confirmada" \in Ocupan \ Pendientes
    BY DEF Ocupan, Pendientes
  <2> QED BY <1>f, <2>1, VistaEs DEF ReservasTypeOK
<1>c. ASSUME \A c \in Citas : \/ cita'[c] = cita[c]
                              \/ /\ cita[c] \in Ocupan \ Pendientes
                                 /\ cita'[c] \in {"cancelada", "no_show", "completada"}
      PROVE  Pasa("firme", "cerrada")
  <2>1. {"cancelada", "no_show", "completada"} \subseteq Terminales \ {"expirada"}
    BY DEF Terminales
  <2> QED BY <1>c, <2>1, VistaEs DEF ReservasTypeOK
<1> SUFFICES ASSUME ~\E g \in Grupos : CrearReserva(g),
                    cita' # cita
             PROVE  \/ Pasa("apartada", "vencida") \/ Pasa("apartada", "cerrada")
                    \/ Pasa("apartada", "firme") \/ Pasa("firme", "cerrada")
                    \/ \A c \in Citas : Vista[cita'[c]] = Vista[cita[c]]
  <2>1. CASE \E g \in Grupos : CrearReserva(g)
    BY <2>1, CrearEsApartar DEF Agenda!AgendaNext, Agenda!agenda
  <2>2. CASE cita' = cita
    BY <2>2, Quieta
  <2>3. CASE Pasa("apartada", "vencida") \/ Pasa("apartada", "cerrada")
             \/ Pasa("apartada", "firme") \/ Pasa("firme", "cerrada")
    BY <2>3, Mudanza
  <2>4. CASE \A c \in Citas : Vista[cita'[c]] = Vista[cita[c]]
    BY <2>4 DEF Agenda!agenda
  <2> QED BY <2>1, <2>2, <2>3, <2>4
<1>1. CASE Tic \/ DecisionCae
  BY <1>1 DEF Tic, DecisionCae, tablas
<1>2. CASE ExpirarVencidas
  <2> DEFINE pag == Pagadas(Citas)
             ven == Vencidas(Citas)
  <2>1. cita' = CitaTrasExpirar(pag, ven)
    BY <1>2 DEF ExpirarVencidas
  <2>2. \A c \in pag : c \in Citas /\ cita[c] = "confirmada"
    BY PagadasFirmes
  <2>3. \A c \in ven : cita[c] \in Pendientes
    BY DEF Vencidas
  <2> HIDE DEF pag, ven
  <2> QED BY <2>1, <2>2, <2>3, <1>v DEF CitaTrasExpirar
<1>3. CASE Barrer
  <2>1. CASE BarridoHolds \/ BarridoIntents \/ BarridoCae \/ SoloLectura
    BY <2>1 DEF BarridoHolds, BarridoIntents, BarridoCae, SoloLectura, tablas
  <2>2. CASE BarridoCitas
    BY <2>2, <1>v DEF BarridoCitas
  <2>3. CASE BarridoNoShow
    <3>1. \A c \in Citas : cita'[c] = cita[c] \/ (cita[c] = "confirmada" /\ cita'[c] = "no_show")
      BY <2>3 DEF BarridoNoShow
    <3>2. "confirmada" \in Ocupan \ Pendientes
      BY DEF Ocupan, Pendientes
    <3> QED BY <3>1, <3>2, <1>c
  <2> QED BY <1>3, <2>1, <2>2, <2>3 DEF Barrer
<1>4. ASSUME NEW g \in Grupos, OperarGrupo(g)
      PROVE  \/ Pasa("apartada", "vencida") \/ Pasa("apartada", "cerrada")
             \/ Pasa("apartada", "firme") \/ Pasa("firme", "cerrada")
  <2>1. CASE LiberarHold(g)
    <3>1. "en_espera" \in Pendientes
      BY DEF Pendientes
    <3> QED BY <2>1, <3>1, <1>s DEF LiberarHold
  <2>2. CASE DecidirVencer(g) \/ DecidirDescartar(g) \/ DecidirSinPago(g)
    BY <2>2 DEF DecidirVencer, DecidirDescartar, DecidirSinPago, tablas
  <2>3. CASE VencerPendiente(g)
    BY <2>3, <1>v DEF VencerPendiente
  <2>4. CASE DescartarPendiente(g)
    BY <2>4, <1>s DEF DescartarPendiente
  <2>5. CASE ConfirmarSinPago(g)
    BY <2>5, <1>f DEF ConfirmarSinPago
  <2> QED BY <1>4, <2>1, <2>2, <2>3, <2>4, <2>5 DEF OperarGrupo
<1>5. ASSUME NEW d \in Citas, NEW x \in EstadosCita, EstadoAdmin(d, x)
      PROVE  \/ Pasa("apartada", "vencida") \/ Pasa("apartada", "cerrada")
             \/ Pasa("apartada", "firme") \/ Pasa("firme", "cerrada")
             \/ \A c \in Citas : Vista[cita'[c]] = Vista[cita[c]]
  <2>1. /\ cita[d] \in DOMAIN Transiciones /\ x \in Transiciones[cita[d]]
        /\ \A c \in Citas : cita'[c] = IF c = d THEN x ELSE cita[c]
    BY <1>5 DEF EstadoAdmin, ReservasTypeOK
  <2>2. \/ cita[d] \in Pendientes /\ x \in {"expirada", "cancelada", "confirmada"}
        \/ cita[d] \in Ocupan \ Pendientes /\ x \in {"cancelada", "no_show", "completada"}
        \/ cita[d] \in Ocupan \ Pendientes /\ x \in Ocupan \ Pendientes
    BY <2>1 DEF Transiciones, Pendientes, Ocupan
  <2>3. CASE cita[d] \in Pendientes /\ x = "expirada"
    BY <2>1, <2>3, <1>v
  <2>4. CASE cita[d] \in Pendientes /\ x = "cancelada"
    BY <2>1, <2>4, <1>s
  <2>5. CASE cita[d] \in Pendientes /\ x = "confirmada"
    BY <2>1, <2>5, <1>f
  <2>6. CASE cita[d] \in Ocupan \ Pendientes /\ x \in {"cancelada", "no_show", "completada"}
    BY <2>1, <2>6, <1>c
  <2>7. CASE cita[d] \in Ocupan \ Pendientes /\ x \in Ocupan \ Pendientes
    <3>1. cita[d] \in EstadosCita /\ Vista[x] = "firme" /\ Vista[cita[d]] = "firme"
      BY <2>7, VistaEs DEF ReservasTypeOK
    <3> QED BY <2>1, <3>1
  <2> QED BY <2>2, <2>3, <2>4, <2>5, <2>6, <2>7
<1> HIDE DEF Pasa
<1> QED BY <1>1, <1>2, <1>3, <1>4, <1>5 DEF ReservasNext

\* A confirmation takes the whole group, once, after its charge.
LEMMA ConfirmarEsPagar ==
    ASSUME PagoInv, NEW i \in Intents, NEW h \in Nat, CobroDe(i, h)
    PROVE  Agenda!Pagar(GrupoIntent[i])
<1> DEFINE g == GrupoIntent[i]
           e == [c \in Citas |-> Vista[cita[c]]]
           pag == {GrupoIntent[j] : j \in {k \in Intents : pago[k]}}
           cob == {GrupoIntent[j] : j \in {k \in Intents : cobro[k]}}
<1>t. PagosTypeOK /\ ReservasTypeOK
  BY DEF PagoInv, PagosTypeOK
<1>1. /\ pago' = [pago EXCEPT ![i] = TRUE] /\ cobro' = cobro
      /\ SinChoque(PorConfirmar(g), cita)
      /\ cita' = [c \in Citas |-> IF c \in PorConfirmar(g) THEN "confirmada" ELSE cita[c]]
  BY DEF CobroDe, Confirmar, Confirmable
<1>2. \A c \in CitasDe(g) : c \in Citas /\ cita[c] \in Pendientes \cup {"expirada"}
  BY DEF CobroDe, Pagable, Recuperable, CitasDe
<1>3. PorConfirmar(g) = CitasDe(g)
  BY <1>2 DEF PorConfirmar
<1>4. g \in cob /\ cob' = cob
  BY <1>1 DEF CobroDe, PagoInv, CobroCoherente
<1>5. g \notin pag
  <2> SUFFICES ASSUME NEW j \in Intents, pago[j], GrupoIntent[j] = g PROVE FALSE
    OBVIOUS
  <2>1. Ancla[g] \in CitasDe(g)
    BY ConAncla, ReservasAssumption
  <2>2. cita[Ancla[g]] \notin Pendientes \cup {"expirada"}
    BY <2>1 DEF PagoInv, PagoNoRetrocede, PagoConfirmaReserva
  <2> QED BY <1>2, <2>1, <2>2
<1>6. pag' = pag \cup {g}
  <2>1. \A k \in Intents : pago'[k] <=> pago[k] \/ k = i
    BY <1>t, <1>1 DEF PagosTypeOK
  <2> QED BY <2>1
<1>7. CitasDe(g) \subseteq {c \in Citas : e[c] = "apartada"} \cup {c \in Citas : e[c] = "vencida"}
  BY <1>t, <1>2, VistaEs DEF ReservasTypeOK
<1>8. \A c \in CitasDe(g), d \in Citas :
          <<c, d>> \in Choca => d \notin CitasDe(g) /\ e[d] \notin {"apartada", "firme"}
  BY <1>t, <1>1, <1>3, VistaEs DEF SinChoque, ReservasTypeOK
<1>9. e' = [c \in Citas |-> IF c \in CitasDe(g) THEN "firme" ELSE e[c]]
  <2>1. "confirmada" \in EstadosCita /\ "confirmada" \in Ocupan \ Pendientes
    BY DEF EstadosCita, Ocupan, Pendientes
  <2>2. Vista["confirmada"] = "firme"
    BY <2>1, VistaEs
  <2>3. \A c \in Citas : Vista[cita'[c]] = IF c \in CitasDe(g) THEN "firme" ELSE e[c]
    BY <1>1, <1>3, <2>2
  <2> QED BY <2>3
<1> HIDE DEF e, pag, cob
<1> QED
  BY <1>4, <1>5, <1>6, <1>7, <1>8, <1>9
     DEF e, pag, cob, CitasDe, Agenda!Pagar, Agenda!Del, Agenda!En, Agenda!Pasar, Agenda!Cabe,
         Agenda!Tomada

\* A step of a payment that confirms nothing shows only as a charge, of a group
\* that was reserved.
LEMMA CobroDePaso ==
    ASSUME PagosTypeOK, NEW i \in Intents, Pagar(i), ~\E h \in Nat : CobroDe(i, h)
    PROVE  /\ pago' = pago
           /\ cobro' = cobro \/ (fase[i] = "enviada" /\ cobro' = [cobro EXCEPT ![i] = TRUE])
<1> USE DEF PagosTypeOK
<1>1. ASSUME NEW u \in Usuarios, CrearIntent(i, u) PROVE UNCHANGED <<pago, cobro>>
  BY <1>1 DEF CrearIntent
<1>2. CASE ActivarIntent(i) \/ VentaReclamar(i) \/ VentaCierra(i) \/ VentaReferencias(i)
  BY <1>2 DEF ActivarIntent, VentaReclamar, VentaCierra, VentaReferencias
<1>3. ASSUME NEW r \in Resultados \ {"ninguno"}, VentaResponde(i, r)
      PROVE  /\ pago' = pago /\ fase[i] = "enviada"
             /\ cobro' = cobro \/ cobro' = [cobro EXCEPT ![i] = TRUE]
  <2>1. PICK b \in BOOLEAN : cobro' = [cobro EXCEPT ![i] = @ \/ b]
    BY <1>3 DEF VentaResponde
  <2>2. CASE b
    BY <1>3, <2>1, <2>2 DEF VentaResponde
  <2>3. CASE ~b
    BY <1>3, <2>1, <2>3 DEF VentaResponde
  <2> QED BY <2>2, <2>3
<1>4. CASE PagoCae(i)
  BY <1>4 DEF PagoCae
<1>5. CASE VentaReconcilia(i) /\ ~(Pagable(GrupoIntent[i]) /\ Confirmar(i, ahora))
  BY <1>5 DEF VentaReconcilia
<1>6. CASE \/ VentaReconcilia(i) /\ Pagable(GrupoIntent[i]) /\ Confirmar(i, ahora)
           \/ EstadoReconcilia(i) \/ ReconciliaDurable(i)
  BY <1>6, Reconciliar
<1> QED BY <1>1, <1>2, <1>3, <1>4, <1>5, <1>6 DEF Pagar

\* The steps of a payment
LEMMA PagarAgenda ==
    ASSUME AgendaInv, NEW i \in Intents, Pagar(i) PROVE [Agenda!AgendaNext]_(Agenda!agenda)
<1> DEFINE g == GrupoIntent[i]
           e == [c \in Citas |-> Vista[cita[c]]]
           pag == {GrupoIntent[j] : j \in {k \in Intents : pago[k]}}
           cob == {GrupoIntent[j] : j \in {k \in Intents : cobro[k]}}
<1>t. PagosTypeOK /\ ReservasTypeOK /\ g \in Grupos
  BY ReservasAssumption DEF AgendaInv, PagoInv, PagosTypeOK
<1>1. CASE \E h \in Nat : CobroDe(i, h)
  BY <1>t, <1>1, ConfirmarEsPagar DEF AgendaInv, Agenda!AgendaNext, Agenda!agenda
<1>2. CASE ~\E h \in Nat : CobroDe(i, h)
  <2>1. \A c \in Citas : Vista[cita'[c]] = Vista[cita[c]]
    <3>1. {"en_espera", "pendiente_pago"} \subseteq EstadosCita \cap Pendientes
      BY DEF EstadosCita, Ocupan, Pendientes
    <3>2. Vista["en_espera"] = "apartada" /\ Vista["pendiente_pago"] = "apartada"
      BY <3>1, VistaEs
    <3> QED BY <1>t, <1>2, <3>2, PasoDePago DEF SinConfirmar
  <2>2. e' = e /\ pag' = pag
    BY <1>t, <1>2, <2>1, CobroDePaso
  <2>3. CASE cobro' = cobro
    BY <2>2, <2>3 DEF Agenda!agenda
  <2>4. CASE fase[i] = "enviada" /\ cobro' = [cobro EXCEPT ![i] = TRUE]
    <3>1. intent[i] # "ninguno"
      BY <2>4 DEF AgendaInv, PagoInv, CobroCoherente
    <3>2. CitasDe(g) \cap {c \in Citas : e[c] = "libre"} = {}
      BY <1>t, <3>1, VistaEs DEF AgendaInv, ConReserva, CitasDe, ReservasTypeOK
    <3>3. cob' = cob \cup {g}
      <4>1. \A k \in Intents : cobro'[k] <=> cobro[k] \/ k = i
        BY <1>t, <2>4 DEF PagosTypeOK
      <4> QED BY <4>1
    <3> HIDE DEF e, pag, cob
    <3>4. Agenda!Cobrar(g)
      BY <2>2, <3>2, <3>3 DEF e, pag, cob, CitasDe, Agenda!Cobrar, Agenda!Del, Agenda!En
    <3> QED BY <1>t, <3>4 DEF Agenda!AgendaNext, Agenda!agenda
  <2> QED BY <1>t, <1>2, <2>3, <2>4, CobroDePaso
<1> QED BY <1>1, <1>2

\* Every step keeps the citas of the created intents.
LEMMA PasoConReserva == AgendaInv /\ [Next]_vars => ConReserva'
<1> SUFFICES ASSUME AgendaInv, [Next]_vars PROVE ConReserva'
  OBVIOUS
<1>t. PagosTypeOK /\ ReservasTypeOK
  BY DEF AgendaInv, PagoInv, PagosTypeOK
<1>1. CASE ReservasNext
  BY <1>t, <1>1, PasoIntents, PasoVence
     DEF AgendaInv, ConReserva, IntentSinPago, IntentsActivos, CitasDe
<1>2. ASSUME NEW i \in Intents, Pagar(i) PROVE ConReserva'
  <2>1. \A c \in Citas : cita[c] # "ninguna" => cita'[c] # "ninguna"
    BY <1>t, <1>2, PasoDePago DEF SinConfirmar, CobroDe, Confirmar
  <2>2. ASSUME NEW j \in Intents, intent'[j] # "ninguno", intent[j] = "ninguno"
        PROVE  \A c \in CitasDe(GrupoIntent[j]) : cita[c] # "ninguna"
    <3>1. j = i /\ Pagable(GrupoIntent[i])
      BY <1>t, <1>2, <2>2
         DEF Pagar, CrearIntent, InsertarIntent, ActivarIntent, EsperarPago, Revalidado,
             VentaReclamar, VentaResponde, VentaCierra, VentaReferencias, VentaReconcilia,
             EstadoReconcilia, ReconciliaDurable, Recuperable, Confirmar, PagoCae, reservasVars,
             tablas, ReservasTypeOK
    <3> QED BY <3>1 DEF Pagable, Pendientes
  <2> QED BY <2>1, <2>2 DEF AgendaInv, ConReserva, CitasDe
<1>3. CASE UNCHANGED vars \/ \E g \in Grupos : PromocionDejaDeAplicar(g)
  BY <1>3, OtrosPasos DEF AgendaInv, ConReserva
<1> QED BY <1>1, <1>2, <1>3 DEF Next

\* Every step is one of AgendaAbstracta, or shows nothing of it.
LEMMA PasoAgenda ==
    AgendaInv /\ PagoInv' /\ [Next]_vars => [Agenda!AgendaNext]_(Agenda!agenda)
<1> SUFFICES ASSUME AgendaInv, PagoInv', [Next]_vars PROVE [Agenda!AgendaNext]_(Agenda!agenda)
  OBVIOUS
<1>1. CASE ReservasNext /\ UNCHANGED pagoVars
  BY <1>1, TablasAgenda DEF AgendaInv, PagoInv, PagosTypeOK
<1>2. CASE \E i \in Intents : Pagar(i)
  BY <1>2, PagarAgenda
<1>3. CASE UNCHANGED vars \/ \E g \in Grupos : PromocionDejaDeAplicar(g)
  BY <1>3, Quieta DEF vars, pagoVars, reservasVars, tablas, PromocionDejaDeAplicar
<1> QED BY <1>1, <1>2, <1>3 DEF Next

\* The booking tables and the online payment implement AgendaAbstracta, for any
\* citas, groups, intents, overlaps and times: whatever holds lapse, requests die
\* and Sales stay in doubt, barbers and clients see only its steps.
THEOREM PagosImplementa == PagosSpec => ImplementaAgenda
<1>1. Init => ConReserva /\ Agenda!AgendaInit
  <2> SUFFICES ASSUME Init PROVE ConReserva /\ Agenda!AgendaInit
    OBVIOUS
  <2>1. "ninguna" \in EstadosCita
    BY DEF EstadosCita
  <2>2. Vista["ninguna"] = "libre"
    BY <2>1, VistaEs
  <2> QED BY <2>2 DEF Init, ReservasInit, ConReserva, Agenda!AgendaInit
<1>2. AgendaInv /\ [Next]_vars => ConReserva'
  BY PasoConReserva
<1> QED BY <1>1, <1>2, PasoAgenda, PagosInvariante, PTL
        DEF PagosSpec, AgendaInv, ImplementaAgenda, Agenda!AgendaSpec

\* The steps of AgendaAbstracta keep its promise, by themselves.
LEMMA PasoPromesa ==
    Agenda!AgendaPromesa /\ [Agenda!AgendaNext]_(Agenda!agenda) => Agenda!AgendaPromesa'
<1> DEFINE e == [c \in Citas |-> Vista[cita[c]]]
           pag == {GrupoIntent[j] : j \in {k \in Intents : pago[k]}}
           cob == {GrupoIntent[j] : j \in {k \in Intents : cobro[k]}}
           Tom == {"apartada", "firme"}
           Promesa(f, p, k) ==
              /\ \A c, d \in Citas : <<c, d>> \in Choca => f[c] \notin Tom \/ f[d] \notin Tom
              /\ p \subseteq k
              /\ \A g \in p, c \in Citas : GrupoDe[c] = g => f[c] \in {"firme", "cerrada"}
           Mueve(S, a, f, f2) == f2 = [c \in Citas |-> IF c \in S THEN a ELSE f[c]]
<1>1. /\ Agenda!AgendaPromesa <=> Promesa(e, pag, cob)
      /\ Agenda!AgendaPromesa' <=> Promesa(e', pag', cob')
  BY DEF Agenda!AgendaPromesa, Agenda!Tomada
<1> SUFFICES ASSUME Promesa(e, pag, cob), [Agenda!AgendaNext]_(Agenda!agenda)
             PROVE  Promesa(e', pag', cob')
  BY <1>1
<1>2. ASSUME NEW de, NEW a, Agenda!Mudar(de, a),
             <<de, a>> \in {<<"apartada", "vencida">>, <<"apartada", "cerrada">>,
                            <<"apartada", "firme">>, <<"firme", "cerrada">>}
      PROVE  Promesa(e', pag', cob')
  <2>1. /\ \E S \in SUBSET {c \in Citas : e[c] = de} : Mueve(S, a, e, e')
        /\ pag' = pag /\ cob' = cob
    BY <1>2 DEF Agenda!Mudar, Agenda!En, Agenda!Pasar
  <2>2. PICK S \in SUBSET {c \in Citas : e[c] = de} : Mueve(S, a, e, e')
    BY <2>1
  <2> HIDE DEF e, pag, cob
  <2>3. \A c \in Citas : e'[c] = e[c] \/ (e[c] = de /\ e'[c] = a)
    BY <2>2
  <2> QED BY <1>2, <2>1, <2>3
<1>3. ASSUME NEW g \in Grupos, Agenda!Apartar(g) PROVE Promesa(e', pag', cob')
  <2>1. /\ \A c \in Citas : GrupoDe[c] = g => e[c] = "libre"
        /\ \E V \in SUBSET {c \in Citas : e[c] = "apartada"} :
              LET t == [c \in Citas |-> IF c \in V THEN "vencida" ELSE e[c]]
              IN  /\ \A c \in CitasDe(g), d \in Citas :
                        <<c, d>> \in Choca => d \notin CitasDe(g) /\ t[d] \notin Tom
                  /\ Mueve(CitasDe(g), "apartada", t, e')
        /\ pag' = pag /\ cob' = cob
    BY <1>3 DEF CitasDe, Agenda!Apartar, Agenda!Del, Agenda!En, Agenda!Pasar, Agenda!Cabe,
                Agenda!Tomada
  <2> HIDE DEF e, pag, cob
  <2>2. PICK V \in SUBSET {c \in Citas : e[c] = "apartada"} :
             LET t == [c \in Citas |-> IF c \in V THEN "vencida" ELSE e[c]]
             IN  /\ \A c \in CitasDe(g), d \in Citas :
                       <<c, d>> \in Choca => d \notin CitasDe(g) /\ t[d] \notin Tom
                 /\ Mueve(CitasDe(g), "apartada", t, e')
    BY <2>1
  <2> DEFINE t == [c \in Citas |-> IF c \in V THEN "vencida" ELSE e[c]]
  <2>3. \A c \in Citas : IF c \in CitasDe(g) THEN e'[c] = "apartada" ELSE e'[c] = t[c]
    BY <2>2
  <2>4. \A c \in Citas : t[c] \in Tom => e[c] \in Tom
    OBVIOUS
  <2>5. \A c \in CitasDe(g), d \in Citas :
           <<c, d>> \in Choca => d \notin CitasDe(g) /\ t[d] \notin Tom
    BY <2>2
  <2>6. \A c, d \in Citas : <<c, d>> \in Choca => e'[c] \notin Tom \/ e'[d] \notin Tom
    <3> SUFFICES ASSUME NEW c \in Citas, NEW d \in Citas, <<c, d>> \in Choca,
                        e'[c] \in Tom, e'[d] \in Tom
                 PROVE  FALSE
      OBVIOUS
    <3> HIDE DEF t
    <3>1. <<d, c>> \in Choca
      BY ReservasAssumption
    <3>2. c \notin CitasDe(g) /\ d \notin CitasDe(g)
      BY <2>3, <2>5, <3>1
    <3>3. e[c] \in Tom /\ e[d] \in Tom
      BY <2>3, <2>4, <3>2
    <3> QED BY <3>3
  <2>7. \A k \in pag, c \in Citas : GrupoDe[c] = k => e'[c] \in {"firme", "cerrada"}
    BY <2>1, <2>3 DEF CitasDe
  <2> QED BY <2>1, <2>6, <2>7
<1>4. ASSUME NEW g \in Grupos, Agenda!Cobrar(g) PROVE Promesa(e', pag', cob')
  <2>1. e' = e /\ pag' = pag /\ cob' = cob \cup {g}
    BY <1>4 DEF Agenda!Cobrar
  <2> HIDE DEF e, pag, cob
  <2> QED BY <2>1
<1>5. ASSUME NEW g \in Grupos, Agenda!Pagar(g) PROVE Promesa(e', pag', cob')
  <2>1. /\ g \in cob /\ pag' = pag \cup {g} /\ cob' = cob
        /\ \A c \in CitasDe(g), d \in Citas :
              <<c, d>> \in Choca => d \notin CitasDe(g) /\ e[d] \notin Tom
        /\ Mueve(CitasDe(g), "firme", e, e')
    BY <1>5 DEF CitasDe, Agenda!Pagar, Agenda!Del, Agenda!En, Agenda!Pasar, Agenda!Cabe,
                Agenda!Tomada
  <2> HIDE DEF e, pag, cob
  <2>2. \A c \in Citas : IF c \in CitasDe(g) THEN e'[c] = "firme" ELSE e'[c] = e[c]
    BY <2>1
  <2>3. \A c, d \in Citas : <<c, d>> \in Choca => e'[c] \notin Tom \/ e'[d] \notin Tom
    BY <2>1, <2>2, ReservasAssumption
  <2>4. \A k \in pag', c \in Citas : GrupoDe[c] = k => e'[c] \in {"firme", "cerrada"}
    BY <2>1, <2>2 DEF CitasDe
  <2> QED BY <2>1, <2>3, <2>4
<1>6. CASE UNCHANGED Agenda!agenda
  <2>1. e' = e /\ pag' = pag /\ cob' = cob
    BY <1>6 DEF Agenda!agenda
  <2> HIDE DEF e, pag, cob
  <2> QED BY <2>1
<1> HIDE DEF Promesa
<1> QED
  BY <1>2, <1>3, <1>4, <1>5, <1>6
     DEF Agenda!AgendaNext, Agenda!Vencer, Agenda!Soltar, Agenda!AfirmarSinPago, Agenda!Cerrar

\* What AgendaAbstracta promises follows from its steps alone, whatever takes
\* them, and so holds of the tables: no barber is taken twice, and a paid group
\* was charged and is never set aside, lapsed or free again.
THEOREM PagosPromesa == PagosSpec => []Agenda!AgendaPromesa
<1>1. Agenda!AgendaInit => Agenda!AgendaPromesa
  BY DEF Agenda!AgendaInit, Agenda!AgendaPromesa, Agenda!Tomada
<1> QED BY <1>1, PasoPromesa, PagosImplementa, PTL DEF ImplementaAgenda, Agenda!AgendaSpec
==============================================================================
