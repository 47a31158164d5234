------------------------- MODULE Beneficios_proofs -------------------------
(***************************************************************************)
(* Proofs about Beneficios, for any citas and groups, any plans, any       *)
(* number of cycles and any rule of points.                                *)
(*                                                                         *)
(* PuntosJustos is kept because a row that adds a point belongs to a cita  *)
(* that was confirmed (FilasInv), so the trigger never finds one for a     *)
(* cita it sees confirmed, and because a group has its titular (GrupoInv). *)
(* ConsumoAcotado is kept because one plan at most is active (PlanUnico),  *)
(* so a visit consumes from one, and what it finds left is still left.     *)
(***************************************************************************)
EXTENDS Beneficios, FiniteSetTheorems, WellFoundedInduction, TLAPS

EstadosCita == {"libre", "pendiente", "expirada"} \cup Confirmadas
EstadosCiclo == {"no", "activo", "vencido", "expirado"}
EnVigencia == {"activa", "pasada"}
Filas == Citas \X (Nat \ {0}) \X Ciclos
UnaPorCita(filas) == \A r, s \in filas : r[1] = s[1] => r = s
HayCiclo(estados) == \E k \in Ciclos : estados[k] \in {"no", "activo"}

FilasInv == IsFiniteSet(acumulado) /\ \A r \in acumulado : cita[r[1]] \in Confirmadas
GrupoInv == \A c \in Citas : cita[c] # "libre" => cita[TitularDe[c]] # "libre"
PlanUnico == \A p, q \in Planes : plan[p] \in EnVigencia /\ plan[q] \in EnVigencia => p = q
CicloHay == HayCiclo(ciclo)

BenInv ==
    /\ BeneficiosTypeOK /\ PuntosJustos /\ ConsumoAcotado
    /\ FilasInv /\ GrupoInv /\ PlanUnico /\ CicloHay

-----------------------------------------------------------------------------
(* Cycles and rows of points *)

\* There is a cycle for the points given now.
LEMMA CicloActualTipo ==
  ASSUME CicloHay, ciclo \in [Ciclos -> EstadosCiclo]
  PROVE  CicloActual \in Ciclos
  BY DEF CicloHay, HayCiclo, CicloActual, Activos

\* What expires is a natural number, and expired cycles leave one to use.
LEMMA VencimientoTipo ==
  ASSUME BeneficiosAssumption, BeneficiosTypeOK, FilasInv, CicloHay
  PROVE  /\ VencimientoTras \in [Ciclos -> Nat]
         /\ CicloTras \in [Ciclos -> EstadosCiclo]
         /\ HayCiclo(CicloTras)
<1>1. ASSUME NEW k \in Ciclos PROVE VencimientoDe(k) \in Nat
  <2>1. Cardinality({r \in acumulado : r[3] = k}) \in Nat
    BY FS_Subset, FS_CardinalityType DEF FilasInv
  <2>2. manual[k] \in Int
    BY DEF BeneficiosAssumption, BeneficiosTypeOK, Ciclos
  <2> QED
    BY <2>1, <2>2 DEF VencimientoDe, Positivo, SumaCiclo, BeneficiosTypeOK
<1>2. VencimientoTras \in [Ciclos -> Nat]
  BY <1>1 DEF VencimientoTras
<1>3. CicloTras \in [Ciclos -> EstadosCiclo] /\ HayCiclo(CicloTras)
  BY DEF CicloTras, CicloHay, HayCiclo, BeneficiosTypeOK, EstadosCiclo
<1> QED
  BY <1>2, <1>3

\* Giving points opens the cycle in use.
LEMMA CicloConTipo ==
  ASSUME NEW estados \in [Ciclos -> EstadosCiclo], HayCiclo(estados),
         CicloActual \in Ciclos, NEW filas
  PROVE  /\ CicloCon(estados, filas) \in [Ciclos -> EstadosCiclo]
         /\ HayCiclo(CicloCon(estados, filas))
  BY DEF CicloCon, HayCiclo, EstadosCiclo

\* FilasDe makes one row for each of the citas it is given.
LEMMA FilasDeBien ==
  ASSUME BeneficiosAssumption, NEW filas \in SUBSET Filas, IsFiniteSet(filas),
         CicloActual \in Ciclos, NEW cs \in SUBSET Citas
  PROVE  /\ FilasDe(filas, cs) \in SUBSET Filas
         /\ IsFiniteSet(FilasDe(filas, cs))
         /\ \A r \in FilasDe(filas, cs) : r[1] \in cs
         /\ UnaPorCita(FilasDe(filas, cs))
<1> DEFINE n(c) == Cardinality({r \in filas : r[1] = c}) + 1
           f == [c \in cs |-> <<c, n(c), CicloActual>>]
           T == FilasDe(filas, cs)
<1>1. ASSUME NEW c \in cs PROVE n(c) \in Nat \ {0}
  <2>1. Cardinality({r \in filas : r[1] = c}) \in Nat
    BY FS_Subset, FS_CardinalityType
  <2> QED
    BY <2>1
<1>2. T = {<<c, n(c), CicloActual>> : c \in cs}
  BY DEF FilasDe
<1>3. f \in Surjection(cs, T)
  <2> HIDE DEF n
  <2> QED
    BY <1>2 DEF Surjection
<1>4. IsFiniteSet(cs)
  BY FS_Subset DEF BeneficiosAssumption
<1>5. IsFiniteSet(T)
  BY <1>3, <1>4, FS_Surjection
<1>6. /\ T \in SUBSET Filas
      /\ \A r \in T : r[1] \in cs
      /\ UnaPorCita(T)
  <2> HIDE DEF n, T
  <2> QED
    BY <1>1, <1>2 DEF Filas, UnaPorCita
<1> QED
  BY <1>5, <1>6

\* The trigger gives no second point to a cita.
LEMMA FilasDisparadorBien ==
  ASSUME BeneficiosAssumption, BenInv, NEW ms \in SUBSET Citas,
         \A c \in ms : cita[c] \notin Confirmadas, NEW t \in FilasDisparador(ms)
  PROVE  /\ acumulado \cup t \in SUBSET Filas
         /\ IsFiniteSet(acumulado \cup t)
         /\ UnaPorCita(acumulado \cup t)
         /\ \A r \in t : r[1] \in ms
<1>1. /\ acumulado \in SUBSET Filas /\ IsFiniteSet(acumulado) /\ UnaPorCita(acumulado)
      /\ \A r \in acumulado : cita[r[1]] \in Confirmadas
  BY DEF BenInv, BeneficiosTypeOK, PuntosJustos, FilasInv, Filas, UnaPorCita
<1>2. CicloActual \in Ciclos
  BY CicloActualTipo DEF BenInv, BeneficiosTypeOK, EstadosCiclo
<1>3. PICK cs \in SUBSET ms : t = FilasDe(acumulado, cs)
  BY DEF FilasDisparador
<1>4. /\ t \in SUBSET Filas /\ IsFiniteSet(t) /\ UnaPorCita(t)
      /\ \A r \in t : r[1] \in cs
  BY <1>1, <1>2, <1>3, FilasDeBien
<1>5. IsFiniteSet(acumulado \cup t)
  BY <1>1, <1>4, FS_Union
<1>6. UnaPorCita(acumulado \cup t)
  BY <1>1, <1>3, <1>4 DEF UnaPorCita
<1> QED
  BY <1>1, <1>3, <1>4, <1>5, <1>6

\* The redemption takes the point of the redeemed cita, and the points given
\* go to citas of the group without one.
LEMMA OtorgadasBien ==
  ASSUME BeneficiosAssumption, CicloActual \in Ciclos, NEW g \in Titulares,
         NEW filas \in SUBSET Filas, IsFiniteSet(filas), UnaPorCita(filas)
  PROVE  LET tras == FilasTrasCanje(g, filas)
             todas == tras \cup FilasOtorgadas(g, tras)
         IN  /\ todas \in SUBSET Filas /\ IsFiniteSet(todas) /\ UnaPorCita(todas)
             /\ EsCanje(g) => \A r \in todas : r[1] # g
             /\ \A r \in todas : r \in filas \/ r[1] \in Grupo(g)
<1> DEFINE tras == FilasTrasCanje(g, filas)
           cs == {c \in Grupo(g) : ~(c = g /\ EsCanje(g)) /\ \A r \in tras : r[1] # c}
           mas == FilasDe(tras, cs)
<1>1. /\ tras \in SUBSET filas
      /\ EsCanje(g) => \A r \in tras : r[1] # g
  BY DEF FilasTrasCanje
<1>2. tras \in SUBSET Filas /\ IsFiniteSet(tras) /\ UnaPorCita(tras)
  BY <1>1, FS_Subset DEF UnaPorCita
<1>3. cs \in SUBSET Citas /\ cs \in SUBSET Grupo(g)
  BY DEF Grupo
<1> HIDE DEF tras
<1>4. /\ mas \in SUBSET Filas /\ IsFiniteSet(mas) /\ UnaPorCita(mas)
      /\ \A r \in mas : r[1] \in cs
  BY <1>2, <1>3, FilasDeBien
<1>5. FilasOtorgadas(g, tras) = mas
  BY DEF FilasOtorgadas
<1>6. IsFiniteSet(tras \cup mas)
  BY <1>2, <1>4, FS_Union
<1> HIDE DEF mas
<1>7. UnaPorCita(tras \cup mas)
  BY <1>2, <1>4 DEF UnaPorCita
<1>8. EsCanje(g) => \A r \in tras \cup mas : r[1] # g
  BY <1>1, <1>4
<1>9. \A r \in tras \cup mas : r \in filas \/ r[1] \in Grupo(g)
  BY <1>1, <1>3, <1>4
<1> QED
  BY <1>2, <1>4, <1>5, <1>6, <1>7, <1>8, <1>9 DEF tras

-----------------------------------------------------------------------------
(* Consumption of the membership *)

\* A plan from which a visit consumes is active and has services left.
LEMMA EnVigorVigente ==
  ASSUME NEW p \in EnVigor PROVE p \in Planes /\ Vigente(p) /\ plan[p] = "activa"
  BY DEF EnVigor, PlanRevisado, Vigente

\* The revision of the plans ends some of them.
LEMMA PlanTrasTipo ==
  ASSUME BeneficiosTypeOK, PlanUnico
  PROVE  /\ PlanTras \in [Planes -> {"no", "activa", "pasada", "fin"}]
         /\ \A p, q \in Planes : PlanTras[p] \in EnVigencia /\ PlanTras[q] \in EnVigencia => p = q
<1>1. \A p \in Planes : PlanRevisado(p) \in {plan[p], "fin"}
  BY DEF PlanRevisado
<1> QED
  BY <1>1 DEF PlanTras, BeneficiosTypeOK, PlanUnico, EnVigencia

\* The citas that consumed something of a plan, and how many may be.
Consumidas(filas, p, x) == {c \in Citas : <<c, p, x>> \in filas}
Tope(p, x) == IF x = "servicio" THEN Servicios[p] ELSE Cortesias[p]
UnaPorClase(filas) == \A r, s \in filas : r[1] = s[1] /\ r[3] = s[3] => r = s

\* A visit that may consume stays within the plan, and consumes once.
LEMMA ConsumoSeguro ==
  ASSUME BeneficiosAssumption, BeneficiosTypeOK, ConsumoAcotado, PlanUnico,
         NEW c \in Citas, Consumible(c)
  PROVE  /\ ConsumoCon(c) \subseteq Citas \X Planes \X Clases
         /\ UnaPorClase(ConsumoCon(c))
         /\ \A p \in Planes, x \in Clases :
               Cardinality(Consumidas(ConsumoCon(c), p, x)) <= Tope(p, x)
<1> DEFINE nuevas == UNION {{<<c, p, x>> : x \in Falta(c, p)} : p \in EnVigor}
<1>1. ConsumoCon(c) = consumo \cup nuevas
  BY DEF ConsumoCon
<1>2. \A r \in nuevas : \E p \in EnVigor : \E x \in Falta(c, p) : r = <<c, p, x>>
  OBVIOUS
<1>3. \A p \in EnVigor : \A x \in Falta(c, p) : <<c, p, x>> \in nuevas
  OBVIOUS
<1>4. \A p \in EnVigor : p \in Planes /\ Vigente(p) /\ plan[p] = "activa"
  BY EnVigorVigente
<1>5. \A p \in EnVigor : \A x \in Falta(c, p) : x \in Clases /\ ~YaConsumido(c, p, x)
  BY DEF Falta
<1>6. \A p, q \in EnVigor : p = q
  BY <1>4 DEF PlanUnico, EnVigencia
<1>7. consumo \subseteq Citas \X Planes \X Clases
  BY DEF BeneficiosTypeOK
<1>8. \A r \in consumo : r[1] = c => \A p \in EnVigor : \A x \in Falta(c, p) : r[3] # x
  <2> SUFFICES ASSUME NEW r \in consumo, r[1] = c, NEW p \in EnVigor, NEW x \in Falta(c, p), r[3] = x
               PROVE  FALSE
    OBVIOUS
  <2>1. r = <<c, r[2], x>> /\ r[2] \in Planes
    BY <1>7
  <2>2. YaConsumido(c, p, x)
    BY <2>1, Zenon DEF YaConsumido
  <2> QED
    BY <2>2, <1>5
<1> HIDE DEF nuevas
<1>9. ConsumoCon(c) \subseteq Citas \X Planes \X Clases
  BY <1>1, <1>2, <1>4, <1>5, <1>7
<1>10. UnaPorClase(ConsumoCon(c))
  <2>1. UnaPorClase(consumo)
    BY DEF ConsumoAcotado, UnaPorClase
  <2>2. \A r, s \in nuevas : r[3] = s[3] => r = s
    BY <1>2, <1>6
  <2>3. \A r \in nuevas, s \in consumo : s[1] = r[1] => s[3] # r[3]
    BY <1>2, <1>8
  <2> QED
    BY <1>1, <2>1, <2>2, <2>3 DEF UnaPorClase
<1>11. ASSUME NEW p \in Planes, NEW x \in Clases
       PROVE  Cardinality(Consumidas(ConsumoCon(c), p, x)) <= Tope(p, x)
  <2> DEFINE antes == Consumidas(consumo, p, x)
             ahora == Consumidas(ConsumoCon(c), p, x)
  <2>1. IsFiniteSet(antes) /\ Cardinality(antes) \in Nat
    BY FS_Subset, FS_CardinalityType DEF BeneficiosAssumption, Consumidas
  <2>2. Cardinality(antes) <= Tope(p, x) /\ Tope(p, x) \in Nat
    BY DEF ConsumoAcotado, Consumidas, Tope, Usados, Clases, BeneficiosAssumption, Planes
  <2>3. CASE p \in EnVigor /\ x \in Falta(c, p)
    <3>1. ahora = antes \cup {c}
      BY <1>1, <1>2, <1>3, <2>3 DEF Consumidas
    <3>2. Cardinality(antes) + 1 <= Tope(p, x)
      <4>1. CASE x = "servicio"
        <5>1. Cardinality(antes) < Servicios[p]
          BY <1>4, <2>3, <4>1 DEF Vigente, Usados, Consumidas
        <5> QED
          BY <5>1, <2>1, <2>2, <4>1 DEF Tope
      <4>2. CASE x = "cortesia"
        <5>1. Alcanza(c, p)
          BY <2>3 DEF Consumible
        <5>2. Cardinality(antes) < Cortesias[p]
          BY <5>1, <2>3, <4>2 DEF Alcanza, Usados, Consumidas
        <5> QED
          BY <5>2, <2>1, <2>2, <4>2 DEF Tope
      <4> QED
        BY <4>1, <4>2 DEF Clases
    <3> HIDE DEF antes, ahora
    <3>3. Cardinality(ahora) = IF c \in antes THEN Cardinality(antes) ELSE Cardinality(antes) + 1
      BY <2>1, <3>1, FS_AddElement, Zenon
    <3>4. Cardinality(ahora) <= Tope(p, x)
      BY <2>1, <2>2, <3>2, <3>3
    <3> QED
      BY <3>4 DEF ahora
  <2>4. CASE ~(p \in EnVigor /\ x \in Falta(c, p))
    <3>1. ahora = antes
      BY <1>1, <1>2, <2>4 DEF Consumidas
    <3> QED
      BY <2>2, <3>1
  <2> QED
    BY <2>3, <2>4
<1> QED
  BY <1>9, <1>10, <1>11

-----------------------------------------------------------------------------
(* Confirmations *)

PuntosBien ==
    /\ acumulado \in SUBSET Filas /\ canje \in [Titulares -> Nat]
    /\ vencimiento \in [Ciclos -> Nat] /\ ciclo \in [Ciclos -> EstadosCiclo]
    /\ cita \in [Citas -> EstadosCita]
    /\ PuntosJustos /\ FilasInv /\ GrupoInv /\ CicloHay

\* Confirming citas of a group that were not confirmed.
LEMMA ConfirmarBien ==
  ASSUME BeneficiosAssumption, BenInv, NEW g \in Titulares, NEW ms \in SUBSET Grupo(g), Confirmar(ms)
  PROVE  /\ cita' \in [Citas -> EstadosCita]
         /\ GrupoInv'
         /\ \A c \in Citas : cita[c] \in Confirmadas => cita'[c] \in Confirmadas
         /\ \A c \in ms : cita'[c] \in Confirmadas
         /\ \A c \in Citas \ ms : cita'[c] = cita[c]
<1>1. cita \in [Citas -> EstadosCita] /\ ms \subseteq Citas
  BY DEF BenInv, BeneficiosTypeOK, EstadosCita, Grupo
<1>2. cita' \in [Citas -> EstadosCita]
  BY <1>1 DEF Confirmar, EstadosCita, Confirmadas
<1>3. GrupoInv'
  BY <1>1 DEF Confirmar, GrupoInv, BenInv, Grupo, BeneficiosAssumption
<1> QED
  BY <1>1, <1>2, <1>3 DEF Confirmar, Confirmadas

\* Redeeming stores what the rule says, once and for a reward.
LEMMA CanjeBien ==
  ASSUME BeneficiosAssumption, BenInv, NEW g \in Titulares
  PROVE  /\ CanjeTras(g) \in [Titulares -> Nat]
         /\ \A h \in Titulares : CanjeTras(g)[h] # 0 => canje[h] # 0 \/ (h = g /\ EsCanje(g))
  BY DEF BeneficiosAssumption, BenInv, BeneficiosTypeOK, CanjeTras

\* Whatever a confirmation leaves of rows and redemptions is just, if the rows
\* are one for each cita, belong to citas confirmed, and not to a redeemed one.
LEMMA JustosBien ==
  ASSUME BeneficiosAssumption, BenInv, NEW g \in Titulares, NEW ms \in SUBSET Grupo(g),
         g \in Grupo(g), \A c \in Grupo(g) \ ms : cita[c] \in Confirmadas,
         Confirmar(ms), UNCHANGED cobertura, canje' = CanjeTras(g),
         UnaPorCita(acumulado'), IsFiniteSet(acumulado'),
         \A r \in acumulado' : r \in acumulado \/ r[1] \in Grupo(g),
         EsCanje(g) => \A r \in acumulado' : r[1] # g
  PROVE  PuntosJustos' /\ FilasInv'
<1>1. \A c \in Grupo(g) : cita'[c] \in Confirmadas
  BY ConfirmarBien DEF Grupo
<1>2. \A r \in acumulado' : cita'[r[1]] \in Confirmadas
  <2>1. \A r \in acumulado : r[1] \in Citas /\ cita[r[1]] \in Confirmadas
    BY DEF BenInv, BeneficiosTypeOK, FilasInv
  <2> QED
    BY <1>1, <2>1, ConfirmarBien
<1>3. ASSUME NEW h \in Titulares, canje'[h] # 0
      PROVE  EsCanje(h)' /\ cita'[h] \in Confirmadas /\ \A r \in acumulado' : r[1] # h
  <2>1. EsCanje(h)' <=> EsCanje(h)
    BY DEF EsCanje
  <2>2. canje[h] # 0 \/ (h = g /\ EsCanje(g))
    BY <1>3, CanjeBien
  <2>3. CASE h = g
    <3>1. EsCanje(g)
      BY <2>2, <2>3 DEF BenInv, PuntosJustos
    <3> QED
      BY <1>1, <2>1, <2>3, <3>1
  <2>4. CASE h # g
    <3>1. EsCanje(h) /\ cita[h] \in Confirmadas /\ \A r \in acumulado : r[1] # h
      BY <2>2, <2>4 DEF BenInv, PuntosJustos
    <3>2. h \in Citas /\ h \notin Grupo(g)
      BY <2>4 DEF Titulares, Grupo
    <3> QED
      BY <2>1, <3>1, <3>2, ConfirmarBien
  <2> QED
    BY <2>3, <2>4
<1> QED
  BY <1>2, <1>3 DEF PuntosJustos, FilasInv, UnaPorCita

\* A confirmation with its redemption and its points.
LEMMA RedimirBien ==
  ASSUME BeneficiosAssumption, BenInv, NEW g \in Titulares, NEW ms \in SUBSET Grupo(g),
         g \in Grupo(g), \A c \in ms : cita[c] \notin Confirmadas,
         \A c \in Grupo(g) \ ms : cita[c] \in Confirmadas,
         NEW t \in FilasDisparador(ms), Confirmar(ms), UNCHANGED cobertura,
         RedimirYOtorgar(g, acumulado \cup t)
  PROVE  PuntosBien'
<1> DEFINE filas == acumulado \cup t
           tras == FilasTrasCanje(g, filas)
           todas == tras \cup FilasOtorgadas(g, tras)
<1>1. ms \in SUBSET Citas
  BY DEF Grupo
<1>2. /\ filas \in SUBSET Filas /\ IsFiniteSet(filas) /\ UnaPorCita(filas)
      /\ \A r \in t : r[1] \in ms
  BY <1>1, FilasDisparadorBien
<1>3. CicloActual \in Ciclos
  BY CicloActualTipo DEF BenInv, BeneficiosTypeOK, EstadosCiclo
<1>4. /\ todas \in SUBSET Filas /\ IsFiniteSet(todas) /\ UnaPorCita(todas)
      /\ EsCanje(g) => \A r \in todas : r[1] # g
      /\ \A r \in todas : r \in filas \/ r[1] \in Grupo(g)
  <2> HIDE DEF filas
  <2> QED
    BY <1>2, <1>3, OtorgadasBien
<1>5. /\ acumulado' = todas /\ canje' = CanjeTras(g) /\ vencimiento' = VencimientoTras
      /\ ciclo' = CicloCon(CicloTras, filas \cup todas)
  BY DEF RedimirYOtorgar
<1>6. vencimiento' \in [Ciclos -> Nat] /\ ciclo' \in [Ciclos -> EstadosCiclo] /\ CicloHay'
  <2>1. /\ VencimientoTras \in [Ciclos -> Nat]
        /\ CicloTras \in [Ciclos -> EstadosCiclo] /\ HayCiclo(CicloTras)
    BY VencimientoTipo DEF BenInv
  <2> HIDE DEF todas
  <2>2. HayCiclo(ciclo') /\ ciclo' \in [Ciclos -> EstadosCiclo]
    BY <1>3, <1>5, <2>1, CicloConTipo
  <2> QED
    BY <1>5, <2>1, <2>2 DEF CicloHay, HayCiclo
<1>7. \A r \in todas : r \in acumulado \/ r[1] \in Grupo(g)
  BY <1>2, <1>4
<1> HIDE DEF todas
<1>8. PuntosJustos' /\ FilasInv'
  BY <1>4, <1>5, <1>7, JustosBien
<1>9. cita' \in [Citas -> EstadosCita] /\ GrupoInv'
  BY ConfirmarBien
<1>10. acumulado' \in SUBSET Filas /\ canje' \in [Titulares -> Nat]
  BY <1>4, <1>5, CanjeBien
<1> QED
  BY <1>6, <1>8, <1>9, <1>10 DEF PuntosBien, Filas, Ciclos, EstadosCiclo, EstadosCita, Titulares, Confirmadas

-----------------------------------------------------------------------------
(* The invariant in three parts, and the steps that leave a part alone *)

RestoBien ==
    /\ cobertura \in [Titulares -> {"ninguna", "plan"} \cup Recompensas]
    /\ pago \in [Titulares -> {"cero", "debe", "cobrado"}]
    /\ manual \in [0..MaxCiclos -> Int]
    /\ premio \in Premios /\ ajustes \in 0..MaxAjustes

PlanesBien ==
    /\ plan \in [Planes -> {"no", "activa", "pasada", "fin"}]
    /\ consumo \subseteq Citas \X Planes \X Clases
    /\ ConsumoAcotado /\ PlanUnico

\* The three parts are the invariant.
LEMMA Partes == BenInv <=> PuntosBien /\ RestoBien /\ PlanesBien
  BY DEF BenInv, PuntosBien, RestoBien, PlanesBien, BeneficiosTypeOK, Filas, EstadosCiclo, EstadosCita

\* They make it after a step.
LEMMA PartesTras == PuntosBien' /\ RestoBien' /\ PlanesBien' => BenInv'
  BY DEF BenInv, PuntosBien, RestoBien, PlanesBien, BeneficiosTypeOK, Filas, EstadosCiclo, EstadosCita

\* Points and citas that do not change.
LEMMA PuntosQuietos ==
  BenInv /\ UNCHANGED <<cita, cobertura, acumulado, canje, vencimiento, ciclo>> => PuntosBien'
<1> SUFFICES ASSUME BenInv, UNCHANGED <<cita, cobertura, acumulado, canje, vencimiento, ciclo>>
             PROVE  PuntosBien'
  OBVIOUS
<1>1. PuntosBien
  BY Partes
<1> QED
  BY <1>1 DEF PuntosBien, PuntosJustos, EsCanje, FilasInv, GrupoInv, CicloHay, HayCiclo

\* What is due expires, and nothing else of the points changes.
LEMMA PuntosExpirados ==
  ASSUME BeneficiosAssumption, BenInv, UNCHANGED <<cita, cobertura, acumulado, canje>>,
         vencimiento' = VencimientoTras, ciclo' = CicloTras
  PROVE  PuntosBien'
<1>1. PuntosBien
  BY Partes
<1>2. /\ VencimientoTras \in [Ciclos -> Nat]
      /\ CicloTras \in [Ciclos -> EstadosCiclo] /\ HayCiclo(CicloTras)
  BY VencimientoTipo DEF BenInv
<1>3. CicloHay'
  BY <1>2 DEF CicloHay, HayCiclo
<1> QED
  BY <1>1, <1>2, <1>3 DEF PuntosBien, PuntosJustos, EsCanje, FilasInv, GrupoInv

\* Plans and consumptions that do not change.
LEMMA PlanesQuietos == BenInv /\ UNCHANGED <<plan, consumo>> => PlanesBien'
<1> SUFFICES ASSUME BenInv, UNCHANGED <<plan, consumo>> PROVE PlanesBien'
  OBVIOUS
<1>1. PlanesBien
  BY Partes
<1> QED
  BY <1>1 DEF PlanesBien, ConsumoAcotado, Usados, PlanUnico

\* Consumptions that do not change under plans that stay unique.
LEMMA PlanesSinConsumo ==
  ASSUME BenInv, plan' \in [Planes -> {"no", "activa", "pasada", "fin"}], PlanUnico', consumo' = consumo
  PROVE  PlanesBien'
<1>1. PlanesBien
  BY Partes
<1> QED
  BY <1>1 DEF PlanesBien, ConsumoAcotado, Usados

\* The plans after their revision.
LEMMA PlanTrasUnico ==
  ASSUME BenInv, plan' = PlanTras
  PROVE  plan' \in [Planes -> {"no", "activa", "pasada", "fin"}] /\ PlanUnico'
<1>1. /\ PlanTras \in [Planes -> {"no", "activa", "pasada", "fin"}]
      /\ \A p, q \in Planes : PlanTras[p] \in EnVigencia /\ PlanTras[q] \in EnVigencia => p = q
  BY PlanTrasTipo DEF BenInv
<1> HIDE DEF PlanTras
<1> QED
  BY <1>1 DEF PlanUnico

\* A visit that consumes if it may.
LEMMA PlanesConsumidos ==
  ASSUME BeneficiosAssumption, BenInv, NEW c \in Citas, plan' = PlanTras,
         consumo' = consumo \/ (Consumible(c) /\ consumo' = ConsumoCon(c))
  PROVE  PlanesBien'
<1>1. plan' \in [Planes -> {"no", "activa", "pasada", "fin"}] /\ PlanUnico'
  BY PlanTrasUnico
<1>2. CASE consumo' = consumo
  BY <1>1, <1>2, PlanesSinConsumo
<1>3. CASE Consumible(c) /\ consumo' = ConsumoCon(c)
  <2>1. /\ consumo' \subseteq Citas \X Planes \X Clases
        /\ UnaPorClase(consumo')
        /\ \A p \in Planes, x \in Clases : Cardinality(Consumidas(consumo', p, x)) <= Tope(p, x)
    BY <1>3, ConsumoSeguro DEF BenInv
  <2>2. ConsumoAcotado'
    BY <2>1 DEF ConsumoAcotado, UnaPorClase, Consumidas, Tope, Usados, Clases
  <2> QED
    BY <1>1, <2>1, <2>2 DEF PlanesBien
<1> QED
  BY <1>2, <1>3

-----------------------------------------------------------------------------
(* The initial states and each action keep the invariant *)

\* Nobody has reserved, earned or bought anything.
LEMMA InicioBen == BeneficiosAssumption /\ Init => BenInv
<1> SUFFICES ASSUME BeneficiosAssumption, Init PROVE BenInv
  OBVIOUS
<1>1. PuntosBien
  <2>1. 1 \in Ciclos
    BY DEF BeneficiosAssumption, Ciclos
  <2> QED
    BY <2>1, FS_EmptySet
    DEF Init, PuntosBien, PuntosJustos, FilasInv, GrupoInv, CicloHay, HayCiclo, EstadosCiclo,
        EstadosCita, BeneficiosAssumption
<1>2. RestoBien
  BY DEF BeneficiosAssumption, Init, RestoBien
<1>3. PlanesBien
  <2>1. \A p \in Planes, x \in Clases : Usados(p, x) = 0
    <3>1. \A p \in Planes, x \in Clases : {c \in Citas : <<c, p, x>> \in consumo} = {}
      BY DEF Init
    <3> QED
      BY <3>1, FS_EmptySet DEF Usados
  <2> QED
    BY <2>1 DEF Init, PlanesBien, ConsumoAcotado, PlanUnico, EnVigencia, Clases, BeneficiosAssumption, Planes
<1> QED
  BY <1>1, <1>2, <1>3, Partes

\* A hold has no rows, no redemption, and takes its citas from "libre".
LEMMA ReservarBen ==
  ASSUME BeneficiosAssumption, BenInv, NEW g \in Titulares, NEW as \in SUBSET Acompanantes(g),
         NEW b \in {"ninguna", "plan"} \cup Recompensas, Reservar(g, as, b)
  PROVE  BenInv'
<1>1. PuntosBien /\ RestoBien /\ PlanesBien
  BY Partes
<1>2. g \in Citas /\ TitularDe[g] = g /\ as \subseteq Citas /\ \A c \in as : TitularDe[c] = g
  BY DEF Titulares, Acompanantes
<1>3. cita[g] = "libre" /\ \A c \in as : cita[c] = "libre"
  BY <1>1, <1>2 DEF Reservar, PuntosBien, GrupoInv
<1>4. cita' \in [Citas -> EstadosCita] /\ cobertura' = [cobertura EXCEPT ![g] = b]
  BY <1>1 DEF Reservar, PuntosBien, EstadosCita
<1>5. \A c \in Citas : cita[c] \in Confirmadas => cita'[c] = cita[c]
  BY <1>2, <1>3 DEF Reservar, Confirmadas
<1>6. GrupoInv'
  BY <1>1, <1>2, <1>4 DEF Reservar, PuntosBien, GrupoInv, BeneficiosAssumption
<1>7. canje[g] = 0
  BY <1>1, <1>3 DEF PuntosBien, PuntosJustos, Confirmadas
<1>8. acumulado' = acumulado /\ canje' = canje
  BY DEF Reservar
<1>9. PuntosJustos' /\ FilasInv'
  <2>1. \A r \in acumulado : r[1] \in Citas
    BY <1>1 DEF PuntosBien, Filas
  <2>2. FilasInv'
    BY <1>1, <1>5, <1>8, <2>1 DEF PuntosBien, FilasInv
  <2>3. \A h \in Titulares : canje[h] # 0 => h \in Citas /\ h # g /\ cobertura'[h] = cobertura[h]
    BY <1>1, <1>4, <1>7 DEF RestoBien, Titulares
  <2> QED
    BY <1>1, <1>5, <1>8, <2>2, <2>3 DEF PuntosBien, PuntosJustos, EsCanje
<1>10. vencimiento' \in [Ciclos -> Nat] /\ ciclo' \in [Ciclos -> EstadosCiclo] /\ CicloHay'
  <2>1. /\ VencimientoTras \in [Ciclos -> Nat]
        /\ CicloTras \in [Ciclos -> EstadosCiclo] /\ HayCiclo(CicloTras)
    BY VencimientoTipo DEF BenInv
  <2> QED
    BY <2>1 DEF Reservar, CicloHay, HayCiclo
<1>11. PuntosBien'
  BY <1>1, <1>4, <1>6, <1>8, <1>9, <1>10 DEF PuntosBien
<1>12. RestoBien'
  BY <1>1 DEF Reservar, RestoBien
<1>13. PlanesBien'
  <2>1. plan' = PlanTras /\ consumo' = consumo
    BY DEF Reservar
  <2> QED
    BY <2>1, PlanTrasUnico, PlanesSinConsumo
<1> QED
  BY <1>11, <1>12, <1>13, PartesTras

\* Every hold is one of those.
LEMMA ReservasBen ==
  ASSUME BeneficiosAssumption, BenInv, NEW g \in Titulares,
         ReservarCliente(g) \/ ReservarOperador(g)
  PROVE  BenInv'
<1>1. PICK as \in SUBSET Acompanantes(g), b \in {"ninguna", "plan"} \cup Recompensas : Reservar(g, as, b)
  BY DEF ReservarCliente, ReservarOperador, RecompensaAhora, Recompensas
<1> QED
  BY <1>1, ReservarBen

\* A change of citas that keeps confirmed ones confirmed, and free ones free.
LEMMA CitasBien ==
  ASSUME BeneficiosAssumption, BenInv, cita' \in [Citas -> EstadosCita],
         \A c \in Citas : cita[c] \in Confirmadas => cita'[c] \in Confirmadas,
         \A c \in Citas : cita[c] = "libre" <=> cita'[c] = "libre",
         UNCHANGED <<cobertura, acumulado, canje, vencimiento, ciclo>>
  PROVE  PuntosBien'
<1>1. PuntosBien
  BY Partes
<1>2. \A r \in acumulado : r[1] \in Citas
  BY <1>1 DEF PuntosBien, Filas
<1>3. \A h \in Titulares : h \in Citas
  BY DEF Titulares
<1>4. GrupoInv' /\ FilasInv'
  BY <1>1, <1>2 DEF PuntosBien, GrupoInv, FilasInv, BeneficiosAssumption
<1>5. PuntosJustos'
  BY <1>1, <1>3 DEF PuntosBien, PuntosJustos, EsCanje
<1> QED
  BY <1>1, <1>4, <1>5 DEF PuntosBien, CicloHay, HayCiclo

\* A sweep expires pending citas.
LEMMA ExpirarBen ==
  ASSUME BeneficiosAssumption, BenInv, NEW g \in Titulares, Expirar(g)
  PROVE  BenInv'
<1>1. PuntosBien /\ RestoBien
  BY Partes
<1>2. PuntosBien'
  <2>1. cita' \in [Citas -> EstadosCita]
    BY <1>1 DEF Expirar, PuntosBien, EstadosCita
  <2>2. \A c \in Citas : /\ cita[c] \in Confirmadas => cita'[c] \in Confirmadas
                         /\ cita[c] = "libre" <=> cita'[c] = "libre"
    BY DEF Expirar, Confirmadas
  <2>3. UNCHANGED <<cobertura, acumulado, canje, vencimiento, ciclo>>
    BY DEF Expirar
  <2> QED
    BY <2>1, <2>2, <2>3, CitasBien
<1>3. RestoBien'
  BY <1>1 DEF Expirar, RestoBien
<1>4. PlanesBien'
  BY PlanesQuietos DEF Expirar
<1> QED
  BY <1>2, <1>3, <1>4, PartesTras

\* Free confirmation: the plan of the titular is consumed if it may.
LEMMA ConfirmarSinPagoBen ==
  ASSUME BeneficiosAssumption, BenInv, NEW g \in Titulares, ConfirmarSinPago(g)
  PROVE  BenInv'
<1> DEFINE ms == {c \in Grupo(g) : cita[c] = "pendiente"}
<1>1. PuntosBien /\ RestoBien /\ PlanesBien
  BY Partes
<1>2. g \in Citas /\ TitularDe[g] = g
  BY DEF Titulares
<1>3. g \in Grupo(g)
  BY <1>1, <1>2 DEF ConfirmarSinPago, Grupo, PuntosBien, GrupoInv
<1>4. PuntosBien'
  <2>1. PICK t \in FilasDisparador(ms) : RedimirYOtorgar(g, acumulado \cup t)
    BY DEF ConfirmarSinPago
  <2>2. /\ ms \in SUBSET Grupo(g) /\ \A c \in ms : cita[c] \notin Confirmadas
        /\ \A c \in Grupo(g) \ ms : cita[c] \in Confirmadas
        /\ Confirmar(ms) /\ UNCHANGED cobertura
    BY DEF ConfirmarSinPago, Confirmadas
  <2> HIDE DEF ms
  <2> QED
    BY <1>3, <2>1, <2>2, RedimirBien
<1>5. RestoBien'
  BY <1>1 DEF ConfirmarSinPago, RestoBien
<1>6. PlanesBien'
  <2>1. CASE UNCHANGED <<consumo, plan>>
    BY <2>1, PlanesQuietos
  <2>2. CASE ConsumirSiSePuede(g)
    BY <1>2, <2>2, PlanesConsumidos DEF ConsumirSiSePuede
  <2> QED
    BY <2>1, <2>2 DEF ConfirmarSinPago
<1> QED
  BY <1>4, <1>5, <1>6, PartesTras

\* The confirmation repeated: what was given is not given again.
LEMMA RepetirConfirmacionBen ==
  ASSUME BeneficiosAssumption, BenInv, NEW g \in Titulares, RepetirConfirmacion(g)
  PROVE  BenInv'
<1>1. PuntosBien /\ RestoBien /\ PlanesBien
  BY Partes
<1>2. g \in Citas /\ g \in Grupo(g)
  BY DEF Titulares, RepetirConfirmacion, Grupo
<1>3. PuntosBien'
  <2> DEFINE t == FilasDe(acumulado, {})
  <2>1. t \in FilasDisparador({})
    BY DEF FilasDisparador
  <2>2. t = {}
    BY DEF FilasDe
  <2>3. RedimirYOtorgar(g, acumulado \cup t)
    <3>1. acumulado \cup t = acumulado
      BY <2>2
    <3> HIDE DEF t
    <3> QED
      BY <3>1 DEF RepetirConfirmacion
  <2>4. Confirmar({}) /\ UNCHANGED cobertura
    BY <1>1 DEF RepetirConfirmacion, Confirmar, PuntosBien
  <2>5. \A c \in Grupo(g) \ {} : cita[c] \in Confirmadas
    BY DEF RepetirConfirmacion, Confirmadas
  <2> HIDE DEF t
  <2>6. {} \in SUBSET Grupo(g) /\ \A c \in {} : cita[c] \notin Confirmadas
    OBVIOUS
  <2> QED
    BY <1>2, <2>1, <2>3, <2>4, <2>5, <2>6, RedimirBien
<1>4. RestoBien'
  BY <1>1 DEF RepetirConfirmacion, RestoBien
<1>5. PlanesBien'
  BY <1>2, PlanesConsumidos DEF RepetirConfirmacion, ConsumirSiSePuede
<1> QED
  BY <1>3, <1>4, <1>5, PartesTras

\* A charge changes nothing of points and plans.
LEMMA CobrarBen ==
  ASSUME BeneficiosAssumption, BenInv, NEW g \in Titulares, Cobrar(g)
  PROVE  BenInv'
<1>1. RestoBien
  BY Partes
<1>2. PuntosBien' /\ PlanesBien'
  BY PuntosQuietos, PlanesQuietos DEF Cobrar
<1>3. RestoBien'
  BY <1>1 DEF Cobrar, RestoBien
<1> QED
  BY <1>2, <1>3, PartesTras

\* Confirmation of a paid group, expired citas included.
LEMMA ConfirmarPagadoBen ==
  ASSUME BeneficiosAssumption, BenInv, NEW g \in Titulares, ConfirmarPagado(g)
  PROVE  BenInv'
<1> DEFINE ms == {c \in Grupo(g) : cita[c] \in {"pendiente", "expirada"}}
<1>1. PuntosBien /\ RestoBien
  BY Partes
<1>2. g \in Citas /\ TitularDe[g] = g
  BY DEF Titulares
<1>3. g \in Grupo(g)
  BY <1>1, <1>2 DEF ConfirmarPagado, Grupo, PuntosBien, GrupoInv
<1>4. PuntosBien'
  <2>1. PICK t \in FilasDisparador(ms) : RedimirYOtorgar(g, acumulado \cup t)
    BY DEF ConfirmarPagado
  <2>2. /\ ms \in SUBSET Grupo(g) /\ \A c \in ms : cita[c] \notin Confirmadas
        /\ \A c \in Grupo(g) \ ms : cita[c] \in Confirmadas
        /\ Confirmar(ms) /\ UNCHANGED cobertura
    BY DEF ConfirmarPagado, Confirmadas
  <2> HIDE DEF ms
  <2> QED
    BY <1>3, <2>1, <2>2, RedimirBien
<1>5. RestoBien'
  BY <1>1 DEF ConfirmarPagado, RestoBien
<1>6. PlanesBien'
  BY PlanesQuietos DEF ConfirmarPagado
<1> QED
  BY <1>4, <1>5, <1>6, PartesTras

\* Confirmation at the shop: only the trigger gives points.
LEMMA ConfirmarOperadorBen ==
  ASSUME BeneficiosAssumption, BenInv, NEW g \in Titulares, ConfirmarOperador(g)
  PROVE  BenInv'
<1> DEFINE ms == Grupo(g)
<1>1. PuntosBien /\ RestoBien
  BY Partes
<1>2. g \in Grupo(g)
  BY DEF ConfirmarOperador, Grupo, Titulares
<1>3. /\ \A c \in Grupo(g) : cita[c] \notin Confirmadas
      /\ Confirmar(Grupo(g)) /\ UNCHANGED cobertura
  BY DEF ConfirmarOperador, Confirmadas
<1>4. PICK t \in FilasDisparador(Grupo(g)) :
          LET filas == acumulado \cup t
          IN  /\ Redimible(g, filas)
              /\ canje' = CanjeTras(g)
              /\ acumulado' = FilasTrasCanje(g, filas)
              /\ vencimiento' = IF EsCanje(g) THEN VencimientoTras ELSE vencimiento
              /\ ciclo' = CicloCon(IF EsCanje(g) THEN CicloTras ELSE ciclo, filas)
  BY DEF ConfirmarOperador
<1> DEFINE filas == acumulado \cup t
<1>5. /\ filas \in SUBSET Filas /\ IsFiniteSet(filas) /\ UnaPorCita(filas)
      /\ \A r \in t : r[1] \in Grupo(g)
  <2>1. Grupo(g) \in SUBSET Citas
    BY DEF Grupo
  <2> QED
    BY <1>3, <1>4, <2>1, FilasDisparadorBien
<1>6. /\ acumulado' \in SUBSET filas
      /\ EsCanje(g) => \A r \in acumulado' : r[1] # g
  BY <1>4 DEF FilasTrasCanje
<1>7. /\ UnaPorCita(acumulado') /\ IsFiniteSet(acumulado') /\ acumulado' \in SUBSET Filas
      /\ \A r \in acumulado' : r \in acumulado \/ r[1] \in Grupo(g)
  <2>1. IsFiniteSet(acumulado')
    BY <1>5, <1>6, FS_Subset
  <2> QED
    BY <1>5, <1>6, <2>1 DEF UnaPorCita
<1>8. canje' = CanjeTras(g)
  BY <1>4
<1>9. PuntosJustos' /\ FilasInv'
  <2>1. \A c \in Grupo(g) \ Grupo(g) : cita[c] \in Confirmadas
    OBVIOUS
  <2>2. Grupo(g) \in SUBSET Grupo(g)
    OBVIOUS
  <2> QED
    BY <1>2, <1>3, <1>6, <1>7, <1>8, <2>1, <2>2, JustosBien
<1>10. vencimiento' \in [Ciclos -> Nat] /\ ciclo' \in [Ciclos -> EstadosCiclo] /\ CicloHay'
  <2> DEFINE est == IF EsCanje(g) THEN CicloTras ELSE ciclo
  <2>1. /\ VencimientoTras \in [Ciclos -> Nat]
        /\ CicloTras \in [Ciclos -> EstadosCiclo] /\ HayCiclo(CicloTras)
    BY VencimientoTipo DEF BenInv
  <2>2. est \in [Ciclos -> EstadosCiclo] /\ HayCiclo(est)
    BY <1>1, <2>1 DEF PuntosBien, CicloHay
  <2>3. CicloActual \in Ciclos
    BY <1>1, CicloActualTipo DEF PuntosBien
  <2>4. ciclo' = CicloCon(est, filas)
    BY <1>4
  <2> HIDE DEF est, filas
  <2>5. ciclo' \in [Ciclos -> EstadosCiclo] /\ HayCiclo(ciclo')
    BY <2>2, <2>3, <2>4, CicloConTipo
  <2> QED
    BY <1>1, <1>4, <2>1, <2>5 DEF PuntosBien, CicloHay, HayCiclo
<1>11. cita' \in [Citas -> EstadosCita] /\ GrupoInv'
  BY <1>3, ConfirmarBien
<1>12. PuntosBien'
  BY <1>7, <1>8, <1>9, <1>10, <1>11, CanjeBien DEF PuntosBien
<1>13. RestoBien' /\ PlanesBien'
  BY <1>1, PlanesQuietos DEF ConfirmarOperador, RestoBien
<1> QED
  BY <1>12, <1>13, PartesTras

\* The operator changes the state of a cita.
LEMMA CambiarEstadoBen ==
  ASSUME BeneficiosAssumption, BenInv, NEW c \in Citas, NEW e, CambiarEstado(c, e)
  PROVE  BenInv'
<1>1. PuntosBien /\ RestoBien
  BY Partes
<1>2. /\ cita' = [cita EXCEPT ![c] = e] /\ e \in Transiciones(cita[c])
      /\ UNCHANGED <<cobertura, canje, vencimiento>>
  BY DEF CambiarEstado
<1>3. /\ cita[c] \notin {"libre", "expirada"} /\ e \in Confirmadas \cup {"expirada"}
      /\ cita[c] \in Confirmadas => e \in Confirmadas
      /\ e = "confirmada" => cita[c] = "pendiente"
  BY <1>2 DEF Transiciones, Confirmadas
<1>4. /\ cita' \in [Citas -> EstadosCita]
      /\ \A d \in Citas : /\ cita[d] \in Confirmadas => cita'[d] \in Confirmadas
                          /\ cita[d] = "libre" <=> cita'[d] = "libre"
  BY <1>1, <1>2, <1>3 DEF PuntosBien, EstadosCita, Confirmadas
<1> DEFINE ms == IF e = "confirmada" THEN {c} ELSE {}
<1>5. PICK t \in FilasDisparador(ms) :
          acumulado' = acumulado \cup t /\ ciclo' = CicloCon(ciclo, acumulado')
  BY DEF CambiarEstado
<1>6. ms \in SUBSET Citas /\ \A d \in ms : cita[d] \notin Confirmadas /\ cita'[d] \in Confirmadas
  BY <1>1, <1>2, <1>3 DEF PuntosBien, Confirmadas
<1> HIDE DEF ms
<1>7. /\ acumulado' \in SUBSET Filas /\ IsFiniteSet(acumulado') /\ UnaPorCita(acumulado')
      /\ \A r \in t : r[1] \in ms
  BY <1>5, <1>6, FilasDisparadorBien
<1>8. FilasInv'
  <2>1. \A r \in acumulado : r[1] \in Citas /\ cita[r[1]] \in Confirmadas
    BY <1>1 DEF PuntosBien, Filas, FilasInv
  <2> QED
    BY <1>4, <1>5, <1>6, <1>7, <2>1 DEF FilasInv
<1>9. PuntosJustos'
  <2>1. \A h \in Titulares : canje[h] # 0 => /\ h \in Citas /\ cita[h] \in Confirmadas /\ EsCanje(h)
                                             /\ \A r \in acumulado : r[1] # h
    BY <1>1 DEF PuntosBien, PuntosJustos, Titulares
  <2>2. \A h \in Titulares : canje[h] # 0 => \A r \in acumulado' : r[1] # h
    BY <1>5, <1>6, <1>7, <2>1
  <2> QED
    BY <1>2, <1>4, <1>7, <2>1, <2>2 DEF PuntosJustos, EsCanje, UnaPorCita
<1>10. GrupoInv'
  BY <1>1, <1>4 DEF PuntosBien, GrupoInv, BeneficiosAssumption
<1>11. ciclo' \in [Ciclos -> EstadosCiclo] /\ CicloHay'
  <2>1. CicloActual \in Ciclos
    BY <1>1, CicloActualTipo DEF PuntosBien
  <2>2. ciclo' \in [Ciclos -> EstadosCiclo] /\ HayCiclo(ciclo')
    BY <1>1, <1>5, <2>1, CicloConTipo DEF PuntosBien, CicloHay
  <2> QED
    BY <2>2 DEF CicloHay, HayCiclo
<1>12. PuntosBien'
  BY <1>1, <1>2, <1>4, <1>7, <1>8, <1>9, <1>10, <1>11 DEF PuntosBien
<1>13. RestoBien' /\ PlanesBien'
  BY <1>1, PlanesQuietos DEF CambiarEstado, RestoBien
<1> QED
  BY <1>12, <1>13, PartesTras

\* The completion of a visit, which consumes what the plan allows.
LEMMA FinalizarBen ==
  ASSUME BeneficiosAssumption, BenInv, NEW c \in Citas, Finalizar(c)
  PROVE  BenInv'
<1>1. PuntosBien /\ RestoBien
  BY Partes
<1>2. PuntosBien'
  <2>1. cita' \in [Citas -> EstadosCita]
    BY <1>1 DEF Finalizar, PuntosBien, EstadosCita, Confirmadas
  <2>2. \A d \in Citas : /\ cita[d] \in Confirmadas => cita'[d] \in Confirmadas
                         /\ cita[d] = "libre" <=> cita'[d] = "libre"
    BY <1>1 DEF Finalizar, PuntosBien, Confirmadas
  <2>3. UNCHANGED <<cobertura, acumulado, canje, vencimiento, ciclo>>
    BY DEF Finalizar
  <2> QED
    BY <2>1, <2>2, <2>3, CitasBien
<1>3. RestoBien'
  BY <1>1 DEF Finalizar, RestoBien
<1>4. PlanesBien'
  BY PlanesConsumidos DEF Finalizar
<1> QED
  BY <1>2, <1>3, <1>4, PartesTras

\* Points outside the visits.
LEMMA AjustesBen ==
  ASSUME BeneficiosAssumption, BenInv,
         (\E n \in {-1, 1} : AjustarPuntos(n)) \/ CanjearEnTienda
  PROVE  BenInv'
<1>1. PuntosBien /\ RestoBien
  BY Partes
<1>2. CicloActual \in Ciclos /\ Ciclos \subseteq 0..MaxCiclos /\ 0 \in 0..MaxCiclos
  BY <1>1, CicloActualTipo DEF PuntosBien, Ciclos, BeneficiosAssumption
<1>3. premio \in Nat
  BY <1>1 DEF RestoBien, BeneficiosAssumption
<1>4. /\ UNCHANGED <<cita, cobertura, acumulado, canje, pago, premio, plan, consumo>>
      /\ vencimiento' = VencimientoTras /\ ciclo' = CicloTras
      /\ ajustes < MaxAjustes /\ ajustes' = ajustes + 1
      /\ \E k \in 0..MaxCiclos, n \in Int : manual' = [manual EXCEPT ![k] = @ + n]
  <2>1. ASSUME NEW n \in {-1, 1}, AjustarPuntos(n)
        PROVE  \E k \in 0..MaxCiclos, m \in Int : manual' = [manual EXCEPT ![k] = @ + m]
    <3>1. manual' = [manual EXCEPT ![0] = @ + n] /\ n \in Int
      BY <2>1 DEF AjustarPuntos
    <3> QED
      BY <1>2, <3>1
  <2>2. ASSUME CanjearEnTienda
        PROVE  \E k \in 0..MaxCiclos, m \in Int : manual' = [manual EXCEPT ![k] = @ + m]
    <3> DEFINE k == IF Activos = {} THEN 0 ELSE CicloActual
    <3>1. k \in 0..MaxCiclos /\ -premio \in Int
      BY <1>2, <1>3
    <3>2. manual' = [manual EXCEPT ![k] = @ - premio]
      BY <2>2 DEF CanjearEnTienda
    <3>3. [manual EXCEPT ![k] = @ - premio] = [manual EXCEPT ![k] = @ + (-premio)]
      BY <1>1, <1>3, <3>1 DEF RestoBien
    <3> HIDE DEF k
    <3> QED
      BY <3>1, <3>2, <3>3
  <2> QED
    BY <2>1, <2>2 DEF AjustarPuntos, CanjearEnTienda
<1>5. PuntosBien' /\ PlanesBien'
  BY <1>4, PuntosExpirados, PlanesQuietos
<1>6. RestoBien'
  BY <1>1, <1>4 DEF RestoBien, BeneficiosAssumption
<1> QED
  BY <1>5, <1>6, PartesTras

\* The rule of points changes.
LEMMA ReglaBen ==
  ASSUME BeneficiosAssumption, BenInv, NEW n \in Premios, CambiarRegla(n)
  PROVE  BenInv'
<1>1. RestoBien
  BY Partes
<1>2. PuntosBien' /\ PlanesBien' /\ RestoBien'
  BY <1>1, PuntosQuietos, PlanesQuietos DEF CambiarRegla, RestoBien
<1> QED
  BY <1>2, PartesTras

\* A cycle that is due, while there is one more.
LEMMA PasarCicloBen ==
  ASSUME BeneficiosAssumption, BenInv, NEW k \in Ciclos, PasarCiclo(k)
  PROVE  BenInv'
<1>1. PuntosBien /\ RestoBien
  BY Partes
<1>2. PuntosBien'
  <2>1. ciclo' \in [Ciclos -> EstadosCiclo] /\ CicloHay'
    BY <1>1 DEF PasarCiclo, PuntosBien, CicloHay, HayCiclo, EstadosCiclo
  <2> QED
    BY <1>1, <2>1 DEF PasarCiclo, PuntosBien, PuntosJustos, EsCanje, FilasInv, GrupoInv
<1>3. PlanesBien' /\ RestoBien'
  BY <1>1, PlanesQuietos DEF PasarCiclo, RestoBien
<1> QED
  BY <1>2, <1>3, PartesTras

\* A reward is prepared.
LEMMA PrepararCanjeBen ==
  ASSUME BeneficiosAssumption, BenInv, PrepararCanje
  PROVE  BenInv'
<1>1. RestoBien
  BY Partes
<1>2. PuntosBien' /\ PlanesBien' /\ RestoBien'
  BY <1>1, PuntosExpirados, PlanesQuietos DEF PrepararCanje, RestoBien
<1> QED
  BY <1>2, PartesTras

\* Purchase, cancellation and end of a plan leave one at most.
LEMMA PlanesBen ==
  ASSUME BeneficiosAssumption, BenInv, NEW p \in Planes,
         ComprarPlan(p) \/ CancelarPlan(p) \/ PasarPlan(p)
  PROVE  BenInv'
<1>1. PuntosBien /\ RestoBien /\ PlanesBien
  BY Partes
<1>2. PuntosBien' /\ RestoBien'
  BY <1>1, PuntosQuietos DEF ComprarPlan, CancelarPlan, PasarPlan, RestoBien
<1>3. plan' \in [Planes -> {"no", "activa", "pasada", "fin"}] /\ PlanUnico'
  BY <1>1, ZenonT(40) DEF PlanesBien, ComprarPlan, CancelarPlan, PasarPlan, PlanUnico, EnVigencia
<1>4. PlanesBien'
  BY <1>3, PlanesSinConsumo DEF ComprarPlan, CancelarPlan, PasarPlan
<1> QED
  BY <1>2, <1>4, PartesTras

\* A step that changes nothing.
LEMMA QuietoBen == BenInv /\ UNCHANGED vars => BenInv'
<1> SUFFICES ASSUME BenInv, UNCHANGED vars PROVE BenInv'
  OBVIOUS
<1>1. RestoBien
  BY Partes
<1>2. PuntosBien' /\ PlanesBien' /\ RestoBien'
  BY <1>1, PuntosQuietos, PlanesQuietos DEF vars, RestoBien
<1> QED
  BY <1>2, PartesTras

\* Every step keeps the invariant.
LEMMA PasoBen == BeneficiosAssumption /\ BenInv /\ [Next]_vars => BenInv'
<1> SUFFICES ASSUME BeneficiosAssumption, BenInv, [Next]_vars PROVE BenInv'
  OBVIOUS
<1>1. ASSUME NEW g \in Titulares, ReservarCliente(g) \/ ReservarOperador(g) PROVE BenInv'
  BY <1>1, ReservasBen
<1>2. ASSUME NEW g \in Titulares, Expirar(g) PROVE BenInv'
  BY <1>2, ExpirarBen
<1>3. ASSUME NEW g \in Titulares, ConfirmarSinPago(g) PROVE BenInv'
  BY <1>3, ConfirmarSinPagoBen
<1>4. ASSUME NEW g \in Titulares, RepetirConfirmacion(g) PROVE BenInv'
  BY <1>4, RepetirConfirmacionBen
<1>5. ASSUME NEW g \in Titulares, Cobrar(g) PROVE BenInv'
  BY <1>5, CobrarBen
<1>6. ASSUME NEW g \in Titulares, ConfirmarPagado(g) PROVE BenInv'
  BY <1>6, ConfirmarPagadoBen
<1>7. ASSUME NEW g \in Titulares, ConfirmarOperador(g) PROVE BenInv'
  BY <1>7, ConfirmarOperadorBen
<1>8. ASSUME NEW c \in Citas, Finalizar(c) PROVE BenInv'
  BY <1>8, FinalizarBen
<1>9. ASSUME NEW c \in Citas, NEW e \in Confirmadas \cup {"expirada"}, CambiarEstado(c, e) PROVE BenInv'
  BY <1>9, CambiarEstadoBen
<1>10. CASE (\E n \in {-1, 1} : AjustarPuntos(n)) \/ CanjearEnTienda
  BY <1>10, AjustesBen
<1>11. ASSUME NEW n \in Premios, CambiarRegla(n) PROVE BenInv'
  BY <1>11, ReglaBen
<1>12. ASSUME NEW k \in Ciclos, PasarCiclo(k) PROVE BenInv'
  BY <1>12, PasarCicloBen
<1>13. CASE PrepararCanje
  BY <1>13, PrepararCanjeBen
<1>14. ASSUME NEW p \in Planes, ComprarPlan(p) \/ CancelarPlan(p) \/ PasarPlan(p) PROVE BenInv'
  BY <1>14, PlanesBen
<1>15. CASE UNCHANGED vars
  BY <1>15, QuietoBen
<1> QED
  BY <1>1, <1>2, <1>3, <1>4, <1>5, <1>6, <1>7, <1>8, <1>9, <1>10, <1>11, <1>12, <1>13, <1>14, <1>15
  DEF Next

-----------------------------------------------------------------------------
(* Sums *)

Elegido(s) == CHOOSE x \in s : TRUE

\* g gives the sum of f over each subset of S.
EsSuma(g, f, S) ==
  g = [s \in SUBSET S |-> IF s = {} THEN 0 ELSE f[Elegido(s)] + g[s \ {Elegido(s)}]]
Parcial(f, S) == CHOOSE g : EsSuma(g, f, S)

LEMMA SumaParcial ==
  ASSUME NEW f, NEW S
  PROVE  SumFunctionOnSet(f, S) = Parcial(f, S)[S]
  BY DEF SumFunctionOnSet, FoldFunctionOnSet, MapThenFoldSet, Parcial, EsSuma, Elegido

\* A family of subsets of a finite set has a least one.
LEMMA HayMenor ==
  ASSUME NEW S, IsFiniteSet(S), NEW F \in SUBSET SUBSET S, F # {}
  PROVE  \E T \in F : \A U \in F : U \subseteq T => U = T
<1> DEFINE R == StrictSubsetOrdering(S)
<1>1. F \subseteq FiniteSubsetsOf(S)
  BY FS_Subset DEF FiniteSubsetsOf
<1>2. IsWellFoundedOn(R, FiniteSubsetsOf(S))
  BY FS_StrictSubsetOrderingWellFounded
<1> HIDE DEF R
<1>3. PICK T \in F : \A U \in F : ~(<<U, T>> \in R)
  BY <1>1, <1>2, WFMin
<1>4. ASSUME NEW U \in F, U \subseteq T, U # T PROVE FALSE
  <2>1. <<U, T>> \in R
    BY <1>4 DEF R, StrictSubsetOrdering
  <2> QED
    BY <1>3, <2>1
<1> QED
  BY <1>4

\* There is one such function at most, and it serves the subsets of S.
LEMMA SumaUnica ==
  ASSUME NEW S, IsFiniteSet(S), NEW U \in SUBSET S, NEW f, NEW g, NEW h,
         EsSuma(g, f, S), EsSuma(h, f, U)
  PROVE  \A s \in SUBSET U : g[s] = h[s]
<1> DEFINE F == {s \in SUBSET U : g[s] # h[s]}
<1> SUFFICES ASSUME F # {} PROVE FALSE
  OBVIOUS
<1>1. IsFiniteSet(U)
  BY FS_Subset
<1>2. PICK s \in F : \A t \in F : t \subseteq s => t = s
  <2>1. F \in SUBSET SUBSET U
    OBVIOUS
  <2> HIDE DEF F
  <2> QED
    BY <1>1, <2>1, HayMenor
<1> DEFINE x == Elegido(s)
<1>3. s # {} => s \ {x} \in SUBSET U /\ s \ {x} # s
  BY DEF Elegido
<1>4. s # {} => g[s \ {x}] = h[s \ {x}]
  BY <1>2, <1>3
<1>5. /\ g[s] = IF s = {} THEN 0 ELSE f[x] + g[s \ {x}]
      /\ h[s] = IF s = {} THEN 0 ELSE f[x] + h[s \ {x}]
  <2>1. s \in SUBSET S /\ s \in SUBSET U
    OBVIOUS
  <2> HIDE DEF F
  <2> QED
    BY <2>1 DEF EsSuma
<1> QED
  BY <1>2, <1>4, <1>5

\* There is one for a finite set.
LEMMA SumaExiste ==
  ASSUME NEW S, IsFiniteSet(S), NEW f
  PROVE  \E g : EsSuma(g, f, S)
<1> DEFINE F == {T \in SUBSET S : ~\E g : EsSuma(g, f, T)}
<1> SUFFICES ASSUME F # {} PROVE FALSE
  OBVIOUS
<1>1. PICK T \in F : \A U \in F : U \subseteq T => U = T
  <2>1. F \in SUBSET SUBSET S
    OBVIOUS
  <2> HIDE DEF F
  <2> QED
    BY <2>1, HayMenor
<1>2. ASSUME NEW s \in SUBSET T, s # T PROVE EsSuma(Parcial(f, s), f, s)
  <2>1. \E g : EsSuma(g, f, s)
    BY <1>1, <1>2
  <2> QED
    BY <2>1 DEF Parcial
<1> DEFINE G(s) == IF s = {} THEN 0 ELSE f[Elegido(s)] + Parcial(f, s \ {Elegido(s)})[s \ {Elegido(s)}]
           g == [s \in SUBSET T |-> G(s)]
<1>3. ASSUME NEW s \in SUBSET T, s # {}
      PROVE  g[s \ {Elegido(s)}] = Parcial(f, s \ {Elegido(s)})[s \ {Elegido(s)}]
  <2> DEFINE u == s \ {Elegido(s)}
             p == Parcial(f, u)
  <2>1. u \in SUBSET T /\ u # T
    BY <1>3 DEF Elegido
  <2>2. EsSuma(p, f, u)
    BY <1>2, <2>1
  <2>3. p[u] = IF u = {} THEN 0 ELSE f[Elegido(u)] + p[u \ {Elegido(u)}]
    <3> HIDE DEF p, u
    <3> QED
      BY <2>2 DEF EsSuma
  <2>4. ASSUME u # {} PROVE p[u \ {Elegido(u)}] = Parcial(f, u \ {Elegido(u)})[u \ {Elegido(u)}]
    <3> DEFINE v == u \ {Elegido(u)}
               q == Parcial(f, v)
    <3>1. v \in SUBSET T /\ v # T /\ v \in SUBSET u
      BY <2>1, <2>4 DEF Elegido
    <3>2. EsSuma(q, f, v)
      BY <1>2, <3>1
    <3>3. IsFiniteSet(u)
      BY <2>1, FS_Subset
    <3> HIDE DEF p, q, u, v
    <3>4. \A t \in SUBSET v : p[t] = q[t]
      BY <2>2, <3>1, <3>2, <3>3, SumaUnica
    <3>5. p[v] = q[v]
      BY <3>4
    <3> QED
      BY <3>5 DEF q, v
  <2>5. g[u] = G(u)
    BY <2>1
  <2>6. p[u] = G(u)
    BY <2>3, <2>4
  <2> QED
    BY <2>5, <2>6
<1>4. EsSuma(g, f, T)
  <2>1. ASSUME NEW s \in SUBSET T
        PROVE  G(s) = IF s = {} THEN 0 ELSE f[Elegido(s)] + g[s \ {Elegido(s)}]
    BY <1>3
  <2> HIDE DEF G
  <2> QED
    BY <2>1 DEF EsSuma
<1> QED
  BY <1>1, <1>4

\* The sum over a part is the one of the whole function on that part.
LEMMA SumaParte ==
  ASSUME NEW S, IsFiniteSet(S), NEW f, NEW U \in SUBSET S
  PROVE  SumFunctionOnSet(f, U) = Parcial(f, S)[U]
<1>1. IsFiniteSet(U)
  BY FS_Subset
<1>2. EsSuma(Parcial(f, S), f, S)
  BY SumaExiste DEF Parcial
<1>3. EsSuma(Parcial(f, U), f, U)
  BY <1>1, SumaExiste DEF Parcial
<1>4. \A s \in SUBSET U : Parcial(f, S)[s] = Parcial(f, U)[s]
  BY <1>2, <1>3, SumaUnica
<1> QED
  BY <1>4, SumaParcial

\* A sum takes the element chosen first.
LEMMA SumaPrimero ==
  ASSUME NEW S, IsFiniteSet(S), NEW f
  PROVE  /\ SumFunctionOnSet(f, {}) = 0
         /\ S # {} => /\ Elegido(S) \in S
                      /\ SumFunctionOnSet(f, S) =
                            f[Elegido(S)] + SumFunctionOnSet(f, S \ {Elegido(S)})
<1> DEFINE g == Parcial(f, S)
           x == Elegido(S)
<1>1. EsSuma(g, f, S)
  BY SumaExiste DEF Parcial
<1>2. S # {} => x \in S
  BY DEF Elegido
<1>3. /\ SumFunctionOnSet(f, S) = g[S]
      /\ SumFunctionOnSet(f, S \ {x}) = g[S \ {x}]
      /\ SumFunctionOnSet(f, {}) = g[{}]
  BY SumaParte
<1>4. g[{}] = 0 /\ (S # {} => g[S] = f[x] + g[S \ {x}])
  <2> HIDE DEF g
  <2> QED
    BY <1>1 DEF EsSuma
<1> QED
  BY <1>2, <1>3, <1>4

\* Sums of integers are integers.
LEMMA SumaEntera ==
  ASSUME NEW S, IsFiniteSet(S), NEW f, \A x \in S : f[x] \in Int
  PROVE  SumFunctionOnSet(f, S) \in Int
<1> DEFINE F == {T \in SUBSET S : SumFunctionOnSet(f, T) \notin Int}
<1> SUFFICES ASSUME F # {} PROVE FALSE
  OBVIOUS
<1>1. PICK T \in F : \A U \in F : U \subseteq T => U = T
  <2>1. F \in SUBSET SUBSET S
    OBVIOUS
  <2> HIDE DEF F
  <2> QED
    BY <2>1, HayMenor
<1>2. IsFiniteSet(T)
  BY FS_Subset
<1>3. T # {}
  <2>1. SumFunctionOnSet(f, {}) = 0
    BY <1>2, SumaPrimero
  <2> QED
    BY <2>1
<1>4. /\ Elegido(T) \in T
      /\ SumFunctionOnSet(f, T) = f[Elegido(T)] + SumFunctionOnSet(f, T \ {Elegido(T)})
  BY <1>2, <1>3, SumaPrimero
<1>5. SumFunctionOnSet(f, T \ {Elegido(T)}) \in Int
  BY <1>1, <1>4
<1> QED
  BY <1>4, <1>5

\* Any element may be taken first.
LEMMA SumaCualquiera ==
  ASSUME NEW S, IsFiniteSet(S), NEW f, \A x \in S : f[x] \in Int, NEW a \in S
  PROVE  SumFunctionOnSet(f, S) = f[a] + SumFunctionOnSet(f, S \ {a})
<1> DEFINE F == {T \in SUBSET S : \E y \in T :
                   SumFunctionOnSet(f, T) # f[y] + SumFunctionOnSet(f, T \ {y})}
<1> SUFFICES ASSUME F # {} PROVE FALSE
  OBVIOUS
<1>1. PICK T \in F : \A U \in F : U \subseteq T => U = T
  <2>1. F \in SUBSET SUBSET S
    OBVIOUS
  <2> HIDE DEF F
  <2> QED
    BY <2>1, HayMenor
<1>0. PICK y \in T : SumFunctionOnSet(f, T) # f[y] + SumFunctionOnSet(f, T \ {y})
  OBVIOUS
<1> DEFINE x == Elegido(T)
           R == T \ {y, x}
<1>2. IsFiniteSet(T) /\ IsFiniteSet(R) /\ T # {}
  BY FS_Subset
<1>3. x \in T /\ SumFunctionOnSet(f, T) = f[x] + SumFunctionOnSet(f, T \ {x})
  BY <1>2, SumaPrimero
<1>4. x # y
  BY <1>0, <1>3
<1>5. /\ T \ {x} \in SUBSET S /\ T \ {x} # T /\ y \in T \ {x} /\ (T \ {x}) \ {y} = R
      /\ T \ {y} \in SUBSET S /\ T \ {y} # T /\ x \in T \ {y} /\ (T \ {y}) \ {x} = R
  BY <1>3, <1>4
<1>6. /\ SumFunctionOnSet(f, T \ {x}) = f[y] + SumFunctionOnSet(f, R)
      /\ SumFunctionOnSet(f, T \ {y}) = f[x] + SumFunctionOnSet(f, R)
  BY <1>1, <1>5
<1>7. SumFunctionOnSet(f, R) \in Int /\ f[x] \in Int /\ f[y] \in Int
  BY <1>2, <1>3, SumaEntera
<1> QED
  BY <1>0, <1>3, <1>6, <1>7

\* h is f with the values of g added in a part P of S.
Aumenta(h, f, g, P, S) ==
  /\ \A x \in S : f[x] \in Int /\ h[x] = IF x \in P THEN f[x] + g[x] ELSE f[x]
  /\ \A x \in P : g[x] \in Int

\* What is added to the values of a part is added to the sum.
LEMMA SumaJunta ==
  ASSUME NEW S, IsFiniteSet(S), NEW P \in SUBSET S, NEW f, NEW g, NEW h, Aumenta(h, f, g, P, S)
  PROVE  SumFunctionOnSet(h, S) = SumFunctionOnSet(f, S) + SumFunctionOnSet(g, P)
<1> DEFINE F == {T \in SUBSET S : SumFunctionOnSet(h, T) #
                   SumFunctionOnSet(f, T) + SumFunctionOnSet(g, P \cap T)}
<1>0. P \cap S = P
  OBVIOUS
<1> SUFFICES ASSUME F # {} PROVE FALSE
  BY <1>0
<1>9. /\ \A y \in S : f[y] \in Int /\ h[y] = IF y \in P THEN f[y] + g[y] ELSE f[y]
      /\ \A y \in P : g[y] \in Int
  BY DEF Aumenta
<1>1. PICK T \in F : \A U \in F : U \subseteq T => U = T
  <2>1. F \in SUBSET SUBSET S
    OBVIOUS
  <2> HIDE DEF F
  <2> QED
    BY <2>1, HayMenor
<1> DEFINE x == Elegido(T)
           U == T \ {x}
<1>2. IsFiniteSet(T) /\ IsFiniteSet(U) /\ IsFiniteSet(P \cap T) /\ IsFiniteSet(P \cap U)
  BY FS_Subset
<1>3. T # {}
  <2>1. /\ SumFunctionOnSet(f, {}) = 0 /\ SumFunctionOnSet(g, {}) = 0
        /\ SumFunctionOnSet(h, {}) = 0
    BY <1>2, SumaPrimero
  <2>2. P \cap {} = {} /\ 0 + 0 = 0
    OBVIOUS
  <2>3. SumFunctionOnSet(h, T) # SumFunctionOnSet(f, T) + SumFunctionOnSet(g, P \cap T)
    OBVIOUS
  <2> HIDE DEF F
  <2> QED
    BY <2>1, <2>2, <2>3
<1>4. /\ x \in T /\ SumFunctionOnSet(f, T) = f[x] + SumFunctionOnSet(f, U)
      /\ SumFunctionOnSet(h, T) = h[x] + SumFunctionOnSet(h, U)
  BY <1>2, <1>3, SumaPrimero
<1>5. SumFunctionOnSet(h, U) = SumFunctionOnSet(f, U) + SumFunctionOnSet(g, P \cap U)
  BY <1>1, <1>4
<1>6. SumFunctionOnSet(g, P \cap T) =
          (IF x \in P THEN g[x] ELSE 0) + SumFunctionOnSet(g, P \cap U)
  <2>1. CASE x \in P
    <3>1. x \in P \cap T /\ (P \cap T) \ {x} = P \cap U
      BY <1>4, <2>1
    <3> QED
      BY <1>2, <1>9, <2>1, <3>1, SumaCualquiera
  <2>2. CASE x \notin P
    <3>1. P \cap T = P \cap U
      BY <2>2
    <3>2. SumFunctionOnSet(g, P \cap U) \in Int
      BY <1>2, <1>9, SumaEntera
    <3> QED
      BY <2>2, <3>1, <3>2
  <2> QED
    BY <2>1, <2>2
<1>7. /\ SumFunctionOnSet(f, U) \in Int /\ SumFunctionOnSet(g, P \cap U) \in Int
      /\ f[x] \in Int /\ (x \in P => g[x] \in Int)
      /\ h[x] = IF x \in P THEN f[x] + g[x] ELSE f[x]
  BY <1>2, <1>4, <1>9, SumaEntera
<1>8. SumFunctionOnSet(h, T) = SumFunctionOnSet(f, T) + SumFunctionOnSet(g, P \cap T)
  <2> HIDE DEF x, U, F
  <2> QED
    BY <1>4, <1>5, <1>6, <1>7
<1> QED
  BY <1>1, <1>8

-----------------------------------------------------------------------------
(* The balance that is read and the one that is used *)

\* A cycle has no row of its remainder until it is marked as expired.
VencimientoFinal == \A k \in Ciclos : ciclo[k] # "expirado" => vencimiento[k] = 0

\* What is due expires or not, and points that are given open the cycle in use.
LEMMA CicloFinal ==
  ASSUME BenInv, VencimientoFinal, NEW estados, NEW filas,
         \/ vencimiento' = vencimiento /\ estados = ciclo
         \/ vencimiento' = VencimientoTras /\ estados = CicloTras,
         ciclo' \in {estados, CicloCon(estados, filas)}
  PROVE  VencimientoFinal'
<1>1. /\ ciclo \in [Ciclos -> EstadosCiclo] /\ CicloActual \in Ciclos
  BY CicloActualTipo DEF BenInv, BeneficiosTypeOK, EstadosCiclo
<1>2. ciclo[CicloActual] \in {"no", "activo"}
  BY DEF BenInv, CicloHay, HayCiclo, CicloActual, Activos
<1>3. ASSUME NEW k \in Ciclos
      PROVE  /\ estados[k] # "expirado" => vencimiento'[k] = 0
             /\ estados[CicloActual] # "expirado"
  BY <1>1, <1>2 DEF VencimientoFinal, VencimientoTras, VencimientoDe, CicloTras
<1>4. ASSUME NEW k \in Ciclos, ciclo'[k] # "expirado" PROVE estados[k] # "expirado"
  <2>1. estados \in [Ciclos -> EstadosCiclo]
    BY <1>1 DEF CicloTras, EstadosCiclo
  <2> QED
    BY <1>1, <1>3, <1>4, <2>1 DEF CicloCon
<1> QED
  BY <1>3, <1>4 DEF VencimientoFinal

\* Every step keeps it.
LEMMA PasoFinal == BenInv /\ VencimientoFinal /\ [Next]_vars => VencimientoFinal'
<1> SUFFICES ASSUME BenInv, VencimientoFinal, [Next]_vars PROVE VencimientoFinal'
  OBVIOUS
<1>1. CASE UNCHANGED <<ciclo, vencimiento>>
  BY <1>1 DEF VencimientoFinal
<1>2. CASE ciclo' = CicloTras /\ vencimiento' = VencimientoTras
  BY <1>2, CicloFinal
<1>3. ASSUME NEW g \in Titulares, NEW filas, RedimirYOtorgar(g, filas) PROVE VencimientoFinal'
  BY <1>3, CicloFinal DEF RedimirYOtorgar
<1>4. ASSUME NEW g \in Titulares,
             ReservarCliente(g) \/ ReservarOperador(g) \/ Expirar(g) \/ Cobrar(g)
      PROVE  VencimientoFinal'
  BY <1>1, <1>2, <1>4 DEF ReservarCliente, ReservarOperador, Reservar, Expirar, Cobrar
<1>5. ASSUME NEW g \in Titulares, ConfirmarSinPago(g) \/ RepetirConfirmacion(g) \/ ConfirmarPagado(g)
      PROVE  VencimientoFinal'
  BY <1>3, <1>5 DEF ConfirmarSinPago, RepetirConfirmacion, ConfirmarPagado
<1>6. ASSUME NEW g \in Titulares, ConfirmarOperador(g) PROVE VencimientoFinal'
  <2>1. PICK filas : /\ vencimiento' = IF EsCanje(g) THEN VencimientoTras ELSE vencimiento
                     /\ ciclo' = CicloCon(IF EsCanje(g) THEN CicloTras ELSE ciclo, filas)
    BY <1>6 DEF ConfirmarOperador
  <2> QED
    BY <2>1, CicloFinal
<1>7. ASSUME NEW c \in Citas, NEW e, CambiarEstado(c, e) PROVE VencimientoFinal'
  BY <1>7, CicloFinal DEF CambiarEstado
<1>8. ASSUME NEW k \in Ciclos, PasarCiclo(k) PROVE VencimientoFinal'
  BY <1>8 DEF PasarCiclo, VencimientoFinal, BenInv, BeneficiosTypeOK
<1>9. ASSUME NEW c \in Citas, Finalizar(c) PROVE VencimientoFinal'
  BY <1>1, <1>9 DEF Finalizar
<1>10. CASE \/ \E n \in {-1, 1} : AjustarPuntos(n)
            \/ CanjearEnTienda \/ PrepararCanje
  BY <1>2, <1>10 DEF AjustarPuntos, CanjearEnTienda, PrepararCanje
<1>11. CASE \/ \E n \in Premios : CambiarRegla(n)
            \/ \E p \in Planes : ComprarPlan(p) \/ CancelarPlan(p) \/ PasarPlan(p)
            \/ UNCHANGED vars
  BY <1>1, <1>11 DEF CambiarRegla, ComprarPlan, CancelarPlan, PasarPlan, vars
<1> QED
  BY <1>4, <1>5, <1>6, <1>7, <1>8, <1>9, <1>10, <1>11 DEF Next

\* The row of a cycle that is due takes what the view leaves out.
LEMMA LecturaJusta ==
  ASSUME BeneficiosAssumption, BenInv, VencimientoFinal
  PROVE  LecturaFiel
<1> DEFINE P == {j \in Ciclos : ciclo[j] = "vencido"}
           resto == [k \in P |-> Positivo(SumaCiclo(acumulado, k))]
           puntos == [k \in 0..MaxCiclos |-> SumaCiclo(acumulado, k)]
<1>1. ASSUME NEW k \in 0..MaxCiclos PROVE SumaCiclo(acumulado, k) \in Int
  <2>1. Cardinality({r \in acumulado : r[3] = k}) \in Nat
    BY FS_Subset, FS_CardinalityType DEF BenInv, FilasInv
  <2>2. manual[k] \in Int
    BY DEF BenInv, BeneficiosTypeOK
  <2> QED
    BY <2>1, <2>2 DEF SumaCiclo
<1>2. /\ IsFiniteSet(0..MaxCiclos) /\ IsFiniteSet(Ciclos) /\ IsFiniteSet(Titulares)
      /\ P \in SUBSET Ciclos /\ Ciclos \subseteq 0..MaxCiclos
  BY FS_Interval, FS_Subset DEF BeneficiosAssumption, Ciclos, Titulares
<1>3. /\ vencimiento \in [Ciclos -> Nat] /\ canje \in [Titulares -> Nat]
      /\ VencimientoTras \in [Ciclos -> Nat]
  BY VencimientoTipo DEF BenInv, BeneficiosTypeOK
<1>4. ASSUME NEW k \in P PROVE resto[k] \in Int
  BY <1>1, <1>2 DEF Positivo
<1>5. ASSUME NEW k \in Ciclos
      PROVE  VencimientoTras[k] = IF k \in P THEN vencimiento[k] + resto[k] ELSE vencimiento[k]
  <2>1. vencimiento[k] \in Nat /\ (k \in P => vencimiento[k] = 0 /\ resto[k] \in Int)
    BY <1>3, <1>4 DEF VencimientoFinal
  <2>2. VencimientoTras[k] = VencimientoDe(k)
    BY DEF VencimientoTras
  <2> QED
    BY <2>1, <2>2 DEF VencimientoDe
<1>6. SumFunctionOnSet(VencimientoTras, Ciclos)
          = SumFunctionOnSet(vencimiento, Ciclos) + SumFunctionOnSet(resto, P)
  <2>1. \A k \in Ciclos : vencimiento[k] \in Int
    BY <1>3
  <2>2. \A k \in Ciclos :
           /\ vencimiento[k] \in Int
           /\ VencimientoTras[k] = IF k \in P THEN vencimiento[k] + resto[k] ELSE vencimiento[k]
    BY <1>5, <2>1
  <2>3. \A k \in P : resto[k] \in Int
    BY <1>4
  <2>4. Aumenta(VencimientoTras, vencimiento, resto, P, Ciclos)
    BY <2>2, <2>3 DEF Aumenta
  <2>5. IsFiniteSet(Ciclos) /\ P \in SUBSET Ciclos
    BY <1>2
  <2> HIDE DEF P, resto
  <2> QED
    BY <2>4, <2>5, SumaJunta
<1>7. /\ SumFunctionOnSet(vencimiento, Ciclos) \in Int
      /\ SumFunctionOnSet(canje, Titulares) \in Int
  <2>1. (\A k \in Ciclos : vencimiento[k] \in Int) /\ \A g \in Titulares : canje[g] \in Int
    BY <1>3
  <2> QED
    BY <1>2, <2>1, SumaEntera
<1>8. SumFunctionOnSet(resto, P) \in Int
  <2>1. IsFiniteSet(P)
    BY <1>2, FS_Subset
  <2> HIDE DEF P, resto
  <2> QED
    BY <1>4, <2>1, SumaEntera
<1>9. SumFunctionOnSet(puntos, 0..MaxCiclos) \in Int
  <2>1. \A k \in 0..MaxCiclos : puntos[k] \in Int
    BY <1>1
  <2> HIDE DEF puntos
  <2> QED
    BY <1>2, <2>1, SumaEntera
<1>10. /\ SumFunction(puntos) = SumFunctionOnSet(puntos, 0..MaxCiclos)
       /\ SumFunction(resto) = SumFunctionOnSet(resto, P)
       /\ SumFunction(canje) = SumFunctionOnSet(canje, Titulares)
       /\ SumFunction(vencimiento) = SumFunctionOnSet(vencimiento, Ciclos)
       /\ SumFunction(VencimientoTras) = SumFunctionOnSet(VencimientoTras, Ciclos)
  BY <1>3 DEF SumFunction
<1>11. /\ Vista = SumFunction(puntos) - SumFunction(canje) - SumFunction(vencimiento)
                  - SumFunction(resto)
       /\ Saldo = SumFunction(puntos) - SumFunction(canje) - SumFunction(VencimientoTras)
  BY DEF Vista, Saldo, SaldoCon, Libro
<1> HIDE DEF P, resto, puntos
<1> QED
  BY <1>6, <1>7, <1>8, <1>9, <1>10, <1>11 DEF LecturaFiel

-----------------------------------------------------------------------------
(* Theorems *)

\* The invariant holds in every behaviour.
THEOREM BeneficiosInvariante == BeneficiosSpec => []BenInv
<1>1. Init => BenInv
  BY InicioBen, BeneficiosAssumption
<1>2. BenInv /\ [Next]_vars => BenInv'
  BY PasoBen, BeneficiosAssumption
<1> QED
  BY <1>1, <1>2, PTL DEF BeneficiosSpec

\* Type correctness, with no expiry row that adds points.
THEOREM BeneficiosTipo == BeneficiosSpec => []BeneficiosTypeOK
<1>1. BenInv => BeneficiosTypeOK
  BY DEF BenInv
<1> QED
  BY <1>1, BeneficiosInvariante, PTL

\* A cita gives one point at most, and a redeemed one gives its titular none,
\* for any number of citas, groups, cycles and confirmations.
THEOREM BeneficiosPuntosJustos == BeneficiosSpec => []PuntosJustos
<1>1. BenInv => PuntosJustos
  BY DEF BenInv
<1> QED
  BY <1>1, BeneficiosInvariante, PTL

\* The visits consume no more than each plan has, and each of them once.
THEOREM BeneficiosConsumoAcotado == BeneficiosSpec => []ConsumoAcotado
<1>1. BenInv => ConsumoAcotado
  BY DEF BenInv
<1> QED
  BY <1>1, BeneficiosInvariante, PTL

\* The balance that the client and the back office read is the one that a
\* redemption or an adjustment finds after it expires what is due
\* (vw_points_balance and fn_points_materialize_expired_cycles).
THEOREM BeneficiosLecturaFiel == BeneficiosSpec => []LecturaFiel
<1>1. Init => VencimientoFinal
  BY DEF Init, VencimientoFinal
<1>2. BenInv /\ VencimientoFinal /\ [Next]_vars => VencimientoFinal'
  BY PasoFinal
<1>3. BenInv /\ VencimientoFinal => LecturaFiel
  BY LecturaJusta, BeneficiosAssumption
<1> QED
  BY <1>1, <1>2, <1>3, BeneficiosInvariante, PTL DEF BeneficiosSpec
=============================================================================
