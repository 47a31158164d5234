-------------------------- MODULE Sesiones_proofs ---------------------------
(***************************************************************************)
(* Proofs about Sesiones, for any processes, sessions, policies and        *)
(* threshold, and any number of changes of the password and of crashes.    *)
(*                                                                         *)
(* Whoever is past the lock holds it (ConCandado).  So the credential that *)
(* a login or an exchange verified is not older than the last confirmed    *)
(* reset when its session opens (Credencial), no session opens between the *)
(* revocation of a reset and its end (SinActivas), and who found the user  *)
(* without a lock still has fewer failures than the threshold when the     *)
(* session opens (Cuenta).  The limit of sessions needs no lock: they are  *)
(* counted in the transaction that opens one.                              *)
(***************************************************************************)
EXTENDS Sesiones, FiniteSetTheorems, WellFoundedInduction, TLAPS

DelCanje == {"verificar", "admitir", "revisar", "abrir", "acertar"}
DelReset == {"revocar", "cambiar", "salir"}

\* Whoever is past the lock has it, and an exchange or a reset has its session
\* of the provider.
ConCandado ==
    \A p \in Procesos :
        /\ proc[p].paso \in DelCanje \cup DelReset => candado = p
        /\ proc[p].paso \in DelCanje => proc[p].op \in {"login", "canje"}
        /\ proc[p].op \in {"canje", "reset"} => proc[p].prov \in Proveedor
        /\ proc[p].op = "nada" => proc[p].paso = "libre"

Pasadas == cerrada <= clave

\* A verified credential is not older than the last confirmed reset; an
\* exchange goes with the password of its session of the provider.
Credencial ==
    \A p \in Procesos :
        /\ proc[p].paso \in {"admitir", "revisar", "abrir"} => proc[p].clave >= cerrada
        /\ proc[p].op = "canje" =>
              /\ prov[proc[p].prov].estado # "ninguna"
              /\ prov[proc[p].prov].estado = "viva" => prov[proc[p].prov].clave = proc[p].clave

\* From the revocation of a reset to its end no session is active.
SinActivas ==
    \A p \in Procesos : proc[p].paso \in {"cambiar", "salir"} =>
        \A s \in Sesiones : sesion[s].estado # "activa"

\* So many failures lock the user, and who found him without a lock has fewer.
Cuenta ==
    /\ fallidos = Umbral => bloqueo
    /\ \A p \in Procesos : proc[p].paso = "abrir" => fallidos < Umbral

SesInv ==
    /\ SesionesTypeOK /\ ConCandado /\ Pasadas /\ Credencial /\ SinActivas /\ Cuenta
    /\ ResetCierraTodo /\ LimiteSesiones

-----------------------------------------------------------------------------
(* Numbers and the limit *)

\* A set of numbers has a least one: the initial segments below its elements
\* are finite, and strict inclusion among finite sets is well founded.
LEMMA HayMinimo ==
  ASSUME NEW S \in SUBSET Nat, S # {}
  PROVE  Min(S) \in S /\ \A n \in S : Min(S) <= n
<1> DEFINE T == {1 .. n : n \in S}
           R == StrictSubsetOrdering(Nat)
<1>1. T \subseteq FiniteSubsetsOf(Nat) /\ T # {}
  <2>1. ASSUME NEW n \in S PROVE 1 .. n \in SUBSET Nat /\ IsFiniteSet(1 .. n)
    BY FS_Interval
  <2> QED
    BY <2>1 DEF FiniteSubsetsOf
<1>2. PICK X \in T : \A Y \in T : ~(<<Y, X>> \in R)
  <2>1. IsWellFoundedOn(R, FiniteSubsetsOf(Nat))
    BY FS_StrictSubsetOrderingWellFounded
  <2> QED
    BY <1>1, <2>1, WFMin
<1>3. PICK m \in S : X = 1 .. m
  OBVIOUS
<1>4. ASSUME NEW n \in S PROVE m <= n
  <2>1. SUFFICES ASSUME n < m PROVE FALSE
    OBVIOUS
  <2>2. 1 .. n \subseteq 1 .. m /\ 1 .. n # 1 .. m /\ 1 .. n \in T
    BY <2>1
  <2>3. <<1 .. n, X>> \in R
    BY <1>3, <2>2 DEF StrictSubsetOrdering
  <2> QED
    BY <1>2, <2>2, <2>3
<1> QED
  BY <1>4 DEF Min

\* A request that ends, and one that goes on to its next statement.
LEMMA PeticionNueva ==
  ASSUME SesionesAssumption
  PROVE  /\ Libre \in Peticion
         /\ \A r \in Peticion, x \in Pasos : [r EXCEPT !.paso = x] \in Peticion
<1>1. Libre \in Peticion
  BY DEF Libre, Peticion, Pasos, Claves, SesionesAssumption
<1>2. \A r \in Peticion, x \in Pasos : [r EXCEPT !.paso = x] \in Peticion
  BY DEF Peticion
<1> QED
  BY <1>1, <1>2

LEMMA MinimoDeDos ==
  ASSUME NEW a \in Nat, NEW b \in Nat
  PROVE  Min({a, b}) = IF a <= b THEN a ELSE b
<1>1. Min({a, b}) \in {a, b} /\ Min({a, b}) <= a /\ Min({a, b}) <= b
  BY HayMinimo
<1> QED
  BY <1>1

\* A policy that limits allows one session at least.
LEMMA LimitePositivo ==
  ASSUME SesionesAssumption, Politica # "allow"
  PROVE  MaxActivas \in Nat \ {0}
<1>1. Reglas # {}
  BY DEF Politica, Acciones
<1>2. {r.max : r \in Reglas} \in SUBSET Nat /\ {r.max : r \in Reglas} # {}
      /\ \A n \in {r.max : r \in Reglas} : n # 0
  BY <1>1 DEF SesionesAssumption
<1> QED
  BY <1>1, <1>2, HayMinimo DEF MaxActivas

\* Sessions that only end keep the limit.
LEMMA LimiteQueda ==
  ASSUME SesionesAssumption, LimiteSesiones, Activas' \subseteq Activas
  PROVE  LimiteSesiones'
<1>1. /\ Cardinality(Activas') <= Cardinality(Activas)
      /\ Cardinality(Activas) \in Nat /\ Cardinality(Activas') \in Nat
  <2>1. IsFiniteSet(Activas)
    BY FS_Subset DEF SesionesAssumption, Activas
  <2> QED
    BY <2>1, FS_Subset, FS_CardinalityType
<1>2. Politica' = Politica /\ MaxActivas' = MaxActivas
  BY DEF Politica, Acciones, MaxActivas
<1> QED
  BY <1>1, <1>2, LimitePositivo DEF LimiteSesiones

-----------------------------------------------------------------------------
(* Every step keeps the invariant. *)

LEMMA EntrarProveedorBien ==
  ASSUME SesionesAssumption, SesInv, NEW x \in Proveedor, EntrarProveedor(x)
  PROVE  SesInv'
<1>1. SesionesTypeOK'
  BY DEF SesInv, SesionesTypeOK, EntrarProveedor, DeProveedor
<1>2. Credencial'
  BY DEF SesInv, EntrarProveedor, DeProveedor, SesionesTypeOK, Peticion, ConCandado,
         DelCanje, DelReset, Pasadas, Credencial, ResetCierraTodo, DeProveedor, Claves
<1>3. ResetCierraTodo'
  BY DEF SesInv, EntrarProveedor, DeProveedor, SesionesTypeOK, Pasadas, ResetCierraTodo,
         DeProveedor, DeSesion, Claves
<1>4. LimiteSesiones'
  BY LimiteQueda DEF SesInv, EntrarProveedor, Activas
<1>5. ConCandado' /\ Pasadas' /\ SinActivas' /\ Cuenta'
  BY DEF SesInv, EntrarProveedor, DeProveedor, SesionesTypeOK, Peticion, ConCandado,
         DelCanje, DelReset, Claves, Pasadas, SinActivas, DeSesion, Cuenta
<1> QED
  BY <1>1, <1>2, <1>3, <1>4, <1>5 DEF SesInv

LEMMA SalirProveedorBien ==
  ASSUME SesionesAssumption, SesInv, NEW x \in Proveedor, SalirProveedor(x)
  PROVE  SesInv'
<1>1. SesionesTypeOK'
  BY DEF SesInv, SesionesTypeOK, SalirProveedor, Salida, DeProveedor, Claves,
         SesionesAssumption
<1>2. Credencial'
  BY DEF SesInv, SalirProveedor, Salida, SesionesTypeOK, Peticion, ConCandado, DelCanje,
         DelReset, Pasadas, Credencial, ResetCierraTodo, DeProveedor, Claves
<1>3. ResetCierraTodo'
  BY DEF SesInv, SalirProveedor, Salida, SesionesTypeOK, Pasadas, ResetCierraTodo,
         DeProveedor, DeSesion, Claves
<1>4. LimiteSesiones'
  BY LimiteQueda DEF SesInv, SalirProveedor, Activas
<1>5. ConCandado' /\ Pasadas' /\ SinActivas' /\ Cuenta'
  BY DEF SesInv, SalirProveedor, Salida, SesionesTypeOK, Peticion, ConCandado, DelCanje,
         DelReset, Claves, Pasadas, SinActivas, DeSesion, Cuenta
<1> QED
  BY <1>1, <1>2, <1>3, <1>4, <1>5 DEF SesInv

LEMMA LoginBien ==
  ASSUME SesionesAssumption, SesInv, NEW p \in Procesos, NEW v \in Claves,
         NEW r \in BOOLEAN, Login(p, v, r)
  PROVE  SesInv'
<1>1. SesionesTypeOK'
  <2>1. proc[p] \in Peticion
    BY DEF SesInv, SesionesTypeOK
  <2>2. [op |-> "login", paso |-> "espera", clave |-> v, prov |-> Nadie, reemplaza |-> r]
            \in Peticion
    BY <2>1 DEF Peticion, Pasos, SesInv, SesionesTypeOK, DeProveedor
  <2>3. proc' = [proc EXCEPT ![p] = [op |-> "login", paso |-> "espera", clave |-> v,
                                     prov |-> Nadie, reemplaza |-> r]]
    BY <2>1 DEF Login, Termina, Sigue, Peticion
  <2>4. proc' \in [Procesos -> Peticion]
    BY <2>1, <2>2, <2>3 DEF SesInv, SesionesTypeOK
  <2> QED
    BY <2>4 DEF SesInv, SesionesTypeOK, Login, Termina, Sigue
<1>2. ConCandado'
  BY DEF SesInv, Login, Libre, SesionesTypeOK, Peticion, ConCandado, DelCanje, DelReset
<1>3. Credencial'
  BY DEF SesInv, Login, Libre, SesionesTypeOK, Peticion, ConCandado, DelCanje, DelReset,
         Pasadas, Credencial, ResetCierraTodo, DeProveedor, Claves
<1>4. LimiteSesiones'
  BY LimiteQueda DEF SesInv, Login, Activas
<1>5. Pasadas' /\ SinActivas' /\ Cuenta' /\ ResetCierraTodo'
  BY DEF SesInv, Login, Libre, SesionesTypeOK, Claves, Pasadas, Peticion, ConCandado,
         DelCanje, DelReset, SinActivas, DeSesion, Cuenta, ResetCierraTodo, DeProveedor
<1> QED
  BY <1>1, <1>2, <1>3, <1>4, <1>5 DEF SesInv

LEMMA CanjeBien ==
  ASSUME SesionesAssumption, SesInv, NEW p \in Procesos, NEW x \in Proveedor,
         NEW r \in BOOLEAN, Canje(p, x, r)
  PROVE  SesInv'
<1>1. SesionesTypeOK'
  <2>1. proc[p] \in Peticion
    BY DEF SesInv, SesionesTypeOK
  <2>2. [op |-> "canje", paso |-> "espera", clave |-> prov[x].clave, prov |-> x,
         reemplaza |-> r] \in Peticion
    BY <2>1 DEF Peticion, Pasos, SesInv, SesionesTypeOK, DeProveedor
  <2>3. proc' = [proc EXCEPT ![p] = [op |-> "canje", paso |-> "espera", clave |-> prov[x].clave,
                                     prov |-> x, reemplaza |-> r]]
    BY <2>1 DEF Canje, Termina, Sigue, Peticion
  <2>4. proc' \in [Procesos -> Peticion]
    BY <2>1, <2>2, <2>3 DEF SesInv, SesionesTypeOK
  <2> QED
    BY <2>4 DEF SesInv, SesionesTypeOK, Canje, Termina, Sigue
<1>2. ConCandado'
  BY DEF SesInv, Canje, Libre, SesionesTypeOK, Peticion, ConCandado, DelCanje, DelReset
<1>3. Credencial'
  BY DEF SesInv, Canje, Libre, SesionesTypeOK, Peticion, ConCandado, DelCanje, DelReset,
         Pasadas, Credencial, ResetCierraTodo, DeProveedor, Claves
<1>4. LimiteSesiones'
  BY LimiteQueda DEF SesInv, Canje, Activas
<1>5. Pasadas' /\ SinActivas' /\ Cuenta' /\ ResetCierraTodo'
  BY DEF SesInv, Canje, Libre, SesionesTypeOK, Claves, Pasadas, Peticion, ConCandado,
         DelCanje, DelReset, SinActivas, DeSesion, Cuenta, ResetCierraTodo, DeProveedor
<1> QED
  BY <1>1, <1>2, <1>3, <1>4, <1>5 DEF SesInv

LEMMA ResetBien ==
  ASSUME SesionesAssumption, SesInv, NEW p \in Procesos, NEW x \in Proveedor, Reset(p, x)
  PROVE  SesInv'
<1>1. SesionesTypeOK'
  <2>1. proc[p] \in Peticion
    BY DEF SesInv, SesionesTypeOK
  <2>2. [op |-> "reset", paso |-> "espera", clave |-> clave, prov |-> x, reemplaza |-> FALSE]
            \in Peticion
    BY <2>1 DEF Peticion, Pasos, SesInv, SesionesTypeOK, DeProveedor
  <2>3. proc' = [proc EXCEPT ![p] = [op |-> "reset", paso |-> "espera", clave |-> clave,
                                     prov |-> x, reemplaza |-> FALSE]]
    BY <2>1 DEF Reset, Termina, Sigue, Peticion, DeProveedor
  <2>4. proc' \in [Procesos -> Peticion]
    BY <2>1, <2>2, <2>3 DEF SesInv, SesionesTypeOK
  <2> QED
    BY <2>4 DEF SesInv, SesionesTypeOK, Reset, Termina, Sigue, DeProveedor
<1>2. ConCandado'
  BY DEF SesInv, Reset, Libre, SesionesTypeOK, Peticion, ConCandado, DelCanje, DelReset
<1>3. Credencial'
  BY DEF SesInv, Reset, Libre, SesionesTypeOK, Peticion, ConCandado, DelCanje, DelReset,
         Pasadas, Credencial, ResetCierraTodo, DeProveedor, Claves
<1>4. ResetCierraTodo'
  BY DEF SesInv, Reset, Libre, SesionesTypeOK, Pasadas, ResetCierraTodo, DeProveedor,
         DeSesion, Claves
<1>5. LimiteSesiones'
  BY LimiteQueda DEF SesInv, Reset, Activas
<1>6. Pasadas' /\ SinActivas' /\ Cuenta'
  BY DEF SesInv, Reset, Libre, SesionesTypeOK, Claves, Pasadas, Peticion, ConCandado,
         DelCanje, DelReset, SinActivas, DeSesion, Cuenta
<1> QED
  BY <1>1, <1>2, <1>3, <1>4, <1>5, <1>6 DEF SesInv

LEMMA TomarBien ==
  ASSUME SesionesAssumption, SesInv, NEW p \in Procesos, Tomar(p)
  PROVE  SesInv'
<1>1. SesionesTypeOK'
  <2>1. proc[p] \in Peticion
    BY DEF SesInv, SesionesTypeOK
  <2>2. /\ [proc[p] EXCEPT !.paso = "revocar"] \in Peticion
        /\ [proc[p] EXCEPT !.paso = "verificar"] \in Peticion
    BY <2>1, PeticionNueva DEF Pasos
  <2>3. \/ proc' = [proc EXCEPT ![p] = [proc[p] EXCEPT !.paso = "revocar"]]
        \/ proc' = [proc EXCEPT ![p] = [proc[p] EXCEPT !.paso = "verificar"]]
    BY <2>1 DEF Tomar, Termina, Sigue, Peticion
  <2>4. proc' \in [Procesos -> Peticion]
    BY <2>1, <2>2, <2>3 DEF SesInv, SesionesTypeOK
  <2> QED
    BY <2>4 DEF SesInv, SesionesTypeOK, Tomar, Termina, Sigue
<1>2. ConCandado'
  <2>1. \A q \in Procesos : proc[q].paso \notin DelCanje \cup DelReset
    BY DEF SesionesAssumption, SesInv, ConCandado, Tomar, CandadoLibre
  <2>2. \A q \in Procesos \ {p} : proc'[q] = proc[q]
    BY DEF SesInv, SesionesTypeOK, Tomar
  <2>3. /\ proc'[p].op = proc[p].op /\ proc'[p].prov = proc[p].prov
        /\ proc'[p].paso \in DelCanje => proc[p].op \in {"login", "canje"}
        /\ candado' = p /\ proc[p].op # "nada"
    BY DEF SesInv, SesionesTypeOK, Peticion, ConCandado, Tomar, DelCanje
  <2> QED
    BY <2>1, <2>2, <2>3 DEF SesInv, ConCandado
<1>3. Credencial'
  BY DEF SesInv, Tomar, CandadoLibre, SesionesTypeOK, Peticion, ConCandado, DelCanje,
         DelReset, Pasadas, Credencial, ResetCierraTodo, DeProveedor, Claves
<1>4. SinActivas'
  BY DEF SesInv, Tomar, CandadoLibre, SesionesTypeOK, Peticion, ConCandado, DelCanje,
         DelReset, SinActivas, DeSesion
<1>5. Cuenta'
  BY DEF SesInv, Tomar, CandadoLibre, SesionesTypeOK, Peticion, ConCandado, DelCanje,
         DelReset, Cuenta
<1>6. LimiteSesiones'
  BY LimiteQueda DEF SesInv, Tomar, Activas
<1>7. Pasadas' /\ ResetCierraTodo'
  BY DEF SesInv, Tomar, CandadoLibre, SesionesTypeOK, Claves, Pasadas, ResetCierraTodo,
         DeProveedor, DeSesion
<1> QED
  BY <1>1, <1>2, <1>3, <1>4, <1>5, <1>6, <1>7 DEF SesInv

LEMMA DesistirBien ==
  ASSUME SesionesAssumption, SesInv, NEW p \in Procesos, NEW sale \in BOOLEAN, Desistir(p,
         sale)
  PROVE  SesInv'
<1>1. SesionesTypeOK'
  <2>1. proc[p] \in Peticion
    BY DEF SesInv, SesionesTypeOK
  <2>2. Libre \in Peticion
    BY <2>1, PeticionNueva
  <2>3. proc' = [proc EXCEPT ![p] = Libre]
    BY <2>1 DEF Desistir, Termina, Sigue, Peticion
  <2>4. proc' \in [Procesos -> Peticion]
    BY <2>1, <2>2, <2>3 DEF SesInv, SesionesTypeOK
  <2>5. prov' \in [Proveedor -> DeProveedor]
    <3>1. Salida \in DeProveedor
      BY DEF Salida, DeProveedor, Claves, SesionesAssumption
    <3> QED
      BY <3>1 DEF SesInv, SesionesTypeOK, Desistir, ProvTras
  <2> QED
    BY <2>4, <2>5 DEF SesInv, SesionesTypeOK, Desistir, Termina, Sigue
<1>2. ConCandado'
  BY DEF SesInv, Desistir, Libre, ProvTras, Salida, SesionesTypeOK, Peticion, ConCandado,
         DelCanje, DelReset
<1>3. Credencial'
  BY DEF SesInv, Desistir, Libre, ProvTras, Salida, SesionesTypeOK, Peticion, ConCandado,
         DelCanje, DelReset, Pasadas, Credencial, ResetCierraTodo, DeProveedor, Claves
<1>4. ResetCierraTodo'
  BY DEF SesInv, Desistir, Libre, ProvTras, Salida, SesionesTypeOK, Pasadas,
         ResetCierraTodo, DeProveedor, DeSesion, Claves
<1>5. LimiteSesiones'
  BY LimiteQueda DEF SesInv, Desistir, Activas
<1>6. Pasadas' /\ SinActivas' /\ Cuenta'
  BY DEF SesInv, Desistir, Libre, ProvTras, Salida, SesionesTypeOK, Claves, Pasadas,
         Peticion, ConCandado, DelCanje, DelReset, SinActivas, DeSesion, Cuenta
<1> QED
  BY <1>1, <1>2, <1>3, <1>4, <1>5, <1>6 DEF SesInv

LEMMA VerificarBien ==
  ASSUME SesionesAssumption, SesInv, NEW p \in Procesos, Verificar(p)
  PROVE  SesInv'
<1>0. /\ fallidos' \in 0..Umbral /\ bloqueo' \in BOOLEAN
      /\ fallidos' = Umbral => bloqueo'
  <2>1. Min({fallidos + 1, Umbral}) = IF fallidos + 1 <= Umbral THEN fallidos + 1 ELSE Umbral
    BY MinimoDeDos DEF SesInv, SesionesTypeOK, SesionesAssumption
  <2>2. CASE Fallar
    <3>1. fallidos' = (IF fallidos + 1 <= Umbral THEN fallidos + 1 ELSE Umbral)
      BY <2>1, <2>2 DEF Fallar
    <3>2. bloqueo' = (fallidos + 1 >= Umbral)
      BY <2>2 DEF Fallar
    <3>3. bloqueo' \in BOOLEAN
      <4>1. CASE fallidos + 1 >= Umbral
        BY <3>2, <4>1
      <4>2. CASE ~(fallidos + 1 >= Umbral)
        BY <3>2, <4>2
      <4> QED
        BY <4>1, <4>2
    <3>4. fallidos + 1 >= Umbral => bloqueo'
      BY <3>2, Zenon
    <3> QED
      BY <3>1, <3>3, <3>4 DEF SesInv, SesionesTypeOK, SesionesAssumption
  <2>3. CASE UNCHANGED <<fallidos, bloqueo>>
    BY <2>3 DEF SesInv, SesionesTypeOK, Cuenta
  <2> QED
    BY <2>2, <2>3 DEF Verificar
<1>1. SesionesTypeOK'
  <2>1. proc[p] \in Peticion
    BY DEF SesInv, SesionesTypeOK
  <2>2. /\ Libre \in Peticion
        /\ [proc[p] EXCEPT !.paso = "admitir"] \in Peticion
    BY <2>1, PeticionNueva DEF Pasos
  <2>3. \/ proc' = [proc EXCEPT ![p] = Libre]
        \/ proc' = [proc EXCEPT ![p] = [proc[p] EXCEPT !.paso = "admitir"]]
    BY <2>1 DEF Verificar, Termina, Sigue, Peticion
  <2>4. proc' \in [Procesos -> Peticion]
    BY <2>1, <2>2, <2>3 DEF SesInv, SesionesTypeOK
  <2> QED
    BY <1>0, <2>4 DEF SesInv, SesionesTypeOK, Verificar, Termina, Sigue
<1>2. ConCandado'
  BY DEF SesInv, Verificar, Vigente, Fallar, Termina, Sigue, Libre, SesionesTypeOK,
         Peticion, ConCandado, DelCanje, DelReset
<1>3. Credencial'
  BY DEF SesInv, Verificar, Vigente, Fallar, Termina, Sigue, Libre, SesionesTypeOK,
         Peticion, ConCandado, DelCanje, DelReset, Pasadas, Credencial, ResetCierraTodo,
         DeProveedor, Claves
<1>4. SinActivas'
  BY DEF SesInv, Verificar, Vigente, Fallar, Termina, Sigue, Libre, SesionesTypeOK,
         Peticion, ConCandado, DelCanje, DelReset, SinActivas, DeSesion
<1>5. Cuenta'
  <2>1. \A q \in Procesos : proc'[q].paso = "abrir" => q # p /\ proc'[q] = proc[q]
    <3>1. proc[p] \in Peticion
      BY DEF SesInv, SesionesTypeOK
    <3>2. \/ proc' = [proc EXCEPT ![p] = Libre]
          \/ proc' = [proc EXCEPT ![p] = [proc[p] EXCEPT !.paso = "admitir"]]
      BY <3>1 DEF Verificar, Termina, Sigue, Peticion
    <3> QED
      BY <3>1, <3>2 DEF SesInv, SesionesTypeOK, Peticion, Libre
  <2>2. proc[p].paso = "verificar"
    BY DEF Verificar
  <2>3. ASSUME NEW q \in Procesos, proc'[q].paso = "abrir" PROVE FALSE
    BY <2>1, <2>2, <2>3 DEF SesInv, ConCandado, DelCanje, SesionesAssumption
  <2> QED
    BY <1>0, <2>3 DEF Cuenta
<1>6. LimiteSesiones'
  BY LimiteQueda DEF SesInv, Verificar, Activas
<1>7. Pasadas' /\ ResetCierraTodo'
  BY DEF SesInv, Verificar, Vigente, Fallar, Termina, Sigue, Libre, SesionesTypeOK, Claves,
         Pasadas, ResetCierraTodo, DeProveedor, DeSesion
<1> QED
  BY <1>1, <1>2, <1>3, <1>4, <1>5, <1>6, <1>7 DEF SesInv

LEMMA AdmitirBien ==
  ASSUME SesionesAssumption, SesInv, NEW p \in Procesos, Admitir(p)
  PROVE  SesInv'
<1>1. SesionesTypeOK'
  <2>1. proc[p] \in Peticion
    BY DEF SesInv, SesionesTypeOK
  <2>2. /\ Libre \in Peticion
        /\ [proc[p] EXCEPT !.paso = "revisar"] \in Peticion
    BY <2>1, PeticionNueva DEF Pasos
  <2>3. \/ proc' = [proc EXCEPT ![p] = Libre]
        \/ proc' = [proc EXCEPT ![p] = [proc[p] EXCEPT !.paso = "revisar"]]
    BY <2>1 DEF Admitir, Termina, Sigue, Peticion
  <2>4. proc' \in [Procesos -> Peticion]
    BY <2>1, <2>2, <2>3 DEF SesInv, SesionesTypeOK
  <2> QED
    BY <2>4 DEF SesInv, SesionesTypeOK, Admitir, Termina, Sigue
<1>2. ConCandado'
  BY DEF SesInv, Admitir, Termina, Sigue, Libre, SesionesTypeOK, Peticion, ConCandado,
         DelCanje, DelReset
<1>3. Credencial'
  BY SMTT(30) DEF SesInv, Admitir, Termina, Sigue, Libre, SesionesTypeOK, Peticion, ConCandado,
         DelCanje, DelReset, Pasadas, Credencial, ResetCierraTodo, DeProveedor, Claves
<1>4. SinActivas'
  <2>1. sesion' = sesion
    BY DEF Admitir
  <2>2. \A q \in Procesos : proc'[q].paso \in {"cambiar", "salir"} => proc[q].paso = proc'[q].paso
    <3>1. proc[p] \in Peticion
      BY DEF SesInv, SesionesTypeOK
    <3>2. \/ proc' = [proc EXCEPT ![p] = Libre]
          \/ proc' = [proc EXCEPT ![p] = [proc[p] EXCEPT !.paso = "revisar"]]
      BY <3>1 DEF Admitir, Termina, Sigue, Peticion
    <3> QED
      BY <3>1, <3>2 DEF SesInv, SesionesTypeOK, Peticion, Libre
  <2> QED
    BY <2>1, <2>2 DEF SesInv, SinActivas
<1>5. Cuenta'
  BY DEF SesInv, Admitir, Termina, Sigue, Libre, SesionesTypeOK, Peticion, ConCandado,
         DelCanje, DelReset, Cuenta
<1>6. LimiteSesiones'
  BY LimiteQueda DEF SesInv, Admitir, Activas
<1>7. Pasadas' /\ ResetCierraTodo'
  BY DEF SesInv, Admitir, Termina, Sigue, Libre, SesionesTypeOK, Claves, Pasadas,
         ResetCierraTodo, DeProveedor, DeSesion
<1> QED
  BY <1>1, <1>2, <1>3, <1>4, <1>5, <1>6, <1>7 DEF SesInv

LEMMA RevisarBien ==
  ASSUME SesionesAssumption, SesInv, NEW p \in Procesos, Revisar(p)
  PROVE  SesInv'
<1>1. SesionesTypeOK'
  <2>1. proc[p] \in Peticion
    BY DEF SesInv, SesionesTypeOK
  <2>2. /\ Libre \in Peticion
        /\ [proc[p] EXCEPT !.paso = "abrir"] \in Peticion
    BY <2>1, PeticionNueva DEF Pasos
  <2>3. \/ proc' = [proc EXCEPT ![p] = Libre]
        \/ proc' = [proc EXCEPT ![p] = [proc[p] EXCEPT !.paso = "abrir"]]
    BY <2>1 DEF Revisar, Termina, Sigue, Peticion
  <2>4. proc' \in [Procesos -> Peticion]
    BY <2>1, <2>2, <2>3 DEF SesInv, SesionesTypeOK
  <2> QED
    BY <2>4 DEF SesInv, SesionesTypeOK, Revisar, Termina, Sigue
<1>2. ConCandado'
  BY DEF SesInv, Revisar, Bloqueado, Termina, Sigue, Libre, SesionesTypeOK, Peticion,
         ConCandado, DelCanje, DelReset
<1>3. Credencial'
  BY DEF SesInv, Revisar, Bloqueado, Termina, Sigue, Libre, SesionesTypeOK, Peticion,
         ConCandado, DelCanje, DelReset, Pasadas, Credencial, ResetCierraTodo, DeProveedor,
         Claves
<1>4. SinActivas'
  BY DEF SesInv, Revisar, Bloqueado, Termina, Sigue, Libre, SesionesTypeOK, Peticion,
         ConCandado, DelCanje, DelReset, SinActivas, DeSesion
<1>5. Cuenta'
  <2>1. \A q \in Procesos : proc'[q].paso = "abrir" => proc[q].paso = "abrir" \/ ~bloqueo
    BY DEF SesInv, SesionesTypeOK, Revisar, Bloqueado, Termina, Sigue, Libre
  <2>2. fallidos' = fallidos /\ bloqueo' = bloqueo /\ fallidos \in 0..Umbral
    BY DEF SesInv, SesionesTypeOK, Revisar
  <2> QED
    BY <2>1, <2>2 DEF SesInv, Cuenta, SesionesAssumption
<1>6. LimiteSesiones'
  BY LimiteQueda DEF SesInv, Revisar, Activas
<1>7. Pasadas' /\ ResetCierraTodo'
  BY DEF SesInv, Revisar, Bloqueado, Termina, Sigue, Libre, SesionesTypeOK, Claves, Pasadas,
         ResetCierraTodo, DeProveedor, DeSesion
<1> QED
  BY <1>1, <1>2, <1>3, <1>4, <1>5, <1>6, <1>7 DEF SesInv

LEMMA AbrirBien ==
  ASSUME SesionesAssumption, SesInv, NEW p \in Procesos, NEW s \in Sesiones, Abrir(p, s)
  PROVE  SesInv'
<1> DEFINE alDia == Terminadas({t \in Sesiones : sesion[t].vencida}, sesion)
           todas == Terminadas(Sesiones, alDia)
           nueva == [estado |-> "activa", clave |-> proc[p].clave, vencida |-> FALSE]
<1>0. \/ sesion' = alDia
      \/ ~Colision /\ sesion' = [alDia EXCEPT ![s] = nueva]
      \/ sesion' = [todas EXCEPT ![s] = nueva]
  BY DEF Abrir
<1>a. /\ alDia \in [Sesiones -> DeSesion] /\ todas \in [Sesiones -> DeSesion]
      /\ \A u \in Sesiones : alDia[u].estado = "activa" =>
            alDia[u] = sesion[u] /\ ~sesion[u].vencida
      /\ \A u \in Sesiones : todas[u].estado # "activa"
  <2>1. alDia \in [Sesiones -> DeSesion]
    BY DEF SesInv, SesionesTypeOK, Terminadas, DeSesion, Claves, SesionesAssumption
  <2>2. todas \in [Sesiones -> DeSesion]
    BY <2>1 DEF Terminadas, DeSesion, Claves, SesionesAssumption
  <2>3. \A u \in Sesiones : todas[u].estado # "activa"
    BY <2>1 DEF Terminadas, DeSesion
  <2>4. \A u \in Sesiones : alDia[u].estado = "activa" =>
            alDia[u] = sesion[u] /\ ~sesion[u].vencida
    BY DEF Terminadas
  <2> QED
    BY <2>1, <2>2, <2>3, <2>4
<1>b. nueva \in DeSesion /\ nueva.clave = proc[p].clave
  BY DEF SesInv, SesionesTypeOK, Peticion, DeSesion
<1> HIDE DEF alDia, todas, nueva
<1>1. SesionesTypeOK'
  <2>1. proc[p] \in Peticion
    BY DEF SesInv, SesionesTypeOK
  <2>2. /\ Libre \in Peticion
        /\ [proc[p] EXCEPT !.paso = "acertar"] \in Peticion
    BY <2>1, PeticionNueva DEF Pasos
  <2>3. \/ proc' = [proc EXCEPT ![p] = Libre]
        \/ proc' = [proc EXCEPT ![p] = [proc[p] EXCEPT !.paso = "acertar"]]
    BY <2>1 DEF Abrir, Termina, Sigue, Peticion
  <2>4. proc' \in [Procesos -> Peticion]
    BY <2>1, <2>2, <2>3 DEF SesInv, SesionesTypeOK
  <2>5. sesion' \in [Sesiones -> DeSesion]
    BY <1>0, <1>a, <1>b
  <2> QED
    BY <2>4, <2>5 DEF SesInv, SesionesTypeOK, Abrir, Termina, Sigue, Terminadas, DeSesion
<1>2. ConCandado'
  BY DEF SesInv, Abrir, Termina, Sigue, Libre, Terminadas, SesionesTypeOK, Peticion,
         ConCandado, DelCanje, DelReset
<1>3. Credencial'
  BY DEF SesInv, Abrir, Termina, Sigue, Libre, Terminadas, SesionesTypeOK, Peticion,
         ConCandado, DelCanje, DelReset, Pasadas, Credencial, ResetCierraTodo, DeProveedor,
         Claves
<1>4. SinActivas'
  BY DEF SesInv, Abrir, Termina, Sigue, Libre, Terminadas, SesionesTypeOK, Peticion,
         ConCandado, DelCanje, DelReset, SinActivas, DeSesion
<1>5. Cuenta'
  BY DEF SesInv, Abrir, Termina, Sigue, Libre, Terminadas, SesionesTypeOK, Peticion,
         ConCandado, DelCanje, DelReset, Cuenta
<1>6. ResetCierraTodo'
  <2>1. \A u \in Sesiones : sesion'[u].estado = "activa" =>
            sesion'[u] = sesion[u] \/ sesion'[u] = nueva
    BY <1>0, <1>a
  <2>2. nueva.clave >= cerrada
    BY <1>b DEF SesInv, Credencial, Abrir
  <2> QED
    BY <2>1, <2>2 DEF SesInv, ResetCierraTodo, Abrir
<1>7. LimiteSesiones'
  <2>1. s \notin Activas
    BY DEF Abrir, Activas
  <2>2. \/ Activas' \subseteq Activas
        \/ Activas' = {s}
        \/ ~Colision /\ Activas' \subseteq Activas \cup {s}
    <3>1. CASE sesion' = alDia
      BY <1>a, <3>1 DEF Activas
    <3>2. CASE ~Colision /\ sesion' = [alDia EXCEPT ![s] = nueva]
      BY <1>a, <3>2 DEF Activas
    <3>3. CASE sesion' = [todas EXCEPT ![s] = nueva]
      BY <1>a, <3>3 DEF Activas, nueva
    <3> QED
      BY <1>0, <3>1, <3>2, <3>3
  <2>3. ASSUME Politica # "allow" PROVE Cardinality(Activas') <= MaxActivas
    <3>1. MaxActivas \in Nat \ {0}
      BY <2>3, LimitePositivo
    <3>2. IsFiniteSet(Activas) /\ Cardinality(Activas) \in Nat
      BY FS_Subset, FS_CardinalityType DEF SesionesAssumption, Activas
    <3>3. CASE Activas' \subseteq Activas
      BY <2>3, <3>1, <3>2, <3>3, FS_Subset, FS_CardinalityType DEF SesInv, LimiteSesiones
    <3>4. CASE Activas' = {s}
      BY <3>1, <3>4, FS_Singleton
    <3>5. CASE ~Colision /\ Activas' \subseteq Activas \cup {s}
      <4>1. Cardinality(Activas) + 1 <= MaxActivas
        BY <2>3, <3>1, <3>2, <3>5 DEF Colision
      <4>2. /\ IsFiniteSet(Activas \cup {s})
            /\ Cardinality(Activas \cup {s}) <= Cardinality(Activas) + 1
        <5>1. /\ IsFiniteSet(Activas \cup {s})
              /\ Cardinality(Activas \cup {s}) = Cardinality(Activas) + 1
          BY <2>1, <3>2, FS_AddElement
        <5> QED
          BY <3>2, <5>1
      <4>3. Cardinality(Activas') <= Cardinality(Activas \cup {s})
        BY <3>5, <4>2, FS_Subset
      <4>4. Cardinality(Activas') \in Nat /\ Cardinality(Activas \cup {s}) \in Nat
        BY <3>5, <4>2, FS_Subset, FS_CardinalityType
      <4> QED
        BY <3>1, <3>2, <4>1, <4>2, <4>3, <4>4
    <3> QED
      BY <2>2, <3>3, <3>4, <3>5
  <2>4. Politica' = Politica /\ MaxActivas' = MaxActivas
    BY DEF Politica, Acciones, MaxActivas
  <2> QED
    BY <2>3, <2>4 DEF LimiteSesiones
<1>8. Pasadas'
  BY DEF SesInv, Abrir, Termina, Sigue, Libre, Terminadas, SesionesTypeOK, Claves, Pasadas
<1> QED
  BY <1>1, <1>2, <1>3, <1>4, <1>5, <1>6, <1>7, <1>8 DEF SesInv

LEMMA AcertarBien ==
  ASSUME SesionesAssumption, SesInv, NEW p \in Procesos, Acertar(p)
  PROVE  SesInv'
<1>1. SesionesTypeOK'
  <2>1. proc[p] \in Peticion
    BY DEF SesInv, SesionesTypeOK
  <2>2. Libre \in Peticion
    BY <2>1, PeticionNueva
  <2>3. proc' = [proc EXCEPT ![p] = Libre]
    BY <2>1 DEF Acertar, Termina, Sigue, Peticion
  <2>4. proc' \in [Procesos -> Peticion]
    BY <2>1, <2>2, <2>3 DEF SesInv, SesionesTypeOK
  <2>5. fallidos' \in 0..Umbral
    BY DEF Acertar, SesionesAssumption
  <2> QED
    BY <2>4, <2>5 DEF SesInv, SesionesTypeOK, Acertar, Termina, Sigue
<1>2. ConCandado'
  BY DEF SesInv, Acertar, Termina, Libre, SesionesTypeOK, Peticion, ConCandado, DelCanje,
         DelReset
<1>3. Credencial'
  BY DEF SesInv, Acertar, Termina, Libre, SesionesTypeOK, Peticion, ConCandado, DelCanje,
         DelReset, Pasadas, Credencial, ResetCierraTodo, DeProveedor, Claves
<1>4. SinActivas'
  BY DEF SesInv, Acertar, Termina, Libre, SesionesTypeOK, Peticion, ConCandado, DelCanje,
         DelReset, SinActivas, DeSesion
<1>5. Cuenta'
  BY DEF SesInv, Acertar, Termina, Libre, SesionesTypeOK, Peticion, ConCandado, DelCanje,
         DelReset, Cuenta
<1>6. LimiteSesiones'
  BY LimiteQueda DEF SesInv, Acertar, Activas
<1>7. Pasadas' /\ ResetCierraTodo'
  BY DEF SesInv, Acertar, Termina, Libre, SesionesTypeOK, Claves, Pasadas, ResetCierraTodo,
         DeProveedor, DeSesion
<1> QED
  BY <1>1, <1>2, <1>3, <1>4, <1>5, <1>6, <1>7 DEF SesInv

LEMMA RevocarBien ==
  ASSUME SesionesAssumption, SesInv, NEW p \in Procesos, Revocar(p)
  PROVE  SesInv'
<1>1. SesionesTypeOK'
  <2>1. proc[p] \in Peticion
    BY DEF SesInv, SesionesTypeOK
  <2>2. [proc[p] EXCEPT !.paso = "cambiar"] \in Peticion
    BY <2>1, PeticionNueva DEF Pasos
  <2>3. proc' = [proc EXCEPT ![p] = [proc[p] EXCEPT !.paso = "cambiar"]]
    BY <2>1 DEF Revocar, Termina, Sigue, Peticion
  <2>4. proc' \in [Procesos -> Peticion]
    BY <2>1, <2>2, <2>3 DEF SesInv, SesionesTypeOK
  <2> QED
    BY <2>4
    DEF SesInv, SesionesTypeOK, Revocar, Termina, Sigue, Terminadas, DeSesion, Claves,
        SesionesAssumption
<1>2. ConCandado'
  BY DEF SesInv, Revocar, Sigue, Terminadas, SesionesTypeOK, Peticion, ConCandado, DelCanje,
         DelReset
<1>3. Credencial'
  BY DEF SesInv, Revocar, Sigue, Terminadas, SesionesTypeOK, Peticion, ConCandado, DelCanje,
         DelReset, Pasadas, Credencial, ResetCierraTodo, DeProveedor, Claves
<1>4. SinActivas'
  BY DEF SesInv, Revocar, Sigue, Terminadas, SesionesTypeOK, Peticion, ConCandado, DelCanje,
         DelReset, SinActivas, DeSesion
<1>5. Cuenta'
  BY DEF SesInv, Revocar, Sigue, Terminadas, SesionesTypeOK, Peticion, ConCandado, DelCanje,
         DelReset, Cuenta
<1>6. ResetCierraTodo'
  BY DEF SesInv, Revocar, Sigue, Terminadas, SesionesTypeOK, Pasadas, ResetCierraTodo,
         DeProveedor, DeSesion, Claves
<1>7. LimiteSesiones'
  BY LimiteQueda DEF SesInv, Revocar, Activas, Terminadas, SesionesTypeOK, DeSesion
<1>8. Pasadas'
  BY DEF SesInv, Revocar, Sigue, Terminadas, SesionesTypeOK, Claves, Pasadas
<1> QED
  BY <1>1, <1>2, <1>3, <1>4, <1>5, <1>6, <1>7, <1>8 DEF SesInv

LEMMA CambiarClaveBien ==
  ASSUME SesionesAssumption, SesInv, NEW p \in Procesos, NEW hecho \in BOOLEAN,
         NEW responde \in BOOLEAN, NEW sale \in BOOLEAN, CambiarClave(p, hecho, responde, sale)
  PROVE  SesInv'
<1>1. SesionesTypeOK'
  <2>1. proc[p] \in Peticion
    BY DEF SesInv, SesionesTypeOK
  <2>2. /\ Libre \in Peticion
        /\ [proc[p] EXCEPT !.paso = "salir"] \in Peticion
    BY <2>1, PeticionNueva DEF Pasos
  <2>3. \/ proc' = [proc EXCEPT ![p] = Libre]
        \/ proc' = [proc EXCEPT ![p] = [proc[p] EXCEPT !.paso = "salir"]]
    BY <2>1
    DEF CambiarClave, Termina, Sigue, Peticion, ProvTras, Salida, DeProveedor, Claves
  <2>4. proc' \in [Procesos -> Peticion]
    BY <2>1, <2>2, <2>3 DEF SesInv, SesionesTypeOK
  <2> QED
    BY <2>4
    DEF SesInv, SesionesTypeOK, CambiarClave, Termina, Sigue, ProvTras, Salida, DeProveedor,
        Claves
<1>2. ConCandado'
  BY DEF SesInv, CambiarClave, Termina, Sigue, Libre, ProvTras, Salida, SesionesTypeOK,
         Peticion, ConCandado, DelCanje, DelReset
<1>3. Pasadas'
  BY DEF SesInv, CambiarClave, Termina, Sigue, Libre, ProvTras, Salida, SesionesTypeOK,
         Claves, Pasadas
<1>4. Credencial'
  BY DEF SesInv, CambiarClave, Termina, Sigue, Libre, ProvTras, Salida, SesionesTypeOK,
         Peticion, ConCandado, DelCanje, DelReset, Pasadas, Credencial, ResetCierraTodo,
         DeProveedor, Claves
<1>5. SinActivas'
  BY DEF SesInv, CambiarClave, Termina, Sigue, Libre, ProvTras, Salida, SesionesTypeOK,
         Peticion, ConCandado, DelCanje, DelReset, SinActivas, DeSesion
<1>6. ResetCierraTodo'
  BY DEF SesInv, CambiarClave, Termina, Sigue, Libre, ProvTras, Salida, SesionesTypeOK,
         Pasadas, ResetCierraTodo, DeProveedor, DeSesion, Claves
<1>7. LimiteSesiones'
  BY LimiteQueda DEF SesInv, CambiarClave, Activas
<1>8. Cuenta'
  BY DEF SesInv, CambiarClave, Termina, Sigue, Libre, ProvTras, Salida, SesionesTypeOK,
         Peticion, ConCandado, DelCanje, DelReset, Cuenta
<1> QED
  BY <1>1, <1>2, <1>3, <1>4, <1>5, <1>6, <1>7, <1>8 DEF SesInv

LEMMA SalirDeTodasBien ==
  ASSUME SesionesAssumption, SesInv, NEW p \in Procesos, NEW hecho \in BOOLEAN,
         NEW responde \in BOOLEAN, NEW sale \in BOOLEAN, SalirDeTodas(p, hecho, responde, sale)
  PROVE  SesInv'
<1>1. SesionesTypeOK'
  <2>1. proc[p] \in Peticion
    BY DEF SesInv, SesionesTypeOK
  <2>2. Libre \in Peticion
    BY <2>1, PeticionNueva
  <2>3. proc' = [proc EXCEPT ![p] = Libre]
    BY <2>1 DEF SalirDeTodas, Termina, Sigue, Peticion
  <2>4. proc' \in [Procesos -> Peticion]
    BY <2>1, <2>2, <2>3 DEF SesInv, SesionesTypeOK
  <2>5. prov' \in [Proveedor -> DeProveedor]
    <3>1. Salida \in DeProveedor
      BY DEF Salida, DeProveedor, Claves, SesionesAssumption
    <3> QED
      BY <3>1 DEF SesInv, SesionesTypeOK, SalirDeTodas, ProvTras
  <2> QED
    BY <2>4, <2>5 DEF SesInv, SesionesTypeOK, SalirDeTodas, Termina, Sigue
<1>2. ConCandado'
  BY DEF SesInv, SalirDeTodas, Termina, Libre, ProvTras, Salida, Cierre, SesionesTypeOK,
         Peticion, ConCandado, DelCanje, DelReset
<1>3. Pasadas'
  BY DEF SesInv, SalirDeTodas, Termina, Libre, ProvTras, Salida, Cierre, SesionesTypeOK,
         Claves, Pasadas
<1>4. Credencial'
  BY DEF SesInv, SalirDeTodas, Termina, Libre, ProvTras, Salida, Cierre, SesionesTypeOK,
         Peticion, ConCandado, DelCanje, DelReset, Pasadas, Credencial, ResetCierraTodo,
         DeProveedor, Claves
<1>5. SinActivas'
  BY DEF SesInv, SalirDeTodas, Termina, Libre, ProvTras, Salida, Cierre, SesionesTypeOK,
         Peticion, ConCandado, DelCanje, DelReset, SinActivas, DeSesion
<1>6. ResetCierraTodo'
  <2>1. \A y \in Proveedor : prov'[y].estado = "viva" => ~hecho /\ prov'[y] = prov[y]
    BY DEF SesInv, SesionesTypeOK, SalirDeTodas, ProvTras, Cierre, Salida, DeProveedor
  <2>2. \A t \in Sesiones : sesion'[t].estado # "activa"
    BY DEF SesInv, SinActivas, SalirDeTodas
  <2> QED
    BY <2>1, <2>2 DEF SesInv, ResetCierraTodo, SalirDeTodas
<1>7. LimiteSesiones'
  BY LimiteQueda DEF SesInv, SalirDeTodas, Activas
<1>8. Cuenta'
  BY DEF SesInv, SalirDeTodas, Termina, Libre, ProvTras, Salida, Cierre, SesionesTypeOK,
         Peticion, ConCandado, DelCanje, DelReset, Cuenta
<1> QED
  BY <1>1, <1>2, <1>3, <1>4, <1>5, <1>6, <1>7, <1>8 DEF SesInv

LEMMA VencerBien ==
  ASSUME SesionesAssumption, SesInv, NEW s \in Sesiones, Vencer(s)
  PROVE  SesInv'
<1>1. SesionesTypeOK'
  BY DEF SesInv, SesionesTypeOK, Vencer, Terminadas, DeSesion, Claves, SesionesAssumption
<1>2. SinActivas'
  BY DEF SesInv, Vencer, SesionesTypeOK, Peticion, ConCandado, DelCanje, DelReset,
         SinActivas, DeSesion
<1>3. ResetCierraTodo'
  BY DEF SesInv, Vencer, SesionesTypeOK, Pasadas, ResetCierraTodo, DeProveedor, DeSesion,
         Claves
<1>4. LimiteSesiones'
  BY LimiteQueda DEF SesInv, Vencer, Activas, Terminadas, SesionesTypeOK, DeSesion
<1>5. ConCandado' /\ Pasadas' /\ Credencial' /\ Cuenta'
  BY DEF SesInv, Vencer, SesionesTypeOK, Peticion, ConCandado, DelCanje, DelReset, Claves,
         Pasadas, Credencial, ResetCierraTodo, DeProveedor, Cuenta
<1> QED
  BY <1>1, <1>2, <1>3, <1>4, <1>5 DEF SesInv

LEMMA MarcarVencidaBien ==
  ASSUME SesionesAssumption, SesInv, NEW s \in Sesiones, MarcarVencida(s)
  PROVE  SesInv'
<1>1. SesionesTypeOK'
  BY DEF SesInv, SesionesTypeOK, MarcarVencida, Terminadas, DeSesion, Claves,
         SesionesAssumption
<1>2. SinActivas'
  BY DEF SesInv, MarcarVencida, Terminadas, SesionesTypeOK, Peticion, ConCandado, DelCanje,
         DelReset, SinActivas, DeSesion
<1>3. ResetCierraTodo'
  BY DEF SesInv, MarcarVencida, Terminadas, SesionesTypeOK, Pasadas, ResetCierraTodo,
         DeProveedor, DeSesion, Claves
<1>4. LimiteSesiones'
  BY LimiteQueda DEF SesInv, MarcarVencida, Activas, Terminadas, SesionesTypeOK, DeSesion
<1>5. ConCandado' /\ Pasadas' /\ Credencial' /\ Cuenta'
  BY DEF SesInv, MarcarVencida, Terminadas, SesionesTypeOK, Peticion, ConCandado, DelCanje,
         DelReset, Claves, Pasadas, Credencial, ResetCierraTodo, DeProveedor, Cuenta
<1> QED
  BY <1>1, <1>2, <1>3, <1>4, <1>5 DEF SesInv

LEMMA InactivaBien ==
  ASSUME SesionesAssumption, SesInv, NEW s \in Sesiones, Inactiva(s)
  PROVE  SesInv'
<1>1. SesionesTypeOK'
  BY DEF SesInv, SesionesTypeOK, Inactiva, Terminadas, DeSesion, Claves, SesionesAssumption
<1>2. SinActivas'
  BY DEF SesInv, Inactiva, Terminadas, Activas, SesionesTypeOK, Peticion, ConCandado,
         DelCanje, DelReset, SinActivas, DeSesion
<1>3. ResetCierraTodo'
  BY DEF SesInv, Inactiva, Terminadas, Activas, SesionesTypeOK, Pasadas, ResetCierraTodo,
         DeProveedor, DeSesion, Claves
<1>4. LimiteSesiones'
  BY LimiteQueda DEF SesInv, Inactiva, Activas, Terminadas, SesionesTypeOK, DeSesion
<1>5. ConCandado' /\ Pasadas' /\ Credencial' /\ Cuenta'
  BY DEF SesInv, Inactiva, Terminadas, Activas, SesionesTypeOK, Peticion, ConCandado,
         DelCanje, DelReset, Claves, Pasadas, Credencial, ResetCierraTodo, DeProveedor,
         Cuenta
<1> QED
  BY <1>1, <1>2, <1>3, <1>4, <1>5 DEF SesInv

LEMMA CerrarBien ==
  ASSUME SesionesAssumption, SesInv, NEW s \in Sesiones, Cerrar(s)
  PROVE  SesInv'
<1>1. SesionesTypeOK'
  BY DEF SesInv, SesionesTypeOK, Cerrar, Terminadas, DeSesion, Claves, SesionesAssumption
<1>2. SinActivas'
  BY DEF SesInv, Cerrar, Terminadas, Activas, SesionesTypeOK, Peticion, ConCandado,
         DelCanje, DelReset, SinActivas, DeSesion
<1>3. ResetCierraTodo'
  BY DEF SesInv, Cerrar, Terminadas, Activas, SesionesTypeOK, Pasadas, ResetCierraTodo,
         DeProveedor, DeSesion, Claves
<1>4. LimiteSesiones'
  BY LimiteQueda DEF SesInv, Cerrar, Activas, Terminadas, SesionesTypeOK, DeSesion
<1>5. ConCandado' /\ Pasadas' /\ Credencial' /\ Cuenta'
  BY DEF SesInv, Cerrar, Terminadas, Activas, SesionesTypeOK, Peticion, ConCandado,
         DelCanje, DelReset, Claves, Pasadas, Credencial, ResetCierraTodo, DeProveedor,
         Cuenta
<1> QED
  BY <1>1, <1>2, <1>3, <1>4, <1>5 DEF SesInv

LEMMA RevocarAdminBien ==
  ASSUME SesionesAssumption, SesInv, NEW cuales \in SUBSET Sesiones, RevocarAdmin(cuales)
  PROVE  SesInv'
<1>1. SesionesTypeOK'
  BY DEF SesInv, SesionesTypeOK, RevocarAdmin, Terminadas, DeSesion, Claves,
         SesionesAssumption
<1>2. SinActivas'
  BY DEF SesInv, RevocarAdmin, Terminadas, SesionesTypeOK, Peticion, ConCandado, DelCanje,
         DelReset, SinActivas, DeSesion
<1>3. ResetCierraTodo'
  BY DEF SesInv, RevocarAdmin, Terminadas, SesionesTypeOK, Pasadas, ResetCierraTodo,
         DeProveedor, DeSesion, Claves
<1>4. LimiteSesiones'
  BY LimiteQueda DEF SesInv, RevocarAdmin, Activas, Terminadas, SesionesTypeOK, DeSesion
<1>5. ConCandado' /\ Pasadas' /\ Credencial' /\ Cuenta'
  BY DEF SesInv, RevocarAdmin, Terminadas, SesionesTypeOK, Peticion, ConCandado, DelCanje,
         DelReset, Claves, Pasadas, Credencial, ResetCierraTodo, DeProveedor, Cuenta
<1> QED
  BY <1>1, <1>2, <1>3, <1>4, <1>5 DEF SesInv

LEMMA CambiarAccesoBien ==
  ASSUME SesionesAssumption, SesInv, NEW e \in {"activo", "bloqueado", "inactivo",
         "pendiente_password"}, CambiarAcceso(e)
  PROVE  SesInv'
<1>1. SesionesTypeOK'
  BY DEF SesInv, CambiarAcceso, SesionesTypeOK
<1>2. Cuenta'
  BY DEF SesInv, CambiarAcceso, SesionesTypeOK, Peticion, ConCandado, DelCanje, DelReset,
         Cuenta
<1>3. LimiteSesiones'
  BY LimiteQueda DEF SesInv, CambiarAcceso, Activas
<1>4. ConCandado' /\ Pasadas' /\ Credencial' /\ SinActivas' /\ ResetCierraTodo'
  BY DEF SesInv, CambiarAcceso, SesionesTypeOK, Peticion, ConCandado, DelCanje, DelReset,
         Claves, Pasadas, Credencial, ResetCierraTodo, DeProveedor, SinActivas, DeSesion
<1> QED
  BY <1>1, <1>2, <1>3, <1>4 DEF SesInv

LEMMA PasarVentanaBien ==
  ASSUME SesionesAssumption, SesInv, PasarVentana
  PROVE  SesInv'
<1>1. SesionesTypeOK'
  BY DEF SesInv, PasarVentana, SesionesTypeOK
<1>2. Cuenta'
  BY DEF SesInv, PasarVentana, SesionesTypeOK, Peticion, ConCandado, DelCanje, DelReset,
         Cuenta
<1>3. LimiteSesiones'
  BY LimiteQueda DEF SesInv, PasarVentana, Activas
<1>4. ConCandado' /\ Pasadas' /\ Credencial' /\ SinActivas' /\ ResetCierraTodo'
  BY DEF SesInv, PasarVentana, SesionesTypeOK, Peticion, ConCandado, DelCanje, DelReset,
         Claves, Pasadas, Credencial, ResetCierraTodo, DeProveedor, SinActivas, DeSesion
<1> QED
  BY <1>1, <1>2, <1>3, <1>4 DEF SesInv

LEMMA PasarBloqueoBien ==
  ASSUME SesionesAssumption, SesInv, PasarBloqueo
  PROVE  SesInv'
<1>1. SesionesTypeOK'
  BY DEF SesInv, PasarBloqueo, SesionesTypeOK
<1>2. Cuenta'
  BY DEF SesInv, PasarBloqueo, SesionesTypeOK, Peticion, ConCandado, DelCanje, DelReset,
         Cuenta
<1>3. LimiteSesiones'
  BY LimiteQueda DEF SesInv, PasarBloqueo, Activas
<1>4. ConCandado' /\ Pasadas' /\ Credencial' /\ SinActivas' /\ ResetCierraTodo'
  BY DEF SesInv, PasarBloqueo, SesionesTypeOK, Peticion, ConCandado, DelCanje, DelReset,
         Claves, Pasadas, Credencial, ResetCierraTodo, DeProveedor, SinActivas, DeSesion
<1> QED
  BY <1>1, <1>2, <1>3, <1>4 DEF SesInv

LEMMA CaerBien ==
  ASSUME SesionesAssumption, SesInv, NEW p \in Procesos, Caer(p)
  PROVE  SesInv'
<1>1. SesionesTypeOK'
  <2>1. proc[p] \in Peticion
    BY DEF SesInv, SesionesTypeOK
  <2>2. Libre \in Peticion
    BY <2>1, PeticionNueva
  <2>3. proc' = [proc EXCEPT ![p] = Libre]
    BY <2>1 DEF Caer, Termina, Sigue, Peticion
  <2>4. proc' \in [Procesos -> Peticion]
    BY <2>1, <2>2, <2>3 DEF SesInv, SesionesTypeOK
  <2> QED
    BY <2>4 DEF SesInv, SesionesTypeOK, Caer, Termina, Sigue
<1>2. ConCandado'
  BY DEF SesInv, Caer, Libre, SesionesTypeOK, Peticion, ConCandado, DelCanje, DelReset
<1>3. Credencial'
  BY DEF SesInv, Caer, Libre, SesionesTypeOK, Peticion, ConCandado, DelCanje, DelReset,
         Pasadas, Credencial, ResetCierraTodo, DeProveedor, Claves
<1>4. SinActivas'
  BY DEF SesInv, Caer, Libre, SesionesTypeOK, Peticion, ConCandado, DelCanje, DelReset,
         SinActivas, DeSesion
<1>5. Cuenta'
  BY DEF SesInv, Caer, Libre, SesionesTypeOK, Peticion, ConCandado, DelCanje, DelReset,
         Cuenta
<1>6. LimiteSesiones'
  BY LimiteQueda DEF SesInv, Caer, Activas
<1>7. Pasadas' /\ ResetCierraTodo'
  BY DEF SesInv, Caer, Libre, SesionesTypeOK, Claves, Pasadas, ResetCierraTodo, DeProveedor,
         DeSesion
<1> QED
  BY <1>1, <1>2, <1>3, <1>4, <1>5, <1>6, <1>7 DEF SesInv

-----------------------------------------------------------------------------
(* The invariant *)

LEMMA InicioBien == ASSUME SesionesAssumption, Init PROVE SesInv
<1>1. SesionesTypeOK
  <2>1. Libre \in Peticion
    BY DEF Libre, Peticion, Pasos, Claves, SesionesAssumption
  <2>2. 0 \in Claves /\ fallidos \in 0..Umbral /\ caidas \in 0..MaxCaidas
    BY DEF Init, Claves, SesionesAssumption
  <2> QED
    BY <2>1, <2>2 DEF Init, SesionesTypeOK, DeProveedor, DeSesion
<1>2. ConCandado /\ Pasadas /\ Credencial /\ SinActivas /\ ResetCierraTodo
  BY DEF Init, Libre, ConCandado, Pasadas, Credencial, SinActivas, ResetCierraTodo,
         DelCanje, DelReset
<1>3. Cuenta
  BY DEF Init, Libre, Cuenta, SesionesAssumption
<1>4. LimiteSesiones
  <2>1. Activas = {}
    BY DEF Init, Activas
  <2> QED
    BY <2>1, FS_EmptySet, LimitePositivo DEF LimiteSesiones
<1> QED
  BY <1>1, <1>2, <1>3, <1>4 DEF SesInv

LEMMA PasoBien == ASSUME SesionesAssumption, SesInv, [Next]_vars PROVE SesInv'
<1>1. ASSUME NEW p \in Procesos, Paso(p) PROVE SesInv'
  BY <1>1, TomarBien, VerificarBien, AdmitirBien, RevisarBien, AbrirBien, AcertarBien,
     RevocarBien, CambiarClaveBien, SalirDeTodasBien DEF Paso
<1>2. ASSUME NEW s \in Sesiones, RevocarAdmin({s}) \/ RevocarAdmin(Sesiones) PROVE SesInv'
  BY <1>2, RevocarAdminBien
<1>3. CASE RevocarAdmin(Sesiones)
  BY <1>3, RevocarAdminBien
<1>4. CASE UNCHANGED vars
  <2>1. LimiteSesiones'
    BY <1>4, LimiteQueda DEF vars, SesInv, Activas
  <2> QED
    BY <1>4, <2>1
    DEF vars, SesInv, SesionesTypeOK, ConCandado, Pasadas, Credencial, SinActivas,
                      Cuenta, ResetCierraTodo
<1> QED
  BY <1>1, <1>2, <1>3, <1>4, EntrarProveedorBien, SalirProveedorBien, LoginBien, CanjeBien,
     ResetBien, DesistirBien, CaerBien, VencerBien, MarcarVencidaBien, InactivaBien, CerrarBien,
     CambiarAccesoBien, PasarVentanaBien, PasarBloqueoBien DEF Next

\* The inductive invariant holds in every reachable state.
THEOREM SesionesInvariante == SesionesSpec => []SesInv
<1>1. Init => SesInv
  BY InicioBien, SesionesAssumption
<1>2. SesInv /\ [Next]_vars => SesInv'
  BY PasoBien, SesionesAssumption
<1> QED
  BY <1>1, <1>2, PTL DEF SesionesSpec

\* The account, its sessions on both sides and the requests have their types;
\* failures are counted up to the threshold.
THEOREM SesionesTipo == SesionesSpec => []SesionesTypeOK
<1>1. SesInv => SesionesTypeOK
  BY DEF SesInv
<1> QED
  BY <1>1, SesionesInvariante, PTL

\* A reset that was confirmed ends every access obtained before it, in the
\* application and at the provider, whatever overlaps, fails or dies.
THEOREM SesionesResetCierra == SesionesSpec => []ResetCierraTodo
<1>1. SesInv => ResetCierraTodo
  BY DEF SesInv
<1> QED
  BY <1>1, SesionesInvariante, PTL

\* An account never has more sessions than the strictest of its policies
\* allows, for any set of policies.
THEOREM SesionesLimite == SesionesSpec => []LimiteSesiones
<1>1. SesInv => LimiteSesiones
  BY DEF SesInv
<1> QED
  BY <1>1, SesionesInvariante, PTL

\* Only Abrir makes a session of a free row.
LEMMA SoloAbrir ==
  ASSUME SesionesTypeOK, Next, NEW s \in Sesiones,
         sesion[s].estado = "ninguna", sesion'[s].estado = "activa"
  PROVE  \E p \in Procesos, t \in Sesiones : Abrir(p, t)
<1>1. SUFFICES ASSUME \A p \in Procesos, t \in Sesiones : ~Abrir(p, t)
               PROVE  sesion'[s].estado # "activa"
  OBVIOUS
<1>2. \A de \in SUBSET Sesiones : Terminadas(de, sesion)[s].estado # "activa"
  BY DEF Terminadas
<1>3. CASE sesion' = sesion
  BY <1>3
<1>4. ASSUME NEW p \in Procesos, Paso(p) PROVE sesion'[s].estado # "activa"
  BY <1>1, <1>2, <1>4 DEF Paso, Tomar, Verificar, Admitir, Revisar, Acertar, Revocar,
                         CambiarClave, SalirDeTodas
<1>5. ASSUME NEW t \in Sesiones,
             \/ Vencer(t) \/ MarcarVencida(t) \/ Inactiva(t) \/ Cerrar(t) \/ RevocarAdmin({t})
             \/ RevocarAdmin(Sesiones)
      PROVE  sesion'[s].estado # "activa"
  <2>1. CASE Vencer(t)
    BY <2>1 DEF Vencer, SesionesTypeOK, DeSesion
  <2> QED
    BY <1>2, <1>5, <2>1 DEF MarcarVencida, Inactiva, Cerrar, RevocarAdmin
<1> QED
  BY <1>1, <1>3, <1>4, <1>5
  DEF Next, EntrarProveedor, SalirProveedor, Login, Reset, Canje, Desistir, Caer, CambiarAcceso,
      PasarVentana, PasarBloqueo

\* No session is opened while the user has as many failures as lock him, not
\* even by a request that looked at the lock before.
THEOREM SesionesBloqueoVale == SesionesSpec => BloqueoVale
<1>1. SesInv /\ [Next]_vars =>
        [\A s \in Sesiones :
            sesion[s].estado = "ninguna" /\ sesion'[s].estado = "activa" => fallidos < Umbral]_vars
  <2>1. ASSUME SesInv, Next, NEW s \in Sesiones,
               sesion[s].estado = "ninguna", sesion'[s].estado = "activa"
        PROVE  fallidos < Umbral
    <3>1. PICK p \in Procesos, t \in Sesiones : Abrir(p, t)
      BY <2>1, SoloAbrir DEF SesInv
    <3> QED
      BY <2>1, <3>1 DEF SesInv, Cuenta, Abrir
  <2> QED
    BY <2>1
<1> QED
  BY <1>1, SesionesInvariante, PTL DEF SesionesSpec, BloqueoVale
=============================================================================
