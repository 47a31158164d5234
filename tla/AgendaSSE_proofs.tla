-------------------------- MODULE AgendaSSE_proofs --------------------------
(***************************************************************************)
(* Proofs about the streams of AgendaSSE for any number of browsers, rows  *)
(* and addresses and any limits.                                           *)
(*                                                                         *)
(* Connections: the counters are exact, the limits hold, and a stream      *)
(* whose end was noticed leaves no subscriber (ConexionesInv).  Every step *)
(* of a stream replaces one record by an admissible one (lemmas            *)
(* VolcarMismo to ConcluirAdmisible); a step that takes subscribers away   *)
(* takes them off the counters (BajasContadas); and Registrar adds one     *)
(* subscriber that was not in the map.                                     *)
(*                                                                         *)
(* Rows: nothing that a stream owes its browser gets lost (FlujoInv).  A   *)
(* row that commits is beyond every id there is or counts as late, and a   *)
(* row cleaned in time is below everything that is visible or may yet be   *)
(* (DatosInv).  A poll's rows leave no gap after the cursor (SinSaltos)    *)
(* nor a replay batch's after its place (Repone).  The channel of a stream *)
(* is faithful: no frame of it runs ahead of a row the browser is owed     *)
(* (Fiel), whatever flush repeats (VolcarSano), a batch adds               *)
(* (EntregarSano), an overflow or a lost connection cuts off (CorteSano,   *)
(* FielPrefijo) or the browser reads (RecibeSano).  So its Last-Event-ID   *)
(* covers only rows it knows (Posicion), and what the cursor passed was    *)
(* received or is on its way (AlDia).                                      *)
(***************************************************************************)
EXTENDS AgendaSSE, FiniteSetTheorems, SequenceTheorems, TLAPS

Campos == DOMAIN Inactiva

\* What the proofs need of a record: its shape and the type of three fields.
Registro(s) ==
    /\ DOMAIN s = Campos
    /\ s.rutina \in Rutinas /\ s.suscrito \in BOOLEAN /\ s.ido \in BOOLEAN

\* A subscriber is in the map only while its handler runs or the route holds
\* it; once the route noticed the end, only while its handler runs.
Bien(s) ==
    /\ s.rutina \in {"fuera", "sucursal"} => ~s.suscrito
    /\ s.ido /\ s.rutina \notin EnAlta => ~s.suscrito

Mismo(s, t) == t.rutina = s.rutina /\ t.ido = s.ido /\ t.suscrito = s.suscrito

Baja(s, t) == t.rutina = s.rutina /\ t.ido = s.ido /\ (t.suscrito => s.suscrito)

Admisible(c, t) == Registro(t) /\ Bien(t) /\ (t.suscrito => con[c].suscrito)

ConexionesInv ==
    /\ con = [c \in Clientes |-> con[c]]
    /\ \A c \in Clientes : Registro(con[c]) /\ Bien(con[c])
    /\ porIp \in [Ips -> Nat]
    /\ ConexionesContadas
    /\ LimiteConexiones

-----------------------------------------------------------------------------
(* The operators on a record *)

\* flush changes neither the handler's place nor the membership of the map.
LEMMA VolcarMismo ==
    ASSUME NEW s, Registro(s)
    PROVE  Registro(Volcar(s)) /\ Mismo(s, Volcar(s))
BY DEF Registro, Campos, Inactiva, Volcar, Mismo

\* Nor does a change of the other fields followed by a flush.
LEMMA CerrarSocketMismo ==
    ASSUME NEW s, Registro(s)
    PROVE  Registro(CerrarSocket(s)) /\ Mismo(s, CerrarSocket(s))
BY DEF Registro, Campos, Inactiva, CerrarSocket, Mismo

LEMMA ColaMismo ==
    ASSUME NEW s, Registro(s), NEW q
    PROVE  Registro([s EXCEPT !.cola = q]) /\ Mismo(s, [s EXCEPT !.cola = q])
BY DEF Registro, Campos, Inactiva, Mismo

\* closeLocal
LEMMA CerrarLocalBaja ==
    ASSUME NEW s, Registro(s)
    PROVE  /\ Registro(CerrarLocal(s)) /\ Baja(s, CerrarLocal(s))
           /\ ~CerrarLocal(s).suscrito
<1>1. Registro(CerrarSocket(s)) /\ Mismo(s, CerrarSocket(s))
  BY CerrarSocketMismo
<1> DEFINE t == CerrarSocket(s)
<1>2. Registro(t) /\ Mismo(s, t)
  BY <1>1
<1>3. CerrarLocal(s) = IF s.suscrito THEN [t EXCEPT !.suscrito = FALSE, !.cola = <<>>] ELSE s
  BY DEF CerrarLocal
<1> QED
  BY <1>2, <1>3 DEF Registro, Campos, Inactiva, Mismo, Baja

\* deliver keeps the handler's place and never adds to the map.
LEMMA EntregarBaja ==
    ASSUME NEW c, NEW s, Registro(s), NEW filas
    PROVE  Registro(Entregar(c, s, filas)) /\ Baja(s, Entregar(c, s, filas))
<1> DEFINE q == s.cola \o Ordenada(Nuevas(c, s, filas))
           s1 == [s EXCEPT !.cola = q]
           t == Volcar(s1)
           t1 == [t EXCEPT !.cola = Append(t.cola, RESYNC)]
           u == CerrarSocket(Volcar(t1))
<1>1. Registro(s1) /\ Mismo(s, s1)
  BY ColaMismo
<1>2. Registro(t) /\ Mismo(s, t)
  <2>1. Registro(t) /\ Mismo(s1, t)
    BY <1>1, VolcarMismo
  <2> QED
    BY <2>1, <1>1 DEF Mismo
<1>3. Registro(t1) /\ Mismo(t, t1)
  BY <1>2, ColaMismo
<1>4. Registro(Volcar(t1)) /\ Mismo(t1, Volcar(t1))
  BY <1>3, VolcarMismo
<1>5. Registro(u) /\ Mismo(Volcar(t1), u)
  BY <1>4, CerrarSocketMismo
<1>6. Mismo(s, u)
  BY <1>2, <1>3, <1>4, <1>5 DEF Mismo
<1>7. Registro(Desbordar(t)) /\ Baja(s, Desbordar(t))
  <2>1. Desbordar(t) = [u EXCEPT !.suscrito = FALSE]
    BY DEF Desbordar
  <2> HIDE DEF u, t
  <2> QED
    BY <1>5, <1>6, <2>1 DEF Registro, Campos, Inactiva, Mismo, Baja
<1>8. Entregar(c, s, filas) = IF ~s.suscrito \/ Nuevas(c, s, filas) = {} THEN s
                              ELSE IF Len(t.cola) > BufferMax THEN Desbordar(t) ELSE t
  BY DEF Entregar
<1> HIDE DEF t
<1>9. CASE Entregar(c, s, filas) = s
  BY <1>9 DEF Baja
<1>10. CASE Entregar(c, s, filas) = t
  BY <1>10, <1>2 DEF Baja, Mismo
<1>11. CASE Entregar(c, s, filas) = Desbordar(t)
  BY <1>11, <1>7
<1> QED
  BY <1>8, <1>9, <1>10, <1>11

\* The end of subscribe: the route keeps the subscriber, or takes it out of the
\* map when it saw the stream end meanwhile.
LEMMA ConcluirAdmisible ==
    ASSUME NEW c \in Clientes, NEW s, Registro(s), s.suscrito => con[c].suscrito,
           Concluir(c, s)
    PROVE  \E t : Admisible(c, t) /\ Cambia(c, t)
<1> DEFINE t == Volcar(s)
           u == CerrarLocal(t)
<1>1. Registro(t) /\ Mismo(s, t)
  BY VolcarMismo
<1>2. Registro(u) /\ ~u.suscrito
  BY <1>1, CerrarLocalBaja
<1>3. IF t.ido THEN Cambia(c, [u EXCEPT !.rutina = "fuera"])
      ELSE Cambia(c, [t EXCEPT !.rutina = "vivo"])
  BY DEF Concluir
<1> HIDE DEF t, u
<1>4. CASE t.ido
  <2>1. Admisible(c, [u EXCEPT !.rutina = "fuera"])
    BY <1>2 DEF Admisible, Registro, Campos, Inactiva, Bien, Rutinas
  <2> QED
    BY <2>1, <1>3, <1>4
<1>5. CASE ~t.ido
  <2>1. Admisible(c, [t EXCEPT !.rutina = "vivo"])
    BY <1>1, <1>5 DEF Admisible, Registro, Campos, Inactiva, Bien, Rutinas, Mismo
  <2> QED
    BY <2>1, <1>3, <1>5
<1> QED
  BY <1>4, <1>5

LEMMA RehusarAdmisible ==
    ASSUME NEW c \in Clientes, NEW s, Registro(s), s.suscrito => con[c].suscrito,
           Rehusar(c, s)
    PROVE  \E t : Admisible(c, t) /\ Cambia(c, t)
<1> DEFINE q == Append(s.cola, RESYNC)
           s1 == [s EXCEPT !.cola = q]
           t1 == Volcar(s1)
           u == [t1 EXCEPT !.enviado = s.marca]
           v == [s EXCEPT !.enviado = s.marca]
<1>1. Registro(s1) /\ Mismo(s, s1)
  BY ColaMismo
<1>2. Registro(t1) /\ Mismo(s1, t1)
  BY <1>1, VolcarMismo
<1>3. Registro(v) /\ Mismo(s, v)
  BY DEF Registro, Campos, Inactiva, Mismo
<1>4. IF s.suscrito THEN Concluir(c, u) ELSE Concluir(c, v)
  BY DEF Rehusar
<1>5. Registro(u) /\ Mismo(s, u)
  <2> HIDE DEF t1, s1
  <2> QED
    BY <1>1, <1>2 DEF Registro, Campos, Inactiva, Mismo
<1> HIDE DEF u, v
<1> QED
  BY <1>3, <1>4, <1>5, ConcluirAdmisible DEF Mismo

LEMMA SeguirAdmisible ==
    ASSUME NEW c \in Clientes, NEW s, Registro(s), s.suscrito => con[c].suscrito,
           Seguir(c, s)
    PROVE  \E t : Admisible(c, t) /\ Cambia(c, t)
<1>1. Admisible(c, [s EXCEPT !.rutina = "leer"])
  BY DEF Admisible, Registro, Campos, Inactiva, Bien, Rutinas, EnAlta
<1> QED
  BY <1>1, ConcluirAdmisible DEF Seguir

\* cleanup
LEMMA LimpiezaAdmisible ==
    ASSUME NEW c \in Clientes, NEW s, Registro(s), s.rutina # "sucursal", s.suscrito =>
           con[c].suscrito,
           s.rutina = "fuera" => ~s.suscrito
    PROVE  Admisible(c, Limpieza(s))
<1> DEFINE u == CerrarLocal(s)
<1>1. Registro(u) /\ Baja(s, u) /\ ~u.suscrito
  BY CerrarLocalBaja
<1>2. Limpieza(s) = IF s.rutina = "vivo" THEN [u EXCEPT !.rutina = "fuera", !.ido = TRUE]
                    ELSE [s EXCEPT !.ido = TRUE]
  BY DEF Limpieza
<1> HIDE DEF u
<1>3. CASE s.rutina = "vivo"
  BY <1>1, <1>2, <1>3 DEF Admisible, Registro, Campos, Inactiva, Bien, Rutinas
<1>4. CASE s.rutina # "vivo"
  BY <1>2, <1>4 DEF Admisible, Registro, Campos, Inactiva, Bien, Rutinas, EnAlta
<1> QED
  BY <1>3, <1>4

-----------------------------------------------------------------------------
(* The counters *)

EnIp(S, ip) == {c \in S : IpDe[c] = ip}

\* The subscribers of an address after some left: their number is the
\* difference, which is what releaseIp computes one at a time.
LEMMA CuentaBajas ==
    ASSUME NEW S \in SUBSET Clientes, NEW B \in SUBSET S, NEW ip
    PROVE  /\ Cardinality(EnIp(S, ip)) \in Nat /\ Cardinality(EnIp(B, ip)) \in Nat
           /\ Cardinality(EnIp(B, ip)) <= Cardinality(EnIp(S, ip))
           /\ Cardinality(EnIp(S \ B, ip)) = Cardinality(EnIp(S, ip)) - Cardinality(EnIp(B, ip))
           /\ Cardinality(S \ B) <= Cardinality(S) /\ Cardinality(S) \in Nat
           /\ Cardinality(S \ B) \in Nat
<1>1. IsFiniteSet(S) /\ IsFiniteSet(EnIp(S, ip))
  BY AgendaAssumption, FS_Subset DEF AgendaAssumption, EnIp
<1>2. EnIp(B, ip) \subseteq EnIp(S, ip) /\ S \ B \subseteq S
  BY DEF EnIp
<1>3. /\ EnIp(S \ B, ip) = EnIp(S, ip) \ EnIp(B, ip)
      /\ EnIp(S, ip) \cap EnIp(B, ip) = EnIp(B, ip)
  BY DEF EnIp
<1>4. Cardinality(EnIp(S, ip) \ EnIp(B, ip))
        = Cardinality(EnIp(S, ip)) - Cardinality(EnIp(S, ip) \cap EnIp(B, ip))
  BY <1>1, FS_Difference
<1>5. IsFiniteSet(EnIp(B, ip)) /\ Cardinality(EnIp(B, ip)) <= Cardinality(EnIp(S, ip))
  BY <1>1, <1>2, FS_Subset
<1>6. IsFiniteSet(S \ B) /\ Cardinality(S \ B) <= Cardinality(S)
  BY <1>1, <1>2, FS_Subset
<1> QED
  BY <1>1, <1>3, <1>4, <1>5, <1>6, FS_CardinalityType

\* A step that takes the subscribers B out of the map and off the counters
\* keeps the counters exact and the limits.
LEMMA BajasContadas ==
    ASSUME porIp \in [Ips -> Nat], ConexionesContadas, LimiteConexiones,
           NEW B \in SUBSET Registrados, Registrados' = Registrados \ B, porIp' = Liberar(B)
    PROVE  porIp' \in [Ips -> Nat] /\ ConexionesContadas' /\ LimiteConexiones'
<1>1. Registrados \in SUBSET Clientes
  BY DEF Registrados
<1> DEFINE n(ip) == Cardinality(EnIp(B, ip))
           m(ip) == Cardinality(EnIp(Registrados, ip))
<1>2. \A ip : /\ m(ip) \in Nat /\ n(ip) \in Nat /\ n(ip) <= m(ip)
             /\ Cardinality(EnIp(Registrados \ B, ip)) = m(ip) - n(ip)
  BY <1>1, CuentaBajas
<1>3. /\ Cardinality(Registrados \ B) <= Cardinality(Registrados)
      /\ Cardinality(Registrados) \in Nat /\ Cardinality(Registrados \ B) \in Nat
  BY <1>1, CuentaBajas
<1>4. \A ip \in Ips : porIp[ip] = m(ip) /\ m(ip) <= MaxPorIp
  BY DEF ConexionesContadas, LimiteConexiones, EnIp
<1>5. porIp' = [ip \in Ips |-> IF porIp[ip] <= n(ip) THEN 0 ELSE porIp[ip] - n(ip)]
  BY DEF Liberar, EnIp
<1>6. \A ip \in Ips : Cardinality({c \in Registrados' : IpDe[c] = ip}) = m(ip) - n(ip)
  BY <1>2 DEF EnIp
<1> HIDE DEF n, m
<1>7. \A ip \in Ips : porIp'[ip] = m(ip) - n(ip) /\ m(ip) - n(ip) \in Nat /\ m(ip) - n(ip) <= MaxPorIp
  BY <1>2, <1>4, <1>5, AgendaAssumption DEF AgendaAssumption
<1>8. porIp' \in [Ips -> Nat]
  BY <1>5, <1>7
<1>9. ConexionesContadas'
  BY <1>6, <1>7 DEF ConexionesContadas
<1>10. LimiteConexiones'
  <2>1. Cardinality(Registrados') <= MaxGlobal
    BY <1>3, AgendaAssumption DEF LimiteConexiones, AgendaAssumption
  <2> QED
    BY <2>1, <1>6, <1>7 DEF LimiteConexiones
<1> QED
  BY <1>8, <1>9, <1>10

\* A step of one stream that replaces its record by an admissible one
LEMMA CambiaConserva ==
    ASSUME ConexionesInv, NEW c \in Clientes, NEW t, Admisible(c, t), Cambia(c, t)
    PROVE  ConexionesInv'
<1> DEFINE B == IF con[c].suscrito /\ ~t.suscrito THEN {c} ELSE {}
<1>1. con' = [con EXCEPT ![c] = t] /\ porIp' = Liberar(B)
  BY DEF Cambia
<1>2. con' = [d \in Clientes |-> IF d = c THEN t ELSE con[d]]
  BY <1>1 DEF ConexionesInv
<1>3. B \in SUBSET Registrados
  BY DEF Registrados
<1>4. Registrados' = Registrados \ B
  BY <1>2 DEF Registrados, Admisible, Registro, ConexionesInv
<1> HIDE DEF B
<1>5. porIp' \in [Ips -> Nat] /\ ConexionesContadas' /\ LimiteConexiones'
  BY <1>1, <1>3, <1>4, BajasContadas DEF ConexionesInv
<1>6. \A d \in Clientes : Registro(con'[d]) /\ Bien(con'[d])
  BY <1>2 DEF ConexionesInv, Admisible
<1> QED
  BY <1>2, <1>5, <1>6 DEF ConexionesInv

-----------------------------------------------------------------------------
(* The steps *)

LEMMA InicioConexiones == AgendaInit => ConexionesInv
<1> SUFFICES ASSUME AgendaInit PROVE ConexionesInv
  OBVIOUS
<1>1. con = [c \in Clientes |-> Inactiva] /\ porIp = [ip \in Ips |-> 0]
  BY DEF AgendaInit
<1>2. Registro(Inactiva) /\ Bien(Inactiva) /\ ~Inactiva.suscrito
  BY DEF Registro, Campos, Bien, Inactiva, Rutinas
<1>3. \A ip : {c \in Registrados : IpDe[c] = ip} = {}
  BY <1>1, <1>2 DEF Registrados
<1>4. Registrados = {}
  BY <1>1, <1>2 DEF Registrados
<1> HIDE DEF Inactiva
<1>5. ConexionesContadas /\ LimiteConexiones
  BY <1>1, <1>3, <1>4, FS_EmptySet, AgendaAssumption
     DEF ConexionesContadas, LimiteConexiones, AgendaAssumption
<1> QED
  BY <1>1, <1>2, <1>5 DEF ConexionesInv

\* A step that leaves the streams and the counters alone
LEMMA QuietoConserva ==
    ASSUME ConexionesInv, con' = con, porIp' = porIp
    PROVE  ConexionesInv'
BY DEF ConexionesInv, ConexionesContadas, LimiteConexiones, Registrados

\* A poll closes the subscribers whose queue overflows, several at a time.
LEMMA ReparteConserva ==
    ASSUME ConexionesInv, PollReparte
    PROVE  ConexionesInv'
<1> DEFINE e(c) == Entregar(c, con[c], poll.filas)
           B == {c \in Registrados : ~con'[c].suscrito}
<1>1. con' = [c \in Clientes |-> e(c)] /\ porIp' = Liberar(B)
  BY DEF PollReparte
<1>2. \A c \in Clientes : Registro(e(c)) /\ Baja(con[c], e(c))
  BY EntregarBaja DEF ConexionesInv
<1> HIDE DEF e
<1>3. Registrados' = Registrados \ B
  BY <1>1, <1>2 DEF Registrados, Baja
<1>4. \A c \in Clientes : Registro(con'[c]) /\ Bien(con'[c])
  BY <1>1, <1>2 DEF ConexionesInv, Bien, Baja
<1>5. B \in SUBSET Registrados
  OBVIOUS
<1> HIDE DEF B
<1>6. porIp' \in [Ips -> Nat] /\ ConexionesContadas' /\ LimiteConexiones'
  BY <1>1, <1>3, <1>5, BajasContadas DEF ConexionesInv
<1> QED
  BY <1>1, <1>4, <1>6 DEF ConexionesInv

\* The death of the process empties the map and the counters.
LEMMA CaerConserva ==
    ASSUME ConexionesInv, Caer
    PROVE  ConexionesInv'
<1>1. con' = [c \in Clientes |-> Inactiva] /\ porIp' = [ip \in Ips |-> 0]
  BY DEF Caer
<1>2. Registro(Inactiva) /\ Bien(Inactiva) /\ ~Inactiva.suscrito
  BY DEF Registro, Campos, Bien, Inactiva, Rutinas
<1>3. Registrados' = {} /\ \A ip : {c \in Registrados' : IpDe[c] = ip} = {}
  BY <1>1, <1>2 DEF Registrados
<1> HIDE DEF Inactiva
<1>4. ConexionesContadas' /\ LimiteConexiones'
  BY <1>1, <1>3, FS_EmptySet, AgendaAssumption
     DEF ConexionesContadas, LimiteConexiones, AgendaAssumption
<1> QED
  BY <1>1, <1>2, <1>4 DEF ConexionesInv

\* subscribe adds a subscriber that was not in the map, within the limits that
\* canAcceptConnection has just checked.
LEMMA RegistrarConserva ==
    ASSUME ConexionesInv, NEW c \in Clientes, Registrar(c)
    PROVE  ConexionesInv'
<1> DEFINE t == [con[c] EXCEPT !.rutina = "marca", !.suscrito = TRUE]
           R(ip) == {d \in Registrados : IpDe[d] = ip}
<1>1. con[c].rutina = "sucursal" /\ Registro(con[c]) /\ ~con[c].suscrito
  BY DEF Registrar, ConexionesInv, Bien
<1>2. con' = [con EXCEPT ![c].rutina = "marca", ![c].suscrito = TRUE]
  BY DEF Registrar
<1>3. con' = [d \in Clientes |-> IF d = c THEN t ELSE con[d]]
  BY <1>2 DEF ConexionesInv
<1>4. Registro(t) /\ t.suscrito /\ t.rutina = "marca"
  BY <1>1 DEF Registro, Campos, Inactiva, Rutinas, EnAlta
<1>5. porIp' = [porIp EXCEPT ![IpDe[c]] = @ + 1] /\ IpDe[c] \in Ips
  BY AgendaAssumption DEF Registrar, AgendaAssumption
<1>6. Cardinality(Registrados) < MaxGlobal /\ porIp[IpDe[c]] < MaxPorIp
  BY DEF Registrar, Admite
<1> HIDE DEF t
<1>7. Registrados' = Registrados \cup {c} /\ c \notin Registrados
  BY <1>1, <1>3, <1>4 DEF Registrados
<1>8. IsFiniteSet(Registrados)
  BY AgendaAssumption, FS_Subset DEF AgendaAssumption, Registrados
<1>9. \A ip \in Ips : IsFiniteSet(R(ip)) /\ Cardinality(R(ip)) \in Nat /\ porIp[ip] = Cardinality(R(ip))
  <2>1. \A ip : IsFiniteSet(R(ip))
    BY <1>8, FS_Subset
  <2> QED
    BY <2>1, FS_CardinalityType DEF ConexionesInv, ConexionesContadas
<1> DEFINE Rp(ip) == {d \in Registrados' : IpDe[d] = ip}
<1>10. \A ip \in Ips : Cardinality(Rp(ip)) = IF ip = IpDe[c] THEN Cardinality(R(ip)) + 1
                                             ELSE Cardinality(R(ip))
  <2> SUFFICES ASSUME NEW ip \in Ips
               PROVE  Cardinality(Rp(ip)) = IF ip = IpDe[c] THEN Cardinality(R(ip)) + 1
                                            ELSE Cardinality(R(ip))
    OBVIOUS
  <2>1. CASE ip = IpDe[c]
    <3>1. Rp(ip) = R(ip) \cup {c} /\ c \notin R(ip) /\ IsFiniteSet(R(ip))
      BY <1>7, <1>9, <2>1
    <3> HIDE DEF R, Rp
    <3> QED
      BY <2>1, <3>1, FS_AddElement
  <2>2. CASE ip # IpDe[c]
    <3>1. Rp(ip) = R(ip)
      BY <1>7, <2>2
    <3> QED
      BY <2>2, <3>1
  <2> QED
    BY <2>1, <2>2
<1>11. /\ Cardinality(Registrados') = Cardinality(Registrados) + 1
       /\ Cardinality(Registrados) \in Nat
  BY <1>7, <1>8, FS_AddElement, FS_CardinalityType
<1>12. \A ip \in Ips : Cardinality(R(ip)) <= MaxPorIp
  BY DEF ConexionesInv, LimiteConexiones
<1>13. ConexionesContadas' <=> \A ip \in Ips : porIp'[ip] = Cardinality(Rp(ip))
  BY DEF ConexionesContadas
<1>14. LimiteConexiones' <=> /\ Cardinality(Registrados') <= MaxGlobal
                            /\ \A ip \in Ips : Cardinality(Rp(ip)) <= MaxPorIp
  BY DEF LimiteConexiones
<1> HIDE DEF R, Rp
<1>15. porIp \in [Ips -> Nat]
  BY DEF ConexionesInv
<1>16. porIp' \in [Ips -> Nat] /\ ConexionesContadas'
  BY <1>5, <1>9, <1>10, <1>13, <1>15
<1>17. LimiteConexiones'
  BY <1>5, <1>6, <1>9, <1>10, <1>11, <1>12, <1>14, AgendaAssumption DEF AgendaAssumption
<1>18. \A d \in Clientes : Registro(con'[d]) /\ Bien(con'[d])
  BY <1>3, <1>4 DEF ConexionesInv, Bien, EnAlta
<1> QED
  BY <1>3, <1>16, <1>17, <1>18 DEF ConexionesInv

\* Every step of a stream other than Registrar is the replacement of its record
\* by an admissible one.
LEMMA AltaConserva ==
    ASSUME ConexionesInv, NEW c \in Clientes, Alta(c)
    PROVE  ConexionesInv'
<1>0. Registro(con[c]) /\ Bien(con[c])
  BY DEF ConexionesInv
<1> DEFINE Reemplaza == \E t : Admisible(c, t) /\ Cambia(c, t)
<1>1. CASE Pedir(c)
  <2> DEFINE t == [Inactiva EXCEPT !.rutina = "sucursal", !.socket = "abierto",
                                   !.desde = cliente[c].ultimo]
  <2>1. Admisible(c, t)
    BY DEF Admisible, Registro, Campos, Inactiva, Bien, Rutinas
  <2>2. Cambia(c, t)
    BY <1>1 DEF Pedir
  <2> QED
    BY <2>1, <2>2, CambiaConserva
<1>2. CASE Registrar(c)
  BY <1>2, RegistrarConserva
<1>3. CASE Rechazar(c)
  <2>1. Admisible(c, Inactiva)
    BY DEF Admisible, Registro, Campos, Inactiva, Bien, Rutinas
  <2>2. Cambia(c, Inactiva)
    BY <1>3 DEF Rechazar
  <2> QED
    BY <2>1, <2>2, CambiaConserva
<1>4. CASE LeerMarca(c)
  <2> DEFINE t == [con[c] EXCEPT !.marca = MaxId(outbox), !.rutina = "limites"]
  <2>1. Concluir(c, con[c]) \/ Cambia(c, t)
    BY <1>4 DEF LeerMarca
  <2>2. Admisible(c, t)
    BY <1>0 DEF Admisible, Registro, Campos, Inactiva, Bien, Rutinas, EnAlta
  <2> HIDE DEF t
  <2>3. Reemplaza
    BY <1>0, <2>1, <2>2, ConcluirAdmisible
  <2> QED
    BY <2>3, CambiaConserva
<1>5. CASE LeerLimites(c)
  <2> DEFINE t == [con[c] EXCEPT !.actual = con[c].desde]
  <2>1. Rehusar(c, con[c]) \/ Seguir(c, t)
    BY <1>5 DEF LeerLimites
  <2>2. Registro(t) /\ Mismo(con[c], t)
    BY <1>0 DEF Registro, Campos, Inactiva, Mismo
  <2> HIDE DEF t
  <2>3. Reemplaza
    BY <1>0, <2>1, <2>2, RehusarAdmisible, SeguirAdmisible DEF Mismo
  <2> QED
    BY <2>3, CambiaConserva
<1>6. CASE LeerReenvio(c)
  <2>1. PICK filas : Cambia(c, [con[c] EXCEPT !.rutina = "reenviar", !.lote = filas])
    BY <1>6 DEF LeerReenvio
  <2>2. Admisible(c, [con[c] EXCEPT !.rutina = "reenviar", !.lote = filas])
    BY <1>0 DEF Admisible, Registro, Campos, Inactiva, Bien, Rutinas, EnAlta
  <2> QED
    BY <2>1, <2>2, CambiaConserva
<1>7. CASE Reenviar(c)
  <2> DEFINE filas == Primeras(con[c].lote, MaxReenvio - con[c].reenviados)
             u == Entregar(c, con[c], filas)
             t == [u EXCEPT !.reenviados = @ + Cardinality(filas), !.lote = {},
                            !.actual = MaxId(filas \cup {@})]
  <2>1. Rehusar(c, t) \/ Concluir(c, t) \/ Seguir(c, t)
    BY <1>7 DEF Reenviar
  <2>2. Registro(u) /\ Baja(con[c], u)
    BY <1>0, EntregarBaja
  <2> HIDE DEF u, filas
  <2>3. Registro(t) /\ Mismo(u, t)
    BY <2>2 DEF Registro, Campos, Inactiva, Mismo
  <2> HIDE DEF t
  <2>4. Reemplaza
    BY <2>1, <2>2, <2>3, RehusarAdmisible, ConcluirAdmisible, SeguirAdmisible
    DEF Mismo, Baja
  <2> QED
    BY <2>4, CambiaConserva
<1>8. CASE AltaFalla(c)
  <2> DEFINE u == CerrarLocal(con[c])
  <2>1. Cambia(c, [u EXCEPT !.rutina = "fuera", !.ido = TRUE])
    BY <1>8 DEF AltaFalla
  <2>2. Registro(u) /\ ~u.suscrito
    BY <1>0, CerrarLocalBaja
  <2> HIDE DEF u
  <2>3. Admisible(c, [u EXCEPT !.rutina = "fuera", !.ido = TRUE])
    BY <2>2 DEF Admisible, Registro, Campos, Inactiva, Bien, Rutinas
  <2> QED
    BY <2>1, <2>3, CambiaConserva
<1> QED
  BY <1>1, <1>2, <1>3, <1>4, <1>5, <1>6, <1>7, <1>8 DEF Alta

LEMMA RedConserva ==
    ASSUME ConexionesInv, NEW c \in Clientes, Red(c)
    PROVE  ConexionesInv'
<1>0. Registro(con[c]) /\ Bien(con[c])
  BY DEF ConexionesInv
<1>1. CASE Vaciar(c)
  <2> DEFINE t == [con[c] EXCEPT !.transito = <<>>]
             r == [t EXCEPT !.pausado = FALSE]
             z == [t EXCEPT !.sordo = con[c].pausado]
  <2>1. \/ Cambia(c, t)
        \/ Cambia(c, Volcar(r))
        \/ Cambia(c, z)
    BY <1>1 DEF Vaciar
  <2>2. /\ Registro(t) /\ Mismo(con[c], t)
        /\ Registro(r) /\ Mismo(con[c], r)
        /\ Registro(z) /\ Mismo(con[c], z)
    BY <1>0 DEF Registro, Campos, Inactiva, Mismo
  <2> HIDE DEF t, r, z
  <2>3. Registro(Volcar(r)) /\ Mismo(r, Volcar(r))
    BY <2>2, VolcarMismo
  <2>4. Admisible(c, t) /\ Admisible(c, Volcar(r)) /\ Admisible(c, z)
    BY <1>0, <2>2, <2>3 DEF Admisible, Mismo, Bien
  <2> QED
    BY <2>1, <2>4, CambiaConserva
<1> DEFINE s == [con[c] EXCEPT !.socket = "cerrado", !.transito = <<>>]
<1>2. Registro(s) /\ Mismo(con[c], s)
  BY <1>0 DEF Registro, Campos, Inactiva, Mismo
<1>3. CASE Desconectar(c)
  <2>1. Cambia(c, IF s.rutina = "sucursal" THEN s ELSE Limpieza(s))
    BY <1>3 DEF Desconectar
  <2> HIDE DEF s
  <2>2. s.rutina = "sucursal" => Admisible(c, s)
    BY <1>0, <1>2 DEF Admisible, Mismo, Bien
  <2>3. s.rutina # "sucursal" => Admisible(c, Limpieza(s))
    BY <1>0, <1>2, LimpiezaAdmisible DEF Mismo, Bien
  <2> QED
    BY <2>1, <2>2, <2>3, CambiaConserva
<1>4. CASE Terminar(c)
  <2>1. Cambia(c, Limpieza(s)) /\ con[c].socket = "terminando"
    BY <1>4 DEF Terminar
  <2> HIDE DEF s
  <2>2. CASE s.rutina # "sucursal"
    BY <1>0, <1>2, <2>1, <2>2, LimpiezaAdmisible, CambiaConserva DEF Mismo, Bien
  <2>3. CASE s.rutina = "sucursal"
    <3>1. Limpieza(s) = [s EXCEPT !.ido = TRUE]
      BY <2>3 DEF Limpieza
    <3>2. Admisible(c, [s EXCEPT !.ido = TRUE])
      BY <1>0, <1>2, <2>3 DEF Admisible, Registro, Campos, Inactiva, Mismo, Bien
    <3> QED
      BY <2>1, <3>1, <3>2, CambiaConserva
  <2> QED
    BY <2>2, <2>3
<1> QED
  BY <1>1, <1>3, <1>4 DEF Red

LEMMA PasoConexiones == ConexionesInv /\ [AgendaNext]_vars => ConexionesInv'
<1> SUFFICES ASSUME ConexionesInv, [AgendaNext]_vars PROVE ConexionesInv'
  OBVIOUS
<1>1. CASE BaseDeDatos
  <2>1. con' = con /\ porIp' = porIp
    BY <1>1 DEF BaseDeDatos, Insertar, Confirmar, Revertir, Limpiar
  <2> QED
    BY <2>1, QuietoConserva
<1>2. CASE PollConsulta \/ PollFalla \/ Arrancar
  <2>1. con' = con /\ porIp' = porIp
    BY <1>2 DEF PollConsulta, PollFalla, Arrancar
  <2> QED
    BY <2>1, QuietoConserva
<1>3. CASE PollReparte
  BY <1>3, ReparteConserva
<1>4. CASE Caer
  BY <1>4, CaerConserva
<1>5. CASE \E c \in Clientes : Alta(c)
  BY <1>5, AltaConserva
<1>6. CASE \E c \in Clientes : Red(c)
  BY <1>6, RedConserva
<1>7. CASE UNCHANGED vars
  <2>1. con' = con /\ porIp' = porIp
    BY <1>7 DEF vars
  <2> QED
    BY <2>1, QuietoConserva
<1> QED
  BY <1>1, <1>2, <1>3, <1>4, <1>5, <1>6, <1>7 DEF AgendaNext, Despachador

LEMMA SiempreConexiones == AgendaSpec => []ConexionesInv
<1> QED
  BY InicioConexiones, PasoConexiones, PTL DEF AgendaSpec

-----------------------------------------------------------------------------
(* Finite sets of ids *)

LEMMA Finitos ==
    ASSUME NEW n \in Nat, NEW S \in SUBSET (0 .. n)
    PROVE  IsFiniteSet(S) /\ Cardinality(S) \in Nat /\ \A x \in S : x \in Nat
<1>1. IsFiniteSet(0 .. n)
  BY FS_Interval
<1>2. IsFiniteSet(S)
  BY <1>1, FS_Subset
<1> QED
  BY <1>2, FS_CardinalityType

\* A bounded set of numbers has a greatest one.
LEMMA HayMaximo ==
    ASSUME NEW n \in Nat, NEW S \in SUBSET (0 .. n), S # {}
    PROVE  Max(S) \in S /\ \A x \in S : x <= Max(S)
<1> DEFINE T == {x .. n : x \in S}
           R == StrictSubsetOrdering(Nat)
<1>1. T \subseteq FiniteSubsetsOf(Nat) /\ T # {}
  <2>1. ASSUME NEW x \in S PROVE x .. n \in SUBSET Nat /\ IsFiniteSet(x .. n)
    BY FS_Interval
  <2> QED
    BY <2>1 DEF FiniteSubsetsOf
<1>2. PICK X \in T : \A Y \in T : ~(<<Y, X>> \in R)
  <2>1. IsWellFoundedOn(R, FiniteSubsetsOf(Nat))
    BY FS_StrictSubsetOrderingWellFounded
  <2> QED
    BY <1>1, <2>1, WFMin
<1>3. PICK m \in S : X = m .. n
  OBVIOUS
<1>4. ASSUME NEW x \in S PROVE x <= m
  <2>1. SUFFICES ASSUME m < x PROVE FALSE
    OBVIOUS
  <2>2. x .. n \subseteq m .. n /\ x .. n # m .. n /\ x .. n \in T
    BY <2>1
  <2>3. <<x .. n, X>> \in R
    BY <1>3, <2>2 DEF StrictSubsetOrdering
  <2> QED
    BY <1>2, <2>2, <2>3
<1> QED
  BY <1>4 DEF Max

\* And a least one: the complement to n turns the one into the other.
LEMMA HayMinimo ==
    ASSUME NEW n \in Nat, NEW S \in SUBSET (0 .. n), S # {}
    PROVE  Min(S) \in S /\ \A x \in S : Min(S) <= x
<1> DEFINE T == {n - x : x \in S}
<1>1. T \in SUBSET (0 .. n) /\ T # {}
  <2>1. \A x \in S : n - x \in 0 .. n
    OBVIOUS
  <2> QED
    BY <2>1
<1>2. PICK m \in T : \A y \in T : y <= m
  BY <1>1, HayMaximo
<1>3. n - m \in S /\ \A x \in S : n - m <= x
  BY <1>2
<1> QED
  BY <1>3 DEF Min

LEMMA MaxIdDe ==
    ASSUME NEW n \in Nat, NEW S \in SUBSET (0 .. n)
    PROVE  MaxId(S) \in S \cup {0} /\ \A x \in S : x <= MaxId(S)
<1>1. S \cup {0} \in SUBSET (0 .. n) /\ S \cup {0} # {}
  OBVIOUS
<1> QED
  BY <1>1, HayMaximo DEF MaxId

LEMMA MinIdDe ==
    ASSUME NEW n \in Nat, NEW S \in SUBSET (0 .. n)
    PROVE  IF S = {} THEN MinId(S) = 0 ELSE MinId(S) \in S /\ \A x \in S : MinId(S) <= x
BY HayMinimo DEF MinId

\* ORDER BY id_evento LIMIT n: a lower part of the rows, of at most n, and all
\* of them when they are fewer.
LEMMA PrimerasDe ==
    ASSUME NEW m \in Nat, NEW S \in SUBSET (0 .. m), NEW n \in Nat
    PROVE  /\ Primeras(S, n) \subseteq S
           /\ \A e \in S, f \in Primeras(S, n) : e <= f => e \in Primeras(S, n)
           /\ IsFiniteSet(Primeras(S, n))
           /\ Cardinality(Primeras(S, n)) \in 0 .. n
           /\ Cardinality(Primeras(S, n)) < n => Primeras(S, n) = S
<1> DEFINE P == Primeras(S, n)
           Antes(e) == {d \in S : d < e}
<1>0. \A x \in S : x \in Nat
  OBVIOUS
<1>1. P \subseteq S /\ \A e \in S : e \in P <=> Cardinality(Antes(e)) < n
  BY DEF Primeras
<1>2. IsFiniteSet(S) /\ IsFiniteSet(P) /\ Cardinality(P) \in Nat
  <2>1. IsFiniteSet(S)
    BY Finitos
  <2> QED
    BY <1>1, <2>1, FS_Subset, FS_CardinalityType
<1>3. \A e : IsFiniteSet(Antes(e)) /\ Cardinality(Antes(e)) \in Nat
  BY <1>2, FS_Subset, FS_CardinalityType
<1> HIDE DEF P
<1>4. ASSUME NEW e \in S, NEW f \in P, e <= f PROVE e \in P
  <2>1. Antes(e) \subseteq Antes(f)
    <3>1. e \in Nat /\ f \in Nat /\ \A d \in Nat : d < e => d < f
      BY <1>0, <1>1, <1>4
    <3> QED
      BY <1>0, <3>1
  <2>2. Cardinality(Antes(e)) <= Cardinality(Antes(f))
    BY <1>3, <2>1, FS_Subset
  <2> QED
    BY <1>1, <1>3, <2>2
<1>5. Cardinality(P) <= n
  <2>1. CASE P = {}
    BY <2>1, FS_EmptySet
  <2>2. CASE P # {}
    <3> DEFINE f == Max(P)
    <3>1. f \in P /\ \A x \in P : x <= f
      <4>1. P \in SUBSET (0 .. m)
        BY <1>1
      <4> QED
        BY <4>1, <2>2, HayMaximo
    <3> HIDE DEF f
    <3>2. P \subseteq Antes(f) \cup {f} /\ f \notin Antes(f)
      BY <1>0, <1>1, <3>1
    <3>3. Cardinality(Antes(f) \cup {f}) = Cardinality(Antes(f)) + 1
          /\ IsFiniteSet(Antes(f) \cup {f})
      <4> HIDE DEF Antes
      <4> QED
        BY <1>3, <3>2, FS_AddElement
    <3>4. Cardinality(P) <= Cardinality(Antes(f)) + 1
      BY <3>2, <3>3, FS_Subset
    <3> QED
      BY <1>1, <1>2, <1>3, <3>1, <3>4
  <2> QED
    BY <2>1, <2>2
<1>6. ASSUME Cardinality(P) < n PROVE P = S
  <2> SUFFICES ASSUME S \ P # {} PROVE FALSE
    BY <1>1
  <2> DEFINE f == Min(S \ P)
  <2>1. f \in S \ P /\ \A x \in S \ P : f <= x
    <3>1. S \ P \in SUBSET (0 .. m)
      OBVIOUS
    <3> QED
      BY <3>1, HayMinimo
  <2> HIDE DEF f
  <2>2. Antes(f) \subseteq P
    <3>1. \A d \in S : d < f => ~(f <= d)
      BY <1>0, <2>1
    <3> QED
      BY <1>0, <2>1, <3>1
  <2>3. Cardinality(Antes(f)) <= Cardinality(P)
    BY <1>2, <2>2, FS_Subset
  <2> QED
    BY <1>1, <1>2, <1>3, <1>6, <2>1, <2>3
<1> QED
  BY <1>1, <1>2, <1>4, <1>5, <1>6 DEF P

\* The rows of a batch in order of id exist and are all there.
LEMMA OrdenadaDe ==
    ASSUME NEW m \in Nat, NEW S \in SUBSET (0 .. m)
    PROVE  /\ IsFiniteSet(S) /\ Cardinality(S) \in Nat
           /\ Ordenada(S) \in [1 .. Cardinality(S) -> S]
           /\ \A i, j \in 1 .. Cardinality(S) : i < j => Ordenada(S)[i] < Ordenada(S)[j]
           /\ \A e \in S : \E i \in 1 .. Cardinality(S) : Ordenada(S)[i] = e
<1> DEFINE N == Cardinality(S)
           Hasta(e) == {d \in S : d <= e}
           r == [e \in S |-> Cardinality(Hasta(e))]
           Crece(q) == \A i, j \in 1 .. N : i < j => q[i] < q[j]
<1>1. IsFiniteSet(S) /\ N \in Nat /\ \A x \in S : x \in Nat
  BY Finitos
<1>2. \A e \in S : IsFiniteSet(Hasta(e)) /\ Cardinality(Hasta(e)) \in 1 .. N
  <2> SUFFICES ASSUME NEW e \in S
               PROVE  IsFiniteSet(Hasta(e)) /\ Cardinality(Hasta(e)) \in 1 .. N
    OBVIOUS
  <2>1. IsFiniteSet(Hasta(e)) /\ Cardinality(Hasta(e)) <= N /\ Cardinality(Hasta(e)) \in Nat
    BY <1>1, FS_Subset, FS_CardinalityType
  <2>2. Hasta(e) # {}
    OBVIOUS
  <2> QED
    BY <1>1, <2>1, <2>2, FS_EmptySet
<1>3. \A d, e \in S : d < e => r[d] < r[e]
  <2> SUFFICES ASSUME NEW d \in S, NEW e \in S, d < e PROVE r[d] < r[e]
    OBVIOUS
  <2>1. Hasta(d) \subseteq Hasta(e) /\ e \in Hasta(e) /\ e \notin Hasta(d)
    <3>1. /\ d \in Nat /\ e \in Nat /\ e <= e /\ ~(e <= d)
          /\ \A x \in Nat : x <= d => x <= e
      BY <1>1
    <3> QED
      BY <1>1, <3>1
  <2>2. /\ Cardinality(Hasta(d)) <= Cardinality(Hasta(e))
        /\ Cardinality(Hasta(d)) # Cardinality(Hasta(e))
    <3> HIDE DEF Hasta
    <3>1. IsFiniteSet(Hasta(e)) /\ Hasta(d) \in SUBSET Hasta(e) /\ Hasta(d) # Hasta(e)
      BY <1>2, <2>1
    <3> QED
      BY <3>1, FS_Subset
  <2> QED
    BY <1>2, <2>2
<1>4. r \in [S -> 1 .. N]
  BY <1>2
<1> HIDE DEF r
<1>5. r \in Injection(S, 1 .. N)
  BY <1>3, <1>4 DEF Injection, IsInjective
<1>6. r \in Surjection(S, 1 .. N)
  <2>1. IsFiniteSet(1 .. N) /\ Cardinality(1 .. N) = N
    BY <1>1, FS_Interval
  <2> QED
    BY <1>5, <2>1, FS_Injection
<1>7. \A i \in 1 .. N : \E e \in S : r[e] = i
  BY <1>6 DEF Surjection
<1> DEFINE q == [i \in 1 .. N |-> CHOOSE e \in S : r[e] = i]
<1>8. q \in [1 .. N -> S] /\ \A i \in 1 .. N : r[q[i]] = i
  BY <1>7
<1>9. Crece(q)
  <2> SUFFICES ASSUME NEW i \in 1 .. N, NEW j \in 1 .. N, i < j PROVE q[i] < q[j]
    OBVIOUS
  <2>1. q[i] \in S /\ q[j] \in S /\ r[q[i]] = i /\ r[q[j]] = j
    BY <1>8
  <2> HIDE DEF q
  <2> QED
    <3>1. q[j] < q[i] => j < i
      BY <1>3, <2>1
    <3>2. q[i] # q[j] /\ ~(j < i)
      BY <2>1
    <3>3. q[i] \in Nat /\ q[j] \in Nat
      BY <1>1, <2>1
    <3> QED
      BY <3>1, <3>2, <3>3
<1> HIDE DEF q
<1> DEFINE o == Ordenada(S)
<1>10. o \in [1 .. N -> S] /\ Crece(o)
  <2>1. \E p \in [1 .. N -> S] : \A i, j \in DOMAIN p : i < j => p[i] < p[j]
    BY <1>8, <1>9
  <2>2. o \in [1 .. N -> S] /\ \A i, j \in DOMAIN o : i < j => o[i] < o[j]
    BY <2>1 DEF Ordenada
  <2> QED
    BY <2>2
<1> HIDE DEF o
<1>11. o \in Injection(1 .. N, S)
  <2>1. \A i, j \in 1 .. N : o[i] = o[j] => i = j
    <3> SUFFICES ASSUME NEW i \in 1 .. N, NEW j \in 1 .. N, o[i] = o[j] PROVE i = j
      OBVIOUS
    <3>1. o[i] \in S /\ o[j] \in S /\ o[i] \in Nat
      BY <1>1, <1>10
    <3>2. ~(i < j) /\ ~(j < i)
      BY <1>10, <3>1
    <3> QED
      BY <3>2
  <2> QED
    BY <1>10, <2>1 DEF Injection, IsInjective
<1>12. o \in Surjection(1 .. N, S)
  <2>1. Cardinality(1 .. N) = Cardinality(S)
    BY <1>1, FS_Interval
  <2> QED
    BY <1>1, <1>11, <2>1, FS_Injection
<1>13. \A e \in S : \E i \in 1 .. N : o[i] = e
  BY <1>12 DEF Surjection
<1> QED
  BY <1>1, <1>10, <1>13 DEF o

-----------------------------------------------------------------------------
(* The channel of a browser *)

\* A record of con whose frames and ids are of rows in C.
Ficha(C) ==
    [rutina : Rutinas, suscrito : BOOLEAN, socket : {"abierto", "terminando", "cerrado"},
     ido : BOOLEAN, pausado : BOOLEAN, sordo : BOOLEAN,
     cola : Seq(C \cup {0}), transito : Seq(C \cup {0}),
     enviado : C \cup {0}, desde : C \cup {0}, marca : C \cup {0}, actual : C \cup {0},
     reenviados : 0 .. MaxReenvio, lote : SUBSET C]

\* A stream that still delivers, and the frames it has not delivered yet.
Abierto(s) == s.suscrito /\ s.socket = "abierto"
Canal(s) == IF Abierto(s) THEN s.transito \o s.cola ELSE s.transito

Lleva(q, e) == \E i \in 1 .. Len(q) : q[i] \in {e, RESYNC}

\* A browser that knows K learns of row e, or loads the agenda again.
Cubierta(s, K, e) == e \in K \/ Lleva(Canal(s), e)

\* No frame of q runs ahead of a row of D: when it comes, the rows up to its id
\* are known, or came before it, or a resync did.
Fiel(D, q, K) ==
    \A i \in 1 .. Len(q) : q[i] # RESYNC =>
        \A e \in D : e <= q[i] => e \in K \/ \E j \in 1 .. i : q[j] \in {e, RESYNC}

\* The channel is faithful, and nothing up to lastSentId is missing.
Sano(D, s, K) ==
    /\ Fiel(D, Canal(s), K)
    /\ Abierto(s) => \A e \in D : e <= s.enviado => Cubierta(s, K, e)

LEMMA UltimoIdDe ==
    ASSUME NEW S, NEW q \in Seq(S), NEW previo
    PROVE  \/ UltimoId(q, previo) = previo
           \/ \E i \in 1 .. Len(q) : q[i] # RESYNC /\ UltimoId(q, previo) = q[i]
<1> DEFINE ids == {i \in DOMAIN q : q[i] # RESYNC}
<1>1. DOMAIN q = 1 .. Len(q) /\ Len(q) \in Nat
  BY LenProperties
<1>2. CASE ids = {}
  BY <1>2 DEF UltimoId
<1>3. CASE ids # {}
  <2>1. ids \in SUBSET (0 .. Len(q))
    BY <1>1
  <2>2. Max(ids) \in ids
    BY <1>1, <1>3, <2>1, HayMaximo
  <2>3. UltimoId(q, previo) = q[Max(ids)]
    BY <1>3 DEF UltimoId
  <2> QED
    BY <1>1, <2>2, <2>3
<1> QED
  BY <1>2, <1>3

\* The channel after flush wrote the first m frames of b and took n of them off
\* the queue: the frame that got false, if any, is in it twice.
Tras(n, k) == IF n < k THEN n + 1 ELSE n
Origen(i, k, d) == IF i <= k THEN i ELSE i - d

Repetida(a, b, n, m) == (a \o SubSeq(b, 1, m)) \o SubSeq(b, n + 1, Len(b))

\* r is q with its frame k repeated d times.
Repeticion(q, r, k, d) ==
    /\ Len(q) \in Nat /\ Len(r) = Len(q) + d
    /\ \A i \in 1 .. Len(r) : r[i] = q[Origen(i, k, d)]

LEMMA Repite ==
    ASSUME NEW S, NEW a \in Seq(S), NEW b \in Seq(S), NEW n \in 0 .. Len(b),
           NEW m, m = Tras(n, Len(b))
    PROVE  /\ Len(a \o b) = Len(a) + Len(b) /\ Len(a) \in Nat
           /\ m \in 0 .. Len(b) /\ m - n \in {0, 1}
           /\ Repeticion(a \o b, Repetida(a, b, n, m), Len(a) + m, m - n)
<1> DEFINE b1 == SubSeq(b, 1, m)
           b2 == SubSeq(b, n + 1, Len(b))
           a1 == a \o b1
           q == a \o b
           r == Repetida(a, b, n, m)
<1>0. m = IF n < Len(b) THEN n + 1 ELSE n
  BY DEF Tras
<1>1. /\ Len(a) \in Nat /\ Len(b) \in Nat /\ n \in Nat /\ n <= Len(b)
      /\ m \in 0 .. Len(b) /\ m - n \in {0, 1} /\ n + 1 \in Int
      /\ \A i \in 1 .. Len(b) : b[i] \in S
  BY <1>0, LenProperties, ElementOfSeq
<1>2. b1 \in Seq(S) /\ Len(b1) = m /\ \A i \in 1 .. m : b1[i] = b[i]
  <2>1. \A i \in 1 .. m : b[i] \in S
    BY <1>1
  <2>2. /\ b1 \in Seq(S) /\ Len(b1) = IF 1 <= m THEN m - 1 + 1 ELSE 0
        /\ \A i \in 1 .. m - 1 + 1 : b1[i] = b[1 + i - 1]
    BY <1>1, <2>1, SubSeqProperties
  <2> HIDE DEF b1
  <2> QED
    BY <1>1, <2>2
<1>3. b2 \in Seq(S) /\ Len(b2) = Len(b) - n /\ \A i \in 1 .. Len(b) - n : b2[i] = b[n + i]
  <2>1. \A i \in n + 1 .. Len(b) : b[i] \in S
    BY <1>1
  <2>2. /\ b2 \in Seq(S) /\ Len(b2) = IF n + 1 <= Len(b) THEN Len(b) - (n + 1) + 1 ELSE 0
        /\ \A i \in 1 .. Len(b) - (n + 1) + 1 : b2[i] = b[n + 1 + i - 1]
    BY <1>1, <2>1, SubSeqProperties
  <2> HIDE DEF b2
  <2> QED
    BY <1>1, <2>2
<1> HIDE DEF b1, b2
<1>4. /\ a1 \in Seq(S) /\ Len(a1) = Len(a) + m
      /\ \A i \in 1 .. Len(a) + m : a1[i] = IF i <= Len(a) THEN a[i] ELSE b1[i - Len(a)]
  <2>1. /\ a1 \in Seq(S) /\ Len(a1) = Len(a) + Len(b1)
        /\ \A i \in 1 .. Len(a) + Len(b1) :
              a1[i] = IF i <= Len(a) THEN a[i] ELSE b1[i - Len(a)]
    BY <1>2, ConcatProperties
  <2> HIDE DEF a1
  <2> QED
    BY <1>2, <2>1
<1>5. /\ Len(q) = Len(a) + Len(b)
      /\ \A i \in 1 .. Len(a) + Len(b) : q[i] = IF i <= Len(a) THEN a[i] ELSE b[i - Len(a)]
  BY ConcatProperties
<1>6. r = a1 \o b2
  BY DEF Repetida, a1, b1, b2
<1> HIDE DEF a1, q, r
<1>7. /\ Len(r) = Len(a) + m + (Len(b) - n)
      /\ \A i \in 1 .. Len(a) + m + (Len(b) - n) :
            r[i] = IF i <= Len(a) + m THEN a1[i] ELSE b2[i - (Len(a) + m)]
  <2>1. /\ Len(r) = Len(a1) + Len(b2)
        /\ \A i \in 1 .. Len(a1) + Len(b2) :
              r[i] = IF i <= Len(a1) THEN a1[i] ELSE b2[i - Len(a1)]
    BY <1>3, <1>4, <1>6, ConcatProperties
  <2>2. Len(a1) = Len(a) + m /\ Len(b2) = Len(b) - n
    BY <1>3, <1>4
  <2> QED
    BY <2>1, <2>2
<1>8. Len(r) = Len(q) + (m - n)
  <2>1. Len(a) \in Int /\ Len(b) \in Int /\ n \in Int /\ m \in Int
    BY <1>1
  <2>2. Len(r) = Len(a) + m + (Len(b) - n) /\ Len(q) = Len(a) + Len(b)
    BY <1>5, <1>7
  <2> QED
    BY <2>1, <2>2
<1>9. ASSUME NEW i \in 1 .. Len(r)
      PROVE  r[i] = q[IF i <= Len(a) + m THEN i ELSE i - (m - n)]
  <2>1. CASE i <= Len(a)
    <3>1. r[i] = a1[i] /\ a1[i] = a[i] /\ q[i] = a[i] /\ i <= Len(a) + m
      BY <1>1, <1>4, <1>5, <1>7, <2>1
    <3> QED
      BY <3>1
  <2>2. CASE Len(a) < i /\ i <= Len(a) + m
    <3>4. Len(a) \in Int /\ Len(b) \in Int /\ m \in Int /\ n \in Int /\ m <= Len(b)
      BY <1>1
    <3>5. i \in Int /\ 1 <= i /\ i <= Len(a) + m + (Len(b) - n)
      BY <1>1, <1>7
    <3>6. /\ i \in 1 .. Len(a) + m /\ i \in 1 .. Len(a) + m + (Len(b) - n)
          /\ i - Len(a) \in 1 .. m /\ ~(i <= Len(a))
      BY <2>2, <3>4, <3>5
    <3>7. r[i] = a1[i]
      BY <1>7, <2>2, <3>6
    <3>8. a1[i] = b1[i - Len(a)]
      BY <1>4, <3>6
    <3>1. r[i] = a1[i] /\ a1[i] = b1[i - Len(a)] /\ i - Len(a) \in 1 .. m
      BY <3>6, <3>7, <3>8
    <3>2. b1[i - Len(a)] = b[i - Len(a)] /\ q[i] = b[i - Len(a)]
      BY <1>1, <1>2, <1>5, <2>2, <3>1
    <3> QED
      BY <2>2, <3>1, <3>2
  <2>3. CASE Len(a) + m < i
    <3> DEFINE k == i - (Len(a) + m)
    <3>7. i \in Int /\ 1 <= i /\ i <= Len(a) + m + (Len(b) - n)
      BY <1>1, <1>7
    <3>8. Len(a) \in Int /\ Len(b) \in Int /\ m \in Int /\ n \in Int
      BY <1>1
    <3>4. k \in 1 .. Len(b) - n /\ i \in 1 .. Len(a) + m + (Len(b) - n)
      BY <2>3, <3>7, <3>8
    <3>9. ~(i <= Len(a) + m)
      BY <2>3, <3>7, <3>8
    <3>5. r[i] = b2[k]
      BY <1>7, <3>4, <3>9
    <3>6. b2[k] = b[n + k]
      BY <1>3, <3>4
    <3>1. k \in 1 .. Len(b) - n /\ r[i] = b2[k] /\ b2[k] = b[n + k]
      BY <3>4, <3>5, <3>6
    <3>2. i - (m - n) \in 1 .. Len(a) + Len(b) /\ ~(i - (m - n) <= Len(a))
          /\ i - (m - n) - Len(a) = n + k
      BY <1>0, <1>1, <1>7, <2>3
    <3>3. q[i - (m - n)] = b[n + k]
      BY <1>5, <3>2
    <3> QED
      BY <1>0, <1>1, <1>7, <2>3, <3>1, <3>3
  <2> QED
    BY <1>1, <1>7, <2>1, <2>2, <2>3
<1>10. Len(q) \in Nat
  BY <1>1, <1>5
<1>11. \A i \in 1 .. Len(r) : r[i] = q[Origen(i, Len(a) + m, m - n)]
  BY <1>9 DEF Origen
<1>12. Repeticion(q, r, Len(a) + m, m - n)
  BY <1>8, <1>10, <1>11 DEF Repeticion
<1> QED
  BY <1>1, <1>5, <1>12, Zenon DEF q, r

LEMMA MaxCero ==
    ASSUME NEW x \in Int
    PROVE  Max({0, x}) = IF 0 < x THEN x ELSE 0
<1> DEFINE v == IF 0 < x THEN x ELSE 0
<1>1. v \in {0, x} /\ \A y \in {0, x} : v >= y
  OBVIOUS
<1>2. Max({0, x}) \in {0, x} /\ \A y \in {0, x} : Max({0, x}) >= y
  BY <1>1 DEF Max
<1> QED
  BY <1>1, <1>2

\* What flush does to a subscriber that is not paused: n frames leave the
\* queue, m are written, and the socket is full when it stops before the end.
LEMMA VolcarForma ==
    ASSUME NEW C, NEW s \in Ficha(C), s.suscrito, ~s.pausado
    PROVE  \E n \in 0 .. Len(s.cola), m \in 0 .. Len(s.cola) :
              /\ m = IF n < Len(s.cola) THEN n + 1 ELSE n
              /\ Volcar(s) =
                    [s EXCEPT !.cola = SubSeq(s.cola, n + 1, Len(s.cola)),
                              !.pausado = n < Len(s.cola),
                              !.enviado = UltimoId(SubSeq(s.cola, 1, n), s.enviado),
                              !.transito = IF s.socket = "abierto"
                                           THEN s.transito \o SubSeq(s.cola, 1, m) ELSE s.transito]
              /\ s.socket = "abierto" /\ n < Len(s.cola) => Len(s.transito) + m >= Capacidad
              /\ s.socket # "abierto" => n = Len(s.cola)
<1> DEFINE k == Len(s.cola)
           t == Len(s.transito)
           libres == IF s.socket # "abierto" THEN k ELSE Max({0, Capacidad - 1 - t})
           n == IF libres < k THEN libres ELSE k
           m == IF n < k THEN n + 1 ELSE n
<1>1. k \in Nat /\ t \in Nat /\ Capacidad \in Nat /\ Capacidad # 0
  <2>1. s.cola \in Seq(C \cup {0}) /\ s.transito \in Seq(C \cup {0})
    BY DEF Ficha
  <2> QED
    BY <2>1, LenProperties, AgendaAssumption DEF AgendaAssumption
<1>2. Volcar(s) = [s EXCEPT !.cola = SubSeq(s.cola, n + 1, Len(s.cola)),
                            !.pausado = n < Len(s.cola),
                            !.enviado = UltimoId(SubSeq(s.cola, 1, n), s.enviado),
                            !.transito = IF s.socket = "abierto"
                                         THEN s.transito \o SubSeq(s.cola, 1, m) ELSE s.transito]
  BY Zenon DEF Volcar
<1> HIDE DEF k, t
<1>3. Capacidad - 1 - t \in Int
  BY <1>1
<1>4. Max({0, Capacidad - 1 - t}) = IF 0 < Capacidad - 1 - t THEN Capacidad - 1 - t ELSE 0
  BY <1>3, MaxCero
<1>5. n \in 0 .. k /\ m \in 0 .. k
  BY <1>1, <1>4
<1>6. s.socket = "abierto" /\ n < k => t + m >= Capacidad
  BY <1>1, <1>4
<1>7. s.socket # "abierto" => n = k
  BY <1>1
<1> HIDE DEF libres
<1> QED
  BY <1>2, <1>5, <1>6, <1>7, Zenon DEF k, t

\* Parts of a sequence.
LEMMA Tramo ==
    ASSUME NEW S, NEW q \in Seq(S), NEW i \in 1 .. Len(q) + 1, NEW j \in 0 .. Len(q)
    PROVE  /\ SubSeq(q, i, j) \in Seq(S)
           /\ Len(SubSeq(q, i, j)) = IF i <= j THEN j - i + 1 ELSE 0
           /\ \A x \in 1 .. j - i + 1 : SubSeq(q, i, j)[x] = q[i + x - 1]
<1>1. Len(q) \in Nat
  BY LenProperties
<1>2. \A x \in i .. j : q[x] \in S
  BY <1>1, ElementOfSeq
<1> QED
  BY <1>1, <1>2, SubSeqProperties

LEMMA Principio ==
    ASSUME NEW S, NEW q \in Seq(S), NEW n \in 0 .. Len(q), NEW p, p = SubSeq(q, 1, n)
    PROVE  p \in Seq(S) /\ Len(p) = n /\ \A x \in 1 .. n : p[x] = q[x]
<1>1. Len(q) \in Nat /\ n \in Nat /\ 1 \in 1 .. Len(q) + 1
  BY LenProperties
<1>2. /\ SubSeq(q, 1, n) \in Seq(S)
      /\ Len(SubSeq(q, 1, n)) = (IF 1 <= n THEN n - 1 + 1 ELSE 0)
      /\ \A x \in 1 .. n - 1 + 1 : SubSeq(q, 1, n)[x] = q[1 + x - 1]
  BY <1>1, Tramo
<1>3. /\ p \in Seq(S) /\ Len(p) = (IF 1 <= n THEN n - 1 + 1 ELSE 0)
      /\ \A x \in 1 .. n - 1 + 1 : p[x] = q[1 + x - 1]
  BY <1>2
<1>4. Len(p) = n
  BY <1>1, <1>3
<1>5. ASSUME NEW x \in 1 .. n PROVE p[x] = q[x]
  <2>1. x \in 1 .. n - 1 + 1 /\ 1 + x - 1 = x
    BY <1>1
  <2> QED
    BY <1>3, <2>1
<1> QED
  BY <1>3, <1>4, <1>5

LEMMA UltimoIdTipo ==
    ASSUME NEW C, NEW q \in Seq(C \cup {0}), NEW previo \in C \cup {0}
    PROVE  UltimoId(q, previo) \in C \cup {0}
BY UltimoIdDe, ElementOfSeq

\* Two records that differ in what is on its way only.
Igual(s, t) ==
    /\ t.rutina = s.rutina /\ t.suscrito = s.suscrito /\ t.socket = s.socket
    /\ t.ido = s.ido /\ t.sordo = s.sordo /\ t.desde = s.desde /\ t.marca = s.marca
    /\ t.actual = s.actual /\ t.reenviados = s.reenviados /\ t.lote = s.lote

\* flush keeps the types.
LEMMA VolcarFicha ==
    ASSUME NEW C, NEW s \in Ficha(C)
    PROVE  Volcar(s) \in Ficha(C) /\ Igual(s, Volcar(s))
<1>1. CASE ~s.suscrito \/ s.pausado
  BY <1>1 DEF Volcar, Igual
<1>2. CASE s.suscrito /\ ~s.pausado
  <2>1. PICK n \in 0 .. Len(s.cola), m \in 0 .. Len(s.cola) :
              /\ m = IF n < Len(s.cola) THEN n + 1 ELSE n
              /\ Volcar(s) =
                    [s EXCEPT !.cola = SubSeq(s.cola, n + 1, Len(s.cola)),
                              !.pausado = n < Len(s.cola),
                              !.enviado = UltimoId(SubSeq(s.cola, 1, n), s.enviado),
                              !.transito = IF s.socket = "abierto"
                                           THEN s.transito \o SubSeq(s.cola, 1, m) ELSE s.transito]
    BY <1>2, VolcarForma
  <2> DEFINE co == SubSeq(s.cola, n + 1, Len(s.cola))
             en == UltimoId(SubSeq(s.cola, 1, n), s.enviado)
             tr == IF s.socket = "abierto" THEN s.transito \o SubSeq(s.cola, 1, m) ELSE s.transito
             pa == n < Len(s.cola)
  <2>2. /\ s.cola \in Seq(C \cup {0}) /\ s.transito \in Seq(C \cup {0})
        /\ s.enviado \in C \cup {0}
    BY DEF Ficha
  <2>3. Len(s.cola) \in Nat
    BY <2>2, LenProperties
  <2>4. /\ n + 1 \in 1 .. Len(s.cola) + 1 /\ Len(s.cola) \in 0 .. Len(s.cola)
        /\ 1 \in 1 .. Len(s.cola) + 1
    BY <2>3
  <2>5. co \in Seq(C \cup {0}) /\ SubSeq(s.cola, 1, n) \in Seq(C \cup {0})
        /\ SubSeq(s.cola, 1, m) \in Seq(C \cup {0})
    BY <2>2, <2>4, Tramo
  <2>6. en \in C \cup {0}
    BY <2>2, <2>5, UltimoIdTipo
  <2>7. tr \in Seq(C \cup {0}) /\ pa \in BOOLEAN
    <3>1. s.transito \o SubSeq(s.cola, 1, m) \in Seq(C \cup {0})
      BY <2>2, <2>5, ConcatProperties
    <3> QED
      BY <2>2, <3>1
  <2>8. Volcar(s) = [s EXCEPT !.cola = co, !.pausado = pa, !.enviado = en, !.transito = tr]
    BY <2>1, Zenon
  <2> HIDE DEF co, en, tr, pa
  <2>9. [s EXCEPT !.cola = co, !.pausado = pa, !.enviado = en, !.transito = tr] \in Ficha(C)
    BY <2>5, <2>6, <2>7 DEF Ficha
  <2>10. Igual(s, [s EXCEPT !.cola = co, !.pausado = pa, !.enviado = en, !.transito = tr])
    BY DEF Ficha, Igual
  <2> QED
    BY <2>8, <2>9, <2>10
<1> QED
  BY <1>1, <1>2

LEMMA CerrarSocketFicha ==
    ASSUME NEW C, NEW s \in Ficha(C)
    PROVE  CerrarSocket(s) \in Ficha(C)
BY DEF CerrarSocket, Ficha

LEMMA ColaFicha ==
    ASSUME NEW C, NEW s \in Ficha(C), NEW q \in Seq(C \cup {0})
    PROVE  [s EXCEPT !.cola = q] \in Ficha(C)
BY DEF Ficha

LEMMA CerrarLocalFicha ==
    ASSUME NEW C, NEW s \in Ficha(C)
    PROVE  /\ CerrarLocal(s) \in Ficha(C) /\ ~CerrarLocal(s).suscrito
           /\ CerrarLocal(s).rutina = s.rutina /\ CerrarLocal(s).ido = s.ido
           /\ CerrarLocal(s).desde = s.desde /\ CerrarLocal(s).transito = s.transito
<1> DEFINE t == CerrarSocket(s)
           u == [t EXCEPT !.suscrito = FALSE, !.cola = <<>>]
<1>1. t \in Ficha(C) /\ t.rutina = s.rutina /\ t.ido = s.ido /\ t.desde = s.desde
      /\ t.transito = s.transito
  BY DEF CerrarSocket, Ficha
<1>2. CerrarLocal(s) = IF s.suscrito THEN u ELSE s
  BY DEF CerrarLocal
<1>3. <<>> \in Seq(C \cup {0})
  BY EmptySeq
<1> HIDE DEF t
<1>4. /\ u \in Ficha(C) /\ ~u.suscrito /\ u.rutina = t.rutina /\ u.ido = t.ido
      /\ u.desde = t.desde
      /\ u.transito = t.transito
  <2>1. u \in Ficha(C)
    BY <1>1, <1>3 DEF Ficha
  <2>2. ~u.suscrito /\ u.rutina = t.rutina /\ u.ido = t.ido
    BY <1>1 DEF Ficha
  <2>3. u.desde = t.desde /\ u.transito = t.transito
    BY <1>1 DEF Ficha
  <2> QED
    BY <2>1, <2>2, <2>3
<1> HIDE DEF u
<1> QED
  BY <1>1, <1>2, <1>4

-----------------------------------------------------------------------------
(* Faithful channels *)

LEMMA FielMas ==
    ASSUME NEW D, NEW E \in SUBSET D, NEW q, NEW K, NEW L, K \subseteq L, Fiel(D, q, K)
    PROVE  Fiel(E, q, L)
BY DEF Fiel

\* A channel with one of its frames twice in a row is as faithful as it was.
LEMMA FielRepite ==
    ASSUME NEW D, NEW K, NEW q, NEW r, NEW a \in Nat, NEW d \in {0, 1},
           Len(q) \in Nat, Len(r) = Len(q) + d, a + d <= Len(r), 1 <= a \/ d = 0,
           \A i \in 1 .. Len(r) : r[i] = q[Origen(i, a, d)]
    PROVE  /\ Fiel(D, q, K) => Fiel(D, r, K)
           /\ \A e : Lleva(q, e) => Lleva(r, e)
<1>0. \A i \in 1 .. Len(r) : r[i] = q[IF i <= a THEN i ELSE i - d]
  BY DEF Origen
<1>1. \A j \in 1 .. Len(q) : r[IF j <= a THEN j ELSE j + d] = q[j]
                             /\ (IF j <= a THEN j ELSE j + d) \in 1 .. Len(r)
  <2> SUFFICES ASSUME NEW j \in 1 .. Len(q)
               PROVE  r[IF j <= a THEN j ELSE j + d] = q[j]
                      /\ (IF j <= a THEN j ELSE j + d) \in 1 .. Len(r)
    OBVIOUS
  <2>1. CASE j <= a
    <3>1. j \in 1 .. Len(r)
      OBVIOUS
    <3> QED
      BY <1>0, <2>1, <3>1
  <2>2. CASE ~(j <= a)
    <3>1. j + d \in 1 .. Len(r) /\ ~(j + d <= a) /\ j + d - d = j
      BY <2>2
    <3> QED
      BY <1>0, <2>2, <3>1
  <2> QED
    BY <2>1, <2>2
<1>2. \A e : Lleva(q, e) => Lleva(r, e)
  <2> SUFFICES ASSUME NEW e, Lleva(q, e) PROVE Lleva(r, e)
    OBVIOUS
  <2>1. PICK j \in 1 .. Len(q) : q[j] \in {e, RESYNC}
    BY DEF Lleva
  <2>2. /\ r[IF j <= a THEN j ELSE j + d] = q[j]
        /\ (IF j <= a THEN j ELSE j + d) \in 1 .. Len(r)
    BY <1>1
  <2> QED
    BY <2>1, <2>2, Zenon DEF Lleva
<1>3. ASSUME Fiel(D, q, K) PROVE Fiel(D, r, K)
  <2> SUFFICES ASSUME NEW i \in 1 .. Len(r), r[i] # RESYNC, NEW e \in D, e <= r[i], e \notin K
               PROVE  \E j \in 1 .. i : r[j] \in {e, RESYNC}
    BY DEF Fiel
  <2> DEFINE x == IF i <= a THEN i ELSE i - d
  <2>1. x \in 1 .. Len(q) /\ r[i] = q[x] /\ i \in Nat /\ x <= i
    <3>1. x \in 1 .. Len(q) /\ i \in Nat /\ x <= i
      OBVIOUS
    <3> QED
      BY <1>0, <3>1
  <2>2. PICK j \in 1 .. x : q[j] \in {e, RESYNC}
    BY <1>3, <2>1 DEF Fiel
  <2> DEFINE y == IF j <= a THEN j ELSE j + d
  <2>3. j \in 1 .. Len(q)
    BY <2>1, <2>2
  <2>4. r[y] = q[j]
    BY <1>1, <2>3
  <2>5. y \in 1 .. i
    BY <2>1, <2>2
  <2> QED
    BY <2>2, <2>4, <2>5
<1> QED
  BY <1>2, <1>3

LEMMA FielSigue ==
    ASSUME NEW S, NEW q \in Seq(S), NEW p \in Seq(S), NEW D, NEW K, Fiel(D, q, K),
           \A i \in 1 .. Len(p) : p[i] # RESYNC =>
               \A e \in D : e <= p[i] =>
                   e \in K \/ Lleva(q, e) \/ \E j \in 1 .. i : p[j] \in {e, RESYNC}
    PROVE  Fiel(D, q \o p, K)
<1> DEFINE r == q \o p
<1>1. /\ Len(q) \in Nat /\ Len(p) \in Nat /\ Len(r) = Len(q) + Len(p)
      /\ \A i \in 1 .. Len(q) + Len(p) : r[i] = IF i <= Len(q) THEN q[i] ELSE p[i - Len(q)]
  BY LenProperties, ConcatProperties
<1> HIDE DEF r
<1>2. \A i \in 1 .. Len(q) : r[i] = q[i] /\ i \in 1 .. Len(r)
  BY <1>1
<1>3. \A i \in 1 .. Len(p) : r[Len(q) + i] = p[i] /\ Len(q) + i \in 1 .. Len(r)
  <2> SUFFICES ASSUME NEW i \in 1 .. Len(p)
               PROVE  r[Len(q) + i] = p[i] /\ Len(q) + i \in 1 .. Len(r)
    OBVIOUS
  <2>1. /\ Len(q) + i \in 1 .. Len(q) + Len(p) /\ ~(Len(q) + i <= Len(q))
        /\ Len(q) + i - Len(q) = i
    BY <1>1
  <2> QED
    BY <1>1, <2>1
<1>4. SUFFICES ASSUME NEW i \in 1 .. Len(r), r[i] # RESYNC, NEW e \in D, e <= r[i], e \notin K
               PROVE  \E j \in 1 .. i : r[j] \in {e, RESYNC}
  BY DEF Fiel, r
<1>5. i \in Nat /\ 1 <= i /\ i <= Len(q) + Len(p)
  BY <1>1
<1>6. CASE i <= Len(q)
  <2>1. i \in 1 .. Len(q) /\ r[i] = q[i]
    BY <1>2, <1>5, <1>6
  <2>2. PICK j \in 1 .. i : q[j] \in {e, RESYNC}
    BY <1>4, <2>1 DEF Fiel
  <2>3. j \in 1 .. Len(q)
    BY <1>1, <1>6, <2>2
  <2> QED
    BY <1>2, <2>2, <2>3
<1>7. CASE ~(i <= Len(q))
  <2> DEFINE x == i - Len(q)
  <2>1. x \in 1 .. Len(p) /\ Len(q) + x = i /\ r[i] = p[x]
    <3>1. x \in 1 .. Len(p) /\ Len(q) + x = i
      BY <1>1, <1>5, <1>7
    <3> HIDE DEF x
    <3> QED
      BY <1>3, <3>1
  <2> HIDE DEF x
  <2>2. CASE Lleva(q, e)
    <3>1. PICK j \in 1 .. Len(q) : q[j] \in {e, RESYNC}
      BY <2>2 DEF Lleva
    <3>2. j \in 1 .. i
      BY <1>1, <1>5, <1>7, <3>1
    <3> QED
      BY <1>2, <3>1, <3>2
  <2>3. CASE \E j \in 1 .. x : p[j] \in {e, RESYNC}
    <3>1. PICK j \in 1 .. x : p[j] \in {e, RESYNC}
      BY <2>3
    <3>2. j \in 1 .. Len(p) /\ Len(q) + j \in 1 .. i
      BY <1>1, <1>5, <2>1, <3>1
    <3> QED
      BY <1>3, <3>1, <3>2
  <2> QED
    BY <1>4, <2>1, <2>2, <2>3
<1> QED
  BY <1>5, <1>6, <1>7

LEMMA LlevaJunta ==
    ASSUME NEW S, NEW q \in Seq(S), NEW p \in Seq(S), NEW e
    PROVE  Lleva(q \o p, e) <=> Lleva(q, e) \/ Lleva(p, e)
<1> DEFINE r == q \o p
<1>1. /\ Len(q) \in Nat /\ Len(p) \in Nat /\ Len(r) = Len(q) + Len(p)
      /\ \A i \in 1 .. Len(q) + Len(p) : r[i] = IF i <= Len(q) THEN q[i] ELSE p[i - Len(q)]
  BY LenProperties, ConcatProperties
<1> HIDE DEF r
<1>2. \A i \in 1 .. Len(q) : r[i] = q[i] /\ i \in 1 .. Len(r)
  BY <1>1
<1>3. \A i \in 1 .. Len(p) : r[Len(q) + i] = p[i] /\ Len(q) + i \in 1 .. Len(r)
  <2> SUFFICES ASSUME NEW i \in 1 .. Len(p)
               PROVE  r[Len(q) + i] = p[i] /\ Len(q) + i \in 1 .. Len(r)
    OBVIOUS
  <2>1. /\ Len(q) + i \in 1 .. Len(q) + Len(p) /\ ~(Len(q) + i <= Len(q))
        /\ Len(q) + i - Len(q) = i
    BY <1>1
  <2> QED
    BY <1>1, <2>1
<1>4. ASSUME Lleva(q, e) \/ Lleva(p, e) PROVE Lleva(r, e)
  BY <1>2, <1>3, <1>4 DEF Lleva
<1>5. ASSUME Lleva(r, e) PROVE Lleva(q, e) \/ Lleva(p, e)
  <2>1. PICK i \in 1 .. Len(q) + Len(p) : r[i] \in {e, RESYNC}
    BY <1>1, <1>5 DEF Lleva
  <2>2. CASE i <= Len(q)
    <3>1. i \in 1 .. Len(q)
      BY <1>1, <2>1, <2>2
    <3> QED
      BY <1>2, <2>1, <3>1 DEF Lleva
  <2>3. CASE ~(i <= Len(q))
    <3>1. i - Len(q) \in 1 .. Len(p) /\ r[i] = p[i - Len(q)]
      BY <1>1, <2>1, <2>3
    <3> QED
      BY <2>1, <3>1 DEF Lleva
  <2> QED
    BY <2>2, <2>3
<1> QED
  BY <1>4, <1>5 DEF r

\* What comes first is faithful by itself.
LEMMA FielParte ==
    ASSUME NEW S, NEW q \in Seq(S), NEW p \in Seq(S), NEW D, NEW K, Fiel(D, q \o p, K)
    PROVE  Fiel(D, q, K)
<1> DEFINE r == q \o p
<1>1. /\ Len(q) \in Nat /\ Len(p) \in Nat /\ Len(r) = Len(q) + Len(p)
      /\ \A i \in 1 .. Len(q) + Len(p) : r[i] = IF i <= Len(q) THEN q[i] ELSE p[i - Len(q)]
  BY LenProperties, ConcatProperties
<1> HIDE DEF r
<1>2. \A i \in 1 .. Len(q) : r[i] = q[i] /\ i \in 1 .. Len(r) /\ \A j \in 1 .. i : j \in 1 .. Len(q)
  BY <1>1
<1>3. Fiel(D, r, K)
  BY DEF r
<1> QED
  BY <1>2, <1>3 DEF Fiel

\* What comes later is faithful once what came first was received.
LEMMA FielResto ==
    ASSUME NEW S, NEW q \in Seq(S), NEW p \in Seq(S), NEW D, NEW K, NEW L, Fiel(D, q \o p,
           K),
           K \subseteq L, \A e \in D : Lleva(q, e) => e \in L
    PROVE  Fiel(D, p, L)
<1> DEFINE r == q \o p
<1>1. /\ Len(q) \in Nat /\ Len(p) \in Nat /\ Len(r) = Len(q) + Len(p)
      /\ \A i \in 1 .. Len(q) + Len(p) : r[i] = IF i <= Len(q) THEN q[i] ELSE p[i - Len(q)]
  BY LenProperties, ConcatProperties
<1> HIDE DEF r
<1>2. Fiel(D, r, K)
  BY DEF r
<1> SUFFICES ASSUME NEW i \in 1 .. Len(p), p[i] # RESYNC, NEW e \in D, e <= p[i], e \notin L
             PROVE  \E j \in 1 .. i : p[j] \in {e, RESYNC}
  BY DEF Fiel
<1> DEFINE x == Len(q) + i
<1>3. x \in 1 .. Len(r) /\ x \in 1 .. Len(q) + Len(p) /\ r[x] = p[i] /\ i \in Nat
  <2>1. x \in 1 .. Len(q) + Len(p) /\ ~(x <= Len(q)) /\ x - Len(q) = i /\ i \in Nat
    BY <1>1
  <2> QED
    BY <1>1, <2>1
<1>4. PICK j \in 1 .. x : r[j] \in {e, RESYNC}
  BY <1>2, <1>3 DEF Fiel
<1>5. ~(j <= Len(q))
  <2> SUFFICES ASSUME j <= Len(q) PROVE FALSE
    OBVIOUS
  <2>1. j \in 1 .. Len(q) /\ r[j] = q[j]
    BY <1>1, <1>3, <1>4
  <2> QED
    BY <1>4, <2>1 DEF Lleva
<1>6. j - Len(q) \in 1 .. i /\ r[j] = p[j - Len(q)]
  BY <1>1, <1>3, <1>4, <1>5
<1> QED
  BY <1>4, <1>6

LEMMA CanalSeq ==
    ASSUME NEW C, NEW s \in Ficha(C)
    PROVE  /\ s.transito \in Seq(C \cup {0}) /\ s.cola \in Seq(C \cup {0})
           /\ Canal(s) \in Seq(C \cup {0})
<1>1. s.transito \in Seq(C \cup {0}) /\ s.cola \in Seq(C \cup {0})
  BY DEF Ficha
<1> QED
  BY <1>1, ConcatProperties DEF Canal

\* The step from s to t loses nothing that is on its way.
Conserva(s, t, K) == \A e : Cubierta(s, K, e) => Cubierta(t, K, e)

LEMMA CanalRepite ==
    ASSUME NEW S, NEW a \in Seq(S), NEW b \in Seq(S), NEW n \in 0 .. Len(b),
           NEW m, m = Tras(n, Len(b)), NEW D, NEW K
    PROVE  /\ Fiel(D, a \o b, K) => Fiel(D, Repetida(a, b, n, m), K)
           /\ \A e : Lleva(a \o b, e) => Lleva(Repetida(a, b, n, m), e)
<1> DEFINE q == a \o b
           r == Repetida(a, b, n, m)
           x == Len(a) + m
           d == m - n
<1>0. /\ Len(q) = Len(a) + Len(b) /\ Len(a) \in Nat
      /\ m \in 0 .. Len(b) /\ d \in {0, 1}
      /\ Repeticion(q, r, x, d)
  BY Repite, Zenon
<1> HIDE DEF q, r
<1>1. /\ Len(q) = Len(a) + Len(b) /\ Len(q) \in Nat /\ Len(a) \in Nat
      /\ m \in 0 .. Len(b) /\ d \in {0, 1}
      /\ Len(r) = Len(q) + d
      /\ \A i \in 1 .. Len(r) : r[i] = q[Origen(i, x, d)]
  BY <1>0 DEF Repeticion
<1>2. x \in Nat /\ x + d <= Len(r) /\ (1 <= x \/ d = 0)
  BY <1>1 DEF Tras
<1> HIDE DEF x, d
<1>3. /\ Fiel(D, q, K) => Fiel(D, r, K)
      /\ \A e : Lleva(q, e) => Lleva(r, e)
  BY <1>1, <1>2, FielRepite, Zenon
<1> QED
  BY <1>3 DEF q, r

\* flush keeps a channel healthy and loses nothing.
LEMMA VolcarSano ==
    ASSUME NEW C \in SUBSET Nat, NEW s \in Ficha(C), NEW D, NEW K, Sano(D, s, K)
    PROVE  Sano(D, Volcar(s), K) /\ Conserva(s, Volcar(s), K)
<1> DEFINE v == Volcar(s)
<1>1. v \in Ficha(C) /\ Igual(s, v)
  BY VolcarFicha
<1>2. CASE ~s.suscrito \/ s.pausado
  BY <1>2 DEF Volcar, Conserva
<1>3. CASE s.suscrito /\ ~s.pausado /\ s.socket # "abierto"
  <2>1. PICK n \in 0 .. Len(s.cola), m \in 0 .. Len(s.cola) :
           v = [s EXCEPT !.cola = SubSeq(s.cola, n + 1, Len(s.cola)),
                         !.pausado = n < Len(s.cola),
                         !.enviado = UltimoId(SubSeq(s.cola, 1, n), s.enviado),
                         !.transito = IF s.socket = "abierto"
                                      THEN s.transito \o SubSeq(s.cola, 1, m) ELSE s.transito]
    BY <1>3, VolcarForma
  <2>2. v.transito = s.transito
    BY <1>3, <2>1 DEF Ficha
  <2>3. ~Abierto(s) /\ ~Abierto(v)
    BY <1>1, <1>3 DEF Abierto, Igual
  <2> HIDE DEF v
  <2>4. Canal(v) = Canal(s)
    BY <2>2, <2>3 DEF Canal
  <2> QED
    BY <2>3, <2>4 DEF Sano, Conserva, Cubierta, v
<1>4. CASE s.suscrito /\ ~s.pausado /\ s.socket = "abierto"
  <2>1. PICK n \in 0 .. Len(s.cola), m \in 0 .. Len(s.cola) :
           /\ m = IF n < Len(s.cola) THEN n + 1 ELSE n
           /\ v = [s EXCEPT !.cola = SubSeq(s.cola, n + 1, Len(s.cola)),
                            !.pausado = n < Len(s.cola),
                            !.enviado = UltimoId(SubSeq(s.cola, 1, n), s.enviado),
                            !.transito = IF s.socket = "abierto"
                                         THEN s.transito \o SubSeq(s.cola, 1, m) ELSE s.transito]
    BY <1>4, VolcarForma
  <2> DEFINE a == s.transito
             b == s.cola
             q == a \o b
             r == Repetida(a, b, n, m)
  <2>2. /\ v.transito = a \o SubSeq(b, 1, m) /\ v.cola = SubSeq(b, n + 1, Len(b))
        /\ v.enviado = UltimoId(SubSeq(b, 1, n), s.enviado)
    BY <1>4, <2>1 DEF Ficha
  <2>3. Abierto(s) /\ Abierto(v)
    BY <1>1, <1>4 DEF Abierto, Igual
  <2>4. Canal(s) = q /\ Canal(v) = r
    BY <2>2, <2>3, Zenon DEF Canal, Repetida
  <2>5. a \in Seq(C \cup {0}) /\ b \in Seq(C \cup {0})
    BY CanalSeq
  <2>6. n \in 0 .. Len(b) /\ m = Tras(n, Len(b))
    BY <2>1 DEF Tras
  <2>7. \A i \in 1 .. n : i \in 1 .. Len(b) /\ SubSeq(b, 1, n)[i] = b[i]
    <3>1. Len(b) \in Nat /\ n \in Nat /\ n <= Len(b)
      BY <2>5, LenProperties
    <3>2. \A i \in 1 .. n - 1 + 1 : SubSeq(b, 1, n)[i] = b[1 + i - 1]
      BY <2>5, <3>1, Tramo
    <3> HIDE DEF b
    <3> QED
      BY <3>1, <3>2
  <2>8. SubSeq(b, 1, n) \in Seq(C \cup {0}) /\ Len(SubSeq(b, 1, n)) = n /\ n \in Nat
    <3>1. Len(b) \in Nat /\ n \in Nat /\ n <= Len(b)
      BY <2>5, LenProperties
    <3>2. /\ SubSeq(b, 1, n) \in Seq(C \cup {0})
          /\ Len(SubSeq(b, 1, n)) = IF 1 <= n THEN n - 1 + 1 ELSE 0
      BY <2>5, <3>1, Tramo
    <3> HIDE DEF b
    <3> QED
      BY <3>1, <3>2
  <2>9. /\ Len(q) \in Nat
        /\ \A i \in 1 .. Len(b) : q[Len(a) + i] = b[i] /\ Len(a) + i \in 1 .. Len(q)
    <3>1. /\ Len(a) \in Nat /\ Len(b) \in Nat /\ Len(q) = Len(a) + Len(b)
          /\ \A i \in 1 .. Len(a) + Len(b) : q[i] = IF i <= Len(a) THEN a[i] ELSE b[i - Len(a)]
      BY <2>5, LenProperties, ConcatProperties
    <3> HIDE DEF a, b, q
    <3>0. Len(q) \in Nat
      BY <3>1
    <3> SUFFICES ASSUME NEW i \in 1 .. Len(b)
                 PROVE  q[Len(a) + i] = b[i] /\ Len(a) + i \in 1 .. Len(q)
      BY <3>0
    <3>2. /\ Len(a) + i \in 1 .. Len(a) + Len(b) /\ ~(Len(a) + i <= Len(a))
          /\ Len(a) + i - Len(a) = i
      BY <3>1
    <3> QED
      BY <3>0, <3>1, <3>2
  <2> HIDE DEF q, r, v, a, b
  <2>10. /\ Fiel(D, q, K) => Fiel(D, r, K)
         /\ \A e : Lleva(q, e) => Lleva(r, e)
    BY <2>5, <2>6, CanalRepite, Zenon DEF q, r
  <2>11. Conserva(s, v, K)
    BY <2>4, <2>10 DEF Conserva, Cubierta
  <2>12. ASSUME NEW e \in D, e <= v.enviado PROVE Cubierta(v, K, e)
    <3>1. CASE v.enviado = s.enviado
      <4>1. Cubierta(s, K, e)
        BY <2>3, <2>12, <3>1 DEF Sano
      <4> QED
        BY <2>11, <4>1 DEF Conserva
    <3>2. CASE \E i \in 1 .. n : b[i] # RESYNC /\ v.enviado = b[i]
      <4>1. PICK i \in 1 .. n : b[i] # RESYNC /\ v.enviado = b[i]
        BY <3>2
      <4> DEFINE x == Len(a) + i
      <4>2. x \in 1 .. Len(q) /\ q[x] = b[i]
        BY <2>7, <2>9, <4>1
      <4> HIDE DEF x
      <4>3. e \in K \/ \E j \in 1 .. x : q[j] \in {e, RESYNC}
        BY <2>4, <2>12, <4>1, <4>2 DEF Sano, Fiel
      <4>4. \A j \in 1 .. x : j \in 1 .. Len(q)
        BY <2>9, <4>2
      <4>5. e \in K \/ Lleva(q, e)
        BY <4>3, <4>4 DEF Lleva
      <4> QED
        BY <2>4, <2>10, <4>5 DEF Cubierta
    <3>3. \/ v.enviado = s.enviado
          \/ \E i \in 1 .. n : SubSeq(b, 1, n)[i] # RESYNC /\ v.enviado = SubSeq(b, 1, n)[i]
      BY <2>2, <2>8, UltimoIdDe
    <3> QED
      BY <2>7, <3>1, <3>2, <3>3
  <2> QED
    BY <2>3, <2>4, <2>10, <2>11, <2>12 DEF Sano, v
<1> QED
  BY <1>2, <1>3, <1>4

-----------------------------------------------------------------------------
(* Paused queues and full queues *)

\* A paused subscriber has its drain to come, or missed it.
Drena(s) ==
    s.suscrito /\ s.pausado /\ ~s.sordo /\ s.socket = "abierto" => Len(s.transito) >= Capacidad

\* The queue of a subscriber is within the limit, but for a refused replay: its
\* resync may be one frame more.
Holgada(s) == s.suscrito => Len(s.cola) <= BufferMax
Justa(s) ==
    s.suscrito => \/ Len(s.cola) <= BufferMax
                  \/ Len(s.cola) = BufferMax + 1 /\ \E i \in 1 .. Len(s.cola) : s.cola[i] = RESYNC

Cupo(s) == Justa(s) /\ (s.rutina # "vivo" => Holgada(s))

LEMMA VolcarRegla ==
    ASSUME NEW C, NEW s \in Ficha(C)
    PROVE  /\ Drena(s) => Drena(Volcar(s))
           /\ Holgada(s) => Holgada(Volcar(s))
           /\ Justa(s) => Justa(Volcar(s))
<1>1. CASE ~s.suscrito \/ s.pausado
  BY <1>1 DEF Volcar
<1>2. CASE s.suscrito /\ ~s.pausado
  <2> DEFINE v == Volcar(s)
             b == s.cola
             a == s.transito
  <2>1. PICK n \in 0 .. Len(b), m \in 0 .. Len(b) :
              /\ m = IF n < Len(b) THEN n + 1 ELSE n
              /\ v = [s EXCEPT !.cola = SubSeq(b, n + 1, Len(b)),
                               !.pausado = n < Len(b),
                               !.enviado = UltimoId(SubSeq(b, 1, n), s.enviado),
                               !.transito = IF s.socket = "abierto"
                                            THEN a \o SubSeq(b, 1, m) ELSE a]
              /\ s.socket = "abierto" /\ n < Len(b) => Len(a) + m >= Capacidad
    BY <1>2, VolcarForma
  <2>2. /\ v.cola = SubSeq(b, n + 1, Len(b)) /\ v.pausado = (n < Len(b))
        /\ v.transito = (IF s.socket = "abierto" THEN a \o SubSeq(b, 1, m) ELSE a)
        /\ v.socket = s.socket /\ v.suscrito
    BY <1>2, <2>1 DEF Ficha
  <2>3. a \in Seq(C \cup {0}) /\ b \in Seq(C \cup {0})
    BY CanalSeq
  <2>4. /\ Len(b) \in Nat /\ n \in Nat /\ n <= Len(b) /\ m \in Nat /\ m <= Len(b)
        /\ Len(a) \in Nat
    BY <2>3, LenProperties
  <2>5. /\ n + 1 \in 1 .. Len(b) + 1 /\ Len(b) \in 0 .. Len(b) /\ 1 \in 1 .. Len(b) + 1
        /\ m \in 0 .. Len(b)
    BY <2>4
  <2> HIDE DEF v, a, b
  <2>6. /\ Len(SubSeq(b, n + 1, Len(b))) = IF n + 1 <= Len(b) THEN Len(b) - (n + 1) + 1 ELSE 0
        /\ \A x \in 1 .. Len(b) - (n + 1) + 1 : SubSeq(b, n + 1, Len(b))[x] = b[n + 1 + x - 1]
        /\ SubSeq(b, 1, m) \in Seq(C \cup {0})
        /\ Len(SubSeq(b, 1, m)) = IF 1 <= m THEN m - 1 + 1 ELSE 0
    BY <2>3, <2>5, Tramo
  <2>7. Len(v.cola) = Len(b) - n /\ \A x \in 1 .. Len(b) - n : v.cola[x] = b[n + x]
    BY <2>2, <2>4, <2>6
  <2>8. Len(SubSeq(b, 1, m)) = m
    BY <2>4, <2>6
  <2>9. Len(a \o SubSeq(b, 1, m)) = Len(a) + m
    BY <2>3, <2>6, <2>8, ConcatProperties
  <2>10. Drena(v)
    BY <2>1, <2>2, <2>9 DEF Drena
  <2>11. BufferMax \in Nat
    BY AgendaAssumption DEF AgendaAssumption
  <2>12. ASSUME Len(b) <= BufferMax PROVE Len(v.cola) <= BufferMax
    BY <2>4, <2>7, <2>11, <2>12
  <2>13. Holgada(s) => Holgada(v)
    BY <1>2, <2>12 DEF Holgada, b
  <2>14. ASSUME Len(b) = BufferMax + 1, NEW i \in 1 .. Len(b), b[i] = RESYNC
         PROVE  \/ Len(v.cola) <= BufferMax
                \/ Len(v.cola) = BufferMax + 1 /\ \E j \in 1 .. Len(v.cola) : v.cola[j] = RESYNC
    <3>1. CASE n = 0
      <4>1. Len(v.cola) = Len(b) /\ v.cola[i] = b[i]
        BY <2>4, <2>7, <2>14, <3>1
      <4> QED
        BY <2>14, <4>1
    <3>2. CASE n # 0
      BY <2>4, <2>7, <2>11, <2>14, <3>2
    <3> QED
      BY <3>1, <3>2
  <2>15. Justa(s) => Justa(v)
    BY <1>2, <2>2, <2>12, <2>14 DEF Justa, b
  <2> QED
    BY <2>10, <2>13, <2>15 DEF v
<1> QED
  BY <1>1, <1>2

\* A stream that stops delivering is as faithful as it was.
LEMMA CorteSano ==
    ASSUME NEW C, NEW s \in Ficha(C), NEW t \in Ficha(C), NEW D, NEW K, Sano(D, s, K),
           ~Abierto(t), t.transito = s.transito
    PROVE  Sano(D, t, K)
<1>1. s.transito \in Seq(C \cup {0}) /\ s.cola \in Seq(C \cup {0})
  BY CanalSeq
<1>2. Fiel(D, s.transito, K)
  BY <1>1, FielParte DEF Sano, Canal
<1> QED
  BY <1>2 DEF Sano, Canal

\* Two records with the same channel, of which the second is not ahead.
LEMMA MismoCanal ==
    ASSUME NEW s, NEW t, NEW D, NEW K, Sano(D, s, K),
           t.transito = s.transito, t.cola = s.cola, t.enviado = s.enviado,
           t.suscrito = s.suscrito, t.socket = s.socket
    PROVE  /\ Sano(D, t, K) /\ Conserva(s, t, K) /\ (Abierto(t) <=> Abierto(s))
           /\ \A e : Cubierta(t, K, e) <=> Cubierta(s, K, e)
<1>1. Abierto(t) <=> Abierto(s)
  BY DEF Abierto
<1>2. Canal(t) = Canal(s)
  BY <1>1 DEF Canal
<1>3. \A e : Cubierta(t, K, e) <=> Cubierta(s, K, e)
  BY <1>2 DEF Cubierta
<1> QED
  BY <1>1, <1>2, <1>3 DEF Sano, Conserva

ConCola(s, q) == [s EXCEPT !.cola = q]

\* The frames p may follow what is on its way.
Cabe(D, s, K, p) ==
    Abierto(s) =>
        \A i \in 1 .. Len(p) : p[i] # RESYNC =>
            \A e \in D : e <= p[i] =>
                Cubierta(s, K, e) \/ \E j \in 1 .. i : p[j] \in {e, RESYNC}

\* Frames added to the queue
LEMMA AnadirSano ==
    ASSUME NEW C, NEW s \in Ficha(C), NEW D, NEW K, Sano(D, s, K), NEW p \in Seq(C \cup
           {0}),
           Cabe(D, s, K, p),
           NEW t, t = ConCola(s, s.cola \o p)
    PROVE  /\ t \in Ficha(C) /\ Igual(s, t) /\ t.pausado = s.pausado /\ t.transito = s.transito
           /\ t.enviado = s.enviado /\ t.cola = s.cola \o p
           /\ Sano(D, t, K) /\ Conserva(s, t, K)
           /\ Abierto(s) => \A e : Lleva(p, e) => Cubierta(t, K, e)
<1>1. /\ s.transito \in Seq(C \cup {0}) /\ s.cola \in Seq(C \cup {0})
      /\ Canal(s) \in Seq(C \cup {0})
  BY CanalSeq
<1>2. s.cola \o p \in Seq(C \cup {0})
  BY <1>1, ConcatProperties
<1>3. t \in Ficha(C)
  BY <1>2, ColaFicha DEF ConCola
<1>4. /\ Igual(s, t) /\ t.pausado = s.pausado /\ t.transito = s.transito
      /\ t.enviado = s.enviado /\ t.cola = s.cola \o p
  BY DEF Ficha, Igual, ConCola
<1>5. Abierto(t) <=> Abierto(s)
  BY <1>4 DEF Abierto, Igual
<1>6. CASE ~Abierto(s)
  BY <1>3, <1>4, <1>5, <1>6 DEF Sano, Conserva, Cubierta, Canal
<1>7. CASE Abierto(s)
  <2> DEFINE S == C \cup {0}
             a == s.transito
             b == s.cola
             q == Canal(s)
  <2>1. Canal(s) = a \o b /\ Canal(t) = a \o (b \o p)
    BY <1>4, <1>5, <1>7 DEF Canal
  <2>0. a \in Seq(S) /\ b \in Seq(S) /\ p \in Seq(S) /\ q \in Seq(S)
    BY <1>1
  <2> HIDE DEF S, a, b, q
  <2>2. Canal(t) = q \o p
    <3>1. (a \o b) \o p = a \o (b \o p)
      BY <2>0, ConcatAssociative, SMTT(30)
    <3> QED
      BY <2>1, <3>1 DEF q
  <2>3. \A e : Lleva(Canal(t), e) <=> Lleva(Canal(s), e) \/ Lleva(p, e)
    <3>1. \A e : Lleva(q \o p, e) <=> Lleva(q, e) \/ Lleva(p, e)
      BY <2>0, LlevaJunta
    <3> QED
      BY <2>2, <3>1 DEF q
  <2>4. Conserva(s, t, K) /\ \A e : Lleva(p, e) => Cubierta(t, K, e)
    BY <2>3 DEF Conserva, Cubierta
  <2>5. Fiel(D, Canal(t), K)
    <3>1. Fiel(D, q, K)
      BY DEF Sano, q
    <3>2. \A i \in 1 .. Len(p) : p[i] # RESYNC =>
               \A e \in D : e <= p[i] =>
                   e \in K \/ Lleva(q, e) \/ \E j \in 1 .. i : p[j] \in {e, RESYNC}
      BY <1>7 DEF Cubierta, Cabe, q
    <3>3. Fiel(D, q \o p, K)
      BY <2>0, <3>1, <3>2, FielSigue
    <3> QED
      BY <2>2, <3>3
  <2>6. Sano(D, t, K)
    BY <1>4, <1>5, <1>7, <2>4, <2>5 DEF Sano, Conserva
  <2> QED
    BY <1>3, <1>4, <2>4, <2>6
<1> QED
  BY <1>6, <1>7

\* Two records that differ in what is on its way, or by the end of the stream.
Parecido(s, t) ==
    /\ t.rutina = s.rutina /\ t.ido = s.ido /\ t.sordo = s.sordo /\ t.desde = s.desde
    /\ t.marca = s.marca /\ t.actual = s.actual /\ t.reenviados = s.reenviados /\ t.lote = s.lote
    /\ t.suscrito => s.suscrito /\ t.socket = s.socket

\* The resync frame at the end of the queue
LEMMA AvisoSano ==
    ASSUME NEW C, NEW s \in Ficha(C), NEW D, NEW K, Sano(D, s, K),
           NEW t, t = ConCola(s, Append(s.cola, RESYNC))
    PROVE  /\ t \in Ficha(C) /\ Igual(s, t) /\ Sano(D, t, K)
           /\ t.pausado = s.pausado /\ t.transito = s.transito
           /\ Abierto(s) => \A e : Cubierta(t, K, e)
           /\ Holgada(s) => Justa(t)
           /\ Drena(s) => Drena(t)
<1> DEFINE p == <<RESYNC>>
           S == C \cup {0}
<1>1. s.cola \in Seq(S) /\ RESYNC \in S
  BY CanalSeq DEF RESYNC
<1>2. p \in Seq(S) /\ Len(p) = 1 /\ p[1] = RESYNC
  BY <1>1
<1> HIDE DEF S, p
<1>3. Append(s.cola, RESYNC) = s.cola \o p
  BY <1>1, AppendIsConcat DEF p
<1>4. t = ConCola(s, s.cola \o p)
  BY <1>3
<1>5. \A i \in 1 .. Len(p) : p[i] = RESYNC
  BY <1>2
<1>6. Cabe(D, s, K, p)
  BY <1>5 DEF Cabe
<1>7. p \in Seq(C \cup {0})
  BY <1>2 DEF S
<1>8. /\ t \in Ficha(C) /\ Igual(s, t) /\ t.pausado = s.pausado /\ t.transito = s.transito
      /\ t.cola = s.cola \o p
      /\ Sano(D, t, K)
      /\ Abierto(s) => \A e : Lleva(p, e) => Cubierta(t, K, e)
  BY <1>4, <1>6, <1>7, AnadirSano
<1>9. \A e : Lleva(p, e)
  BY <1>2 DEF Lleva
<1>10. Drena(s) => Drena(t)
  BY <1>8 DEF Drena, Igual
<1>11. /\ Len(s.cola) \in Nat /\ Len(t.cola) = Len(s.cola) + 1
       /\ t.cola[Len(s.cola) + 1] = RESYNC
  <2> DEFINE b == s.cola
  <2>1. b \in Seq(S)
    BY <1>1
  <2> HIDE DEF b
  <2>2. /\ Len(b) \in Nat /\ Len(b \o p) = Len(b) + Len(p)
        /\ \A i \in 1 .. Len(b) + Len(p) : (b \o p)[i] = IF i <= Len(b) THEN b[i] ELSE p[i - Len(b)]
    BY <1>2, <2>1, LenProperties, ConcatProperties
  <2>3. (b \o p)[Len(b) + 1] = p[1] /\ Len(b \o p) = Len(b) + 1
    <3>1. /\ Len(b) + 1 \in 1 .. Len(b) + Len(p) /\ ~(Len(b) + 1 <= Len(b))
          /\ Len(b) + 1 - Len(b) = 1
      BY <1>2, <2>2
    <3> QED
      BY <1>2, <2>2, <3>1
  <2> QED
    BY <1>2, <1>8, <2>2, <2>3 DEF b
<1>12. Holgada(s) => Justa(t)
  <2> SUFFICES ASSUME Holgada(s), t.suscrito PROVE Justa(t)
    BY DEF Justa
  <2>1. Len(s.cola) <= BufferMax /\ BufferMax \in Nat
    BY <1>8, AgendaAssumption DEF Holgada, Igual, AgendaAssumption
  <2>2. Len(t.cola) <= BufferMax \/ Len(t.cola) = BufferMax + 1
    BY <1>11, <2>1
  <2>3. Len(s.cola) + 1 \in 1 .. Len(t.cola)
    BY <1>11
  <2> QED
    BY <1>11, <2>2, <2>3 DEF Justa
<1> QED
  BY <1>8, <1>9, <1>10, <1>12

LEMMA DesbordarSano ==
    ASSUME NEW C \in SUBSET Nat, NEW s \in Ficha(C), NEW D, NEW K, Sano(D, s, K)
    PROVE  /\ Desbordar(s) \in Ficha(C) /\ Sano(D, Desbordar(s), K)
           /\ Parecido(s, Desbordar(s)) /\ ~Desbordar(s).suscrito
<1> DEFINE t == ConCola(s, Append(s.cola, RESYNC))
           v == Volcar(t)
           w == CerrarSocket(v)
           u == [w EXCEPT !.suscrito = FALSE]
<1>1. t \in Ficha(C) /\ Igual(s, t) /\ Sano(D, t, K)
  BY AvisoSano
<1>2. Desbordar(s) = u
  BY DEF Desbordar, ConCola
<1> HIDE DEF t
<1>3. v \in Ficha(C) /\ Igual(t, v) /\ Sano(D, v, K)
  BY <1>1, VolcarFicha, VolcarSano
<1> HIDE DEF v
<1>4. /\ w \in Ficha(C) /\ w.transito = v.transito
      /\ w.rutina = v.rutina /\ w.ido = v.ido /\ w.sordo = v.sordo /\ w.desde = v.desde
      /\ w.marca = v.marca /\ w.actual = v.actual /\ w.reenviados = v.reenviados /\ w.lote = v.lote
  BY <1>3 DEF CerrarSocket, Ficha
<1> HIDE DEF w
<1>5. /\ u \in Ficha(C) /\ u.transito = w.transito /\ ~u.suscrito
      /\ u.rutina = w.rutina /\ u.ido = w.ido /\ u.sordo = w.sordo /\ u.desde = w.desde
      /\ u.marca = w.marca /\ u.actual = w.actual /\ u.reenviados = w.reenviados /\ u.lote = w.lote
  <2>1. u \in Ficha(C)
    BY <1>4 DEF Ficha
  <2>2. u.transito = w.transito /\ ~u.suscrito /\ u.rutina = w.rutina /\ u.ido = w.ido
    BY <1>4 DEF Ficha
  <2>3. u.sordo = w.sordo /\ u.desde = w.desde /\ u.marca = w.marca /\ u.actual = w.actual
    BY <1>4 DEF Ficha
  <2>4. u.reenviados = w.reenviados /\ u.lote = w.lote
    BY <1>4 DEF Ficha
  <2> QED
    BY <2>1, <2>2, <2>3, <2>4
<1> HIDE DEF u
<1>6. Sano(D, u, K)
  BY <1>3, <1>4, <1>5, CorteSano DEF Abierto
<1>7. Parecido(s, u)
  BY <1>1, <1>3, <1>4, <1>5 DEF Igual, Parecido
<1> QED
  BY <1>2, <1>5, <1>6, <1>7

\* What the rows of a batch would run ahead of is in it, or covered already.
Consecutivas(c, D, s, K, filas) ==
    Abierto(s) => \A f \in Nuevas(c, s, filas), e \in D :
                      e <= f => e \in filas \/ Cubierta(s, K, e)

\* The record u that s becomes, with the rows of a batch delivered
Entregado(C, D, s, K, filas, u) ==
    /\ u \in Ficha(C) /\ Sano(D, u, K) /\ Parecido(s, u)
    /\ Drena(s) => Drena(u)
    /\ Holgada(s) => Holgada(u)
    /\ Justa(s) => Justa(u)
    /\ Abierto(u) => /\ Abierto(s) /\ Conserva(s, u, K)
                     /\ \A e \in D \cap filas : Cubierta(u, K, e)

\* The rows of a batch that go to the queue, in their order, keep the channel
\* faithful when what the batch leaves out is covered already.
LEMMA EntregarSano ==
    ASSUME NEW m \in Nat, NEW C \in SUBSET (1 .. m), NEW c, NEW s \in Ficha(C),
           NEW filas \in SUBSET C,
           NEW D \in SUBSET C, \A e \in D : SucEvento[e] = SucCliente[c],
           NEW K, Sano(D, s, K), Consecutivas(c, D, s, K, filas),
           NEW u, u = Entregar(c, s, filas)
    PROVE  Entregado(C, D, s, K, filas, u)
<1> DEFINE N == Nuevas(c, s, filas)
           p == Ordenada(N)
           s1 == ConCola(s, s.cola \o p)
           t == Volcar(s1)
<1>0. u = IF ~s.suscrito \/ N = {} THEN s
          ELSE IF Len(t.cola) > BufferMax THEN Desbordar(t) ELSE t
  BY DEF Entregar, ConCola
<1>1. N \in SUBSET C /\ N \in SUBSET (0 .. m) /\ C \in SUBSET Nat
  <2>1. N \in SUBSET filas
    BY DEF Nuevas
  <2>2. 1 .. m \in SUBSET (0 .. m) /\ 0 .. m \in SUBSET Nat
    OBVIOUS
  <2> HIDE DEF N
  <2> QED
    BY <2>1, <2>2
<1>2. \A e \in D \cap filas : e \in N \/ (e <= s.enviado /\ s.enviado # NULO)
  <2> SUFFICES ASSUME NEW e \in D \cap filas PROVE e \in N \/ (e <= s.enviado /\ s.enviado # NULO)
    OBVIOUS
  <2>1. s.enviado \in C \cup {0} /\ e \in 1 .. m /\ SucEvento[e] = SucCliente[c]
    BY DEF Ficha
  <2>2. s.enviado \in Nat
    <3> HIDE DEF N
    <3> QED
      BY <1>1, <2>1
  <2>3. s.enviado = NULO \/ e > s.enviado => e \in N
    BY <2>1 DEF Nuevas
  <2> QED
    BY <2>1, <2>2, <2>3
<1>3. Abierto(s) => \A e \in D \cap filas : e \in N \/ Cubierta(s, K, e)
  BY <1>2 DEF Sano
<1>4. CASE ~s.suscrito \/ N = {}
  <2>1. u = s
    BY <1>0, <1>4
  <2>2. Abierto(s) => N = {}
    BY <1>4 DEF Abierto
  <2> HIDE DEF N
  <2> QED
    BY <1>3, <2>1, <2>2 DEF Parecido, Conserva, Entregado
<1>5. CASE s.suscrito /\ N # {}
  <2>1. /\ IsFiniteSet(N) /\ Cardinality(N) \in Nat
        /\ p \in [1 .. Cardinality(N) -> N]
        /\ \A i, j \in 1 .. Cardinality(N) : i < j => p[i] < p[j]
        /\ \A e \in N : \E i \in 1 .. Cardinality(N) : p[i] = e
    BY <1>1, OrdenadaDe
  <2> HIDE DEF p, N
  <2>2. p \in Seq(C \cup {0}) /\ Len(p) = Cardinality(N)
    <3>1. p \in [1 .. Cardinality(N) -> C \cup {0}]
      BY <1>1, <2>1
    <3>2. p \in Seq(C \cup {0})
      BY <2>1, <3>1, IsASeq
    <3>3. DOMAIN p = 1 .. Cardinality(N) /\ DOMAIN p = 1 .. Len(p) /\ Len(p) \in Nat
      BY <3>1, <3>2, LenProperties
    <3> QED
      BY <2>1, <3>2, <3>3
  <2>3. \A i \in 1 .. Len(p) : p[i] \in N
    BY <2>1, <2>2
  <2>4. \A e \in N : Lleva(p, e)
    BY <2>1, <2>2 DEF Lleva
  <2>5. ASSUME Abierto(s), NEW i \in 1 .. Len(p), NEW e \in D, e <= p[i]
        PROVE  Cubierta(s, K, e) \/ \E j \in 1 .. i : p[j] \in {e, RESYNC}
    <3>1. CASE e \in N
      <4>1. PICK j \in 1 .. Cardinality(N) : p[j] = e
        BY <2>1, <3>1
      <4>2. ~(i < j)
        <5>1. p[i] \in Nat /\ p[j] \in Nat
          BY <1>1, <2>1, <2>2
        <5>2. i < j => p[i] < p[j]
          BY <2>1, <2>2
        <5> QED
          BY <2>5, <4>1, <5>1, <5>2
      <4>3. j \in 1 .. i
        BY <2>1, <2>2, <4>2
      <4> QED
        BY <4>1, <4>3
    <3>2. CASE e \notin N
      <4>1. e \in filas \/ Cubierta(s, K, e)
        BY <2>3, <2>5 DEF N, Consecutivas
      <4> QED
        BY <1>3, <2>5, <3>2, <4>1
    <3> QED
      BY <3>1, <3>2
  <2>12. Cabe(D, s, K, p)
    BY <2>5 DEF Cabe
  <2>6. /\ s1 \in Ficha(C) /\ Igual(s, s1) /\ s1.pausado = s.pausado
        /\ s1.transito = s.transito
        /\ Sano(D, s1, K) /\ Conserva(s, s1, K)
        /\ Abierto(s) => \A e : Lleva(p, e) => Cubierta(s1, K, e)
    BY <2>2, <2>12, AnadirSano
  <2> HIDE DEF s1
  <2>7. /\ t \in Ficha(C) /\ Igual(s1, t) /\ Sano(D, t, K) /\ Conserva(s1, t, K)
        /\ Drena(s1) => Drena(t)
    BY <1>1, <2>6, VolcarFicha, VolcarSano, VolcarRegla
  <2> HIDE DEF t
  <2>8. Drena(s) => Drena(t)
    BY <2>6, <2>7 DEF Drena, Igual
  <2>9. Igual(s, t)
    BY <2>6, <2>7 DEF Igual
  <2>10. CASE Len(t.cola) > BufferMax
    <3>1. u = Desbordar(t)
      BY <1>0, <1>5, <2>10
    <3>2. /\ Desbordar(t) \in Ficha(C) /\ Sano(D, Desbordar(t), K)
          /\ Parecido(t, Desbordar(t)) /\ ~Desbordar(t).suscrito
      BY <1>1, <2>7, DesbordarSano
    <3> DEFINE w == Desbordar(t)
    <3> HIDE DEF w
    <3>3. w \in Ficha(C) /\ Sano(D, w, K) /\ Parecido(t, w) /\ ~w.suscrito
      BY <3>2 DEF w
    <3>4. Parecido(s, w)
      BY <2>9, <3>3 DEF Parecido, Igual
    <3>5. Drena(w) /\ Holgada(w) /\ Justa(w) /\ ~Abierto(w)
      BY <3>3 DEF Drena, Holgada, Justa, Abierto
    <3>6. u = w
      BY <3>1 DEF w
    <3> QED
      BY <3>3, <3>4, <3>5, <3>6 DEF Entregado
  <2>11. CASE ~(Len(t.cola) > BufferMax)
    <3>1. u = t
      BY <1>0, <1>5, <2>11
    <3>2. Len(t.cola) <= BufferMax
      <4>1. t.cola \in Seq(C \cup {0})
        BY <2>7, CanalSeq
      <4> QED
        BY <2>11, <4>1, LenProperties, AgendaAssumption DEF AgendaAssumption
    <3>3. Holgada(t) /\ Justa(t)
      BY <3>2 DEF Holgada, Justa
    <3>4. Parecido(s, t) /\ (Abierto(t) <=> Abierto(s))
      BY <2>9 DEF Parecido, Igual, Abierto
    <3>5. Conserva(s, t, K)
      BY <2>6, <2>7 DEF Conserva
    <3>6. ASSUME Abierto(s), NEW e \in D \cap filas PROVE Cubierta(t, K, e)
      <4>1. CASE Cubierta(s, K, e)
        BY <3>5, <4>1 DEF Conserva
      <4>2. CASE e \in N
        <5>1. Cubierta(s1, K, e)
          BY <2>4, <2>6, <3>6, <4>2
        <5> QED
          BY <2>7, <5>1 DEF Conserva
      <4> QED
        BY <1>3, <3>6, <4>1, <4>2
    <3> QED
      BY <2>7, <2>8, <3>1, <3>3, <3>4, <3>5, <3>6 DEF Entregado
  <2> QED
    BY <2>10, <2>11
<1> QED
  BY <1>4, <1>5

\* t is s after subscribe returned: live, or over.
Concluida(D, s, t, K) ==
    /\ Sano(D, t, K) /\ Drena(t) /\ Cupo(t) /\ t.desde = s.desde
    /\ t.rutina \in {"fuera", "vivo"} /\ (t.suscrito => t.rutina = "vivo")
    /\ Abierto(t) => Abierto(s) /\ Conserva(s, t, K)

LEMMA ConcluirSano ==
    ASSUME NEW c, NEW C \in SUBSET Nat, NEW s \in Ficha(C), NEW D, NEW K,
           Sano(D, s, K), Drena(s), Justa(s), Concluir(c, s)
    PROVE  \E t \in Ficha(C) : Cambia(c, t) /\ Concluida(D, s, t, K)
<1> DEFINE v == Volcar(s)
           w == CerrarLocal(v)
           x == [w EXCEPT !.rutina = "fuera"]
           y == [v EXCEPT !.rutina = "vivo"]
<1>1. /\ v \in Ficha(C) /\ Igual(s, v) /\ Sano(D, v, K) /\ Conserva(s, v, K)
      /\ Drena(v) /\ Justa(v)
  BY VolcarFicha, VolcarSano, VolcarRegla
<1>2. IF v.ido THEN Cambia(c, x) ELSE Cambia(c, y)
  BY DEF Concluir
<1> HIDE DEF v
<1>3. CASE v.ido
  <2>1. w \in Ficha(C) /\ ~w.suscrito /\ w.desde = v.desde /\ w.transito = v.transito
    BY <1>1, CerrarLocalFicha
  <2> HIDE DEF w
  <2>2. /\ x \in Ficha(C) /\ ~x.suscrito /\ x.desde = w.desde /\ x.transito = w.transito
        /\ x.rutina = "fuera"
    BY <2>1 DEF Ficha, Rutinas
  <2> HIDE DEF x
  <2>3. ~Abierto(x) /\ Drena(x) /\ Cupo(x)
    BY <2>2 DEF Abierto, Drena, Cupo, Justa, Holgada
  <2>4. Sano(D, x, K)
    BY <1>1, <2>1, <2>2, <2>3, CorteSano
  <2>5. Concluida(D, s, x, K)
    BY <1>1, <2>1, <2>2, <2>3, <2>4 DEF Concluida, Igual
  <2> QED
    BY <1>2, <1>3, <2>2, <2>5
<1>4. CASE ~v.ido
  <2>1. /\ y \in Ficha(C) /\ y.suscrito = v.suscrito /\ y.socket = v.socket
        /\ y.desde = v.desde
        /\ y.transito = v.transito /\ y.cola = v.cola /\ y.enviado = v.enviado
        /\ y.pausado = v.pausado /\ y.sordo = v.sordo /\ y.rutina = "vivo"
    BY <1>1 DEF Ficha, Rutinas
  <2> HIDE DEF y
  <2>2. Sano(D, y, K) /\ Conserva(v, y, K) /\ (Abierto(y) <=> Abierto(v))
    BY <1>1, <2>1, MismoCanal
  <2>3. Drena(y) /\ Cupo(y)
    BY <1>1, <2>1 DEF Drena, Cupo, Justa
  <2>4. Conserva(s, y, K) /\ (Abierto(y) <=> Abierto(s))
    BY <1>1, <2>2 DEF Conserva, Igual, Abierto
  <2>5. Concluida(D, s, y, K)
    BY <1>1, <2>1, <2>2, <2>3, <2>4 DEF Concluida, Igual
  <2> QED
    BY <1>2, <1>4, <2>1, <2>5
<1> QED
  BY <1>3, <1>4

\* A refused replay: the resync on its way covers everything.
LEMMA RehusarSano ==
    ASSUME NEW c, NEW C \in SUBSET Nat, NEW s \in Ficha(C), NEW D, NEW K,
           Sano(D, s, K), Drena(s), Holgada(s), Rehusar(c, s)
    PROVE  \E t \in Ficha(C) : /\ Cambia(c, t) /\ Concluida(D, s, t, K)
                               /\ Abierto(t) => \A e : Cubierta(t, K, e)
<1> DEFINE a == ConCola(s, Append(s.cola, RESYNC))
           v == Volcar(a)
           u == [v EXCEPT !.enviado = s.marca]
           w == [s EXCEPT !.enviado = s.marca]
<1>1. IF s.suscrito THEN Concluir(c, u) ELSE Concluir(c, w)
  BY DEF Rehusar, ConCola
<1>0. s.marca \in C \cup {0}
  BY DEF Ficha
<1>2. CASE s.suscrito
  <2>1. /\ a \in Ficha(C) /\ Igual(s, a) /\ Sano(D, a, K)
        /\ Abierto(s) => \A e : Cubierta(a, K, e)
        /\ Justa(a) /\ Drena(a)
    BY AvisoSano
  <2> HIDE DEF a
  <2>2. /\ v \in Ficha(C) /\ Igual(a, v) /\ Sano(D, v, K) /\ Conserva(a, v, K)
        /\ Drena(v) /\ Justa(v)
    BY <2>1, VolcarFicha, VolcarSano, VolcarRegla
  <2> HIDE DEF v
  <2>3. /\ u \in Ficha(C) /\ u.suscrito = v.suscrito /\ u.socket = v.socket
        /\ u.desde = v.desde
        /\ u.transito = v.transito /\ u.cola = v.cola /\ u.pausado = v.pausado /\ u.sordo = v.sordo
    BY <1>0, <2>2 DEF Ficha
  <2>8. Concluir(c, u)
    BY <1>1, <1>2
  <2> HIDE DEF u
  <2>4. (Abierto(u) <=> Abierto(s)) /\ (Abierto(u) <=> Abierto(v)) /\ u.desde = s.desde
    BY <2>1, <2>2, <2>3 DEF Igual, Abierto
  <2>5. Canal(u) = Canal(v)
    BY <2>3, <2>4 DEF Canal
  <2>6. Abierto(u) => \A e : Cubierta(u, K, e)
    BY <2>1, <2>2, <2>4, <2>5 DEF Conserva, Cubierta
  <2>7. Sano(D, u, K) /\ Drena(u) /\ Justa(u)
    <3>1. Drena(u) /\ Justa(u)
      BY <2>2, <2>3 DEF Drena, Justa
    <3> QED
      BY <2>2, <2>5, <2>6, <3>1 DEF Sano
  <2>9. PICK t \in Ficha(C) : Cambia(c, t) /\ Concluida(D, u, t, K)
    BY <2>3, <2>7, <2>8, ConcluirSano
  <2>10. Abierto(t) => \A e : Cubierta(t, K, e)
    BY <2>6, <2>9 DEF Concluida, Conserva
  <2>11. Concluida(D, s, t, K)
    BY <2>4, <2>9, <2>10 DEF Concluida, Conserva
  <2> QED
    BY <2>9, <2>10, <2>11
<1>3. CASE ~s.suscrito
  <2>1. /\ w \in Ficha(C) /\ w.suscrito = s.suscrito /\ w.socket = s.socket
        /\ w.desde = s.desde
        /\ w.transito = s.transito
    BY <1>0 DEF Ficha
  <2>2. Concluir(c, w)
    BY <1>1, <1>3
  <2> HIDE DEF w
  <2>3. ~Abierto(w) /\ Drena(w) /\ Justa(w)
    BY <1>3, <2>1 DEF Abierto, Drena, Justa
  <2>4. Sano(D, w, K)
    BY <2>1, <2>3, CorteSano
  <2>5. PICK t \in Ficha(C) : Cambia(c, t) /\ Concluida(D, w, t, K)
    BY <2>1, <2>2, <2>3, <2>4, ConcluirSano
  <2>6. ~Abierto(t)
    BY <2>3, <2>5 DEF Concluida
  <2>7. Concluida(D, s, t, K)
    BY <2>1, <2>5, <2>6 DEF Concluida
  <2> QED
    BY <2>5, <2>6, <2>7
<1> QED
  BY <1>2, <1>3

-----------------------------------------------------------------------------
(* What a browser receives *)

\* A first part of a faithful channel is faithful.
LEMMA FielPrefijo ==
    ASSUME NEW D, NEW K, NEW q, NEW n \in 0 .. Len(q), Len(q) \in Nat, Fiel(D, q, K),
           NEW p, Len(p) = n, \A i \in 1 .. n : p[i] = q[i]
    PROVE  Fiel(D, p, K)
<1> SUFFICES ASSUME NEW i \in 1 .. n, p[i] # RESYNC, NEW e \in D, e <= p[i], e \notin K
             PROVE  \E j \in 1 .. i : p[j] \in {e, RESYNC}
  BY DEF Fiel
<1>1. i \in 1 .. Len(q) /\ p[i] = q[i] /\ \A j \in 1 .. i : p[j] = q[j]
  OBVIOUS
<1>2. PICK j \in 1 .. i : q[j] \in {e, RESYNC}
  BY <1>1 DEF Fiel
<1> QED
  BY <1>1, <1>2

\* The browser knows the rows it received, and all of them after a resync.
LEMMA RecibeSano ==
    ASSUME NEW C, C = confirmados, NEW k, k \in [conoce : SUBSET (C \cup {0}), ultimo : C
           \cup {0},
                              base : C \cup {0}, adelantado : BOOLEAN, peticiones : Nat],
           NEW q \in Seq(C \cup {0})
    PROVE  LET r == Recibe(k, q) IN
           /\ r \in [conoce : SUBSET (C \cup {0}), ultimo : C \cup {0}, base : C \cup {0},
                     adelantado : BOOLEAN, peticiones : Nat]
           /\ r.base = k.base /\ r.adelantado = k.adelantado /\ r.peticiones = k.peticiones
           /\ r.ultimo = UltimoId(q, k.ultimo)
           /\ k.conoce \subseteq r.conoce
           /\ \A e \in C : Lleva(q, e) => e \in r.conoce
<1> DEFINE F == {q[i] : i \in DOMAIN q}
           K == k.conoce \cup F \cup (IF RESYNC \in F THEN confirmados ELSE {})
           u == UltimoId(q, k.ultimo)
           r == [k EXCEPT !.conoce = K, !.ultimo = u]
<1>1. Recibe(k, q) = r
  BY DEF Recibe
<1>2. DOMAIN q = 1 .. Len(q) /\ \A i \in 1 .. Len(q) : q[i] \in C \cup {0}
  BY LenProperties, ElementOfSeq
<1>3. K \in SUBSET (C \cup {0})
  BY <1>2
<1>4. u \in C \cup {0}
  BY UltimoIdTipo
<1>5. \A e \in C : Lleva(q, e) => e \in K
  BY <1>2 DEF Lleva
<1>6. k.conoce \subseteq K
  OBVIOUS
<1> HIDE DEF K, u
<1>7. /\ r \in [conoce : SUBSET (C \cup {0}), ultimo : C \cup {0}, base : C \cup {0},
                adelantado : BOOLEAN, peticiones : Nat]
      /\ r.conoce = K /\ r.ultimo = u
      /\ r.base = k.base /\ r.adelantado = k.adelantado /\ r.peticiones = k.peticiones
  BY <1>3, <1>4
<1> HIDE DEF r
<1> QED
  BY <1>1, <1>5, <1>6, <1>7 DEF u

-----------------------------------------------------------------------------
(* The invariant *)

\* A record of cliente that knows rows of C.
Navegador(C) ==
    [conoce : SUBSET (C \cup {0}), ultimo : C \cup {0}, base : C \cup {0},
     adelantado : BOOLEAN, peticiones : Nat]

\* The rows that neither came late nor were cleaned too soon.
Firmes == confirmados \ (tardios \cup purgados)
Suyas(c, V) == {e \in V : SucEvento[e] = SucCliente[c]}

\* The rows its stream owes to a browser: those after the place it began at or
\* resumed from.
Deuda(c, s, k, V) ==
    {e \in Suyas(c, V) : ~k.adelantado /\ (k.base < e \/ (0 < s.desde /\ s.desde < e))}

Posicion(c, k, V) ==
    \A e \in Suyas(c, V) : ~k.adelantado /\ k.base < e /\ e <= k.ultimo => e \in k.conoce

Desde(D, s, K) == \A e \in D : e <= s.desde => e \in K

\* A stream without a replay before it owes nothing that the cursor passed or
\* the cleaning took.
Sigue(s) == s.rutina = "vivo" \/ (s.rutina \in EnAlta /\ s.desde = NULO)

AlDia(D, K, s, O, u) ==
    Abierto(s) /\ Sigue(s) => \A e \in D : e <= u \/ e \notin O => Cubierta(s, K, e)

\* A replay owes nothing up to its place; its batch has no gaps; and what the
\* cursor passed meanwhile is below the watermark or on its way.
Repone(D, K, s, O, u) ==
    Abierto(s) =>
      /\ s.rutina \in {"leer", "reenviar"} =>
             \A e \in D : e <= s.actual \/ e \notin O => Cubierta(s, K, e)
      /\ s.rutina = "reenviar" =>
             \A e \in D : s.actual < e /\ (\/ \E f \in s.lote : e <= f
                                           \/ Cardinality(s.lote) < LoteReenvio /\ e <= s.marca)
                              => e \in s.lote \/ e \notin O
      /\ s.rutina \in {"limites", "leer", "reenviar"} =>
             \A e \in D : e \in O /\ e <= u => e <= s.marca \/ Cubierta(s, K, e)

Corriente(D, K, s, O, u) ==
    Sano(D, s, K) /\ Desde(D, s, K) /\ AlDia(D, K, s, O, u) /\ Repone(D, K, s, O, u)

ClienteInv(c, s, k, V, O, u) ==
    Posicion(c, k, V) /\ Corriente(Deuda(c, s, k, V), k.conoce, s, O, u)

\* What the place of the handler says of the record.
Forma(s) ==
    /\ Drena(s) /\ Cupo(s)
    /\ s.rutina \in {"fuera", "sucursal"} => ~s.suscrito
    /\ s.rutina = "sucursal" =>
           s.cola = <<>> /\ s.transito = <<>> /\ ~s.pausado /\ s.enviado = NULO
    /\ s.rutina \in {"limites", "leer", "reenviar"} => s.desde # NULO

\* The rows in flight are neither committed nor beyond the sequence, and what
\* was cleaned in time is below everything that is visible or may yet be.
DatosInv ==
    /\ asignado \in Nat
    /\ enVuelo \subseteq Eventos /\ confirmados \subseteq Eventos
    /\ enVuelo \cup confirmados \subseteq 1 .. asignado
    /\ outbox \cup tardios \cup purgados \subseteq confirmados
    /\ enVuelo \cap confirmados = {} /\ outbox \cap purgados = {}
    /\ \A e \in confirmados \ (outbox \cup purgados), d \in outbox \cup enVuelo : e < d

\* The rows of a poll have no gaps after the cursor.
SinSaltos(P, V, O, u) == \A f \in P, e \in V : u < e /\ e <= f => e \in P \/ e \notin O

DespachoInv ==
    /\ activo \in BOOLEAN /\ cursor \in confirmados \cup {0}
    /\ poll \in [leyendo : BOOLEAN, filas : SUBSET confirmados]
    /\ SinSaltos(poll.filas, Firmes, outbox, cursor)
    /\ ~activo => poll.filas = {} /\ \A c \in Clientes : con[c].rutina = "fuera"

FlujoInv ==
    /\ DatosInv
    /\ DespachoInv
    /\ con \in [Clientes -> Ficha(confirmados)]
    /\ cliente \in [Clientes -> Navegador(confirmados)]
    /\ \A c \in Clientes : Forma(con[c])
    /\ \A c \in Clientes : ClienteInv(c, con[c], cliente[c], Firmes, outbox, cursor)

-----------------------------------------------------------------------------
(* Steps of the database *)

LEMMA FichaMas ==
    ASSUME NEW C, NEW E, C \subseteq E
    PROVE  Ficha(C) \subseteq Ficha(E) /\ Navegador(C) \subseteq Navegador(E)
<1>1. ASSUME NEW q \in Seq(C \cup {0}) PROVE q \in Seq(E \cup {0})
  <2>1. Len(q) \in Nat /\ q \in [1 .. Len(q) -> C \cup {0}]
    BY LenProperties
  <2>2. q \in [1 .. Len(q) -> E \cup {0}]
    BY <2>1
  <2> QED
    BY <2>1, <2>2, IsASeq
<1>2. ASSUME NEW s \in Ficha(C) PROVE s \in Ficha(E)
  BY <1>1 DEF Ficha
<1> QED
  BY <1>2 DEF Navegador

\* The rows E, visible when in Q, after a step of the database from D and O: new
\* ones beyond every id, and old ones, cleaned in time if at all.
Mudanza(C, s, u, D, O, E, Q) ==
    \A e \in E : \/ e \in Q /\ \A x \in C \cup {0} : ~(e <= x)
                 \/ /\ e \in D /\ (e \in Q => e \in O)
                    /\ e \in O \ Q => /\ Abierto(s) => e <= u
                                      /\ s.rutina \notin {"leer", "reenviar"}

\* They change nothing for a stream.
LEMMA DatosCorriente ==
    ASSUME NEW C, NEW s \in Ficha(C), NEW u \in C \cup {0}, NEW D, NEW K, NEW O,
           Corriente(D, K, s, O, u), NEW E, NEW Q,
           Mudanza(C, s, u, D, O, E, Q)
    PROVE  Corriente(E, K, s, Q, u)
<1> DEFINE Nueva(e) == e \in Q /\ \A x \in C \cup {0} : ~(e <= x)
           Vieja(e) == /\ e \in D /\ (e \in Q => e \in O)
                       /\ e \in O \ Q => /\ Abierto(s) => e <= u
                                         /\ s.rutina \notin {"leer", "reenviar"}
<1>1. \A e \in E : Nueva(e) \/ Vieja(e)
  BY DEF Mudanza
<1>2. /\ s.enviado \in C \cup {0} /\ s.desde \in C \cup {0} /\ s.actual \in C \cup {0}
      /\ s.marca \in C \cup {0} /\ s.lote \in SUBSET C
  BY DEF Ficha
<1>3. \A i \in 1 .. Len(Canal(s)) : Canal(s)[i] \in C \cup {0}
  <2>1. Canal(s) \in Seq(C \cup {0})
    BY CanalSeq
  <2> QED
    BY <2>1, ElementOfSeq
<1>4. Sano(D, s, K) /\ Desde(D, s, K) /\ AlDia(D, K, s, O, u) /\ Repone(D, K, s, O, u)
  BY DEF Corriente
<1>5. Fiel(E, Canal(s), K)
  <2> SUFFICES ASSUME NEW i \in 1 .. Len(Canal(s)), Canal(s)[i] # RESYNC, NEW e \in E,
                      e <= Canal(s)[i]
               PROVE  e \in K \/ \E j \in 1 .. i : Canal(s)[j] \in {e, RESYNC}
    BY DEF Fiel
  <2>1. e \in D
    BY <1>1, <1>3
  <2> QED
    BY <1>4, <2>1 DEF Sano, Fiel
<1>6. Sano(E, s, K)
  BY <1>1, <1>2, <1>4, <1>5 DEF Sano
<1>7. Desde(E, s, K)
  BY <1>1, <1>2, <1>4 DEF Desde
<1>8. AlDia(E, K, s, Q, u)
  <2> SUFFICES ASSUME Abierto(s), Sigue(s), NEW e \in E, e <= u \/ e \notin Q
               PROVE  Cubierta(s, K, e)
    BY DEF AlDia
  <2>1. Vieja(e)
    BY <1>1
  <2>2. e <= u \/ e \notin O
    BY <2>1
  <2> QED
    BY <1>4, <2>1, <2>2 DEF AlDia
<1>9. Repone(E, K, s, Q, u)
  <2> SUFFICES ASSUME Abierto(s), NEW e \in E
               PROVE  /\ s.rutina \in {"leer", "reenviar"} /\ (e <= s.actual \/ e \notin Q)
                             => Cubierta(s, K, e)
                      /\ s.rutina = "reenviar" /\ s.actual < e
                           /\ (\/ \E f \in s.lote : e <= f
                               \/ Cardinality(s.lote) < LoteReenvio /\ e <= s.marca)
                             => e \in s.lote \/ e \notin Q
                      /\ s.rutina \in {"limites", "leer", "reenviar"} /\ e \in Q /\ e <= u
                             => e <= s.marca \/ Cubierta(s, K, e)
    BY Zenon DEF Repone
  <2>1. CASE Nueva(e)
    <3>1. /\ ~(e <= s.actual) /\ e \in Q /\ ~(e <= u) /\ ~(e <= s.marca)
          /\ \A f \in s.lote : ~(e <= f)
      BY <1>2, <2>1
    <3> QED
      BY <3>1
  <2>2. CASE Vieja(e)
    BY <1>4, <2>2 DEF Repone
  <2> QED
    BY <1>1, <2>1, <2>2
<1> QED
  BY <1>6, <1>7, <1>8, <1>9 DEF Corriente

\* A step that leaves the streams, the cursor and the committed rows alone
LEMMA DatosConserva ==
    ASSUME FlujoInv, DatosInv', NEW m \in Nat, confirmados' \in SUBSET (1 .. m),
           confirmados \subseteq confirmados',
           UNCHANGED <<proceso, con, cliente>>,
           \A e \in Firmes' :
               \/ e \in outbox' /\ \A x \in confirmados \cup {0} : ~(e <= x)
               \/ /\ e \in Firmes /\ (e \in outbox' => e \in outbox)
                  /\ e \in outbox \ outbox' =>
                        /\ activo => e <= cursor
                        /\ \A c \in Clientes : con[c].rutina \notin {"leer", "reenviar"}
    PROVE  FlujoInv'
<1>1. UNCHANGED <<activo, cursor, poll, con, cliente>>
  BY DEF proceso
<1>2. /\ con' \in [Clientes -> Ficha(confirmados')]
      /\ cliente' \in [Clientes -> Navegador(confirmados')]
  BY <1>1, FichaMas DEF FlujoInv
<1>3. DespachoInv'
  <2>1. /\ poll \in [leyendo : BOOLEAN, filas : SUBSET confirmados]
        /\ poll.filas \in SUBSET confirmados
    BY DEF FlujoInv, DespachoInv
  <2>2. SinSaltos(poll.filas, Firmes', outbox', cursor)
    <3> SUFFICES ASSUME NEW f \in poll.filas, NEW e \in Firmes', cursor < e, e <= f, e \in outbox'
                 PROVE  e \in poll.filas
      BY DEF SinSaltos
    <3>1. e \in Firmes /\ e \in outbox
      BY <2>1
    <3> QED
      BY <3>1 DEF FlujoInv, DespachoInv, SinSaltos
  <2> QED
    BY <1>1, <2>1, <2>2 DEF FlujoInv, DespachoInv
<1>4. ASSUME NEW c \in Clientes
      PROVE  ClienteInv(c, con[c], cliente[c], Firmes', outbox', cursor)
  <2> DEFINE s == con[c]
             k == cliente[c]
             D == Deuda(c, s, k, Firmes)
             E == Deuda(c, s, k, Firmes')
  <2>1. /\ s \in Ficha(confirmados) /\ k \in Navegador(confirmados)
        /\ cursor \in confirmados \cup {0}
        /\ Posicion(c, k, Firmes) /\ Corriente(D, k.conoce, s, outbox, cursor)
    BY DEF FlujoInv, DespachoInv, ClienteInv
  <2>2. Abierto(s) => activo
    BY DEF FlujoInv, DespachoInv, Forma, Abierto
  <2>3. ASSUME NEW e \in Suyas(c, Firmes')
        PROVE  \/ e \in outbox' /\ \A x \in confirmados \cup {0} : ~(e <= x)
               \/ /\ e \in Suyas(c, Firmes) /\ (e \in outbox' => e \in outbox)
                  /\ e \in outbox \ outbox' => /\ Abierto(s) => e <= cursor
                                               /\ s.rutina \notin {"leer", "reenviar"}
    BY <2>2 DEF Suyas
  <2>4. Posicion(c, k, Firmes')
    <3> SUFFICES ASSUME NEW e \in Suyas(c, Firmes'), ~k.adelantado, k.base < e, e <= k.ultimo
                 PROVE  e \in k.conoce
      BY DEF Posicion
    <3>1. k.ultimo \in confirmados \cup {0}
      BY <2>1 DEF Navegador
    <3>2. e \in Suyas(c, Firmes)
      BY <2>3, <3>1
    <3> QED
      BY <2>1, <3>2 DEF Posicion
  <2>5. \A e \in E : \/ e \in outbox' /\ \A x \in confirmados \cup {0} : ~(e <= x)
                     \/ /\ e \in D /\ (e \in outbox' => e \in outbox)
                        /\ e \in outbox \ outbox' => /\ Abierto(s) => e <= cursor
                                                     /\ s.rutina \notin {"leer", "reenviar"}
    BY <2>3 DEF Deuda
  <2>7. Mudanza(confirmados, s, cursor, D, outbox, E, outbox')
    BY <2>5 DEF Mudanza
  <2> HIDE DEF s, k, D, E
  <2>6. Corriente(E, k.conoce, s, outbox', cursor)
    BY <2>1, <2>7, DatosCorriente
  <2> QED
    BY <2>4, <2>6 DEF ClienteInv, s, k, E
<1> QED
  BY <1>1, <1>2, <1>3, <1>4 DEF FlujoInv

LEMMA Cotas ==
    ASSUME DatosInv
    PROVE  /\ asignado \in Nat /\ confirmados \in SUBSET (1 .. asignado)
           /\ confirmados \in SUBSET Nat /\ outbox \in SUBSET confirmados
           /\ confirmados \in SUBSET (0 .. asignado) /\ outbox \in SUBSET (0 .. asignado)
<1>1. /\ asignado \in Nat /\ confirmados \in SUBSET (1 .. asignado)
      /\ outbox \in SUBSET confirmados
  BY DEF DatosInv
<1>2. 1 .. asignado \in SUBSET (0 .. asignado) /\ 0 .. asignado \in SUBSET Nat
  BY <1>1
<1> QED
  BY <1>1, <1>2

LEMMA InsertarFlujo ==
    ASSUME FlujoInv, Insertar
    PROVE  FlujoInv'
<1>1. /\ asignado' = asignado + 1 /\ enVuelo' = enVuelo \cup {asignado + 1}
      /\ asignado + 1 \in Eventos
      /\ UNCHANGED <<outbox, confirmados, tardios, purgados, proceso, con, cliente>>
  BY DEF Insertar
<1>2. DatosInv
  BY DEF FlujoInv
<1>3. asignado \in Nat /\ confirmados \in SUBSET (1 .. asignado)
  BY <1>2, Cotas
<1>4. asignado + 1 \notin confirmados /\ \A e \in confirmados : e < asignado + 1
  BY <1>3
<1>5. DatosInv'
  <2>1. asignado' \in Nat
    BY <1>1, <1>3
  <2>2. enVuelo' \subseteq Eventos /\ confirmados' \subseteq Eventos
    BY <1>1, <1>2 DEF DatosInv
  <2>3. enVuelo' \cup confirmados' \subseteq 1 .. asignado'
    <3>1. 1 .. asignado \subseteq 1 .. asignado' /\ asignado + 1 \in 1 .. asignado'
      BY <1>1, <1>3
    <3> QED
      BY <1>1, <1>2, <3>1 DEF DatosInv
  <2>4. /\ outbox' \cup tardios' \cup purgados' \subseteq confirmados'
        /\ enVuelo' \cap confirmados' = {} /\ outbox' \cap purgados' = {}
    BY <1>1, <1>2, <1>4 DEF DatosInv
  <2>5. \A e \in confirmados' \ (outbox' \cup purgados'), d \in outbox' \cup enVuelo' : e < d
    BY <1>1, <1>2, <1>4 DEF DatosInv
  <2> QED
    BY <2>1, <2>2, <2>3, <2>4, <2>5 DEF DatosInv
<1>6. Firmes' = Firmes
  BY <1>1 DEF Firmes
<1> QED
  BY <1>1, <1>3, <1>5, <1>6, DatosConserva

LEMMA RevertirFlujo ==
    ASSUME FlujoInv, NEW e \in Eventos, Revertir(e)
    PROVE  FlujoInv'
<1>1. /\ enVuelo' \subseteq enVuelo
      /\ UNCHANGED <<asignado, outbox, confirmados, tardios, purgados, proceso, con, cliente>>
  BY DEF Revertir
<1>2. DatosInv
  BY DEF FlujoInv
<1>3. asignado \in Nat /\ confirmados \in SUBSET (1 .. asignado)
  BY <1>2, Cotas
<1>4. DatosInv'
  BY <1>1, <1>2 DEF DatosInv
<1>5. Firmes' = Firmes
  BY <1>1 DEF Firmes
<1> QED
  BY <1>1, <1>3, <1>4, <1>5, DatosConserva

\* A row that commits is beyond every id there is, or came late.
LEMMA ConfirmarFlujo ==
    ASSUME FlujoInv, NEW e \in Eventos, Confirmar(e)
    PROVE  FlujoInv'
<1>1. /\ e \in enVuelo /\ enVuelo' = enVuelo \ {e}
      /\ outbox' = outbox \cup {e} /\ confirmados' = confirmados \cup {e}
      /\ tardios' = IF e < MaxId(confirmados) THEN tardios \cup {e} ELSE tardios
      /\ UNCHANGED <<asignado, purgados, proceso, con, cliente>>
  BY DEF Confirmar
<1>2. DatosInv
  BY DEF FlujoInv
<1>3. /\ asignado \in Nat /\ confirmados \in SUBSET (1 .. asignado)
      /\ confirmados \in SUBSET (0 .. asignado)
  BY <1>2, Cotas
<1>4. /\ e \notin confirmados /\ e \notin outbox /\ e \notin purgados /\ e \notin tardios
      /\ e \in 1 .. asignado
  BY <1>1, <1>2 DEF DatosInv
<1>5. DatosInv'
  <2>1. /\ asignado' \in Nat
        /\ enVuelo' \subseteq Eventos /\ confirmados' \subseteq Eventos
        /\ enVuelo' \cup confirmados' \subseteq 1 .. asignado'
        /\ outbox' \cup tardios' \cup purgados' \subseteq confirmados'
        /\ enVuelo' \cap confirmados' = {} /\ outbox' \cap purgados' = {}
    BY <1>1, <1>2, <1>4 DEF DatosInv
  <2>2. /\ confirmados' \ (outbox' \cup purgados') \subseteq confirmados \ (outbox \cup purgados)
        /\ outbox' \cup enVuelo' \subseteq outbox \cup enVuelo
    BY <1>1
  <2>3. \A x \in confirmados \ (outbox \cup purgados), d \in outbox \cup enVuelo : x < d
    BY <1>2 DEF DatosInv
  <2>4. \A x \in confirmados' \ (outbox' \cup purgados'), d \in outbox' \cup enVuelo' : x < d
    BY <2>2, <2>3
  <2> QED
    BY <2>1, <2>4 DEF DatosInv
<1>6. /\ MaxId(confirmados) \in confirmados \cup {0}
      /\ \A x \in confirmados : x <= MaxId(confirmados)
  BY <1>3, MaxIdDe
<1>7. ASSUME NEW f \in Firmes'
      PROVE  \/ f \in outbox' /\ \A x \in confirmados \cup {0} : ~(f <= x)
             \/ f \in Firmes /\ (f \in outbox' => f \in outbox) /\ f \notin outbox \ outbox'
  <2>1. CASE f # e
    BY <1>1, <2>1 DEF Firmes
  <2>2. CASE f = e
    <3>1. ~(e < MaxId(confirmados))
      BY <1>1, <1>7, <2>2 DEF Firmes
    <3>2. MaxId(confirmados) \in Nat /\ e \in Nat /\ e # 0 /\ e # MaxId(confirmados)
      <4>1. confirmados \in SUBSET Nat
        BY <1>2, Cotas
      <4>2. e \in Nat /\ e # 0
        BY <1>3, <1>4
      <4>3. MaxId(confirmados) \in Nat
        <5>1. \A x \in confirmados \cup {0} : x \in Nat
          BY <4>1
        <5> QED
          BY <1>6, <5>1
      <4>4. e # MaxId(confirmados)
        BY <1>4, <1>6, <4>2
      <4> QED
        BY <4>2, <4>3, <4>4
    <3>3. \A x \in confirmados \cup {0} : x \in Nat /\ x <= MaxId(confirmados)
      BY <1>3, <1>6, <3>2
    <3>4. \A x \in confirmados \cup {0} : ~(e <= x)
      BY <3>1, <3>2, <3>3
    <3> QED
      BY <1>1, <2>2, <3>4
  <2> QED
    BY <2>1, <2>2
<1>8. confirmados' \in SUBSET (1 .. asignado) /\ confirmados \subseteq confirmados'
  BY <1>1, <1>3, <1>4
<1> QED
  BY <1>1, <1>3, <1>5, <1>7, <1>8, DatosConserva

\* The rows that a cleaning takes were read by whoever was going to read them,
\* or count as cleaned too soon.
LEMMA LimpiarFlujo ==
    ASSUME FlujoInv, NEW k \in Eventos, Limpiar(k)
    PROVE  FlujoInv'
<1> DEFINE reenvio == \E c \in Clientes : con[c].rutina \in {"leer", "reenviar"}
           X == {e \in outbox \ outbox' : \/ reenvio \/ (activo /\ e > cursor)
                                          \/ \E d \in enVuelo : d < e}
<1>1. /\ k \in outbox /\ outbox' = {e \in outbox : e > k} /\ purgados' = purgados \cup X
      /\ UNCHANGED <<enVuelo, asignado, confirmados, tardios, proceso, con, cliente>>
  BY DEF Limpiar
<1>2. DatosInv /\ DespachoInv
  BY DEF FlujoInv
<1>3. /\ asignado \in Nat /\ confirmados \in SUBSET (1 .. asignado)
      /\ outbox \in SUBSET confirmados
      /\ confirmados \in SUBSET Nat
  BY <1>2, Cotas
<1>4. ASSUME NEW e \in outbox \ outbox', e \notin X
      PROVE  /\ e \in Nat /\ e <= k /\ k \in Nat
             /\ \A c \in Clientes : con[c].rutina \notin {"leer", "reenviar"}
             /\ activo => e <= cursor
             /\ \A d \in enVuelo : e < d
  <2>1. e \in Nat /\ k \in Nat /\ e <= k /\ e \in confirmados
    BY <1>1, <1>3
  <2>2. ~reenvio /\ ~(activo /\ e > cursor) /\ ~(\E d \in enVuelo : d < e)
    BY <1>4
  <2>3. cursor \in Nat
    BY <1>2, <1>3 DEF DespachoInv
  <2>4. \A d \in enVuelo : d \in Nat /\ d # e
    BY <1>2, <2>1 DEF DatosInv
  <2> QED
    BY <2>1, <2>2, <2>3, <2>4
<1>5. X \subseteq outbox \ outbox'
  OBVIOUS
<1> HIDE DEF X
<1>6. DatosInv'
  <2>1. /\ asignado' \in Nat
        /\ enVuelo' \subseteq Eventos /\ confirmados' \subseteq Eventos
        /\ enVuelo' \cup confirmados' \subseteq 1 .. asignado'
        /\ outbox' \cup tardios' \cup purgados' \subseteq confirmados'
        /\ enVuelo' \cap confirmados' = {} /\ outbox' \cap purgados' = {}
    BY <1>1, <1>2, <1>5 DEF DatosInv
  <2>2. ASSUME NEW e \in confirmados' \ (outbox' \cup purgados'), NEW d \in outbox' \cup enVuelo'
        PROVE  e < d
    <3>1. CASE e \in outbox
      <4>1. e \in outbox \ outbox' /\ e \notin X
        BY <1>1, <2>2, <3>1
      <4>2. e \in Nat /\ e <= k /\ k \in Nat /\ \A x \in enVuelo : e < x
        BY <1>4, <4>1
      <4>3. d \in outbox' => d \in Nat /\ d > k
        BY <1>1, <1>3
      <4> QED
        BY <1>1, <2>2, <4>2, <4>3
    <3>2. CASE e \notin outbox
      <4>1. e \in confirmados \ (outbox \cup purgados) /\ d \in outbox \cup enVuelo
        BY <1>1, <2>2, <3>2
      <4> QED
        BY <1>2, <4>1 DEF DatosInv
    <3> QED
      BY <3>1, <3>2
  <2> QED
    BY <2>1, <2>2 DEF DatosInv
<1>7. ASSUME NEW f \in Firmes'
      PROVE  /\ f \in Firmes /\ (f \in outbox' => f \in outbox)
             /\ f \in outbox \ outbox' =>
                   /\ activo => f <= cursor
                   /\ \A c \in Clientes : con[c].rutina \notin {"leer", "reenviar"}
  <2>1. f \in Firmes /\ f \notin X /\ (f \in outbox' => f \in outbox)
    BY <1>1 DEF Firmes
  <2> QED
    BY <1>4, <2>1
<1> QED
  BY <1>1, <1>3, <1>6, <1>7, DatosConserva

-----------------------------------------------------------------------------
(* Steps of the dispatcher *)

LEMMA InactivaFicha ==
    ASSUME NEW C
    PROVE  Inactiva \in Ficha(C) /\ Forma(Inactiva) /\ ~Abierto(Inactiva)
<1>1. <<>> \in Seq(C \cup {0}) /\ MaxReenvio \in Nat
  BY EmptySeq, AgendaAssumption DEF AgendaAssumption
<1>2. Inactiva \in Ficha(C)
  BY <1>1 DEF Inactiva, Ficha, Rutinas, NULO
<1>3. Forma(Inactiva)
  BY DEF Inactiva, Forma, Drena, Cupo, Justa, Holgada
<1> QED
  BY <1>2, <1>3 DEF Inactiva, Abierto

\* A stream with nothing on its way, at the place its browser asked for
LEMMA CerradoInv ==
    ASSUME NEW c, NEW t, NEW k, NEW V \in SUBSET (Nat \ {0}), NEW O, NEW u,
           ~Abierto(t), t.transito = <<>>, Posicion(c, k, V), t.desde \in {0, k.ultimo},
           k.ultimo \in Nat
    PROVE  ClienteInv(c, t, k, V, O, u)
<1> DEFINE D == Deuda(c, t, k, V)
           K == k.conoce
<1>1. Sano(D, t, K)
  <2>1. Canal(t) = <<>>
    BY DEF Canal
  <2>2. Fiel(D, <<>>, K)
    BY EmptySeq DEF Fiel
  <2> QED
    BY <2>1, <2>2 DEF Sano
<1>2. Desde(D, t, K)
  <2> SUFFICES ASSUME NEW e \in D, e <= t.desde PROVE e \in K
    BY DEF Desde
  <2>1. e \in Suyas(c, V) /\ ~k.adelantado /\ e \in Nat \ {0}
    BY DEF Deuda, Suyas
  <2>2. k.base < e \/ (0 < t.desde /\ t.desde < e)
    BY DEF Deuda
  <2>3. t.desde = k.ultimo /\ k.base < e /\ e <= k.ultimo
    BY <2>1, <2>2
  <2> QED
    BY <2>1, <2>3 DEF Posicion
<1>3. AlDia(D, K, t, O, u) /\ Repone(D, K, t, O, u)
  BY DEF AlDia, Repone
<1> QED
  BY <1>1, <1>2, <1>3 DEF ClienteInv, Corriente

LEMMA PollFlujo ==
    ASSUME FlujoInv, PollConsulta \/ PollFalla
    PROVE  FlujoInv'
<1>1. UNCHANGED <<bd, activo, cursor, con, cliente>> /\ activo
  BY DEF PollConsulta, PollFalla
<1>2. UNCHANGED <<enVuelo, asignado, outbox, confirmados, tardios, purgados>>
  BY <1>1 DEF bd
<1>3. DatosInv /\ DespachoInv
  BY DEF FlujoInv
<1>4. DatosInv' /\ Firmes' = Firmes
  BY <1>2, <1>3 DEF DatosInv, Firmes
<1>5. /\ poll' \in [leyendo : BOOLEAN, filas : SUBSET confirmados]
      /\ SinSaltos(poll'.filas, Firmes, outbox, cursor)
  <2>1. CASE PollFalla
    BY <2>1 DEF PollFalla, PollLibre, SinSaltos
  <2>2. CASE PollConsulta
    <3> DEFINE S == {e \in outbox : e > cursor}
               P == Primeras(S, Lote)
    <3>1. poll' = [leyendo |-> TRUE, filas |-> P]
      BY <2>2 DEF PollConsulta
    <3>2. /\ asignado \in Nat /\ S \in SUBSET (0 .. asignado)
          /\ outbox \in SUBSET confirmados /\ Lote \in Nat
      BY <1>3, Cotas, AgendaAssumption DEF AgendaAssumption
    <3> HIDE DEF P
    <3>3. P \subseteq S /\ \A e \in S, f \in P : e <= f => e \in P
      <4> HIDE DEF S
      <4> QED
        BY <3>2, PrimerasDe DEF P
    <3>4. cursor \in Nat /\ confirmados \in SUBSET Nat
      BY <1>3, Cotas DEF DespachoInv
    <3>5. SinSaltos(P, Firmes, outbox, cursor)
      BY <3>3, <3>4 DEF SinSaltos, Firmes
    <3>6. P \in SUBSET confirmados
      BY <3>2, <3>3
    <3> HIDE DEF S
    <3> QED
      BY <3>1, <3>5, <3>6
  <2> QED
    BY <2>1, <2>2
<1>6. DespachoInv'
  BY <1>1, <1>2, <1>3, <1>4, <1>5 DEF DespachoInv
<1> QED
  BY <1>1, <1>2, <1>4, <1>6 DEF FlujoInv

LEMMA CaerFlujo ==
    ASSUME FlujoInv, Caer
    PROVE  FlujoInv'
<1>1. /\ activo' = FALSE /\ poll' = PollLibre /\ con' = [c \in Clientes |-> Inactiva]
      /\ UNCHANGED <<bd, cursor, cliente>>
  BY DEF Caer
<1>2. UNCHANGED <<enVuelo, asignado, outbox, confirmados, tardios, purgados>>
  BY <1>1 DEF bd
<1>3. DatosInv /\ DespachoInv
  BY DEF FlujoInv
<1>4. DatosInv' /\ Firmes' = Firmes
  BY <1>2, <1>3 DEF DatosInv, Firmes
<1>5. DespachoInv'
  <2>1. poll'.filas = {} /\ poll' \in [leyendo : BOOLEAN, filas : SUBSET confirmados]
    BY <1>1 DEF PollLibre
  <2>2. SinSaltos({}, Firmes, outbox, cursor)
    BY DEF SinSaltos
  <2>3. \A c \in Clientes : con'[c].rutina = "fuera"
    BY <1>1 DEF Inactiva
  <2> QED
    BY <1>1, <1>2, <1>3, <1>4, <2>1, <2>2, <2>3 DEF DespachoInv
<1>6. Inactiva \in Ficha(confirmados) /\ Forma(Inactiva) /\ ~Abierto(Inactiva)
  BY InactivaFicha
<1>7. ASSUME NEW c \in Clientes
      PROVE  ClienteInv(c, Inactiva, cliente[c], Firmes, outbox, cursor)
  <2>1. Posicion(c, cliente[c], Firmes) /\ cliente[c] \in Navegador(confirmados)
    BY DEF FlujoInv, ClienteInv
  <2>2. Inactiva.transito = <<>> /\ Inactiva.desde = 0
    BY DEF Inactiva, NULO
  <2>3. asignado \in Nat /\ confirmados \in SUBSET (1 .. asignado)
    BY <1>3, Cotas
  <2>4. Firmes \in SUBSET (Nat \ {0}) /\ cliente[c].ultimo \in Nat
    <3>1. confirmados \in SUBSET (Nat \ {0})
      BY <2>3
    <3>2. cliente[c].ultimo \in confirmados \cup {0}
      BY <2>1 DEF Navegador
    <3>3. \A x \in confirmados \cup {0} : x \in Nat
      BY <3>1
    <3>4. Firmes \in SUBSET (Nat \ {0})
      BY <3>1 DEF Firmes
    <3> QED
      BY <3>2, <3>3, <3>4
  <2> QED
    BY <1>6, <2>1, <2>2, <2>4, CerradoInv
<1> QED
  BY <1>1, <1>2, <1>4, <1>5, <1>6, <1>7 DEF FlujoInv

LEMMA ArrancarFlujo ==
    ASSUME FlujoInv, Arrancar
    PROVE  FlujoInv'
<1>1. /\ ~activo /\ activo' = TRUE /\ cursor' = MaxId(outbox)
      /\ UNCHANGED <<bd, poll, con, cliente>>
  BY DEF Arrancar
<1>2. UNCHANGED <<enVuelo, asignado, outbox, confirmados, tardios, purgados>>
  BY <1>1 DEF bd
<1>3. DatosInv /\ DespachoInv
  BY DEF FlujoInv
<1>4. DatosInv' /\ Firmes' = Firmes
  BY <1>2, <1>3 DEF DatosInv, Firmes
<1>5. cursor' \in confirmados \cup {0}
  <2>1. /\ asignado \in Nat /\ outbox \in SUBSET (0 .. asignado)
        /\ outbox \in SUBSET confirmados
    BY <1>3, Cotas
  <2> QED
    BY <1>1, <2>1, MaxIdDe
<1>6. poll.filas = {} /\ \A c \in Clientes : con[c].rutina = "fuera"
  BY <1>1, <1>3 DEF DespachoInv
<1>7. DespachoInv'
  BY <1>1, <1>2, <1>3, <1>4, <1>5, <1>6 DEF DespachoInv, SinSaltos
<1>8. ASSUME NEW c \in Clientes
      PROVE  ClienteInv(c, con[c], cliente[c], Firmes, outbox, cursor')
  <2>1. ~Abierto(con[c])
    BY <1>6 DEF FlujoInv, Forma, Abierto
  <2>2. ClienteInv(c, con[c], cliente[c], Firmes, outbox, cursor)
    BY DEF FlujoInv
  <2> QED
    BY <2>1, <2>2 DEF ClienteInv, Corriente, AlDia, Repone
<1> QED
  BY <1>1, <1>2, <1>4, <1>7, <1>8 DEF FlujoInv

\* The rows of a poll: what they leave out was on its way or is gone, and a
\* stream they reach has no replay before it, or no longer counts.
LEMMA ReparteCliente ==
    ASSUME FlujoInv, activo, NEW c \in Clientes,
           NEW u, u = IF poll.filas = {} THEN cursor ELSE MaxId(poll.filas),
           NEW k, k = [cliente[c] EXCEPT !.adelantado = @ \/ Adelanta(c)],
           NEW t, t = Entregar(c, con[c], poll.filas)
    PROVE  /\ t \in Ficha(confirmados) /\ Forma(t) /\ k \in Navegador(confirmados)
           /\ ClienteInv(c, t, k, Firmes, outbox, u)
<1> DEFINE C == confirmados
           s == con[c]
           P == poll.filas
           K == cliente[c].conoce
           D == Deuda(c, s, k, Firmes)
<1>1. /\ DatosInv /\ DespachoInv /\ s \in Ficha(C) /\ cliente[c] \in Navegador(C)
      /\ Forma(s)
      /\ ClienteInv(c, s, cliente[c], Firmes, outbox, cursor)
  BY DEF FlujoInv
<1>2. /\ asignado \in Nat /\ C \in SUBSET (1 .. asignado) /\ C \in SUBSET Nat
      /\ C \in SUBSET (0 .. asignado) /\ Firmes \in SUBSET C /\ P \in SUBSET C
      /\ cursor \in C \cup {0} /\ SinSaltos(P, Firmes, outbox, cursor)
  BY <1>1, Cotas DEF DespachoInv, Firmes
<1>3. /\ k \in Navegador(C) /\ k.conoce = K /\ k.base = cliente[c].base
      /\ k.ultimo = cliente[c].ultimo
      /\ k.adelantado = (cliente[c].adelantado \/ Adelanta(c))
  <2>1. Adelanta(c) \in BOOLEAN
    BY DEF Adelanta
  <2> DEFINE b == cliente[c].adelantado \/ Adelanta(c)
  <2>2. b \in BOOLEAN /\ k = [cliente[c] EXCEPT !.adelantado = b]
    BY <1>1, <2>1 DEF Navegador
  <2> HIDE DEF b
  <2>3. /\ k \in Navegador(C) /\ k.conoce = K /\ k.base = cliente[c].base
        /\ k.ultimo = cliente[c].ultimo /\ k.adelantado = b
    BY <1>1, <2>2 DEF Navegador
  <2> QED
    BY <2>3 DEF b
<1>4. /\ Posicion(c, k, Firmes)
      /\ D \subseteq Deuda(c, s, cliente[c], Firmes)
      /\ D # {} => ~Adelanta(c)
  BY <1>1, <1>3 DEF ClienteInv, Posicion, Deuda
<1>5. Corriente(D, K, s, outbox, cursor)
  <2>1. Corriente(Deuda(c, s, cliente[c], Firmes), K, s, outbox, cursor)
    BY <1>1 DEF ClienteInv
  <2>2. Sano(D, s, K)
    BY <1>4, <2>1 DEF Corriente, Sano, Fiel
  <2>3. Desde(D, s, K) /\ AlDia(D, K, s, outbox, cursor) /\ Repone(D, K, s, outbox, cursor)
    BY <1>4, <2>1 DEF Corriente, Desde, AlDia, Repone
  <2> QED
    BY <2>2, <2>3 DEF Corriente
<1>6. D \in SUBSET C /\ D \subseteq Firmes /\ \A e \in D : SucEvento[e] = SucCliente[c]
  BY <1>2 DEF Deuda, Suyas
<1> HIDE DEF s, P, K, D, C
\* A stream in its replay is not reached.
<1>7. ASSUME Abierto(s), NEW e \in D PROVE Sigue(s) \/ Nuevas(c, s, P) = {}
  <2>1. s.rutina \in EnAlta \/ s.rutina = "vivo"
    BY <1>1, <1>7 DEF Forma, Abierto, Ficha, Rutinas
  <2>2. ~Adelanta(c)
    BY <1>4, <1>7
  <2> QED
    BY <1>7, <2>1, <2>2 DEF Adelanta, Sigue, Abierto, s, P
<1>8. ASSUME Abierto(s), NEW e \in D, NEW f \in P, e <= f
      PROVE  e \in P \/ Cubierta(s, K, e) \/ ~Sigue(s)
  <2>1. e \in Nat /\ cursor \in Nat
    BY <1>2, <1>6
  <2>2. CASE e <= cursor \/ e \notin outbox
    BY <1>5, <1>8, <2>2 DEF Corriente, AlDia
  <2>3. CASE ~(e <= cursor) /\ e \in outbox
    BY <1>2, <1>6, <1>8, <2>1, <2>3 DEF SinSaltos
  <2> QED
    BY <2>2, <2>3
<1>9. Abierto(s) => \A f \in Nuevas(c, s, P), e \in D : e <= f => e \in P \/ Cubierta(s, K, e)
  <2>1. Nuevas(c, s, P) \subseteq P
    BY DEF Nuevas
  <2> QED
    BY <1>7, <1>8, <2>1
<1>10. /\ t \in Ficha(C) /\ Sano(D, t, K) /\ Parecido(s, t)
       /\ Drena(s) => Drena(t)
       /\ Holgada(s) => Holgada(t)
       /\ Justa(s) => Justa(t)
       /\ Abierto(t) => /\ Abierto(s) /\ Conserva(s, t, K)
                        /\ \A e \in D \cap P : Cubierta(t, K, e)
  <2>1. Sano(D, s, K)
    BY <1>5 DEF Corriente
  <2>2. t = Entregar(c, s, P)
    BY DEF s, P
  <2>3. Consecutivas(c, D, s, K, P)
    BY <1>9 DEF Consecutivas
  <2>4. s \in Ficha(C)
    BY <1>1 DEF s
  <2>5. P \in SUBSET C /\ D \in SUBSET C /\ \A e \in D : SucEvento[e] = SucCliente[c]
    BY <1>2, <1>6
  <2>6. Entregado(C, D, s, K, P, t)
    BY <1>2, <2>1, <2>2, <2>3, <2>4, <2>5, EntregarSano
  <2> QED
    BY <2>6 DEF Entregado
<1>11. Forma(t)
  <2>1. t.rutina = "sucursal" => t = s
    BY <1>1, <1>10 DEF Forma, Parecido, Entregar, s
  <2> QED
    BY <1>1, <1>10, <2>1 DEF Forma, Cupo, Parecido
\* What the cursor passes was among the rows, or gone.
<1>12. ASSUME NEW e \in D, e <= u, e \in outbox, ~(e <= cursor) PROVE e \in P
  <2>1. e \in Nat /\ cursor \in Nat
    BY <1>2, <1>6
  <2>2. P # {}
    BY <1>12 DEF P
  <2>3. u = MaxId(P) /\ MaxId(P) \in P \cup {0}
    <3>1. P \in SUBSET (0 .. asignado)
      BY <1>2
    <3> QED
      BY <1>2, <2>2, <3>1, MaxIdDe DEF P
  <2>4. u \in P
    BY <1>12, <2>1, <2>3
  <2> QED
    BY <1>2, <1>6, <1>12, <2>1, <2>4 DEF SinSaltos
<1>13. AlDia(D, K, t, outbox, u)
  <2> SUFFICES ASSUME Abierto(t), Sigue(t), NEW e \in D, e <= u \/ e \notin outbox
               PROVE  Cubierta(t, K, e)
    BY DEF AlDia
  <2>1. Abierto(s) /\ Sigue(s) /\ Conserva(s, t, K)
    BY <1>10 DEF Parecido, Sigue
  <2>2. CASE e <= cursor \/ e \notin outbox
    BY <1>5, <2>1, <2>2 DEF Corriente, AlDia, Conserva
  <2>3. CASE ~(e <= cursor) /\ e \in outbox
    BY <1>10, <1>12, <2>3
  <2> QED
    BY <2>2, <2>3
<1>14. Repone(D, K, t, outbox, u)
  <2> SUFFICES ASSUME Abierto(t), NEW x \in D PROVE Repone(D, K, t, outbox, u)
    BY DEF Repone
  <2>1. Abierto(s) /\ Conserva(s, t, K)
    BY <1>10
  <2>2. CASE t.rutina \notin {"limites", "leer", "reenviar"}
    BY <2>2 DEF Repone
  <2>3. CASE t.rutina \in {"limites", "leer", "reenviar"}
    <3>1. ~Sigue(s)
      BY <1>1, <1>10, <2>3 DEF Forma, Parecido, Sigue
    <3>2. Nuevas(c, s, P) = {}
      BY <1>7, <2>1, <3>1
    <3>3. t = s
      BY <3>2 DEF Entregar, s, P
    <3>4. ASSUME NEW e \in D, e \in outbox, e <= u PROVE e <= s.marca \/ Cubierta(s, K, e)
      <4>1. CASE e <= cursor
        BY <1>5, <2>1, <2>3, <3>3, <3>4, <4>1 DEF Corriente, Repone
      <4>2. CASE ~(e <= cursor)
        <5>1. e \in P
          BY <1>12, <3>4, <4>2
        <5>2. SucEvento[e] = SucCliente[c]
          BY <1>6
        <5>3. ~(s.enviado = NULO \/ e > s.enviado)
          BY <3>2, <5>1, <5>2 DEF Nuevas
        <5>4. s.enviado \in Nat /\ e \in Nat
          BY <1>2, <1>6, <1>10, <3>3 DEF Ficha
        <5>5. e <= s.enviado
          BY <5>3, <5>4
        <5> QED
          BY <1>5, <2>1, <5>5 DEF Corriente, Sano
      <4> QED
        BY <4>1, <4>2
    <3> QED
      BY <1>5, <3>3, <3>4 DEF Corriente, Repone
  <2> QED
    BY <2>2, <2>3
<1>15. Desde(D, t, K)
  BY <1>5, <1>10 DEF Corriente, Desde, Parecido
<1>16. D = Deuda(c, t, k, Firmes)
  BY <1>10 DEF Deuda, Parecido, D
<1> QED
  BY <1>3, <1>4, <1>10, <1>11, <1>13, <1>14, <1>15, <1>16 DEF ClienteInv, Corriente, C

LEMMA ReparteFlujo ==
    ASSUME FlujoInv, PollReparte
    PROVE  FlujoInv'
<1> DEFINE u == IF poll.filas = {} THEN cursor ELSE MaxId(poll.filas)
           e(c) == Entregar(c, con[c], poll.filas)
           k(c) == [cliente[c] EXCEPT !.adelantado = @ \/ Adelanta(c)]
<1>1. /\ activo /\ con' = [c \in Clientes |-> e(c)] /\ cursor' = u /\ poll' = PollLibre
      /\ cliente' = [c \in Clientes |-> k(c)]
      /\ UNCHANGED <<bd, activo>>
  BY DEF PollReparte
<1>2. UNCHANGED <<enVuelo, asignado, outbox, confirmados, tardios, purgados>>
  BY <1>1 DEF bd
<1>3. DatosInv /\ DespachoInv
  BY DEF FlujoInv
<1>4. DatosInv' /\ Firmes' = Firmes
  BY <1>2, <1>3 DEF DatosInv, Firmes
<1>5. \A c \in Clientes : /\ e(c) \in Ficha(confirmados) /\ Forma(e(c)) /\ k(c) \in Navegador(confirmados)
                          /\ ClienteInv(c, e(c), k(c), Firmes, outbox, u)
  BY <1>1, ReparteCliente
<1>6. u \in confirmados \cup {0}
  <2>1. /\ asignado \in Nat /\ confirmados \in SUBSET (0 .. asignado)
        /\ poll.filas \in SUBSET confirmados /\ cursor \in confirmados \cup {0}
    BY <1>3, Cotas DEF DespachoInv
  <2>2. poll.filas \in SUBSET (0 .. asignado)
    BY <2>1
  <2>3. MaxId(poll.filas) \in poll.filas \cup {0}
    BY <2>1, <2>2, MaxIdDe
  <2> QED
    BY <2>1, <2>3
<1> HIDE DEF u, e, k
<1>7. DespachoInv'
  <2>1. poll'.filas = {} /\ poll' \in [leyendo : BOOLEAN, filas : SUBSET confirmados]
    BY <1>1 DEF PollLibre
  <2>2. SinSaltos({}, Firmes, outbox, u)
    BY DEF SinSaltos
  <2> QED
    BY <1>1, <1>2, <1>4, <1>6, <2>1, <2>2 DEF DespachoInv
<1> QED
  BY <1>1, <1>2, <1>4, <1>5, <1>7 DEF FlujoInv

-----------------------------------------------------------------------------
(* Steps of one stream *)

LEMMA UnCliente ==
    ASSUME FlujoInv, NEW c \in Clientes,
           NEW t \in Ficha(confirmados), con' = [con EXCEPT ![c] = t],
           NEW k \in Navegador(confirmados), cliente' = [cliente EXCEPT ![c] = k],
           UNCHANGED <<bd, proceso>>,
           Forma(t), ~activo => t.rutina = "fuera",
           ClienteInv(c, t, k, Firmes, outbox, cursor)
    PROVE  FlujoInv'
<1>1. UNCHANGED <<enVuelo, asignado, outbox, confirmados, tardios, purgados, activo, cursor, poll>>
  BY DEF bd, proceso
<1>2. DatosInv' /\ Firmes' = Firmes
  BY <1>1 DEF FlujoInv, DatosInv, Firmes
<1>3. /\ con' = [d \in Clientes |-> IF d = c THEN t ELSE con[d]]
      /\ cliente' = [d \in Clientes |-> IF d = c THEN k ELSE cliente[d]]
  BY DEF FlujoInv
<1>4. DespachoInv'
  BY <1>1, <1>2, <1>3 DEF FlujoInv, DespachoInv
<1>5. /\ con' \in [Clientes -> Ficha(confirmados)]
      /\ cliente' \in [Clientes -> Navegador(confirmados)]
  BY <1>3 DEF FlujoInv
<1>6. \A d \in Clientes : Forma(con'[d]) /\ ClienteInv(d, con'[d], cliente'[d], Firmes, outbox, cursor)
  BY <1>3 DEF FlujoInv
<1> QED
  BY <1>1, <1>2, <1>4, <1>5, <1>6 DEF FlujoInv

\* What FlujoInv says of one stream, for the steps below
LEMMA DeCliente ==
    ASSUME FlujoInv, NEW c \in Clientes
    PROVE  /\ con[c] \in Ficha(confirmados) /\ cliente[c] \in Navegador(confirmados) /\ Forma(con[c])
           /\ ClienteInv(c, con[c], cliente[c], Firmes, outbox, cursor)
           /\ con[c].rutina # "fuera" => activo
           /\ confirmados \in SUBSET (Nat \ {0}) /\ confirmados \in SUBSET Nat
           /\ Firmes \in SUBSET confirmados /\ Firmes \in SUBSET (Nat \ {0})
           /\ cursor \in Nat /\ cliente[c].ultimo \in Nat
           /\ outbox \in SUBSET confirmados
           /\ asignado \in Nat /\ confirmados \in SUBSET (1 .. asignado)
           /\ outbox \in SUBSET (0 .. asignado)
           /\ cliente = [cliente EXCEPT ![c] = cliente[c]]
<1>1. /\ con[c] \in Ficha(confirmados) /\ cliente[c] \in Navegador(confirmados)
      /\ Forma(con[c])
      /\ ClienteInv(c, con[c], cliente[c], Firmes, outbox, cursor)
      /\ con[c].rutina # "fuera" => activo
      /\ DatosInv /\ cursor \in confirmados \cup {0}
      /\ cliente = [cliente EXCEPT ![c] = cliente[c]]
  BY DEF FlujoInv, DespachoInv
<1>2. /\ asignado \in Nat /\ confirmados \in SUBSET (1 .. asignado)
      /\ outbox \in SUBSET confirmados
      /\ outbox \in SUBSET (0 .. asignado)
  BY <1>1, Cotas
<1>3. confirmados \in SUBSET (Nat \ {0}) /\ confirmados \in SUBSET Nat
  BY <1>2
<1>4. Firmes \in SUBSET confirmados /\ Firmes \in SUBSET (Nat \ {0})
  BY <1>3 DEF Firmes
<1>5. \A x \in confirmados \cup {0} : x \in Nat
  BY <1>3
<1>6. cliente[c].ultimo \in confirmados \cup {0}
  BY <1>1 DEF Navegador
<1>7. cursor \in Nat /\ cliente[c].ultimo \in Nat
  BY <1>1, <1>5, <1>6
<1> QED
  BY <1>1, <1>2, <1>3, <1>4, <1>7, Zenon

LEMMA CambiaFlujo ==
    ASSUME FlujoInv, NEW c \in Clientes, NEW t \in Ficha(confirmados), Cambia(c, t),
           Forma(t),
           UNCHANGED <<bd, proceso, cliente>>, activo \/ t.rutina = "fuera",
           ClienteInv(c, t, cliente[c], Firmes, outbox, cursor)
    PROVE  FlujoInv'
<1>1. con' = [con EXCEPT ![c] = t]
  BY DEF Cambia
<1>2. cliente[c] \in Navegador(confirmados) /\ cliente' = [cliente EXCEPT ![c] = cliente[c]]
  BY DeCliente
<1> QED
  BY <1>1, <1>2, UnCliente

LEMMA PedirFlujo ==
    ASSUME FlujoInv, NEW c \in Clientes, Pedir(c)
    PROVE  FlujoInv'
<1> DEFINE t == [Inactiva EXCEPT !.rutina = "sucursal", !.socket = "abierto",
                                 !.desde = cliente[c].ultimo]
           k == [cliente[c] EXCEPT !.peticiones = @ + 1]
           C == confirmados
<1>1. /\ activo /\ con' = [con EXCEPT ![c] = t] /\ UNCHANGED <<bd, proceso>>
      /\ cliente' = [cliente EXCEPT ![c] = k]
  <2>1. /\ cliente' = [cliente EXCEPT ![c].peticiones = @ + 1]
        /\ cliente \in [Clientes -> Navegador(C)]
    BY DEF Pedir, FlujoInv
  <2> QED
    BY <2>1 DEF Pedir, Cambia
<1>2. /\ cliente[c] \in Navegador(C)
      /\ ClienteInv(c, con[c], cliente[c], Firmes, outbox, cursor)
      /\ Firmes \in SUBSET (Nat \ {0}) /\ cliente[c].ultimo \in Nat
  BY DeCliente
<1>3. /\ k \in Navegador(C) /\ k.conoce = cliente[c].conoce /\ k.ultimo = cliente[c].ultimo
      /\ k.base = cliente[c].base /\ k.adelantado = cliente[c].adelantado
  BY <1>2 DEF Navegador
<1>4. Inactiva \in Ficha(C)
  BY InactivaFicha
<1>5. /\ t \in Ficha(C) /\ t.rutina = "sucursal" /\ t.desde = cliente[c].ultimo
      /\ ~t.suscrito
      /\ t.cola = <<>> /\ t.transito = <<>> /\ ~t.pausado /\ t.enviado = NULO
  <2>1. cliente[c].ultimo \in C \cup {0}
    BY <1>2 DEF Navegador
  <2>2. /\ ~Inactiva.suscrito /\ Inactiva.cola = <<>> /\ Inactiva.transito = <<>>
        /\ ~Inactiva.pausado /\ Inactiva.enviado = NULO
    BY DEF Inactiva
  <2> QED
    BY <1>4, <2>1, <2>2 DEF Ficha, Rutinas
<1> HIDE DEF t, k
<1>6. Forma(t) /\ ~Abierto(t)
  BY <1>5 DEF Forma, Drena, Cupo, Justa, Holgada, Abierto
<1>7. Posicion(c, k, Firmes)
  BY <1>2, <1>3 DEF ClienteInv, Posicion
<1>8. ClienteInv(c, t, k, Firmes, outbox, cursor)
  BY <1>2, <1>3, <1>5, <1>6, <1>7, CerradoInv
<1> QED
  BY <1>1, <1>3, <1>5, <1>6, <1>8, UnCliente

LEMMA RechazarFlujo ==
    ASSUME FlujoInv, NEW c \in Clientes, Rechazar(c)
    PROVE  FlujoInv'
<1>1. Cambia(c, Inactiva) /\ UNCHANGED <<bd, proceso, cliente>>
  BY DEF Rechazar
<1>2. /\ ClienteInv(c, con[c], cliente[c], Firmes, outbox, cursor)
      /\ Firmes \in SUBSET (Nat \ {0}) /\ cliente[c].ultimo \in Nat
  BY DeCliente
<1>3. /\ Inactiva \in Ficha(confirmados) /\ Forma(Inactiva) /\ ~Abierto(Inactiva)
      /\ Inactiva.transito = <<>> /\ Inactiva.desde \in {0, cliente[c].ultimo}
      /\ Inactiva.rutina = "fuera"
  <2>1. Inactiva.transito = <<>> /\ Inactiva.desde = 0 /\ Inactiva.rutina = "fuera"
    BY DEF Inactiva, NULO
  <2> QED
    BY <2>1, InactivaFicha
<1>4. Posicion(c, cliente[c], Firmes)
  BY <1>2 DEF ClienteInv
<1>5. ClienteInv(c, Inactiva, cliente[c], Firmes, outbox, cursor)
  BY <1>2, <1>3, <1>4, CerradoInv
<1> QED
  BY <1>1, <1>3, <1>5, CambiaFlujo

\* A stream begins with nothing on its way: it owes the rows after the last one
\* there is, or waits for the replay of those after its Last-Event-ID.
LEMMA RegistrarFlujo ==
    ASSUME FlujoInv, NEW c \in Clientes, Registrar(c)
    PROVE  FlujoInv'
<1> DEFINE s == con[c]
           t == [s EXCEPT !.rutina = "marca", !.suscrito = TRUE]
           C == confirmados
           k == IF s.desde = NULO THEN [cliente[c] EXCEPT !.base = MaxId(C)] ELSE cliente[c]
           D == Deuda(c, t, k, Firmes)
<1>1. /\ s.rutina = "sucursal" /\ con' = [con EXCEPT ![c] = t] /\ UNCHANGED <<bd, proceso>>
      /\ cliente' = [cliente EXCEPT ![c] = k]
  <2>1. /\ cliente' = IF s.desde = NULO THEN [cliente EXCEPT ![c].base = MaxId(C)] ELSE cliente
        /\ con' = [con EXCEPT ![c].rutina = "marca", ![c].suscrito = TRUE]
        /\ s.rutina = "sucursal" /\ UNCHANGED <<bd, proceso>>
        /\ con \in [Clientes -> Ficha(C)] /\ cliente \in [Clientes -> Navegador(C)]
    BY DEF Registrar, FlujoInv
  <2>2. con' = [con EXCEPT ![c] = t]
    BY <2>1
  <2>3. cliente' = [cliente EXCEPT ![c] = k]
    BY <2>1
  <2> QED
    BY <2>1, <2>2, <2>3
<1>2. /\ s \in Ficha(C) /\ cliente[c] \in Navegador(C) /\ Forma(s) /\ activo
      /\ ClienteInv(c, s, cliente[c], Firmes, outbox, cursor)
      /\ Firmes \in SUBSET (Nat \ {0}) /\ Firmes \in SUBSET C
      /\ asignado \in Nat /\ C \in SUBSET (1 .. asignado) /\ C \in SUBSET Nat
  BY <1>1, DeCliente
<1>3. s.cola = <<>> /\ s.transito = <<>> /\ ~s.pausado /\ s.enviado = NULO
  BY <1>1, <1>2 DEF Forma
<1>4. /\ t \in Ficha(C) /\ t.rutina = "marca" /\ t.suscrito /\ t.cola = <<>>
      /\ t.transito = <<>>
      /\ ~t.pausado /\ t.enviado = NULO /\ t.desde = s.desde
  BY <1>2, <1>3 DEF Ficha, Rutinas, EnAlta
<1>5. MaxId(C) \in C \cup {0} /\ \A x \in C : x <= MaxId(C)
  <2>1. C \in SUBSET (0 .. asignado)
    BY <1>2
  <2> QED
    BY <1>2, <2>1, MaxIdDe
<1>6. /\ k \in Navegador(C) /\ k.conoce = cliente[c].conoce /\ k.ultimo = cliente[c].ultimo
      /\ k.adelantado = cliente[c].adelantado
      /\ k.base = IF s.desde = NULO THEN MaxId(C) ELSE cliente[c].base
  BY <1>2, <1>5 DEF Navegador
<1> HIDE DEF t, k, s, C
<1>7. Forma(t)
  <2>1. Len(t.cola) <= BufferMax
    BY <1>4, EmptySeq, AgendaAssumption DEF AgendaAssumption
  <2> QED
    BY <1>4, <2>1 DEF Forma, Drena, Cupo, Justa, Holgada
<1>8. /\ Posicion(c, cliente[c], Firmes)
      /\ Desde(Deuda(c, s, cliente[c], Firmes), s, cliente[c].conoce)
  BY <1>2 DEF ClienteInv, Corriente
<1>9. CASE s.desde = NULO
  <2>1. \A e \in Firmes : ~(k.base < e)
    <3> SUFFICES ASSUME NEW e \in Firmes PROVE ~(k.base < e)
      OBVIOUS
    <3>0. \A x \in C \cup {0} : x \in Nat
      BY <1>2
    <3>1. e \in Nat /\ MaxId(C) \in Nat /\ e <= MaxId(C)
      BY <1>2, <1>5, <3>0
    <3> QED
      BY <1>6, <1>9, <3>1
  <2>2. D = {} /\ Posicion(c, k, Firmes)
    BY <1>4, <1>9, <2>1 DEF Deuda, Suyas, Posicion, NULO
  <2>3. Corriente({}, k.conoce, t, outbox, cursor)
    BY DEF Corriente, Sano, Fiel, Desde, AlDia, Repone
  <2>4. ClienteInv(c, t, k, Firmes, outbox, cursor)
    BY <2>2, <2>3 DEF ClienteInv
  <2> QED
    BY <1>1, <1>2, <1>4, <1>6, <1>7, <2>4, UnCliente DEF C
<1>10. CASE s.desde # NULO
  <2>1. k.base = cliente[c].base
    BY <1>6, <1>10
  <2>2. D = Deuda(c, s, cliente[c], Firmes) /\ Posicion(c, k, Firmes)
    BY <1>4, <1>6, <1>8, <2>1 DEF Deuda, Posicion
  <2>3. Desde(D, t, k.conoce)
    BY <1>4, <1>6, <1>8, <2>2 DEF Desde
  <2>4. Sano(D, t, k.conoce)
    <3>1. Canal(t) = <<>>
      BY <1>4, ConcatEmptySeq, EmptySeq DEF Canal
    <3>2. Fiel(D, <<>>, k.conoce)
      BY EmptySeq DEF Fiel
    <3>3. \A e \in D : ~(e <= t.enviado)
      BY <1>2, <1>4 DEF Deuda, Suyas, NULO
    <3> QED
      BY <3>1, <3>2, <3>3 DEF Sano
  <2>5. AlDia(D, k.conoce, t, outbox, cursor) /\ Repone(D, k.conoce, t, outbox, cursor)
    BY <1>4, <1>10 DEF AlDia, Repone, Sigue
  <2>6. ClienteInv(c, t, k, Firmes, outbox, cursor)
    BY <2>2, <2>3, <2>4, <2>5 DEF ClienteInv, Corriente
  <2> QED
    BY <1>1, <1>2, <1>4, <1>6, <1>7, <2>6, UnCliente DEF C
<1> QED
  BY <1>9, <1>10

\* subscribe returned: the rest of the invariant is what the live rows need.
LEMMA ConcluidaInv ==
    ASSUME NEW c, NEW s, NEW k, NEW V, NEW O, NEW u, NEW r, NEW t, NEW D, D = Deuda(c, s, k,
           V),
           Posicion(c, k, V), Desde(D, s, k.conoce), r.desde = s.desde,
           Concluida(D, r, t, k.conoce),
           Abierto(t) => \A e \in D : e <= u \/ e \notin O => Cubierta(t, k.conoce, e)
    PROVE  Forma(t) /\ ClienteInv(c, t, k, V, O, u)
<1>1. /\ Sano(D, t, k.conoce) /\ Drena(t) /\ Cupo(t) /\ t.desde = s.desde
      /\ t.rutina \in {"fuera", "vivo"} /\ (t.suscrito => t.rutina = "vivo")
  BY DEF Concluida
<1>2. D = Deuda(c, t, k, V) /\ Desde(D, t, k.conoce)
  BY <1>1 DEF Deuda, Desde
<1>3. Abierto(t) => t.rutina = "vivo"
  BY <1>1 DEF Abierto
<1>4. AlDia(D, k.conoce, t, O, u) /\ Repone(D, k.conoce, t, O, u)
  BY <1>3 DEF AlDia, Repone
<1>5. Forma(t)
  BY <1>1 DEF Forma
<1> QED
  BY <1>1, <1>2, <1>4, <1>5 DEF ClienteInv, Corriente

\* A stream that asks for no replay is live; the others take the watermark.
LEMMA LeerMarcaFlujo ==
    ASSUME FlujoInv, NEW c \in Clientes, LeerMarca(c)
    PROVE  FlujoInv'
<1> DEFINE s == con[c]
           k == cliente[c]
           C == confirmados
           K == k.conoce
           D == Deuda(c, s, k, Firmes)
           t == [s EXCEPT !.marca = MaxId(outbox), !.rutina = "limites"]
<1>1. /\ s.rutina = "marca" /\ UNCHANGED <<bd, proceso, cliente>>
      /\ IF s.desde = NULO THEN Concluir(c, s) ELSE Cambia(c, t)
  BY DEF LeerMarca
<1>2. /\ s \in Ficha(C) /\ Forma(s) /\ activo /\ ClienteInv(c, s, k, Firmes, outbox, cursor)
      /\ C \in SUBSET Nat /\ asignado \in Nat /\ outbox \in SUBSET C /\ outbox \in SUBSET (0 .. asignado)
  BY <1>1, DeCliente
<1>3. /\ Posicion(c, k, Firmes) /\ Sano(D, s, K) /\ Desde(D, s, K)
      /\ AlDia(D, K, s, outbox, cursor)
  BY <1>2 DEF ClienteInv, Corriente
<1>4. MaxId(outbox) \in C \cup {0} /\ \A x \in outbox : x <= MaxId(outbox)
  BY <1>2, MaxIdDe
<1>5. CASE s.desde = NULO
  <2>1. Concluir(c, s) /\ Justa(s) /\ Drena(s)
    BY <1>1, <1>2, <1>5 DEF Forma, Cupo
  <2> HIDE DEF s, k, C, D
  <2>2. PICK r \in Ficha(C) : Cambia(c, r) /\ Concluida(D, s, r, K)
    BY <1>2, <1>3, <2>1, ConcluirSano
  <2>3. Sigue(s)
    BY <1>1, <1>5 DEF Sigue, EnAlta
  <2>4. Abierto(r) => \A e \in D : e <= cursor \/ e \notin outbox => Cubierta(r, K, e)
    BY <1>3, <2>2, <2>3 DEF Concluida, AlDia, Conserva
  <2>5. D = Deuda(c, s, k, Firmes)
    BY DEF D
  <2>6. Forma(r) /\ ClienteInv(c, r, k, Firmes, outbox, cursor)
    BY <1>3, <2>2, <2>4, <2>5, ConcluidaInv
  <2> QED
    BY <1>1, <1>2, <2>2, <2>6, CambiaFlujo DEF C, k
<1>6. CASE s.desde # NULO
  <2>1. /\ t \in Ficha(C) /\ t.rutina = "limites" /\ t.marca = MaxId(outbox)
        /\ t.transito = s.transito /\ t.cola = s.cola /\ t.enviado = s.enviado
        /\ t.suscrito = s.suscrito /\ t.socket = s.socket /\ t.desde = s.desde
        /\ t.pausado = s.pausado /\ t.sordo = s.sordo
    BY <1>2, <1>4 DEF Ficha, Rutinas, EnAlta
  <2>2. Cambia(c, t)
    BY <1>1, <1>6
  <2> HIDE DEF t, s, k, D, C
  <2>3. Sano(D, t, K)
    BY <1>3, <2>1, MismoCanal
  <2>4. D = Deuda(c, t, k, Firmes) /\ Desde(D, t, K)
    BY <1>3, <2>1 DEF D, Deuda, Desde
  <2>5. AlDia(D, K, t, outbox, cursor)
    BY <1>6, <2>1 DEF AlDia, Sigue
  <2>6. Repone(D, K, t, outbox, cursor)
    BY <1>4, <2>1 DEF Repone
  <2>7. Forma(t)
    BY <1>1, <1>2, <1>6, <2>1 DEF Forma, Drena, Cupo, Justa, Holgada
  <2>8. ClienteInv(c, t, k, Firmes, outbox, cursor)
    BY <1>3, <2>3, <2>4, <2>5, <2>6 DEF ClienteInv, Corriente
  <2> QED
    BY <1>1, <1>2, <2>1, <2>2, <2>7, <2>8, CambiaFlujo DEF C, k
<1> QED
  BY <1>5, <1>6

\* The step of a refused replay
LEMMA RehusarFlujo ==
    ASSUME FlujoInv, NEW c \in Clientes, con[c].rutina \in EnAlta,
           UNCHANGED <<bd, proceso, cliente>>,
           NEW r \in Ficha(confirmados), r.desde = con[c].desde, Drena(r), Holgada(r),
           Sano(Deuda(c, con[c], cliente[c], Firmes), r, cliente[c].conoce),
           Rehusar(c, r)
    PROVE  FlujoInv'
<1> DEFINE s == con[c]
           k == cliente[c]
           K == k.conoce
           D == Deuda(c, s, k, Firmes)
<1>1. /\ activo /\ ClienteInv(c, s, k, Firmes, outbox, cursor) /\ confirmados \in SUBSET Nat
  BY DeCliente DEF EnAlta
<1>2. Posicion(c, k, Firmes) /\ Desde(D, s, K)
  BY <1>1 DEF ClienteInv, Corriente
<1>3. PICK t \in Ficha(confirmados) : /\ Cambia(c, t) /\ Concluida(D, r, t, K)
                                      /\ Abierto(t) => \A e : Cubierta(t, K, e)
  BY <1>1, RehusarSano
<1>4. Forma(t) /\ ClienteInv(c, t, k, Firmes, outbox, cursor)
  BY <1>2, <1>3, ConcluidaInv
<1> QED
  BY <1>1, <1>3, <1>4, CambiaFlujo

\* The step after a part of a replay: another query, or the live rows
LEMMA SeguirFlujo ==
    ASSUME FlujoInv, NEW c \in Clientes, con[c].rutina \in EnAlta,
           UNCHANGED <<bd, proceso, cliente>>,
           NEW r \in Ficha(confirmados), r.desde = con[c].desde, r.desde # NULO, Drena(r), Holgada(r),
           NEW D, D = Deuda(c, con[c], cliente[c], Firmes), NEW K, K = cliente[c].conoce,
           Sano(D, r, K),
           Abierto(r) => \A e \in D : /\ e <= r.actual \/ e \notin outbox => Cubierta(r, K, e)
                                      /\ e \in outbox /\ e <= cursor => e <= r.marca \/ Cubierta(r, K, e),
           Seguir(c, r)
    PROVE  FlujoInv'
<1> DEFINE s == con[c]
           k == cliente[c]
           C == confirmados
           t == [r EXCEPT !.rutina = "leer"]
<1>1. /\ activo /\ ClienteInv(c, s, k, Firmes, outbox, cursor) /\ C \in SUBSET Nat
      /\ Firmes \in SUBSET C
  BY DeCliente DEF EnAlta
<1>2. Posicion(c, k, Firmes) /\ Desde(D, s, K)
  BY <1>1 DEF ClienteInv, Corriente
<1>3. CASE r.actual < r.marca
  <2>1. Cambia(c, t)
    BY <1>3 DEF Seguir
  <2>2. /\ t \in Ficha(C) /\ t.rutina = "leer" /\ t.marca = r.marca /\ t.actual = r.actual
        /\ t.transito = r.transito /\ t.cola = r.cola /\ t.enviado = r.enviado
        /\ t.suscrito = r.suscrito /\ t.socket = r.socket /\ t.desde = r.desde
        /\ t.pausado = r.pausado /\ t.sordo = r.sordo
    BY DEF Ficha, Rutinas, EnAlta
  <2> HIDE DEF t, s, k, C
  <2>3. /\ Sano(D, t, K) /\ (Abierto(t) <=> Abierto(r))
        /\ \A e : Cubierta(t, K, e) <=> Cubierta(r, K, e)
    BY <2>2, MismoCanal
  <2>4. D = Deuda(c, t, k, Firmes) /\ Desde(D, t, K)
    BY <1>2, <2>2 DEF s, k, Deuda, Desde
  <2>5. AlDia(D, K, t, outbox, cursor)
    BY <2>2 DEF AlDia, Sigue
  <2>6. Repone(D, K, t, outbox, cursor)
    BY <2>2, <2>3 DEF Repone
  <2>7. Forma(t)
    BY <2>2 DEF Forma, Drena, Cupo, Justa, Holgada
  <2>8. ClienteInv(c, t, k, Firmes, outbox, cursor)
    BY <1>2, <2>3, <2>4, <2>5, <2>6 DEF ClienteInv, Corriente, k
  <2> QED
    BY <1>1, <2>1, <2>2, <2>7, <2>8, CambiaFlujo DEF C, k
<1>4. CASE ~(r.actual < r.marca)
  <2>1. Concluir(c, r) /\ Justa(r)
    BY <1>4 DEF Seguir, Justa, Holgada
  <2>2. PICK x \in Ficha(C) : Cambia(c, x) /\ Concluida(D, r, x, K)
    BY <1>1, <2>1, ConcluirSano
  <2>3. ASSUME Abierto(x), NEW e \in D, e <= cursor \/ e \notin outbox PROVE Cubierta(x, K, e)
    <3>1. Abierto(r) /\ Conserva(r, x, K)
      BY <2>2, <2>3 DEF Concluida
    <3>2. r.actual \in Nat /\ r.marca \in Nat /\ e \in Nat
      <4>1. \A y \in C \cup {0} : y \in Nat
        BY <1>1
      <4>2. r.actual \in C \cup {0} /\ r.marca \in C \cup {0} /\ e \in C
        BY <1>1 DEF Ficha, Deuda, Suyas
      <4> QED
        BY <4>1, <4>2
    <3>3. CASE e \notin outbox
      BY <3>1, <3>3 DEF Conserva
    <3>4. CASE e \in outbox
      <4>1. e <= r.marca \/ Cubierta(r, K, e)
        BY <2>3, <3>1, <3>4
      <4>2. e <= r.actual \/ Cubierta(r, K, e)
        BY <1>4, <3>2, <4>1
      <4> QED
        BY <3>1, <4>2 DEF Conserva
    <3> QED
      BY <3>3, <3>4
  <2>4. Forma(x) /\ ClienteInv(c, x, k, Firmes, outbox, cursor)
    BY <1>2, <2>2, <2>3, ConcluidaInv
  <2> QED
    BY <1>1, <2>2, <2>4, CambiaFlujo
<1> QED
  BY <1>3, <1>4

\* A replay is accepted when every row it owes is still there: what was cleaned
\* in time is below the oldest row, and the place it resumes from is not.
LEMMA LeerLimitesFlujo ==
    ASSUME FlujoInv, NEW c \in Clientes, LeerLimites(c)
    PROVE  FlujoInv'
<1> DEFINE s == con[c]
           k == cliente[c]
           C == confirmados
           K == k.conoce
           D == Deuda(c, s, k, Firmes)
           r == [s EXCEPT !.actual = s.desde]
           Ajena == s.desde > MaxId(outbox) \/ (MinId(outbox) > 0 /\ s.desde < MinId(outbox) - 1)
<1>1. /\ s.rutina = "limites" /\ UNCHANGED <<bd, proceso, cliente>>
      /\ IF Ajena THEN Rehusar(c, s) ELSE Seguir(c, r)
  BY DEF LeerLimites
<1>2. /\ s \in Ficha(C) /\ Forma(s) /\ activo /\ ClienteInv(c, s, k, Firmes, outbox, cursor)
      /\ C \in SUBSET Nat /\ asignado \in Nat /\ outbox \in SUBSET C /\ outbox \in SUBSET (0 .. asignado)
      /\ Firmes \in SUBSET C /\ C \in SUBSET (Nat \ {0})
  BY <1>1, DeCliente
<1>3. /\ Posicion(c, k, Firmes) /\ Sano(D, s, K) /\ Desde(D, s, K)
      /\ Repone(D, K, s, outbox, cursor)
  BY <1>2 DEF ClienteInv, Corriente
<1>4. Drena(s) /\ Holgada(s) /\ s.desde # NULO /\ s.rutina \in EnAlta
  BY <1>1, <1>2 DEF Forma, Cupo, EnAlta
<1>5. CASE Ajena
  BY <1>1, <1>2, <1>3, <1>4, <1>5, RehusarFlujo
<1>6. CASE ~Ajena
  <2>1. s.desde \in Nat /\ s.desde # 0
    <3>1. \A y \in C \cup {0} : y \in Nat
      BY <1>2
    <3>2. s.desde \in C \cup {0}
      BY <1>2 DEF Ficha
    <3> QED
      BY <1>4, <3>1, <3>2 DEF NULO
  <2>2. MaxId(outbox) \in outbox \cup {0}
    BY <1>2, MaxIdDe
  <2>3. outbox # {}
    BY <1>6, <2>1, <2>2
  <2>4. MinId(outbox) \in outbox /\ MinId(outbox) \in Nat \ {0}
    BY <1>2, <2>3, MinIdDe
  <2>5. s.desde >= MinId(outbox) - 1
    BY <1>6, <2>1, <2>4
  <2>6. ASSUME NEW e \in D, e \notin outbox PROVE e <= s.desde
    <3>1. e \in confirmados \ (outbox \cup purgados) /\ e \in Nat
      BY <1>2, <2>6 DEF Deuda, Suyas, Firmes
    <3>2. e < MinId(outbox)
      BY <2>4, <3>1 DEF FlujoInv, DatosInv
    <3> QED
      BY <2>1, <2>4, <2>5, <3>1, <3>2
  <2>7. \A e \in D : e <= s.desde \/ e \notin outbox => e \in K
    BY <1>3, <2>6 DEF Desde
  <2>8. /\ r \in Ficha(C) /\ r.actual = s.desde /\ r.marca = s.marca
        /\ r.transito = s.transito /\ r.cola = s.cola /\ r.enviado = s.enviado
        /\ r.suscrito = s.suscrito /\ r.socket = s.socket /\ r.desde = s.desde
        /\ r.pausado = s.pausado /\ r.sordo = s.sordo
    BY <1>2 DEF Ficha
  <2>9. Seguir(c, r)
    BY <1>1, <1>6
  <2> HIDE DEF r, s, k, C, D
  <2>10. /\ Sano(D, r, K) /\ (Abierto(r) <=> Abierto(s))
         /\ \A e : Cubierta(r, K, e) <=> Cubierta(s, K, e)
    BY <1>3, <2>8, MismoCanal
  <2>11. Drena(r) /\ Holgada(r)
    BY <1>4, <2>8 DEF Drena, Holgada
  <2>12. Abierto(r) =>
           \A e \in D : /\ e <= r.actual \/ e \notin outbox => Cubierta(r, K, e)
                        /\ e \in outbox /\ e <= cursor => e <= r.marca \/ Cubierta(r, K, e)
    BY <1>1, <1>3, <2>7, <2>8, <2>10 DEF Repone, Cubierta
  <2>13. /\ r \in Ficha(confirmados) /\ r.desde = con[c].desde /\ r.desde # NULO
         /\ con[c].rutina \in EnAlta /\ D = Deuda(c, con[c], cliente[c], Firmes)
         /\ K = cliente[c].conoce
    BY <1>4, <2>8 DEF C, s, D, k
  <2> HIDE DEF K
  <2> QED
    BY <1>1, <2>9, <2>10, <2>11, <2>12, <2>13, SeguirFlujo
<1> QED
  BY <1>5, <1>6

LEMMA LeerReenvioFlujo ==
    ASSUME FlujoInv, NEW c \in Clientes, LeerReenvio(c)
    PROVE  FlujoInv'
<1> DEFINE s == con[c]
           k == cliente[c]
           C == confirmados
           K == k.conoce
           D == Deuda(c, s, k, Firmes)
           S == {e \in outbox : /\ SucEvento[e] = SucCliente[c]
                                /\ e > s.actual /\ e <= s.marca}
           P == Primeras(S, LoteReenvio)
           t == [s EXCEPT !.rutina = "reenviar", !.lote = P]
<1>1. s.rutina = "leer" /\ UNCHANGED <<bd, proceso, cliente>> /\ Cambia(c, t)
  BY DEF LeerReenvio
<1>2. /\ s \in Ficha(C) /\ Forma(s) /\ activo /\ ClienteInv(c, s, k, Firmes, outbox, cursor)
      /\ C \in SUBSET Nat /\ asignado \in Nat /\ outbox \in SUBSET C /\ outbox \in SUBSET (0 .. asignado)
      /\ Firmes \in SUBSET C
  BY <1>1, DeCliente
<1>3. /\ Posicion(c, k, Firmes) /\ Sano(D, s, K) /\ Desde(D, s, K)
      /\ Repone(D, K, s, outbox, cursor)
  BY <1>2 DEF ClienteInv, Corriente
<1>4. S \in SUBSET C /\ S \in SUBSET (0 .. asignado) /\ LoteReenvio \in Nat
  BY <1>2, AgendaAssumption DEF AgendaAssumption
<1>5. /\ P \subseteq S /\ \A e \in S, f \in P : e <= f => e \in P
      /\ Cardinality(P) < LoteReenvio => P = S
  <2> HIDE DEF S
  <2> QED
    BY <1>2, <1>4, PrimerasDe
<1> HIDE DEF P
<1>6. P \in SUBSET C
  BY <1>4, <1>5
<1>7. /\ t \in Ficha(C) /\ t.rutina = "reenviar" /\ t.lote = P /\ t.marca = s.marca
      /\ t.actual = s.actual
      /\ t.transito = s.transito /\ t.cola = s.cola /\ t.enviado = s.enviado
      /\ t.suscrito = s.suscrito /\ t.socket = s.socket /\ t.desde = s.desde
      /\ t.pausado = s.pausado /\ t.sordo = s.sordo
  BY <1>2, <1>6 DEF Ficha, Rutinas, EnAlta
<1>8. s.desde # NULO
  BY <1>1, <1>2 DEF Forma
<1> HIDE DEF t
<1>9. ASSUME NEW e \in D, s.actual < e, e \in outbox,
             (\E f \in P : e <= f) \/ (Cardinality(P) < LoteReenvio /\ e <= s.marca)
      PROVE  e \in P
  <2>1. e \in Nat /\ s.actual \in Nat /\ s.marca \in Nat /\ SucEvento[e] = SucCliente[c]
    <3>1. \A y \in C \cup {0} : y \in Nat
      BY <1>2
    <3>2. s.actual \in C \cup {0} /\ s.marca \in C \cup {0}
      BY <1>2 DEF Ficha
    <3>3. e \in C /\ SucEvento[e] = SucCliente[c]
      BY <1>2 DEF Deuda, Suyas
    <3> QED
      BY <3>1, <3>2, <3>3
  <2>2. CASE \E f \in P : e <= f
    <3>1. PICK f \in P : e <= f
      BY <2>2
    <3>2. f \in Nat /\ f <= s.marca
      BY <1>2, <1>5
    <3>3. e \in S
      BY <1>9, <2>1, <3>1, <3>2
    <3> QED
      BY <1>5, <3>1, <3>3
  <2>3. CASE Cardinality(P) < LoteReenvio /\ e <= s.marca
    <3>1. e \in S
      BY <1>9, <2>1, <2>3
    <3> QED
      BY <1>5, <2>3, <3>1
  <2> QED
    BY <1>9, <2>2, <2>3
<1> HIDE DEF s, k, C, D, S, K
<1>10. /\ Sano(D, t, K) /\ (Abierto(t) <=> Abierto(s))
       /\ \A e : Cubierta(t, K, e) <=> Cubierta(s, K, e)
  BY <1>3, <1>7, MismoCanal
<1>11. D = Deuda(c, t, k, Firmes) /\ Desde(D, t, K)
  BY <1>3, <1>7 DEF D, Deuda, Desde
<1>12. AlDia(D, K, t, outbox, cursor)
  BY <1>7, <1>8 DEF AlDia, Sigue
<1>13. Repone(D, K, t, outbox, cursor)
  <2> SUFFICES ASSUME Abierto(t), NEW e \in D
               PROVE  /\ e <= t.actual \/ e \notin outbox => Cubierta(t, K, e)
                      /\ t.actual < e /\ (\/ \E f \in t.lote : e <= f
                                          \/ Cardinality(t.lote) < LoteReenvio /\ e <= t.marca)
                            => e \in t.lote \/ e \notin outbox
                      /\ e \in outbox /\ e <= cursor => e <= t.marca \/ Cubierta(t, K, e)
    BY <1>7, Zenon DEF Repone
  <2>1. Abierto(s)
    BY <1>10
  <2>2. e <= t.actual \/ e \notin outbox => Cubierta(t, K, e)
    BY <1>1, <1>3, <1>7, <1>10, <2>1 DEF Repone
  <2>3. e \in outbox /\ e <= cursor => e <= t.marca \/ Cubierta(t, K, e)
    BY <1>1, <1>3, <1>7, <1>10, <2>1 DEF Repone
  <2> QED
    BY <1>7, <1>9, <2>2, <2>3
<1>14. Forma(t)
  BY <1>1, <1>2, <1>7, <1>8 DEF Forma, Drena, Cupo, Justa, Holgada
<1>15. ClienteInv(c, t, k, Firmes, outbox, cursor)
  BY <1>3, <1>10, <1>11, <1>12, <1>13 DEF ClienteInv, Corriente, K
<1> QED
  BY <1>1, <1>2, <1>7, <1>14, <1>15, CambiaFlujo DEF C, k

\* A stream that ends keeps what the invariant says of it.
LEMMA CorteInv ==
    ASSUME NEW C, NEW c, NEW s \in Ficha(C), NEW t \in Ficha(C), NEW k, NEW V, NEW O, NEW u,
           ClienteInv(c, s, k, V, O, u), ~Abierto(t), t.transito = s.transito, t.desde = s.desde
    PROVE  ClienteInv(c, t, k, V, O, u)
<1> DEFINE D == Deuda(c, s, k, V)
           K == k.conoce
<1>1. Posicion(c, k, V) /\ Sano(D, s, K) /\ Desde(D, s, K)
  BY DEF ClienteInv, Corriente
<1>2. D = Deuda(c, t, k, V) /\ Desde(D, t, K)
  BY <1>1 DEF Deuda, Desde
<1>3. AlDia(D, K, t, O, u) /\ Repone(D, K, t, O, u)
  BY DEF AlDia, Repone
<1> HIDE DEF D
<1>4. Sano(D, t, K)
  BY <1>1, CorteSano
<1> QED
  BY <1>1, <1>2, <1>3, <1>4 DEF ClienteInv, Corriente

LEMMA AltaFallaFlujo ==
    ASSUME FlujoInv, NEW c \in Clientes, AltaFalla(c)
    PROVE  FlujoInv'
<1> DEFINE s == con[c]
           C == confirmados
           w == CerrarLocal(s)
           t == [w EXCEPT !.rutina = "fuera", !.ido = TRUE]
<1>1. UNCHANGED <<bd, proceso, cliente>> /\ Cambia(c, t)
  BY DEF AltaFalla
<1>2. s \in Ficha(C) /\ ClienteInv(c, s, cliente[c], Firmes, outbox, cursor)
  BY DeCliente
<1>3. w \in Ficha(C) /\ ~w.suscrito /\ w.desde = s.desde /\ w.transito = s.transito
  BY <1>2, CerrarLocalFicha
<1> HIDE DEF w
<1>4. /\ t \in Ficha(C) /\ ~t.suscrito /\ t.desde = s.desde /\ t.transito = s.transito
      /\ t.rutina = "fuera"
  BY <1>3 DEF Ficha, Rutinas
<1> HIDE DEF t
<1>5. ~Abierto(t) /\ Forma(t)
  BY <1>4 DEF Abierto, Forma, Drena, Cupo, Justa, Holgada
<1>6. ClienteInv(c, t, cliente[c], Firmes, outbox, cursor)
  BY <1>2, <1>4, <1>5, CorteInv
<1> QED
  BY <1>1, <1>4, <1>5, <1>6, CambiaFlujo

\* The rows of a replay batch go out with no gap; a short batch was the last.
LEMMA ReenviarFlujo ==
    ASSUME FlujoInv, NEW c \in Clientes, Reenviar(c)
    PROVE  FlujoInv'
<1> DEFINE s == con[c]
           k == cliente[c]
           C == confirmados
           K == k.conoce
           D == Deuda(c, s, k, Firmes)
           n == MaxReenvio - s.reenviados
           P == Primeras(s.lote, n)
           u == Entregar(c, s, P)
           t == [u EXCEPT !.reenviados = @ + Cardinality(P), !.lote = {},
                          !.actual = MaxId(P \cup {@})]
<1>1. /\ s.rutina = "reenviar" /\ UNCHANGED <<bd, proceso, cliente>>
      /\ \/ Rehusar(c, t)
         \/ P = s.lote /\ Cardinality(P) < LoteReenvio /\ Concluir(c, t)
         \/ P = s.lote /\ Seguir(c, t)
  BY DEF Reenviar
<1>2. /\ s \in Ficha(C) /\ Forma(s) /\ activo /\ ClienteInv(c, s, k, Firmes, outbox, cursor)
      /\ C \in SUBSET Nat /\ asignado \in Nat /\ C \in SUBSET (1 .. asignado) /\ Firmes \in SUBSET C
  BY <1>1, DeCliente
<1>3. /\ Posicion(c, k, Firmes) /\ Sano(D, s, K) /\ Desde(D, s, K)
      /\ Repone(D, K, s, outbox, cursor)
  BY <1>2 DEF ClienteInv, Corriente
<1>4. Drena(s) /\ Holgada(s) /\ s.desde # NULO /\ s.rutina \in EnAlta
  BY <1>1, <1>2 DEF Forma, Cupo, EnAlta
<1>5. /\ s.lote \in SUBSET C /\ s.lote \in SUBSET (0 .. asignado)
      /\ s.reenviados \in 0 .. MaxReenvio /\ n \in Nat /\ n + s.reenviados = MaxReenvio
      /\ s.actual \in C \cup {0} /\ s.actual \in 0 .. asignado
  <2>1. s.lote \in SUBSET C /\ s.reenviados \in 0 .. MaxReenvio /\ s.actual \in C \cup {0}
    BY <1>2 DEF Ficha
  <2>2. MaxReenvio \in Nat
    BY AgendaAssumption DEF AgendaAssumption
  <2>3. \A x \in C \cup {0} : x \in 0 .. asignado
    BY <1>2
  <2> HIDE DEF s, C
  <2> QED
    BY <2>1, <2>2, <2>3
<1>6. /\ P \subseteq s.lote /\ \A e \in s.lote, f \in P : e <= f => e \in P
      /\ Cardinality(P) \in 0 .. n
  <2> HIDE DEF s, n
  <2> QED
    BY <1>2, <1>5, PrimerasDe
<1> HIDE DEF P, n
<1>7. ASSUME Abierto(s), NEW e \in D PROVE
         /\ e <= s.actual \/ e \notin outbox => Cubierta(s, K, e)
         /\ s.actual < e /\ e \in outbox /\ (\E f \in s.lote : e <= f) => e \in s.lote
         /\ s.actual < e /\ e \in outbox /\ Cardinality(s.lote) < LoteReenvio /\ e <= s.marca
                 => e \in s.lote
         /\ e \in outbox /\ e <= cursor => e <= s.marca \/ Cubierta(s, K, e)
  BY <1>1, <1>3, <1>7 DEF Repone
<1>8. ASSUME NEW e \in D
      PROVE  e \in Nat /\ e \in C /\ s.actual \in Nat /\ SucEvento[e] = SucCliente[c]
  <2>1. e \in C /\ SucEvento[e] = SucCliente[c]
    BY <1>2 DEF Deuda, Suyas
  <2> HIDE DEF s, C, D
  <2>2. \A x \in C \cup {0} : x \in Nat
    BY <1>2
  <2> QED
    BY <1>5, <2>1, <2>2
<1>9. Consecutivas(c, D, s, K, P)
  <2> SUFFICES ASSUME Abierto(s), NEW f \in Nuevas(c, s, P), NEW e \in D, e <= f, ~Cubierta(s, K, e)
               PROVE  e \in P
    BY DEF Consecutivas
  <2>1. f \in P /\ f \in s.lote
    BY <1>6 DEF Nuevas
  <2>2. s.actual < e /\ e \in outbox
    BY <1>7, <1>8
  <2>4. \E x \in s.lote : e <= x
    BY <2>1
  <2>3. e \in s.lote
    <3> HIDE DEF s, D, K
    <3> QED
      BY <1>7, <2>2, <2>4
  <2> QED
    BY <1>6, <2>1, <2>3
<1>10. /\ u \in Ficha(C) /\ Sano(D, u, K) /\ Parecido(s, u)
       /\ Drena(s) => Drena(u)
       /\ Holgada(s) => Holgada(u)
       /\ Abierto(u) => /\ Abierto(s) /\ Conserva(s, u, K)
                        /\ \A e \in D \cap P : Cubierta(u, K, e)
  <2>1. P \in SUBSET C /\ D \in SUBSET C /\ \A e \in D : SucEvento[e] = SucCliente[c]
    BY <1>5, <1>6, <1>8
  <2>2. /\ s \in Ficha(C) /\ u = Entregar(c, s, P) /\ Sano(D, s, K)
        /\ asignado \in Nat /\ C \in SUBSET (1 .. asignado)
    BY <1>2, <1>3
  <2>5. \A e \in D : SucEvento[e] = SucCliente[c]
    BY <1>8
  <2> HIDE DEF s, C, D, K, u, t, k
  <2>6. /\ s \in Ficha(C) /\ P \in SUBSET C /\ D \in SUBSET C /\ asignado \in Nat
        /\ C \in SUBSET (1 .. asignado)
    BY <2>1, <2>2
  <2>7. Sano(D, s, K) /\ Consecutivas(c, D, s, K, P)
    BY <1>9, <2>2
  <2>8. u = Entregar(c, s, P)
    BY <2>2
  <2>3. Entregado(C, D, s, K, P, u)
    BY <2>5, <2>6, <2>7, <2>8, EntregarSano
  <2> QED
    BY <2>3 DEF Entregado
<1> HIDE DEF u
<1>11. /\ MaxId(P \cup {u.actual}) \in P \cup {s.actual, 0}
       /\ \A x \in P \cup {s.actual} : x <= MaxId(P \cup {u.actual})
  <2>1. u.actual = s.actual
    BY <1>10 DEF Parecido
  <2>2. P \cup {s.actual} \in SUBSET (0 .. asignado)
    BY <1>5, <1>6
  <2> HIDE DEF s
  <2> QED
    BY <1>2, <2>1, <2>2, MaxIdDe
<1>12. /\ t \in Ficha(C) /\ t.actual = MaxId(P \cup {u.actual}) /\ t.marca = s.marca
       /\ t.transito = u.transito /\ t.cola = u.cola /\ t.enviado = u.enviado
       /\ t.suscrito = u.suscrito /\ t.socket = u.socket /\ t.desde = s.desde
       /\ t.pausado = u.pausado /\ t.sordo = u.sordo
  <2>1. u.reenviados + Cardinality(P) \in 0 .. MaxReenvio
    <3>1. u.reenviados = s.reenviados
      BY <1>10 DEF Parecido
    <3> HIDE DEF s
    <3> QED
      BY <1>5, <1>6, <3>1
  <2>2. MaxId(P \cup {u.actual}) \in C \cup {0}
    BY <1>5, <1>6, <1>11
  <2>3. u.marca = s.marca /\ u.desde = s.desde
    BY <1>10 DEF Parecido
  <2> HIDE DEF s, C
  <2> QED
    BY <1>10, <2>1, <2>2, <2>3 DEF Ficha
<1> HIDE DEF t
<1>13. /\ Sano(D, t, K) /\ (Abierto(t) <=> Abierto(u)) /\ Conserva(u, t, K)
  BY <1>10, <1>12, MismoCanal
<1>14. Drena(t) /\ Holgada(t) /\ Justa(t)
  BY <1>4, <1>10, <1>12 DEF Drena, Holgada, Justa
\* What the place of the replay passes was in the batch, or gone.
<1>15. ASSUME Abierto(t), NEW e \in D PROVE
          /\ Abierto(s)
          /\ Cubierta(s, K, e) => Cubierta(t, K, e)
          /\ e \in P => Cubierta(t, K, e)
  BY <1>10, <1>13, <1>15 DEF Conserva
<1>16. ASSUME Abierto(t), NEW e \in D, e <= t.actual \/ e \notin outbox PROVE Cubierta(t, K, e)
  <2>1. CASE e <= s.actual \/ e \notin outbox
    BY <1>7, <1>15, <1>16, <2>1
  <2>2. CASE ~(e <= s.actual) /\ e \in outbox
    <3>1. s.actual < e /\ e <= t.actual /\ e # 0
      BY <1>2, <1>8, <1>16, <2>2
    <3>2. t.actual \in P
      BY <1>11, <1>12, <2>2, <3>1, <1>8
    <3>3. t.actual \in s.lote
      BY <1>6, <3>2
    <3>6. \E x \in s.lote : e <= x
      BY <3>1, <3>3
    <3>4. e \in s.lote
      <4> HIDE DEF s, D, K
      <4> QED
        BY <1>7, <1>15, <1>16, <2>2, <3>1, <3>6
    <3>5. e \in P
      BY <1>6, <3>1, <3>2, <3>4
    <3> QED
      BY <1>15, <1>16, <3>5
  <2> QED
    BY <2>1, <2>2
<1>17. ASSUME Abierto(t), NEW e \in D, e \in outbox, e <= cursor PROVE e <= t.marca \/ Cubierta(t, K, e)
  BY <1>7, <1>12, <1>15, <1>17
<1>18. CASE Rehusar(c, t)
  <2>1. con[c].rutina \in EnAlta /\ t.desde = con[c].desde
    BY <1>4, <1>12
  <2> HIDE DEF s
  <2> QED
    BY <1>1, <1>12, <1>13, <1>14, <1>18, <2>1, RehusarFlujo DEF s
<1>19. CASE P = s.lote /\ Seguir(c, t)
  <2>1. Abierto(t) =>
           \A e \in D : /\ e <= t.actual \/ e \notin outbox => Cubierta(t, K, e)
                        /\ e \in outbox /\ e <= cursor => e <= t.marca \/ Cubierta(t, K, e)
    BY <1>16, <1>17
  <2>2. /\ con[c].rutina \in EnAlta /\ t.desde = con[c].desde /\ t.desde # NULO
        /\ D = Deuda(c, con[c], cliente[c], Firmes) /\ K = cliente[c].conoce
    BY <1>4, <1>12
  <2> HIDE DEF s, k, D, K
  <2> QED
    BY <1>1, <1>12, <1>13, <1>14, <1>19, <2>1, <2>2, SeguirFlujo
<1>20. CASE P = s.lote /\ Cardinality(P) < LoteReenvio /\ Concluir(c, t)
  <2>1. ASSUME Abierto(t), NEW e \in D, e <= cursor \/ e \notin outbox PROVE Cubierta(t, K, e)
    <3>1. CASE e <= s.actual \/ e \notin outbox
      BY <1>7, <1>15, <2>1, <3>1
    <3>2. CASE ~(e <= s.actual) /\ e \in outbox
      <4>1. s.actual < e /\ e <= cursor
        BY <1>8, <2>1, <3>2
      <4>2. CASE e <= s.marca
        <5>1. e \in P
          BY <1>7, <1>15, <1>20, <2>1, <3>2, <4>1, <4>2
        <5> QED
          BY <1>15, <2>1, <5>1
      <4>3. CASE ~(e <= s.marca)
        BY <1>7, <1>15, <2>1, <3>2, <4>1, <4>3
      <4> QED
        BY <4>2, <4>3
    <3> QED
      BY <3>1, <3>2
  <2> HIDE DEF s, k, D, K
  <2>2. PICK x \in Ficha(C) : Cambia(c, x) /\ Concluida(D, t, x, K)
    BY <1>2, <1>12, <1>13, <1>14, <1>20, ConcluirSano
  <2>3. Abierto(x) => \A e \in D : e <= cursor \/ e \notin outbox => Cubierta(x, K, e)
    BY <2>1, <2>2 DEF Concluida, Conserva
  <2>4. D = Deuda(c, s, k, Firmes) /\ K = k.conoce
    BY DEF D, K
  <2>5. Forma(x) /\ ClienteInv(c, x, k, Firmes, outbox, cursor)
    BY <1>3, <1>12, <2>2, <2>3, <2>4, ConcluidaInv
  <2> QED
    BY <1>1, <1>2, <2>2, <2>5, CambiaFlujo DEF C, k
<1> QED
  BY <1>1, <1>18, <1>19, <1>20

LEMMA AltaFlujo ==
    ASSUME FlujoInv, NEW c \in Clientes, Alta(c)
    PROVE  FlujoInv'
BY PedirFlujo, RegistrarFlujo, RechazarFlujo, LeerMarcaFlujo, LeerLimitesFlujo, LeerReenvioFlujo,
   ReenviarFlujo, AltaFallaFlujo DEF Alta

-----------------------------------------------------------------------------
(* Steps of a socket *)

\* Before and after a browser, at k, receives the frames q of the channel that
\* stream s left to it
Recibira(c, D, s, k, q, V) ==
    Posicion(c, k, V) /\ D = Deuda(c, s, k, V) /\ Desde(D, s, k.conoce) /\ Fiel(D, q, k.conoce)

Recibido(c, D, t, k, q, r, V) ==
    /\ r \in Navegador(confirmados)
    /\ Posicion(c, r, V) /\ D = Deuda(c, t, r, V) /\ Desde(D, t, r.conoce)
    /\ k.conoce \subseteq r.conoce
    /\ \A e \in D : Lleva(q, e) => e \in r.conoce

\* The browser's place and what it knows after the frames of a faithful channel
LEMMA RecibeInv ==
    ASSUME NEW c, NEW D, NEW s, NEW k \in Navegador(confirmados), NEW V \in SUBSET
           confirmados,
           NEW q \in Seq(confirmados \cup {0}), Recibira(c, D, s, k, q, V),
           NEW r, r = Recibe(k, q), NEW t, t.desde = s.desde
    PROVE  Recibido(c, D, t, k, q, r, V)
<1>0. /\ Posicion(c, k, V) /\ D = Deuda(c, s, k, V) /\ Desde(D, s, k.conoce)
      /\ Fiel(D, q, k.conoce)
  BY DEF Recibira
<1>1. /\ r \in Navegador(confirmados)
      /\ r.base = k.base /\ r.adelantado = k.adelantado
      /\ r.ultimo = UltimoId(q, k.ultimo)
      /\ k.conoce \subseteq r.conoce
      /\ \A e \in confirmados : Lleva(q, e) => e \in r.conoce
  <2>1. LET w == Recibe(k, q) IN
        /\ w \in Navegador(confirmados)
        /\ w.base = k.base /\ w.adelantado = k.adelantado
        /\ w.ultimo = UltimoId(q, k.ultimo)
        /\ k.conoce \subseteq w.conoce
        /\ \A e \in confirmados : Lleva(q, e) => e \in w.conoce
    BY RecibeSano DEF Navegador
  <2> QED
    BY <2>1
<1>2. D = Deuda(c, t, r, V)
  BY <1>0, <1>1 DEF Deuda
<1>3. \A e \in D : Lleva(q, e) => e \in r.conoce
  BY <1>0, <1>1 DEF Deuda, Suyas
<1>4. Posicion(c, r, V)
  <2> SUFFICES ASSUME NEW e \in Suyas(c, V), ~r.adelantado, r.base < e, e <= r.ultimo
               PROVE  e \in r.conoce
    BY DEF Posicion
  <2>1. e \in D
    BY <1>0, <1>1 DEF Deuda
  <2>2. CASE r.ultimo = k.ultimo
    BY <1>0, <1>1, <2>2 DEF Posicion
  <2>3. CASE r.ultimo # k.ultimo
    <3>1. PICK i \in 1 .. Len(q) : q[i] # RESYNC /\ r.ultimo = q[i]
      BY <1>1, <2>3, UltimoIdDe
    <3>2. Len(q) \in Nat
      BY LenProperties
    <3>3. e \in k.conoce \/ \E j \in 1 .. i : q[j] \in {e, RESYNC}
      BY <1>0, <2>1, <3>1 DEF Fiel
    <3>4. e \in k.conoce \/ Lleva(q, e)
      BY <3>2, <3>3 DEF Lleva
    <3> QED
      BY <1>1, <1>3, <2>1, <3>4
  <2> QED
    BY <2>2, <2>3
<1>5. Desde(D, t, r.conoce)
  BY <1>0, <1>1 DEF Desde
<1> QED
  BY <1>1, <1>2, <1>3, <1>4, <1>5 DEF Recibido

\* The record t that a stream s leaves when it is over
Cortado(C, s, t) ==
    /\ t \in Ficha(C) /\ ~Abierto(t) /\ t.transito = <<>> /\ t.desde = s.desde
    /\ Forma(t) /\ t.rutina \in {s.rutina, "fuera"}

LEMMA CorteFicha ==
    ASSUME NEW C, NEW s \in Ficha(C), Forma(s),
           NEW w, w = [s EXCEPT !.socket = "cerrado", !.transito = <<>>],
           NEW t, t = w \/ t = Limpieza(w)
    PROVE  Cortado(C, s, t)
<1>1. /\ w \in Ficha(C) /\ w.socket = "cerrado" /\ w.transito = <<>> /\ w.desde = s.desde
      /\ w.rutina = s.rutina /\ w.suscrito = s.suscrito /\ w.cola = s.cola
      /\ w.pausado = s.pausado /\ w.enviado = s.enviado
  <2>1. <<>> \in Seq(C \cup {0})
    BY EmptySeq
  <2> QED
    BY <2>1 DEF Ficha
<1>2. Forma(w) /\ ~Abierto(w)
  BY <1>1 DEF Forma, Drena, Cupo, Justa, Holgada, Abierto
<1>3. /\ Limpieza(w) \in Ficha(C) /\ ~Abierto(Limpieza(w)) /\ Limpieza(w).transito = <<>>
      /\ Limpieza(w).desde = s.desde /\ Forma(Limpieza(w))
      /\ Limpieza(w).rutina \in {s.rutina, "fuera"}
  <2>1. CASE w.rutina = "vivo"
    <3> DEFINE x == CerrarLocal(w)
               y == [x EXCEPT !.rutina = "fuera", !.ido = TRUE]
    <3>1. x \in Ficha(C) /\ ~x.suscrito /\ x.desde = w.desde /\ x.transito = w.transito
      BY <1>1, CerrarLocalFicha
    <3>2. Limpieza(w) = y
      BY <2>1 DEF Limpieza
    <3> HIDE DEF x
    <3>3. /\ y \in Ficha(C) /\ ~y.suscrito /\ y.desde = w.desde /\ y.transito = w.transito
          /\ y.rutina = "fuera"
      BY <3>1 DEF Ficha, Rutinas
    <3> HIDE DEF y
    <3>4. Forma(y) /\ ~Abierto(y)
      BY <3>3 DEF Forma, Drena, Cupo, Justa, Holgada, Abierto
    <3> QED
      BY <1>1, <3>2, <3>3, <3>4
  <2>2. CASE w.rutina # "vivo"
    <3> DEFINE y == [w EXCEPT !.ido = TRUE]
    <3>1. Limpieza(w) = y
      BY <2>2 DEF Limpieza
    <3>2. /\ y \in Ficha(C) /\ y.socket = "cerrado" /\ y.transito = <<>>
          /\ y.desde = s.desde
          /\ y.rutina = s.rutina /\ y.suscrito = s.suscrito /\ y.cola = s.cola
          /\ y.pausado = s.pausado /\ y.enviado = s.enviado
      BY <1>1 DEF Ficha
    <3> HIDE DEF y
    <3>3. Forma(y) /\ ~Abierto(y)
      BY <3>2 DEF Forma, Drena, Cupo, Justa, Holgada, Abierto
    <3> QED
      BY <3>1, <3>2, <3>3
  <2> QED
    BY <2>1, <2>2
<1> QED
  BY <1>1, <1>2, <1>3 DEF Cortado

\* A closed stream whose last frames were received
LEMMA CerradoFlujo ==
    ASSUME FlujoInv, NEW c \in Clientes,
           NEW n \in 0 .. Len(con[c].transito), NEW q, q = SubSeq(con[c].transito, 1, n),
           NEW k, k = Recibe(cliente[c], q), cliente' = [cliente EXCEPT ![c] = k],
           NEW t \in Ficha(confirmados), con' = [con EXCEPT ![c] = t],
           UNCHANGED <<bd, proceso>>,
           ~Abierto(t), t.transito = <<>>, t.desde = con[c].desde, Forma(t),
           t.rutina \in {con[c].rutina, "fuera"}
    PROVE  FlujoInv'
<1> DEFINE s == con[c]
           b == cliente[c]
           C == confirmados
           D == Deuda(c, s, b, Firmes)
<1>1. /\ s \in Ficha(C) /\ b \in Navegador(C) /\ ClienteInv(c, s, b, Firmes, outbox, cursor)
      /\ Firmes \in SUBSET C /\ (s.rutina # "fuera" => activo)
  BY DeCliente
<1>2. Posicion(c, b, Firmes) /\ Desde(D, s, b.conoce) /\ Fiel(D, Canal(s), b.conoce)
  BY <1>1 DEF ClienteInv, Corriente, Sano
<1>3. s.transito \in Seq(C \cup {0}) /\ s.cola \in Seq(C \cup {0})
  BY <1>1, CanalSeq
<1>4. Fiel(D, s.transito, b.conoce)
  <2>1. CASE Abierto(s)
    <3>1. Fiel(D, s.transito \o s.cola, b.conoce)
      BY <1>2, <2>1 DEF Canal
    <3> HIDE DEF s, D, b, C
    <3> QED
      BY <1>3, <3>1, FielParte
  <2>2. CASE ~Abierto(s)
    BY <1>2, <2>2 DEF Canal
  <2> QED
    BY <2>1, <2>2
<1> HIDE DEF C
<1>5. q \in Seq(C \cup {0}) /\ Fiel(D, q, b.conoce)
  <2>1. q = SubSeq(s.transito, 1, n) /\ n \in 0 .. Len(s.transito)
    OBVIOUS
  <2>2. Len(s.transito) \in Nat /\ n \in Nat
    BY <1>3, LenProperties
  <2>8. s.transito \in Seq(C \cup {0})
    BY <1>3
  <2> HIDE DEF s, D, b
  <2>6. Len(q) = n
    BY <1>3, <2>1, Principio, SMTT(30)
  <2>7. q \in Seq(C \cup {0})
    <3> DEFINE z == s.transito
               M == C \cup {0}
    <3>1. z \in Seq(M) /\ n \in 0 .. Len(z) /\ q = SubSeq(z, 1, n)
      BY <2>1, <2>8
    <3> HIDE DEF z, M
    <3>2. q \in Seq(M)
      BY <3>1, Principio
    <3> QED
      BY <3>2 DEF M
  <2>3. q \in Seq(C \cup {0}) /\ Len(q) = n
    BY <2>6, <2>7
  <2>4. \A x \in 1 .. n : q[x] = s.transito[x]
    BY <1>3, <2>1, Principio, SMTT(30)
  <2>5. Fiel(D, q, b.conoce)
    BY <1>4, <2>1, <2>2, <2>3, <2>4, FielPrefijo
  <2> QED
    BY <2>3, <2>5
<1> HIDE DEF D
<1>6. /\ k \in Navegador(C) /\ Posicion(c, k, Firmes) /\ D = Deuda(c, t, k, Firmes)
      /\ Desde(D, t, k.conoce)
  <2>1. D = Deuda(c, s, b, Firmes) /\ k = Recibe(b, q) /\ t.desde = s.desde
    BY DEF D
  <2>2. /\ b \in Navegador(confirmados) /\ Firmes \in SUBSET confirmados
        /\ q \in Seq(confirmados \cup {0})
    BY <1>1, <1>5 DEF C
  <2> HIDE DEF s, b
  <2>3. Recibira(c, D, s, b, q, Firmes)
    BY <1>2, <1>5, <2>1 DEF Recibira
  <2>4. Recibido(c, D, t, b, q, k, Firmes)
    BY <2>1, <2>2, <2>3, RecibeInv
  <2> QED
    BY <2>4 DEF C, Recibido
<1>7. Sano(D, t, k.conoce) /\ AlDia(D, k.conoce, t, outbox, cursor)
      /\ Repone(D, k.conoce, t, outbox, cursor)
  <2>1. Canal(t) = <<>>
    BY DEF Canal
  <2>2. Fiel(D, <<>>, k.conoce)
    BY EmptySeq DEF Fiel
  <2> QED
    BY <2>1, <2>2 DEF Sano, AlDia, Repone
<1>8. ClienteInv(c, t, k, Firmes, outbox, cursor)
  BY <1>6, <1>7 DEF ClienteInv, Corriente
<1>9. ~activo => t.rutina = "fuera"
  BY <1>1
<1> QED
  BY <1>6, <1>8, <1>9, UnCliente DEF C

LEMMA TerminarFlujo ==
    ASSUME FlujoInv, NEW c \in Clientes, Terminar(c)
    PROVE  FlujoInv'
<1> DEFINE s == con[c]
           C == confirmados
           q == s.transito
           w == [s EXCEPT !.socket = "cerrado", !.transito = <<>>]
           t == Limpieza(w)
<1>1. /\ s \in Ficha(C) /\ Forma(s)
  BY DeCliente
<1>2. /\ t \in Ficha(C) /\ ~Abierto(t) /\ t.transito = <<>> /\ t.desde = s.desde /\ Forma(t)
      /\ t.rutina \in {s.rutina, "fuera"}
  <2>1. w = [s EXCEPT !.socket = "cerrado", !.transito = <<>>] /\ (t = w \/ t = Limpieza(w))
    OBVIOUS
  <2> HIDE DEF s, w, t, C
  <2>2. Cortado(C, s, t)
    BY <1>1, <2>1, CorteFicha
  <2> QED
    BY <2>2 DEF Cortado
<1>3. /\ cliente' = [cliente EXCEPT ![c] = Recibe(cliente[c], q)]
      /\ con' = [con EXCEPT ![c] = t] /\ UNCHANGED <<bd, proceso>>
  BY DEF Terminar, Cambia
<1>4. q \in Seq(C \cup {0})
  BY <1>1, CanalSeq
<1> HIDE DEF t
<1>5. Len(q) \in 0 .. Len(q) /\ q = SubSeq(q, 1, Len(q))
  BY <1>4, LenProperties, SubSeqFull
<1>6. PICK n \in 0 .. Len(con[c].transito) : SubSeq(con[c].transito, 1, n) = q
  BY <1>5
<1> HIDE DEF q
<1> QED
  BY <1>2, <1>3, <1>6, CerradoFlujo

LEMMA DesconectarFlujo ==
    ASSUME FlujoInv, NEW c \in Clientes, Desconectar(c)
    PROVE  FlujoInv'
<1> DEFINE s == con[c]
           C == confirmados
           w == [s EXCEPT !.socket = "cerrado", !.transito = <<>>]
           t == IF w.rutina = "sucursal" THEN w ELSE Limpieza(w)
<1>1. s \in Ficha(C) /\ Forma(s)
  BY DeCliente
<1>2. /\ t \in Ficha(C) /\ ~Abierto(t) /\ t.transito = <<>> /\ t.desde = s.desde /\ Forma(t)
      /\ t.rutina \in {s.rutina, "fuera"}
  <2>1. w = [s EXCEPT !.socket = "cerrado", !.transito = <<>>] /\ (t = w \/ t = Limpieza(w))
    OBVIOUS
  <2> HIDE DEF s, w, t, C
  <2>2. Cortado(C, s, t)
    BY <1>1, <2>1, CorteFicha
  <2> QED
    BY <2>2 DEF Cortado
<1>3. PICK n \in 0 .. Len(s.transito) :
         cliente' = [cliente EXCEPT ![c] = Recibe(@, SubSeq(s.transito, 1, n))]
  BY DEF Desconectar
<1>4. con' = [con EXCEPT ![c] = t] /\ UNCHANGED <<bd, proceso>>
  BY DEF Desconectar, Cambia
<1> HIDE DEF t
<1> QED
  BY <1>2, <1>3, <1>4, CerradoFlujo

\* What the socket held was received, and the rest of the channel stays
\* faithful.
LEMMA VaciadoSano ==
    ASSUME NEW C, NEW s \in Ficha(C), s.socket = "abierto", NEW D, NEW K, Sano(D, s, K),
           NEW L, K \subseteq L, \A e \in D : Lleva(s.transito, e) => e \in L,
           NEW t, t = [s EXCEPT !.transito = <<>>]
    PROVE  Sano(D, t, L) /\ \A e \in D : Cubierta(s, K, e) => Cubierta(t, L, e)
<1>1. /\ t.suscrito = s.suscrito /\ t.socket = s.socket /\ t.cola = s.cola
      /\ t.transito = <<>>
      /\ t.enviado = s.enviado
  BY DEF Ficha
<1>2. s.transito \in Seq(C \cup {0}) /\ s.cola \in Seq(C \cup {0})
  BY CanalSeq
<1>3. <<>> \in Seq(C \cup {0}) /\ Len(<<>>) = 0
  BY EmptySeq
<1>4. CASE Abierto(s)
  <2>1. Canal(s) = s.transito \o s.cola /\ Canal(t) = s.cola /\ Abierto(t)
    BY <1>1, <1>2, <1>4, ConcatEmptySeq DEF Canal, Abierto
  <2>2. Fiel(D, s.transito \o s.cola, K)
    BY <2>1 DEF Sano
  <2>3. Fiel(D, s.cola, L)
    BY <1>2, <2>2, FielResto
  <2>4. ASSUME NEW e \in D, Cubierta(s, K, e) PROVE Cubierta(t, L, e)
    <3>1. e \in K \/ Lleva(s.transito \o s.cola, e)
      BY <2>1, <2>4 DEF Cubierta
    <3>2. e \in K \/ Lleva(s.transito, e) \/ Lleva(s.cola, e)
      BY <1>2, <3>1, LlevaJunta
    <3> QED
      BY <2>1, <3>2 DEF Cubierta
  <2>5. \A e \in D : e <= t.enviado => Cubierta(t, L, e)
    BY <1>1, <1>4, <2>4 DEF Sano
  <2> QED
    BY <2>1, <2>3, <2>4, <2>5 DEF Sano
<1>5. CASE ~Abierto(s)
  <2>1. Canal(s) = s.transito /\ Canal(t) = <<>> /\ ~Abierto(t)
    BY <1>1, <1>5 DEF Canal, Abierto
  <2>2. Fiel(D, <<>>, L)
    BY <1>3 DEF Fiel
  <2> QED
    BY <2>1, <2>2 DEF Sano, Cubierta
<1> QED
  BY <1>4, <1>5

\* A stream where nothing that is owed gets lost
LEMMA PasaCorriente ==
    ASSUME NEW D, NEW s, NEW t, NEW K, NEW L, NEW O, NEW u,
           AlDia(D, K, s, O, u), Repone(D, K, s, O, u),
           t.rutina = s.rutina, t.desde = s.desde, t.actual = s.actual, t.marca = s.marca,
           t.lote = s.lote, Abierto(t) => Abierto(s),
           \A e \in D : Cubierta(s, K, e) => Cubierta(t, L, e)
    PROVE  AlDia(D, L, t, O, u) /\ Repone(D, L, t, O, u)
<1>1. AlDia(D, L, t, O, u)
  BY DEF AlDia, Sigue
<1>2. Repone(D, L, t, O, u)
  BY DEF Repone
<1> QED
  BY <1>1, <1>2

LEMMA VaciarFlujo ==
    ASSUME FlujoInv, NEW c \in Clientes, Vaciar(c)
    PROVE  FlujoInv'
<1> DEFINE s == con[c]
           b == cliente[c]
           C == confirmados
           D == Deuda(c, s, b, Firmes)
           K == b.conoce
           q == s.transito
           k == Recibe(b, q)
           w == [s EXCEPT !.transito = <<>>]
           y == [w EXCEPT !.pausado = FALSE]
           z == [w EXCEPT !.sordo = s.pausado]
           drena == Len(s.transito) >= Capacidad
<1>1. /\ s.socket = "abierto" /\ UNCHANGED <<bd, proceso>>
      /\ cliente' = [cliente EXCEPT ![c] = k]
  BY DEF Vaciar
<1>2. \/ ~drena /\ con' = [con EXCEPT ![c] = w]
      \/ drena /\ s.rutina = "vivo" /\ con' = [con EXCEPT ![c] = Volcar(y)]
      \/ drena /\ s.rutina # "vivo" /\ con' = [con EXCEPT ![c] = z]
  BY DEF Vaciar, Cambia
<1>3. /\ s \in Ficha(C) /\ b \in Navegador(C) /\ ClienteInv(c, s, b, Firmes, outbox, cursor)
      /\ Firmes \in SUBSET C /\ (s.rutina # "fuera" => activo) /\ C \in SUBSET Nat /\ Forma(s)
  BY DeCliente
<1>4. /\ Posicion(c, b, Firmes) /\ Desde(D, s, K) /\ Sano(D, s, K)
      /\ AlDia(D, K, s, outbox, cursor) /\ Repone(D, K, s, outbox, cursor)
  BY <1>3 DEF ClienteInv, Corriente
<1>5. q \in Seq(C \cup {0}) /\ s.cola \in Seq(C \cup {0})
  BY <1>3, CanalSeq
<1>6. Fiel(D, q, K)
  <2>1. CASE Abierto(s)
    <3>1. Fiel(D, q \o s.cola, K)
      BY <1>4, <2>1 DEF Canal, Sano
    <3> HIDE DEF s, D, b, C, K, q
    <3> QED
      BY <1>5, <3>1, FielParte
  <2>2. CASE ~Abierto(s)
    BY <1>4, <2>2 DEF Canal, Sano
  <2> QED
    BY <2>1, <2>2
<1>7. D = Deuda(c, s, b, Firmes) /\ K = b.conoce /\ k = Recibe(b, q)
  OBVIOUS
<1> HIDE DEF D, K, k, b
<1>8. ASSUME NEW t, t.desde = s.desde
      PROVE  /\ k \in Navegador(C) /\ Posicion(c, k, Firmes) /\ D = Deuda(c, t, k, Firmes)
             /\ Desde(D, t, k.conoce) /\ K \subseteq k.conoce
             /\ \A e \in D : Lleva(q, e) => e \in k.conoce
  <2> HIDE DEF s, q
  <2>1. Recibira(c, D, s, b, q, Firmes)
    BY <1>4, <1>6, <1>7 DEF Recibira
  <2>2. Recibido(c, D, t, b, q, k, Firmes)
    BY <1>3, <1>5, <1>7, <1>8, <2>1, RecibeInv
  <2> QED
    BY <1>7, <2>2 DEF Recibido
<1>9. /\ w \in Ficha(C) /\ Igual(s, w) /\ w.cola = s.cola /\ w.transito = <<>>
      /\ w.pausado = s.pausado /\ w.enviado = s.enviado
  <2>1. <<>> \in Seq(C \cup {0})
    BY EmptySeq
  <2> QED
    BY <1>3, <2>1 DEF Ficha, Igual
<1>10. /\ Sano(D, w, k.conoce)
       /\ \A e \in D : Cubierta(s, K, e) => Cubierta(w, k.conoce, e)
  <2>1. K \subseteq k.conoce /\ \A e \in D : Lleva(s.transito, e) => e \in k.conoce
    BY <1>8
  <2>2. w = [s EXCEPT !.transito = <<>>]
    OBVIOUS
  <2> HIDE DEF s, w, C
  <2> QED
    BY <1>1, <1>3, <1>4, <2>1, <2>2, VaciadoSano
\* Each of the three ends
<1>11. ASSUME NEW t \in Ficha(C), con' = [con EXCEPT ![c] = t],
              t.rutina = s.rutina, t.desde = s.desde, t.actual = s.actual, t.marca = s.marca,
              t.lote = s.lote, Abierto(t) => Abierto(s), Forma(t),
              Sano(D, t, k.conoce), Conserva(w, t, k.conoce)
       PROVE  FlujoInv'
  <2>1. \A e \in D : Cubierta(s, K, e) => Cubierta(t, k.conoce, e)
    BY <1>10, <1>11 DEF Conserva
  <2>2. AlDia(D, k.conoce, t, outbox, cursor) /\ Repone(D, k.conoce, t, outbox, cursor)
    BY <1>4, <1>11, <2>1, PasaCorriente
  <2>3. ClienteInv(c, t, k, Firmes, outbox, cursor) /\ k \in Navegador(C)
    BY <1>8, <1>11, <2>2 DEF ClienteInv, Corriente
  <2>4. ~activo => t.rutina = "fuera"
    BY <1>3, <1>11
  <2> HIDE DEF s
  <2> QED
    BY <1>1, <1>11, <2>3, <2>4, UnCliente
<1>12. CASE ~drena /\ con' = [con EXCEPT ![c] = w]
  <2>1. Forma(w) /\ Abierto(w) = Abierto(s)
    BY <1>3, <1>9, <1>12 DEF Forma, Drena, Cupo, Justa, Holgada, Igual, Abierto
  <2> QED
    BY <1>9, <1>10, <1>11, <1>12, <2>1 DEF Conserva, Igual
<1>13. CASE drena /\ s.rutina = "vivo" /\ con' = [con EXCEPT ![c] = Volcar(y)]
  <2> DEFINE t == Volcar(y)
  <2>1. /\ y \in Ficha(C) /\ Igual(w, y) /\ y.cola = w.cola /\ y.transito = w.transito
        /\ ~y.pausado /\ y.enviado = w.enviado
    BY <1>9 DEF Ficha, Igual
  <2> HIDE DEF w, y
  <2>2. Sano(D, y, k.conoce) /\ Conserva(w, y, k.conoce)
    BY <1>10, <2>1, MismoCanal DEF Igual
  <2>3. Sano(D, t, k.conoce) /\ Conserva(y, t, k.conoce)
    BY <1>3, <2>1, <2>2, VolcarSano
  <2>4. t \in Ficha(C) /\ Igual(y, t)
    BY <2>1, VolcarFicha
  <2>5. Drena(t) /\ Justa(t)
    <3>1. Drena(y) /\ Justa(y)
      BY <1>3, <1>9, <2>1 DEF Drena, Justa, Igual, Forma, Cupo
    <3> QED
      BY <2>1, <3>1, VolcarRegla
  <2> HIDE DEF t
  <2>6. Igual(s, t) /\ Conserva(w, t, k.conoce)
    BY <1>9, <2>1, <2>2, <2>3, <2>4 DEF Igual, Conserva
  <2>7. Forma(t) /\ (Abierto(t) => Abierto(s))
    BY <1>13, <2>5, <2>6 DEF Forma, Cupo, Igual, Abierto
  <2> QED
    BY <1>11, <1>13, <2>3, <2>4, <2>6, <2>7 DEF Igual, t
<1>14. CASE drena /\ s.rutina # "vivo" /\ con' = [con EXCEPT ![c] = z]
  <2>1. /\ z \in Ficha(C) /\ z.rutina = s.rutina /\ z.suscrito = s.suscrito
        /\ z.socket = s.socket
        /\ z.ido = s.ido /\ z.desde = s.desde /\ z.marca = s.marca /\ z.actual = s.actual
        /\ z.reenviados = s.reenviados /\ z.lote = s.lote /\ z.sordo = s.pausado
        /\ z.cola = s.cola /\ z.transito = <<>> /\ z.pausado = s.pausado /\ z.enviado = s.enviado
    BY <1>3, <1>9 DEF Ficha, Igual
  <2>2. z.cola = w.cola /\ z.transito = w.transito /\ z.enviado = w.enviado
        /\ z.suscrito = w.suscrito /\ z.socket = w.socket
    BY <1>9, <2>1 DEF Igual
  <2> HIDE DEF w, z
  <2>3. Sano(D, z, k.conoce) /\ Conserva(w, z, k.conoce)
    BY <1>10, <2>2, MismoCanal
  <2>4. Forma(z) /\ (Abierto(z) => Abierto(s))
    BY <1>3, <2>1 DEF Forma, Drena, Cupo, Justa, Holgada, Abierto
  <2> QED
    BY <1>11, <1>14, <2>1, <2>3, <2>4
<1> QED
  BY <1>2, <1>12, <1>13, <1>14

-----------------------------------------------------------------------------
(* Every step *)

LEMMA InicioFlujo == AgendaInit => FlujoInv
<1> SUFFICES ASSUME AgendaInit PROVE FlujoInv
  OBVIOUS
<1>1. /\ enVuelo = {} /\ asignado = 0 /\ outbox = {} /\ confirmados = {} /\ tardios = {}
      /\ purgados = {} /\ activo = FALSE /\ cursor = 0 /\ poll = PollLibre
      /\ con = [c \in Clientes |-> Inactiva]
  BY DEF AgendaInit
<1>2. DatosInv
  BY <1>1 DEF DatosInv
<1>3. Inactiva \in Ficha(confirmados) /\ Forma(Inactiva) /\ ~Abierto(Inactiva)
  BY InactivaFicha
<1>4. Inactiva.transito = <<>> /\ Inactiva.desde = 0 /\ Inactiva.rutina = "fuera"
  BY DEF Inactiva, NULO
<1>5. DespachoInv
  BY <1>1, <1>4 DEF DespachoInv, PollLibre, SinSaltos
<1>6. Firmes = {}
  BY <1>1 DEF Firmes
<1>7. ASSUME NEW c \in Clientes
      PROVE  cliente[c] \in Navegador(confirmados) /\ ClienteInv(c, Inactiva, cliente[c], Firmes, outbox, cursor)
  <2>1. cliente[c] = [conoce |-> {}, ultimo |-> 0, base |-> 0, adelantado |-> FALSE, peticiones |-> 0]
    BY DEF AgendaInit
  <2>2. cliente[c] \in Navegador(confirmados) /\ cliente[c].ultimo = 0
    BY <2>1 DEF Navegador
  <2>3. Posicion(c, cliente[c], Firmes) /\ Firmes \in SUBSET (Nat \ {0})
    BY <1>6 DEF Posicion, Suyas
  <2> QED
    BY <1>3, <1>4, <2>2, <2>3, CerradoInv
<1>8. cliente \in [Clientes -> Navegador(confirmados)]
  <2>1. cliente = [c \in Clientes |-> cliente[c]]
    BY DEF AgendaInit
  <2> QED
    BY <1>7, <2>1
<1> QED
  BY <1>1, <1>2, <1>3, <1>5, <1>7, <1>8 DEF FlujoInv

LEMMA PasoFlujo == FlujoInv /\ [AgendaNext]_vars => FlujoInv'
<1> SUFFICES ASSUME FlujoInv, [AgendaNext]_vars PROVE FlujoInv'
  OBVIOUS
<1>1. CASE BaseDeDatos
  BY <1>1, InsertarFlujo, ConfirmarFlujo, RevertirFlujo, LimpiarFlujo DEF BaseDeDatos
<1>2. CASE Despachador
  BY <1>2, PollFlujo, ReparteFlujo, CaerFlujo, ArrancarFlujo DEF Despachador
<1>3. CASE \E c \in Clientes : Alta(c) \/ Red(c)
  BY <1>3, AltaFlujo, VaciarFlujo, TerminarFlujo, DesconectarFlujo DEF Red
<1>4. CASE UNCHANGED vars
  BY <1>4 DEF vars, bd, proceso, FlujoInv, DatosInv, DespachoInv, Firmes
<1> QED
  BY <1>1, <1>2, <1>3, <1>4 DEF AgendaNext

LEMMA SiempreFlujo == AgendaSpec => []FlujoInv
<1> QED
  BY InicioFlujo, PasoFlujo, PTL DEF AgendaSpec

LEMMA SiemprePercances == AgendaSpec => [](percances \in Nat)
<1>1. AgendaInit => percances \in Nat
  BY DEF AgendaInit
<1>2. percances \in Nat /\ [AgendaNext]_vars => (percances \in Nat)'
  <2> SUFFICES ASSUME percances \in Nat, [AgendaNext]_vars PROVE percances' \in {percances, percances + 1}
    OBVIOUS
  <2>1. CASE BaseDeDatos
    BY <2>1 DEF BaseDeDatos, Insertar, Confirmar, Revertir, Limpiar, Percance
  <2>2. CASE Despachador
    BY <2>2 DEF Despachador, PollConsulta, PollReparte, PollFalla, Caer, Arrancar, Percance
  <2>3. CASE \E c \in Clientes : Alta(c)
    BY <2>3
    DEF Alta, Pedir, Registrar, Rechazar, LeerMarca, LeerLimites, LeerReenvio, Reenviar,
                AltaFalla, Percance
  <2>4. CASE \E c \in Clientes : Red(c)
    BY <2>4 DEF Red, Vaciar, Terminar, Desconectar
  <2>5. CASE UNCHANGED vars
    BY <2>5 DEF vars
  <2> QED
    BY <2>1, <2>2, <2>3, <2>4, <2>5 DEF AgendaNext
<1> QED
  BY <1>1, <1>2, PTL DEF AgendaSpec

\* A queue with at most n rows among its frames
LEMMA ColaCabe ==
    ASSUME NEW S, NEW q \in Seq(S), NEW n \in Nat,
           \/ Len(q) <= n
           \/ Len(q) = n + 1 /\ \E i \in 1 .. Len(q) : q[i] = RESYNC
    PROVE  Cardinality({i \in DOMAIN q : q[i] # RESYNC}) <= n
<1> DEFINE I == {i \in DOMAIN q : q[i] # RESYNC}
<1>0. Len(q) \in Nat
  BY LenProperties
<1>1. DOMAIN q = 1 .. Len(q)
  BY LenProperties
<1>2. /\ IsFiniteSet(1 .. Len(q)) /\ Cardinality(1 .. Len(q)) = Len(q)
  <2> DEFINE m == Len(q)
  <2>1. m \in Nat
    BY <1>0
  <2> HIDE DEF m
  <2>2. IsFiniteSet(1 .. m)
    BY <2>1, FS_Interval
  <2>3. Cardinality(1 .. m) = IF 1 > m THEN 0 ELSE m - 1 + 1
    BY <2>1, FS_Interval
  <2>4. Cardinality(1 .. m) = m
    BY <2>1, <2>3
  <2> QED
    BY <2>2, <2>4 DEF m
<1>3. CASE Len(q) <= n
  <2>1. I \subseteq 1 .. Len(q)
    BY <1>1
  <2> HIDE DEF I
  <2>2. IsFiniteSet(I) /\ Cardinality(I) <= Cardinality(1 .. Len(q))
    BY <1>2, <2>1, FS_Subset
  <2>3. Cardinality(I) \in Nat
    BY <2>2, FS_CardinalityType
  <2>4. Cardinality(I) <= n
    BY <1>0, <1>2, <1>3, <2>2, <2>3
  <2> QED
    BY <2>4 DEF I
<1>4. CASE Len(q) = n + 1 /\ \E i \in 1 .. Len(q) : q[i] = RESYNC
  <2>1. PICK i \in 1 .. Len(q) : q[i] = RESYNC
    BY <1>4
  <2> DEFINE J == (1 .. Len(q)) \ {i}
  <2>2. I \subseteq J
    BY <1>1, <2>1
  <2>3. IsFiniteSet(J) /\ Cardinality(J) = Len(q) - 1
    <3>1. IsFiniteSet(J)
      BY <1>2, FS_RemoveElement
    <3>2. Cardinality(J) = Cardinality(1 .. Len(q)) - 1
      BY <1>2, FS_RemoveElement
    <3> QED
      BY <1>2, <3>1, <3>2
  <2> HIDE DEF I, J
  <2>4. IsFiniteSet(I) /\ Cardinality(I) <= Cardinality(J) /\ Cardinality(I) \in Nat
    BY <2>2, <2>3, FS_Subset, FS_CardinalityType
  <2> QED
    BY <1>0, <1>4, <2>3, <2>4 DEF I
<1> QED
  BY <1>3, <1>4

-----------------------------------------------------------------------------
(* The theorems *)

\* The counter of every address is the number of its subscribers, whatever
\* overflows, failed queries, lost connections and deaths of the process happen
\* (reserveIp, releaseIp).
THEOREM AgendaContadas == AgendaSpec => []ConexionesContadas
<1>1. ConexionesInv => ConexionesContadas
  BY DEF ConexionesInv
<1> QED
  BY <1>1, SiempreConexiones, PTL

\* Concurrent requests never exceed the limits per address nor the global one
\* (canAcceptConnection).
THEOREM AgendaLimite == AgendaSpec => []LimiteConexiones
<1>1. ConexionesInv => LimiteConexiones
  BY DEF ConexionesInv
<1> QED
  BY <1>1, SiempreConexiones, PTL

\* A stream whose end the route noticed has no subscriber once its handler is
\* done (subscribeAgendaRealtimeSafely, cleanup).
THEOREM AgendaSinFugaVista == AgendaSpec => []SinFugaVista
<1>1. ConexionesInv => SinFugaVista
  BY DEF ConexionesInv, SinFugaVista, Bien
<1> QED
  BY <1>1, SiempreConexiones, PTL

\* A paused subscriber whose route has heard no drain event too early has one
\* to come (flush, resumeClient).
THEOREM AgendaDrenaje == AgendaSpec => []DrenajePendiente
<1>1. FlujoInv => DrenajePendiente
  BY DEF FlujoInv, DrenajePendiente, Forma, Drena
<1> QED
  BY <1>1, SiempreFlujo, PTL

\* Last-Event-ID is a safe place to resume from: the rows of its branch up to it
\* that a browser never got came late or were cleaned too soon, unless live rows
\* overtook a replay of its.
THEOREM AgendaPosicion == AgendaSpec => []PosicionSegura
<1>1. FlujoInv => PosicionSegura
  <2> SUFFICES ASSUME FlujoInv, NEW c \in Clientes, ~cliente[c].adelantado, NEW e \in Perdidos(c)
               PROVE  e \in tardios \cup purgados
    BY DEF PosicionSegura
  <2>1. Posicion(c, cliente[c], Firmes)
    BY DEF FlujoInv, ClienteInv
  <2>2. /\ e \in confirmados /\ SucEvento[e] = SucCliente[c] /\ cliente[c].base < e
        /\ e <= cliente[c].ultimo /\ e \notin cliente[c].conoce
    BY DEF Perdidos
  <2> QED
    BY <2>1, <2>2 DEF Posicion, Suyas, Firmes
<1> QED
  BY <1>1, SiempreFlujo, PTL

\* On a live stream every row up to the cursor was received, is on its way or is
\* covered by a resync on its way: no poll, replay, overflow or refusal leaves a
\* row behind (pollOnce, subscribe, replay).
THEOREM AgendaSinHuecos == AgendaSpec => []SinHuecos
<1>1. FlujoInv => SinHuecos
  <2> SUFFICES ASSUME FlujoInv, NEW c \in Clientes,
                      con[c].suscrito, con[c].rutina = "vivo", con[c].socket = "abierto",
                      ~cliente[c].adelantado, NEW e \in outbox \ tardios,
                      SucEvento[e] = SucCliente[c],
                      (IF con[c].desde = NULO THEN cliente[c].base ELSE con[c].desde) < e,
                      e <= cursor
               PROVE  EnCamino(c) \cap {e, RESYNC} # {} \/ e \in cliente[c].conoce
    BY DEF SinHuecos
  <2> DEFINE s == con[c]
             k == cliente[c]
             D == Deuda(c, s, k, Firmes)
  <2>1. s \in Ficha(confirmados) /\ ClienteInv(c, s, k, Firmes, outbox, cursor)
        /\ confirmados \in SUBSET (Nat \ {0})
    BY DeCliente
  <2>2. e \in Firmes
    BY DEF FlujoInv, DatosInv, Firmes
  <2>3. k.base < e \/ (0 < s.desde /\ s.desde < e)
    <3>1. s.desde \in confirmados \cup {0}
      BY <2>1 DEF Ficha
    <3>2. s.desde = 0 \/ s.desde \in Nat \ {0}
      BY <2>1, <3>1
    <3> HIDE DEF s, k
    <3> QED
      BY <3>2 DEF NULO, s, k
  <2>4. e \in D
    BY <2>2, <2>3 DEF Deuda, Suyas
  <2>5. Cubierta(s, k.conoce, e)
    BY <2>1, <2>4 DEF ClienteInv, Corriente, AlDia, Sigue, Abierto
  <2>6. Canal(s) = s.transito \o s.cola
    BY DEF Canal, Abierto
  <2>7. CASE Lleva(Canal(s), e)
    <3>1. Canal(s) \in Seq(confirmados \cup {0})
      BY <2>1, CanalSeq
    <3>2. DOMAIN Canal(s) = 1 .. Len(Canal(s))
      BY <3>1, LenProperties
    <3>3. PICK i \in DOMAIN Canal(s) : Canal(s)[i] \in {e, RESYNC}
      BY <2>7, <3>2 DEF Lleva
    <3>4. EnCamino(c) = {Canal(s)[j] : j \in DOMAIN Canal(s)}
      BY <2>6 DEF EnCamino
    <3> QED
      BY <3>3, <3>4
  <2> QED
    BY <2>5, <2>7 DEF Cubierta
<1> QED
  BY <1>1, SiempreFlujo, PTL

\* Every value has its type, and a subscriber queues at most BufferMax rows.
THEOREM AgendaTipo == AgendaSpec => []AgendaTypeOK
<1>1. FlujoInv /\ ConexionesInv /\ percances \in Nat => AgendaTypeOK
  <2> SUFFICES ASSUME FlujoInv, ConexionesInv, percances \in Nat PROVE AgendaTypeOK
    OBVIOUS
  <2> DEFINE C == confirmados
  <2>1. DatosInv /\ DespachoInv
    BY DEF FlujoInv
  <2>2. C \subseteq Eventos /\ C \in SUBSET Nat /\ \A x \in C \cup {0} : x \in Nat
    BY <2>1, Cotas DEF DatosInv
  <2>3. /\ enVuelo \subseteq Eventos /\ asignado \in Nat
        /\ outbox \cup tardios \cup purgados \subseteq C /\ C \subseteq Eventos
    BY <2>1 DEF DatosInv
  <2>4. /\ activo \in BOOLEAN /\ cursor \in Nat
        /\ poll \in [leyendo : BOOLEAN, filas : SUBSET Eventos]
    BY <2>1, <2>2 DEF DespachoInv
  <2>5. porIp \in [Ips -> Nat]
    BY DEF ConexionesInv
  <2>6. con \in [Clientes -> ConInfo]
    <3>1. \A s \in Ficha(C) : s \in ConInfo
      <4>1. Ficha(C) \subseteq Ficha(Eventos)
        BY <2>2, FichaMas
      <4>2. ASSUME NEW s \in Ficha(C) PROVE s \in ConInfo
        <5>1. /\ s \in Ficha(Eventos) /\ s.enviado \in Nat /\ s.desde \in Nat
              /\ s.marca \in Nat /\ s.actual \in Nat
          BY <2>2, <4>1 DEF Ficha
        <5> QED
          BY <5>1 DEF Ficha, ConInfo, RESYNC
      <4> QED
        BY <4>2
    <3> QED
      BY <3>1 DEF FlujoInv
  <2>7. ASSUME NEW c \in Clientes, con[c].suscrito
        PROVE  Cardinality({i \in DOMAIN con[c].cola : con[c].cola[i] # RESYNC}) <= BufferMax
    <3> DEFINE q == con[c].cola
    <3>1. con[c] \in Ficha(C) /\ Forma(con[c])
      BY DEF FlujoInv
    <3>2. q \in Seq(C \cup {0})
      BY <3>1, CanalSeq
    <3>3. \/ Len(q) <= BufferMax
          \/ Len(q) = BufferMax + 1 /\ \E i \in 1 .. Len(q) : q[i] = RESYNC
      BY <2>7, <3>1 DEF Forma, Cupo, Justa
    <3>4. BufferMax \in Nat
      BY AgendaAssumption DEF AgendaAssumption
    <3> HIDE DEF q
    <3> QED
      BY <3>2, <3>3, <3>4, ColaCabe DEF q
  <2>8. cliente \in [Clientes -> [conoce : SUBSET (Eventos \cup {RESYNC}), ultimo : Nat,
                                  base : Nat, adelantado : BOOLEAN, peticiones : Nat]]
    <3>1. \A k \in Navegador(C) :
             k \in [conoce : SUBSET (Eventos \cup {RESYNC}), ultimo : Nat,
                    base : Nat, adelantado : BOOLEAN, peticiones : Nat]
      BY <2>2 DEF Navegador, RESYNC
    <3> QED
      BY <3>1 DEF FlujoInv
  <2> QED
    BY <2>3, <2>4, <2>5, <2>6, <2>7, <2>8 DEF AgendaTypeOK
<1> QED
  BY <1>1, SiempreFlujo, SiempreConexiones, SiemprePercances, PTL
=============================================================================
