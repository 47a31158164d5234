---------------------------- MODULE Jornada_proofs ----------------------------
(***************************************************************************)
(* Theorems about Disponibilidad and Jornada, for every calendar, every    *)
(* set of citas and requests and every setting of the constants.           *)
(*                                                                         *)
(* The lists of stretches the code keeps are folds over sorted sequences,  *)
(* so the first part says what a fold computes: one function follows it,   *)
(* step by step, from the first element to the last (PlegadoVale).  Each   *)
(* operation on lists then is shown to leave exactly the instants it       *)
(* should, in stretches that do not touch, and the offer of a day is the   *)
(* composition of them (TurnosDelDiaFiel).                                 *)
(*                                                                         *)
(* JornadaTypeOK is inductive, and implies both properties of the offer:   *)
(* they hold of every calendar whose rows are what the code lets enter.    *)
(*                                                                         *)
(* The order of the queue needs that the citas of a barber stay apart      *)
(* (DiaInv): the queue then lists each cita once (ColaLista), and a delay  *)
(* puts all of them later by the same time (RetrasarTodos).                *)
(*                                                                         *)
(* The curated page is a fold over a ranking: what it shows and hides is   *)
(* said of every beginning of the ranking (Curado), and the score decides  *)
(* what comes first (InicioGana).                                          *)
(***************************************************************************)
EXTENDS Jornada, FiniteSetTheorems, WellFoundedInduction, TLAPS

-----------------------------------------------------------------------------
(* Numbers *)

\* A set of numbers has a least one: the initial segments below its elements
\* are finite, and strict inclusion among finite sets is well founded.
LEMMA HayMinimo ==
  ASSUME NEW S \in SUBSET Nat, S # {}
  PROVE  \E m \in S : \A n \in S : m <= n
<1> DEFINE Z == {1 .. n : n \in S}
           R == StrictSubsetOrdering(Nat)
<1>1. Z \subseteq FiniteSubsetsOf(Nat) /\ Z # {}
  <2>1. ASSUME NEW n \in S PROVE 1 .. n \in SUBSET Nat /\ IsFiniteSet(1 .. n)
    BY FS_Interval
  <2> QED
    BY <2>1 DEF FiniteSubsetsOf
<1>2. PICK X \in Z : \A Y \in Z : ~(<<Y, X>> \in R)
  <2>1. IsWellFoundedOn(R, FiniteSubsetsOf(Nat))
    BY FS_StrictSubsetOrderingWellFounded
  <2> QED
    BY <1>1, <2>1, WFMin
<1>3. PICK m \in S : X = 1 .. m
  OBVIOUS
<1>4. ASSUME NEW n \in S, ~(m <= n) PROVE FALSE
  <2>1. 1 .. n \subseteq 1 .. m /\ 1 .. n # 1 .. m /\ 1 .. n \in Z
    BY <1>4
  <2>2. <<1 .. n, X>> \in R
    BY <1>3, <2>1 DEF StrictSubsetOrdering
  <2> QED
    BY <1>2, <2>1, <2>2
<1> QED
  BY <1>4

\* Induction up to n, with the set of the numbers reached.
LEMMA HastaN ==
  ASSUME NEW n \in Nat, NEW K \in SUBSET (0 .. n), 0 \in K,
         \A k \in 1 .. n : k - 1 \in K => k \in K
  PROVE  K = 0 .. n
<1> DEFINE F == (0 .. n) \ K
<1> SUFFICES ASSUME F # {} PROVE FALSE
  OBVIOUS
<1>1. PICK m \in F : \A j \in F : m <= j
  <2>1. F \in SUBSET Nat
    OBVIOUS
  <2> HIDE DEF F
  <2> QED
    BY <2>1, HayMinimo
<1>2. m \in 1 .. n /\ m - 1 \in 0 .. n /\ m - 1 \notin F
  BY <1>1
<1> QED
  BY <1>1, <1>2

\* Max of a set of positions is one of them, and none is greater.
LEMMA MaximoDe ==
  ASSUME NEW n \in Nat, NEW S \in SUBSET (1 .. n), S # {}
  PROVE  Max(S) \in S /\ \A x \in S : Max(S) >= x
<1> DEFINE C == {n - x : x \in S}
<1>1. C \in SUBSET Nat /\ C # {}
  <2>1. \A x \in S : n - x \in Nat
    OBVIOUS
  <2> QED
    BY <2>1
<1>2. PICK m \in C : \A j \in C : m <= j
  <2> HIDE DEF C
  <2> QED
    BY <1>1, HayMinimo
<1>3. PICK x \in S : m = n - x
  OBVIOUS
<1>4. ASSUME NEW y \in S PROVE x >= y
  <2>1. m <= n - y
    BY <1>2
  <2> QED
    BY <1>3, <2>1
<1> QED
  BY <1>4 DEF Max

\* Without its greatest, the first k positions are the first k - 1.
LEMMA MaximoHasta ==
  ASSUME NEW n \in Nat, NEW k \in 1 .. n
  PROVE  Max(1 .. k) = k /\ (1 .. k) \ {k} = 1 .. k - 1
<1>1. Max(1 .. k) \in 1 .. k /\ Max(1 .. k) >= k
  <2>1. 1 .. k \in SUBSET (1 .. n) /\ 1 .. k # {} /\ k \in 1 .. k
    OBVIOUS
  <2> QED
    BY <2>1, MaximoDe
<1> QED
  BY <1>1

\* Max and Min of two numbers.
LEMMA MaxDos ==
  ASSUME NEW a \in Int, NEW b \in Int
  PROVE  Max({a, b}) = (IF a >= b THEN a ELSE b) /\ Min({a, b}) = (IF a <= b THEN a ELSE b)
<1>1. \E x \in {a, b} : \A y \in {a, b} : x >= y
  OBVIOUS
<1>2. \E x \in {a, b} : \A y \in {a, b} : x =< y
  OBVIOUS
<1>3. Max({a, b}) \in {a, b} /\ \A y \in {a, b} : Max({a, b}) >= y
  BY <1>1 DEF Max
<1>4. Min({a, b}) \in {a, b} /\ \A y \in {a, b} : Min({a, b}) =< y
  BY <1>2 DEF Min
<1> QED
  BY <1>3, <1>4

-----------------------------------------------------------------------------
(* Folds *)

\* A family of subsets of a finite set has a least one.
LEMMA HayMenor ==
  ASSUME NEW S, IsFiniteSet(S), NEW F \in SUBSET SUBSET S, F # {}
  PROVE  \E Z \in F : \A U \in F : U \subseteq Z => U = Z
<1> DEFINE R == StrictSubsetOrdering(S)
<1>1. F \subseteq FiniteSubsetsOf(S)
  BY FS_Subset DEF FiniteSubsetsOf
<1>2. IsWellFoundedOn(R, FiniteSubsetsOf(S))
  BY FS_StrictSubsetOrderingWellFounded
<1> HIDE DEF R
<1>3. PICK Z \in F : \A U \in F : ~(<<U, Z>> \in R)
  BY <1>1, <1>2, WFMin
<1>4. ASSUME NEW U \in F, U \subseteq Z, U # Z PROVE FALSE
  <2>1. <<U, Z>> \in R
    BY <1>4 DEF R, StrictSubsetOrdering
  <2> QED
    BY <1>3, <2>1
<1> QED
  BY <1>4

\* g gives the fold over each subset of S, which e takes apart, with steps F.
EsPliegue(g, F, e, base, S) ==
  g = [s \in SUBSET S |-> IF s = {} THEN base ELSE F[<<g[s \ {e[s]}], e[s]>>]]
Elige(e, S) == \A s \in SUBSET S : s # {} => e[s] \in s
Pliegue(F, e, base, S) == CHOOSE g : EsPliegue(g, F, e, base, S)

\* There is one such function at most, and it serves the subsets of S.
LEMMA PliegueUnico ==
  ASSUME NEW S, IsFiniteSet(S), NEW U \in SUBSET S, NEW F, NEW e, NEW base, NEW g, NEW h,
         Elige(e, S), EsPliegue(g, F, e, base, S), EsPliegue(h, F, e, base, U)
  PROVE  \A s \in SUBSET U : g[s] = h[s]
<1> DEFINE M == {s \in SUBSET U : g[s] # h[s]}
<1> SUFFICES ASSUME M # {} PROVE FALSE
  OBVIOUS
<1>1. IsFiniteSet(U)
  BY FS_Subset
<1>2. PICK s \in M : \A t \in M : t \subseteq s => t = s
  <2>1. M \in SUBSET SUBSET U
    OBVIOUS
  <2> HIDE DEF M
  <2> QED
    BY <1>1, <2>1, HayMenor
<1> DEFINE x == e[s]
<1>3. s # {} => s \ {x} \in SUBSET U /\ s \ {x} # s
  BY DEF Elige
<1>4. s # {} => g[s \ {x}] = h[s \ {x}]
  BY <1>2, <1>3
<1>5. /\ g[s] = IF s = {} THEN base ELSE F[<<g[s \ {x}], x>>]
      /\ h[s] = IF s = {} THEN base ELSE F[<<h[s \ {x}], x>>]
  <2>1. s \in SUBSET S /\ s \in SUBSET U
    OBVIOUS
  <2> HIDE DEF M
  <2> QED
    BY <2>1 DEF EsPliegue
<1> QED
  BY <1>2, <1>4, <1>5

\* There is one for a finite set.
LEMMA PliegueExiste ==
  ASSUME NEW S, IsFiniteSet(S), NEW F, NEW e, NEW base, Elige(e, S)
  PROVE  EsPliegue(Pliegue(F, e, base, S), F, e, base, S)
<1> DEFINE E(g, Z) == EsPliegue(g, F, e, base, Z)
           P(Z) == Pliegue(F, e, base, Z)
           M == {Z \in SUBSET S : ~\E g : E(g, Z)}
<1> SUFFICES ASSUME M # {} PROVE FALSE
  BY DEF Pliegue
<1>1. PICK Z \in M : \A U \in M : U \subseteq Z => U = Z
  <2>1. M \in SUBSET SUBSET S
    OBVIOUS
  <2> HIDE DEF M
  <2> QED
    BY <2>1, HayMenor
<1>2. ASSUME NEW s \in SUBSET Z, s # Z PROVE E(P(s), s)
  <2>1. \E g : E(g, s)
    BY <1>1, <1>2
  <2> QED
    BY <2>1 DEF Pliegue
<1>0. \A s \in SUBSET Z : s # {} => e[s] \in s
  BY DEF Elige
<1> DEFINE G(s) == IF s = {} THEN base ELSE F[<<P(s \ {e[s]})[s \ {e[s]}], e[s]>>]
           g == [s \in SUBSET Z |-> G(s)]
<1>3. ASSUME NEW s \in SUBSET Z, s # {}
      PROVE  g[s \ {e[s]}] = P(s \ {e[s]})[s \ {e[s]}]
  <2> DEFINE u == s \ {e[s]}
             p == P(u)
  <2>1. u \in SUBSET Z /\ u # Z
    BY <1>0, <1>3
  <2>2. E(p, u)
    BY <1>2, <2>1
  <2>3. p[u] = IF u = {} THEN base ELSE F[<<p[u \ {e[u]}], e[u]>>]
    <3> HIDE DEF p, u
    <3> QED
      BY <2>2 DEF EsPliegue
  <2>4. ASSUME u # {} PROVE p[u \ {e[u]}] = P(u \ {e[u]})[u \ {e[u]}]
    <3> DEFINE v == u \ {e[u]}
               q == P(v)
    <3>1. v \in SUBSET Z /\ v # Z /\ v \in SUBSET u
      BY <1>0, <2>1, <2>4
    <3>2. E(q, v)
      BY <1>2, <3>1
    <3>3. IsFiniteSet(u) /\ Elige(e, u)
      BY <1>0, <2>1, FS_Subset DEF Elige
    <3> HIDE DEF p, q, u, v
    <3>4. \A t \in SUBSET v : p[t] = q[t]
      BY <2>2, <3>1, <3>2, <3>3, PliegueUnico
    <3>5. p[v] = q[v]
      BY <3>4
    <3> QED
      BY <3>5 DEF q, v
  <2>5. g[u] = G(u)
    BY <2>1
  <2>6. p[u] = G(u)
    BY <2>3, <2>4
  <2> QED
    BY <2>5, <2>6
<1>4. E(g, Z)
  <2>1. ASSUME NEW s \in SUBSET Z
        PROVE  G(s) = IF s = {} THEN base ELSE F[<<g[s \ {e[s]}], e[s]>>]
    BY <1>3
  <2> HIDE DEF G, P
  <2> QED
    BY <2>1 DEF EsPliegue
<1> QED
  BY <1>1, <1>4

\* Steps that stay in V give a fold in V.
LEMMA PliegueEn ==
  ASSUME NEW S, IsFiniteSet(S), NEW F, NEW e, NEW base, Elige(e, S), NEW V, base \in V,
         \A v \in V, x \in S : F[<<v, x>>] \in V,
         NEW g, EsPliegue(g, F, e, base, S)
  PROVE  g \in [SUBSET S -> V]
<1> DEFINE M == {Z \in SUBSET S : g[Z] \notin V}
<1>1. g = [Z \in SUBSET S |-> g[Z]] /\ DOMAIN g = SUBSET S
  BY DEF EsPliegue
<1> SUFFICES ASSUME M # {} PROVE FALSE
  BY <1>1
<1>2. PICK Z \in M : \A U \in M : U \subseteq Z => U = Z
  <2>1. M \in SUBSET SUBSET S
    OBVIOUS
  <2> HIDE DEF M
  <2> QED
    BY <2>1, HayMenor
<1>3. g[Z] = IF Z = {} THEN base ELSE F[<<g[Z \ {e[Z]}], e[Z]>>]
  <2>1. Z \in SUBSET S
    OBVIOUS
  <2> HIDE DEF M
  <2> QED
    BY <2>1 DEF EsPliegue
<1>4. Z # {} => e[Z] \in S /\ g[Z \ {e[Z]}] \in V
  <2>1. Z # {} => e[Z] \in Z
    BY DEF Elige
  <2> QED
    BY <1>2, <2>1
<1> QED
  BY <1>2, <1>3, <1>4

\* q lists the elements of J in the order Antes.
Lista(q, J) ==
    /\ q \in Seq(J)
    /\ \A x \in J : \E k \in 1 .. Len(q) : q[k] = x
    /\ \A i, j \in 1 .. Len(q) : i < j => Antes(q[i], q[j])

-----------------------------------------------------------------------------
(* Sorting *)

\* S in the order R, as EnOrden lists it.
Puestos(S, R) ==
    [k \in 1 .. Cardinality(S) |->
        CHOOSE x \in S : Cardinality({y \in S : <<y, x>> \in R}) = k - 1]

\* R is a strict total order of S.
Ordena(R, S) ==
    /\ \A x, y, z \in S : <<x, y>> \in R /\ <<y, z>> \in R => <<x, z>> \in R
    /\ \A x, y \in S : <<x, x>> \notin R /\ (x = y \/ <<x, y>> \in R \/ <<y, x>> \in R)

\* It lists every element of a finite set, each once: the position of an element is
\* the number of those before it.
LEMMA PuestosLista ==
  ASSUME NEW S, IsFiniteSet(S), NEW R, Ordena(R, S)
  PROVE  LET n == Cardinality(S)
             q == Puestos(S, R)
         IN  /\ n \in Nat /\ q \in [1 .. n -> S]
             /\ \A x \in S : \E k \in 1 .. n : q[k] = x
             /\ \A i, j \in 1 .. n : i < j => <<q[i], q[j]>> \in R
<1> DEFINE A(x, y) == <<x, y>> \in R
           B(x) == {y \in S : A(y, x)}
           n == Cardinality(S)
           r == [x \in S |-> Cardinality(B(x))]
           q == Puestos(S, R)
<1>1. n \in Nat
  BY FS_CardinalityType
<1>2. \A x, y, z \in S : A(x, y) /\ A(y, z) => A(x, z)
  BY DEF Ordena
<1>3. \A x, y \in S : ~A(x, x) /\ (x = y \/ A(x, y) \/ A(y, x))
  BY DEF Ordena
<1>q. q = [k \in 1 .. n |-> CHOOSE x \in S : Cardinality(B(x)) = k - 1]
  BY DEF Puestos
<1> HIDE DEF q, A
<1>4. ASSUME NEW x \in S PROVE IsFiniteSet(B(x)) /\ Cardinality(B(x)) \in 0 .. n - 1
  <2>1. B(x) \in SUBSET S /\ B(x) # S
    BY <1>3
  <2> HIDE DEF B
  <2> QED
    BY <1>1, <2>1, FS_Subset, FS_CardinalityType
<1>5. ASSUME NEW x \in S, NEW y \in S, A(x, y) PROVE Cardinality(B(x)) < Cardinality(B(y))
  <2>1. B(x) \in SUBSET B(y) /\ B(x) # B(y)
    BY <1>2, <1>3, <1>5
  <2> HIDE DEF B
  <2> QED
    BY <1>4, <2>1, FS_Subset
<1> HIDE DEF B
<1>6. r \in Injection(S, 0 .. n - 1)
  BY <1>3, <1>4, <1>5 DEF Injection, IsInjective
<1>7. r \in Surjection(S, 0 .. n - 1)
  <2>1. IsFiniteSet(0 .. n - 1) /\ Cardinality(0 .. n - 1) = n
    <3> HIDE DEF n
    <3>1. n \in Nat
      BY <1>1
    <3>2. 0 \in Int /\ n - 1 \in Int /\ (0 > n - 1 => n = 0)
      BY <3>1
    <3> QED
      BY <3>1, <3>2, FS_Interval
  <2> HIDE DEF r, n
  <2> QED
    BY <1>6, <2>1, FS_Injection DEF n
<1>8. ASSUME NEW k \in 1 .. n PROVE q[k] \in S /\ Cardinality(B(q[k])) = k - 1
  <2>1. k - 1 \in 0 .. n - 1
    BY <1>1
  <2>2. \E x \in S : Cardinality(B(x)) = k - 1
    BY <1>7, <2>1 DEF Surjection
  <2> QED
    BY <1>q, <2>2
<1>9. q \in [1 .. n -> S]
  BY <1>q, <1>8
<1>10. ASSUME NEW x \in S PROVE \E k \in 1 .. n : q[k] = x
  <2>1. Cardinality(B(x)) + 1 \in 1 .. n /\ Cardinality(B(x)) \in Int
    BY <1>1, <1>4
  <2>2. q[Cardinality(B(x)) + 1] \in S /\ Cardinality(B(q[Cardinality(B(x)) + 1])) = Cardinality(B(x))
    BY <1>8, <2>1
  <2> QED
    BY <1>3, <1>4, <1>5, <2>1, <2>2
<1>11. ASSUME NEW i \in 1 .. n, NEW j \in 1 .. n, i < j PROVE A(q[i], q[j])
  <2>1. Cardinality(B(q[i])) < Cardinality(B(q[j]))
    BY <1>1, <1>8, <1>11
  <2>2. q[i] # q[j] /\ ~A(q[j], q[i])
    BY <1>1, <1>4, <1>5, <1>8, <2>1
  <2> QED
    BY <1>3, <1>8, <2>2
<1> QED
  BY <1>1, <1>9, <1>10, <1>11 DEF q, A

\* The sort of mergeIntervals lists every stretch that is not empty, each once and
\* by its start.
LEMMA OrdenadosLista ==
  ASSUME NEW I \in SUBSET Tramos, IsFiniteSet(I)
  PROVE  Lista(Ordenados(I), {x \in I : x.ini < x.fin})
<1> DEFINE J == {x \in I : x.ini < x.fin}
           R == {p \in J \X J : Antes(p[1], p[2])}
           n == Cardinality(J)
           q == Ordenados(I)
           w == Puestos(J, R)
<1>1. IsFiniteSet(J)
  BY FS_Subset
<1>2. \A x, y, z \in J : Antes(x, y) /\ Antes(y, z) => Antes(x, z)
  BY DEF Antes, Tramos
<1>3. \A x, y \in J : ~Antes(x, x) /\ (x = y \/ Antes(x, y) \/ Antes(y, x))
  BY DEF Antes, Tramos
<1>4. q = w
  <2> HIDE DEF J
  <2>1. \A x \in J : {y \in J : Antes(y, x)} = {y \in J : <<y, x>> \in R}
    OBVIOUS
  <2> DEFINE el(k) == CHOOSE x \in J : Cardinality({y \in J : Antes(y, x)}) = k - 1
             en(k) == CHOOSE x \in J : Cardinality({y \in J : <<y, x>> \in R}) = k - 1
  <2>2. \A k : el(k) = en(k)
    <3> HIDE DEF R
    <3> QED
      BY <2>1
  <2>3. q = EnOrden(J, Antes)
    BY DEF Ordenados, J
  <2>4. q = [k \in 1 .. n |-> el(k)]
    BY <2>3 DEF EnOrden
  <2>5. w = [k \in 1 .. n |-> en(k)]
    BY DEF Puestos
  <2> HIDE DEF q, w, el, en, n
  <2> QED
    BY <2>2, <2>4, <2>5
<1> HIDE DEF J, q
<1>5. \A x, y \in J : <<x, y>> \in R <=> Antes(x, y)
  OBVIOUS
<1> HIDE DEF R
<1>o. Ordena(R, J)
  BY <1>2, <1>3, <1>5 DEF Ordena
<1>6. /\ n \in Nat /\ w \in [1 .. n -> J]
      /\ \A x \in J : \E k \in 1 .. n : w[k] = x
      /\ \A i, j \in 1 .. n : i < j => <<w[i], w[j]>> \in R
  BY <1>1, <1>o, PuestosLista
<1> HIDE DEF w, n
<1>7. w \in Seq(J) /\ Len(w) = n
  BY <1>6
<1>8. \A i, j \in 1 .. n : i < j => Antes(w[i], w[j])
  BY <1>5, <1>6
<1> QED
  BY <1>4, <1>6, <1>7, <1>8 DEF Lista, J, q

EsPlegado(g, F, base, q, n) ==
    \A s \in SUBSET (1 .. n) :
        g[s] = IF s = {} THEN base ELSE F[<<g[s \ {Max(s)}], q[Max(s)]>>]

\* A fold of q with steps that stay in V: there is a function that follows it.
LEMMA PlegadoExiste ==
  ASSUME NEW n \in Nat, NEW X, NEW V, NEW q \in [1 .. n -> X], NEW base \in V,
         NEW F \in [V \X X -> V]
  PROVE  \E g \in [SUBSET (1 .. n) -> V] : EsPlegado(g, F, base, q, n)
<1> DEFINE S == 1 .. n
           e == [s \in SUBSET S |-> Max(s)]
           G == [p \in V \X S |-> F[<<p[1], q[p[2]]>>]]
           g == Pliegue(G, e, base, S)
<1>1. \A s \in SUBSET S : s # {} => Max(s) \in s
  BY MaximoDe
<1>2. IsFiniteSet(S) /\ Elige(e, S)
  <2>1. IsFiniteSet(S)
    BY FS_Interval
  <2> QED
    BY <1>1, <2>1 DEF Elige
<1>3. \A v \in V, x \in S : G[<<v, x>>] = F[<<v, q[x]>>] /\ G[<<v, x>>] \in V
  OBVIOUS
<1> HIDE DEF G, e, g, S
<1>4. EsPliegue(g, G, e, base, S)
  BY <1>2, PliegueExiste DEF g
<1>5. g \in [SUBSET S -> V]
  BY <1>2, <1>3, <1>4, PliegueEn
<1>6. ASSUME NEW s \in SUBSET S
      PROVE  g[s] = IF s = {} THEN base ELSE F[<<g[s \ {Max(s)}], q[Max(s)]>>]
  <2>1. g[s] = IF s = {} THEN base ELSE G[<<g[s \ {e[s]}], e[s]>>]
    BY <1>4 DEF EsPliegue
  <2>2. e[s] = Max(s) /\ (s # {} => Max(s) \in S /\ g[s \ {Max(s)}] \in V)
    BY <1>1, <1>5 DEF e
  <2> QED
    BY <1>3, <2>1, <2>2
<1> QED
  BY <1>5, <1>6 DEF S, EsPlegado

SigueEn(it, F, q, n, V) ==
    \A s \in SUBSET (1 .. n) : s # {} /\ it[s \ {Max(s)}] \in V
        => it[s] = F[<<it[s \ {Max(s)}], q[Max(s)]>>]
\* h gives what it makes of each beginning of q.
Prefijos(h, it, F, base, q, n, V) ==
    /\ h \in [0 .. n -> V] /\ h[0] = base /\ h[n] = it[1 .. n]
    /\ \A k \in 1 .. n : h[k] = F[<<h[k - 1], q[k]>>]

\* A function that takes the steps of F as long as it stays in V never leaves it.
LEMMA PlegadoVale ==
  ASSUME NEW n \in Nat, NEW X, NEW V, NEW q \in [1 .. n -> X], NEW base \in V,
         NEW F \in [V \X X -> V], NEW it, it[{}] = base, SigueEn(it, F, q, n, V)
  PROVE  \E h : Prefijos(h, it, F, base, q, n, V)
<1> DEFINE h == [k \in 0 .. n |-> it[1 .. k]]
           K == {k \in 0 .. n : h[k] \in V}
<1>1. h[0] = base /\ h[n] = it[1 .. n] /\ 0 \in K
  <2>1. 1 .. 0 = {} /\ 0 \in 0 .. n
    OBVIOUS
  <2> QED
    BY <2>1
<1>2. ASSUME NEW k \in 1 .. n, k - 1 \in K PROVE h[k] = F[<<h[k - 1], q[k]>>] /\ k \in K
  <2>1. Max(1 .. k) = k /\ (1 .. k) \ {k} = 1 .. k - 1
    BY MaximoHasta
  <2>2. 1 .. k \in SUBSET (1 .. n) /\ 1 .. k # {} /\ k \in 0 .. n /\ k - 1 \in 0 .. n
    <3>1. \A x \in 1 .. k : x \in 1 .. n
      OBVIOUS
    <3>2. k \in 1 .. k /\ k \in 0 .. n /\ k - 1 \in 0 .. n
      OBVIOUS
    <3> QED
      BY <3>1, <3>2
  <2>3. it[1 .. k - 1] \in V /\ it[1 .. k - 1] = h[k - 1] /\ h[k] = it[1 .. k] /\ q[k] \in X
    BY <1>2, <2>2
  <2> HIDE DEF h
  <2>4. h[k] = F[<<h[k - 1], q[k]>>]
    BY <2>1, <2>2, <2>3 DEF SigueEn
  <2> QED
    BY <2>2, <2>3, <2>4
<1>3. K = 0 .. n
  <2>1. K \in SUBSET (0 .. n)
    OBVIOUS
  <2> HIDE DEF K
  <2> QED
    BY <1>1, <1>2, <2>1, HastaN
<1>4. h \in [0 .. n -> V]
  <2>1. \A k \in 0 .. n : h[k] \in V
    BY <1>3
  <2> QED
    BY <2>1
<1>5. \A k \in 1 .. n : h[k] = F[<<h[k - 1], q[k]>>]
  <2>1. \A k \in 1 .. n : k - 1 \in 0 .. n
    OBVIOUS
  <2> QED
    BY <1>2, <1>3, <2>1
<1> QED
  BY <1>1, <1>4, <1>5 DEF Prefijos

\* Mezclar sorts, and then joins one stretch after another.
PasosMezclar(h, q) ==
    /\ h \in [0 .. Len(q) -> Seq(Tramos)]
    /\ h[0] = <<>>
    /\ \A k \in 1 .. Len(q) : h[k] = Pegar(h[k - 1], q[k])

-----------------------------------------------------------------------------
(* Merging *)

\* One more stretch leaves a list of stretches.
LEMMA PegarEn ==
  ASSUME NEW m \in Seq(Tramos), NEW x \in Tramos
  PROVE  Pegar(m, x) \in Seq(Tramos)
<1>1. CASE m # <<>> /\ Pegan(Last(m), x)
  <2>1. Len(m) \in 1 .. Len(m) /\ m[Len(m)] \in Tramos
    BY <1>1
  <2>2. Max({m[Len(m)].fin, x.fin}) \in Int
    BY <2>1, MaxDos DEF Tramos
  <2>3. [m[Len(m)] EXCEPT !.fin = Max({@, x.fin})] \in Tramos
    BY <2>1, <2>2 DEF Tramos
  <2> QED
    BY <1>1, <2>1, <2>3 DEF Pegar
<1>2. CASE ~(m # <<>> /\ Pegan(Last(m), x))
  BY <1>2 DEF Pegar
<1> QED
  BY <1>1, <1>2

\* mergeIntervals goes through the sorted stretches one by one.
LEMMA MezclarPliega ==
  ASSUME NEW q \in Seq(Tramos)
  PROVE  \E h : PasosMezclar(h, q) /\ FoldLeft(Pegar, <<>>, q) = h[Len(q)]
<1> DEFINE n == Len(q)
           S == 1 .. n
           V == Seq(Tramos)
           E(g) == g = [s \in SUBSET S |-> IF s = {} THEN <<>>
                                           ELSE Pegar(g[s \ {Max(s)}], q[Max(s)])]
           it == CHOOSE g : E(g)
           F == [p \in V \X Tramos |-> Pegar(p[1], p[2])]
<1>1. n \in Nat /\ q \in [S -> Tramos] /\ DOMAIN q = S
  OBVIOUS
<1>2. <<>> \in V
  OBVIOUS
<1>3. FoldLeft(Pegar, <<>>, q) = it[S]
  BY <1>1 DEF FoldLeft, MapThenFoldSet
<1> HIDE DEF n, V
<1>4. F \in [V \X Tramos -> V] /\ \A v \in V, x \in Tramos : F[<<v, x>>] = Pegar(v, x)
  BY PegarEn DEF V
<1> HIDE DEF F
<1>5. \A s \in SUBSET S : s # {} => Max(s) \in S /\ q[Max(s)] \in Tramos
  BY <1>1, MaximoDe
<1>6. E(it)
  <2>1. PICK g \in [SUBSET S -> V] : EsPlegado(g, F, <<>>, q, n)
    BY <1>1, <1>2, <1>4, PlegadoExiste
  <2>2. ASSUME NEW s \in SUBSET S
        PROVE  g[s] = IF s = {} THEN <<>> ELSE Pegar(g[s \ {Max(s)}], q[Max(s)])
    BY <1>4, <1>5, <2>1 DEF EsPlegado
  <2>3. E(g)
    BY <2>2
  <2> QED
    BY <2>3
<1> HIDE DEF it
<1>7. SigueEn(it, F, q, n, V)
  <2>1. ASSUME NEW s \in SUBSET S, s # {}, it[s \ {Max(s)}] \in V
        PROVE  it[s] = F[<<it[s \ {Max(s)}], q[Max(s)]>>]
    <3>1. it[s] = Pegar(it[s \ {Max(s)}], q[Max(s)])
      BY <1>6, <2>1
    <3>2. q[Max(s)] \in Tramos
      BY <1>5, <2>1
    <3> QED
      BY <1>4, <2>1, <3>1, <3>2
  <2> QED
    BY <2>1 DEF SigueEn
<1>8. PICK h : Prefijos(h, it, F, <<>>, q, n, V)
  <2>1. it[{}] = <<>>
    BY <1>6
  <2> HIDE DEF S
  <2>2. q \in [1 .. n -> Tramos] /\ n \in Nat
    BY <1>1 DEF S
  <2> QED
    BY <1>2, <1>4, <1>7, <2>1, <2>2, PlegadoVale
<1>9. ASSUME NEW k \in 1 .. n PROVE h[k] = Pegar(h[k - 1], q[k])
  <2>1. h[k - 1] \in V /\ q[k] \in Tramos
    BY <1>1, <1>8 DEF Prefijos
  <2> QED
    BY <1>4, <1>8, <2>1 DEF Prefijos
<1> QED
  BY <1>3, <1>8, <1>9 DEF Prefijos, PasosMezclar, n, V

\* t is in the stretch x.
En(t, x) == x.ini <= t /\ t < x.fin

\* An instant is in a set of stretches when it is in one of them.
LEMMA InstantesSon ==
  ASSUME NEW I \in SUBSET Tramos
  PROVE  Instantes(I) = {t \in Int : \E x \in I : En(t, x)}
<1>1. ASSUME NEW x \in I, NEW t PROVE t \in x.ini .. x.fin - 1 <=> t \in Int /\ En(t, x)
  BY DEF Tramos, En
<1> QED
  BY <1>1 DEF Instantes

Aparte(x, y) == x.fin < y.ini \/ y.fin < x.ini
Separados(M) ==
    /\ M \in SUBSET Tramos
    /\ \A x \in M : x.ini < x.fin
    /\ \A x, y \in M : x = y \/ Aparte(x, y)

\* m is what the first k stretches of q merge to.
MezclaDe(m, q, k) ==
    /\ m \in Seq(Tramos)
    /\ \A i \in 1 .. Len(m) : m[i].ini < m[i].fin
    /\ \A i, j \in 1 .. Len(m) : i < j => m[i].fin < m[j].ini
    /\ \A t \in Int : (\E i \in 1 .. Len(m) : En(t, m[i])) <=> (\E i \in 1 .. k : En(t, q[i]))
    /\ Len(m) # 0 => k # 0 /\ m[Len(m)].ini <= q[k].ini

\* One more stretch, not before the last: it is joined to the last of the merged
\* stretches when it touches that one, and is apart from them all when it does not.
LEMMA PegarMezcla ==
  ASSUME NEW q \in Seq(Tramos), NEW k \in 1 .. Len(q), q[k].ini < q[k].fin,
         k # 1 => q[k - 1].ini <= q[k].ini,
         NEW m, MezclaDe(m, q, k - 1)
  PROVE  MezclaDe(Pegar(m, q[k]), q, k)
<1> DEFINE x == q[k]
           n == Len(m)
           p == Pegar(m, x)
<1>1. x \in Tramos /\ n \in Nat /\ m \in Seq(Tramos) /\ k \in Nat /\ k - 1 \in Nat
  BY DEF MezclaDe
<1>2. \A t \in Int : (\E i \in 1 .. k : En(t, q[i])) <=> (\E i \in 1 .. k - 1 : En(t, q[i])) \/ En(t, x)
  OBVIOUS
<1>3. /\ x.ini \in Int /\ x.fin \in Int
      /\ \A i \in 1 .. n : m[i] \in Tramos /\ m[i].ini \in Int /\ m[i].fin \in Int
  <2>1. \A i \in 1 .. n : m[i] \in Tramos
    BY <1>1
  <2> QED
    BY <1>1, <2>1 DEF Tramos
<1>4. \A i, j \in 1 .. n : i < j => m[i].fin < m[j].ini
  BY DEF MezclaDe
<1>5. n # 0 => n \in 1 .. n /\ m[n].ini <= x.ini
  <2>1. n # 0 => k - 1 # 0 /\ m[n].ini <= q[k - 1].ini
    BY DEF MezclaDe
  <2>2. k - 1 # 0 => q[k - 1].ini \in Int /\ q[k - 1].ini <= x.ini
    <3>1. k - 1 # 0 => q[k - 1] \in Tramos /\ k # 1
      BY <1>1
    <3> QED
      BY <3>1 DEF Tramos
  <2>3. n # 0 => n \in 1 .. n
    BY <1>1
  <2> HIDE DEF x, n
  <2> QED
    BY <1>3, <2>1, <2>2, <2>3
<1>6. \A i \in 1 .. n : m[i].ini < m[i].fin
  BY DEF MezclaDe
<1>7. \A t \in Int : (\E i \in 1 .. n : En(t, m[i])) <=> (\E i \in 1 .. k - 1 : En(t, q[i]))
  BY DEF MezclaDe
<1> HIDE DEF n, x
<1>8. CASE n # 0 /\ Pegan(m[n], x)
  <2> DEFINE M == Max({m[n].fin, x.fin})
             y == [ini |-> m[n].ini, fin |-> M]
  <2>1. m[n] \in Tramos /\ n \in 1 .. n
    BY <1>1, <1>3, <1>8
  <2>2. M \in Int /\ M = IF m[n].fin >= x.fin THEN m[n].fin ELSE x.fin
    <3>1. m[n].fin \in Int /\ x.fin \in Int
      BY <1>3, <2>1
    <3> QED
      BY <3>1, MaxDos
  <2>3. p = [m EXCEPT ![n] = y]
    <3>1. m # <<>> /\ Last(m) = m[n]
      BY <1>1, <1>8 DEF Last, n
    <3>2. p = [m EXCEPT ![n].fin = M]
      BY <1>8, <3>1 DEF Pegar, n
    <3>3. [m[n] EXCEPT !.fin = M] = y
      <4>1. \A z \in Tramos : [z EXCEPT !.fin = M] = [ini |-> z.ini, fin |-> M]
        BY DEF Tramos
      <4> HIDE DEF M
      <4> QED
        BY <2>1, <4>1
    <3> HIDE DEF y, p, M
    <3> QED
      BY <3>2, <3>3
  <2> HIDE DEF p, M
  <2>4. /\ y \in Tramos /\ p \in Seq(Tramos) /\ Len(p) = n /\ p[n] = y
        /\ \A i \in 1 .. n : i # n => p[i] = m[i]
    <3>1. y \in Tramos
      BY <1>3, <2>1, <2>2 DEF Tramos
    <3>2. m \in Seq(Tramos) /\ n = Len(m)
      BY <1>1 DEF n
    <3> HIDE DEF y
    <3> QED
      BY <2>1, <2>3, <3>1, <3>2
  <2>5. \A t \in Int : En(t, y) <=> En(t, m[n]) \/ En(t, x)
    <3>1. /\ m[n].ini \in Int /\ m[n].fin \in Int /\ x.ini \in Int /\ x.fin \in Int
          /\ m[n].ini < m[n].fin /\ m[n].ini <= x.ini /\ x.ini <= m[n].fin
      BY <1>3, <1>5, <1>6, <1>8, <2>1 DEF Pegan
    <3>2. y.ini = m[n].ini /\ y.fin = M
      OBVIOUS
    <3> HIDE DEF y
    <3> QED
      BY <2>2, <3>1, <3>2 DEF En
  <2>6. ASSUME NEW t \in Int
        PROVE  (\E i \in 1 .. n : En(t, p[i])) <=> (\E i \in 1 .. n : En(t, m[i])) \/ En(t, x)
    BY <2>1, <2>4, <2>5
  <2>7. ASSUME NEW i \in 1 .. n PROVE p[i].ini < p[i].fin
    <3>1. y.ini < y.fin
      BY <1>3, <1>6, <2>1, <2>2
    <3> QED
      BY <1>6, <2>4, <3>1
  <2>8. ASSUME NEW i \in 1 .. n, NEW j \in 1 .. n, i < j PROVE p[i].fin < p[j].ini
    <3>1. i # n /\ p[i] = m[i] /\ m[i].fin < m[j].ini
      BY <1>1, <1>4, <2>4, <2>8
    <3>2. p[j].ini = m[j].ini
      BY <2>4
    <3> QED
      BY <3>1, <3>2
  <2>9. p[n].ini <= x.ini
    BY <1>5, <1>8, <2>4
  <2>10. \A t \in Int : (\E i \in 1 .. n : En(t, p[i])) <=> (\E i \in 1 .. k : En(t, q[i]))
    BY <1>2, <1>7, <2>6
  <2>11. k # 0 /\ n # 0
    BY <1>8
  <2> QED
    BY <2>4, <2>7, <2>8, <2>9, <2>10, <2>11 DEF MezclaDe, p, x
<1>9. CASE ~(n # 0 /\ Pegan(m[n], x))
  <2>1. p = Append(m, x)
    BY <1>1, <1>9 DEF Pegar, Last, n
  <2> HIDE DEF p
  <2>2. /\ p \in Seq(Tramos) /\ Len(p) = n + 1 /\ p[n + 1] = x
        /\ \A i \in 1 .. n : p[i] = m[i]
    BY <1>1, <2>1 DEF n
  <2>3. 1 .. n + 1 = (1 .. n) \cup {n + 1}
    BY <1>1
  <2>4. ASSUME NEW t \in Int
        PROVE  (\E i \in 1 .. n + 1 : En(t, p[i])) <=> (\E i \in 1 .. n : En(t, m[i])) \/ En(t, x)
    BY <2>2, <2>3
  <2>5. \A i \in 1 .. n + 1 : p[i].ini < p[i].fin
    BY <1>6, <2>2, <2>3 DEF x
  <2>6. \A i \in 1 .. n : m[i].fin < x.ini
    <3>1. n # 0 => m[n].fin < x.ini
      <4>1. n # 0 => m[n].fin \in Int /\ x.ini \in Int /\ ~Pegan(m[n], x)
        BY <1>3, <1>5, <1>9
      <4> QED
        BY <4>1 DEF Pegan
    <3>2. ASSUME NEW i \in 1 .. n, i # n PROVE m[i].fin < m[n].ini
      BY <1>1, <1>4, <3>2
    <3>3. ASSUME NEW i \in 1 .. n PROVE m[i].fin < x.ini
      <4>1. n \in 1 .. n /\ n # 0
        BY <1>1
      <4>2. m[i].fin \in Int /\ m[n].ini \in Int /\ x.ini \in Int
        BY <1>3, <4>1
      <4>3. m[n].fin < x.ini /\ m[n].ini <= x.ini
        BY <1>5, <3>1, <4>1
      <4> QED
        BY <3>2, <4>2, <4>3
    <3> QED
      BY <3>3
  <2>7. ASSUME NEW i \in 1 .. n + 1, NEW j \in 1 .. n + 1, i < j PROVE p[i].fin < p[j].ini
    <3>1. i \in 1 .. n /\ (j \in 1 .. n \/ j = n + 1)
      BY <1>1, <2>7
    <3> QED
      BY <1>4, <2>2, <2>6, <2>7, <3>1
  <2>8. p[n + 1].ini <= x.ini /\ n + 1 # 0 /\ k # 0
    BY <1>1, <1>3, <2>2
  <2>9. \A t \in Int : (\E i \in 1 .. n + 1 : En(t, p[i])) <=> (\E i \in 1 .. k : En(t, q[i]))
    BY <1>2, <1>7, <2>4
  <2> QED
    BY <2>2, <2>5, <2>7, <2>8, <2>9 DEF MezclaDe, p, x
<1> QED
  BY <1>8, <1>9

\* mergeIntervals covers the same instants, with stretches that do not touch.
LEMMA MezclarFiel ==
  ASSUME NEW I \in SUBSET Tramos, IsFiniteSet(I)
  PROVE  /\ Separados(Mezclar(I)) /\ IsFiniteSet(Mezclar(I))
         /\ Instantes(Mezclar(I)) = Instantes(I)
<1> DEFINE J == {x \in I : x.ini < x.fin}
           q == Ordenados(I)
           n == Len(q)
<1>1. Lista(q, J)
  BY OrdenadosLista
<1> HIDE DEF q, J
<1>2. q \in Seq(Tramos) /\ n \in Nat
  BY <1>1 DEF Lista, J
<1>3. PICK h : PasosMezclar(h, q) /\ FoldLeft(Pegar, <<>>, q) = h[n]
  BY <1>2, MezclarPliega
<1> DEFINE K == {k \in 0 .. n : MezclaDe(h[k], q, k)}
<1>4. 0 \in K
  <2>1. h[0] = <<>>
    BY <1>3 DEF PasosMezclar
  <2>2. MezclaDe(<<>>, q, 0)
    BY <1>2 DEF MezclaDe
  <2> QED
    BY <1>2, <2>1, <2>2
<1>5. ASSUME NEW k \in 1 .. n, k - 1 \in K PROVE k \in K
  <2>1. h[k] = Pegar(h[k - 1], q[k])
    BY <1>3 DEF PasosMezclar
  <2>2. q[k] \in J /\ (k # 1 => Antes(q[k - 1], q[k]) /\ q[k - 1] \in J)
    <3>1. k \in 1 .. n /\ (k # 1 => k - 1 \in 1 .. n /\ k - 1 < k)
      BY <1>2
    <3>2. \A i \in 1 .. n : q[i] \in J
      BY <1>1 DEF Lista
    <3> QED
      BY <1>1, <3>1, <3>2 DEF Lista
  <2>3. q[k].ini < q[k].fin /\ (k # 1 => q[k - 1].ini <= q[k].ini)
    BY <2>2 DEF Antes, J, Tramos
  <2> QED
    BY <1>2, <1>5, <2>1, <2>3, PegarMezcla
<1>6. MezclaDe(h[n], q, n)
  <2> HIDE DEF K
  <2>1. K \in SUBSET (0 .. n)
    BY DEF K
  <2>2. K = 0 .. n
    BY <1>2, <1>4, <1>5, <2>1, HastaN
  <2> QED
    BY <1>2, <2>2 DEF K
<1> DEFINE m == h[n]
           M == Mezclar(I)
<1>7. m \in Seq(Tramos) /\ M = {m[i] : i \in 1 .. Len(m)}
  <2>1. m \in Seq(Tramos)
    BY <1>6 DEF MezclaDe
  <2> QED
    BY <1>3, <2>1 DEF Mezclar, Range, q
<1> HIDE DEF m, M
<1>8. Separados(M)
  <2>1. \A i \in 1 .. Len(m) : m[i] \in Tramos /\ m[i].ini < m[i].fin
    BY <1>6, <1>7 DEF MezclaDe, m
  <2>2. \A i, j \in 1 .. Len(m) : i # j => Aparte(m[i], m[j])
    BY <1>6, <1>7 DEF MezclaDe, m, Aparte
  <2> QED
    BY <1>7, <2>1, <2>2 DEF Separados
<1>9. IsFiniteSet(M)
  <2> DEFINE f == [i \in 1 .. Len(m) |-> m[i]]
  <2>1. Len(m) \in Nat /\ f \in Surjection(1 .. Len(m), M)
    BY <1>7 DEF Surjection
  <2>2. IsFiniteSet(1 .. Len(m))
    BY <2>1, FS_Interval
  <2> QED
    BY <2>1, <2>2, FS_Surjection
<1>10. Instantes(M) = Instantes(I)
  <2>1. ASSUME NEW t \in Int PROVE (\E x \in M : En(t, x)) <=> (\E x \in I : En(t, x))
    <3>1. (\E x \in M : En(t, x)) <=> (\E i \in 1 .. n : En(t, q[i]))
      BY <1>6, <1>7 DEF MezclaDe, m
    <3>2. (\E i \in 1 .. n : En(t, q[i])) <=> (\E x \in J : En(t, x))
      <4>1. \A i \in 1 .. n : q[i] \in J
        BY <1>1 DEF Lista
      <4>2. \A x \in J : \E i \in 1 .. n : q[i] = x
        BY <1>1 DEF Lista
      <4> HIDE DEF n
      <4> QED
        BY <4>1, <4>2
    <3>3. (\E x \in J : En(t, x)) <=> (\E x \in I : En(t, x))
      BY DEF J, En, Tramos
    <3> QED
      BY <3>1, <3>2, <3>3
  <2>2. M \in SUBSET Tramos
    BY <1>8 DEF Separados
  <2> QED
    BY <2>1, <2>2, InstantesSon
<1> QED
  BY <1>8, <1>9, <1>10 DEF M

Recorridos == [desde : Int, libres : SUBSET Tramos]
Nada(base) == [desde |-> base.ini, libres |-> {}]

\* Huecos sorts, and then takes one stretch after another out.
PasosHuecos(h, base, q) ==
    /\ h \in [0 .. Len(q) -> Recorridos]
    /\ h[0] = Nada(base)
    /\ \A k \in 1 .. Len(q) : h[k] = Quitar(base, h[k - 1], q[k])

\* A busy stretch the pointer has not passed, which begins before the end.
LEMMA QuitarEs ==
  ASSUME NEW base \in Tramos, NEW s \in Recorridos, NEW o \in Tramos,
         s.desde < o.fin, o.ini < base.fin
  PROVE  Quitar(base, s, o) =
            [desde |-> o.fin, libres |-> s.libres \cup {Tramo(s.desde, o.ini)}]
<1>1. s.desde \in Int /\ o.ini \in Int /\ o.fin \in Int /\ base.fin \in Int
  BY DEF Tramos, Recorridos
<1>2. Max({s.desde, o.fin}) = o.fin /\ Min({o.ini, base.fin}) = o.ini
  <2>1. Max({s.desde, o.fin}) = IF s.desde >= o.fin THEN s.desde ELSE o.fin
    BY <1>1, MaxDos
  <2>2. Min({o.ini, base.fin}) = IF o.ini <= base.fin THEN o.ini ELSE base.fin
    BY <1>1, MaxDos
  <2> QED
    BY <1>1, <2>1, <2>2
<1>3. ~(o.fin <= s.desde \/ o.ini >= base.fin)
  BY <1>1
<1> QED
  BY <1>2, <1>3 DEF Quitar

\* One more busy stretch leaves a pointer and a set of free stretches.
LEMMA QuitarEn ==
  ASSUME NEW base \in Tramos, NEW s \in Recorridos, NEW o \in Tramos
  PROVE  Quitar(base, s, o) \in Recorridos
<1>1. s.desde \in Int /\ o.ini \in Int /\ o.fin \in Int /\ base.fin \in Int
  BY DEF Tramos, Recorridos
<1>2. CASE o.fin <= s.desde \/ o.ini >= base.fin
  BY <1>2 DEF Quitar
<1>3. CASE ~(o.fin <= s.desde \/ o.ini >= base.fin)
  <2>1. Quitar(base, s, o) = [desde |-> o.fin, libres |-> s.libres \cup {Tramo(s.desde, o.ini)}]
    BY <1>1, <1>3, QuitarEs
  <2> QED
    BY <1>1, <2>1 DEF Recorridos, Tramos, Tramo
<1> QED
  BY <1>2, <1>3

\* subtractIntervals goes through the sorted busy stretches one by one.
LEMMA HuecosPliega ==
  ASSUME NEW base \in Tramos, NEW q \in Seq(Tramos)
  PROVE  \E h : PasosHuecos(h, base, q) /\ Recorrer(base, q) = h[Len(q)]
<1> DEFINE n == Len(q)
           S == 1 .. n
           V == Recorridos
           E(g) == g = [s \in SUBSET S |-> IF s = {} THEN Nada(base)
                                           ELSE Quitar(base, g[s \ {Max(s)}], q[Max(s)])]
           it == CHOOSE g : E(g)
           F == [p \in V \X Tramos |-> Quitar(base, p[1], p[2])]
<1>1. n \in Nat /\ q \in [S -> Tramos] /\ DOMAIN q = S
  OBVIOUS
<1>2. Nada(base) \in V
  BY DEF Nada, Recorridos, Tramos
<1>3. Recorrer(base, q) = it[S]
  BY <1>1 DEF Recorrer, FoldLeft, MapThenFoldSet, Nada
<1> HIDE DEF n, V
<1>4. F \in [V \X Tramos -> V] /\ \A v \in V, x \in Tramos : F[<<v, x>>] = Quitar(base, v, x)
  BY QuitarEn DEF V
<1> HIDE DEF F
<1>5. \A s \in SUBSET S : s # {} => Max(s) \in S /\ q[Max(s)] \in Tramos
  BY <1>1, MaximoDe
<1>6. E(it)
  <2>1. PICK g \in [SUBSET S -> V] : EsPlegado(g, F, Nada(base), q, n)
    BY <1>1, <1>2, <1>4, PlegadoExiste
  <2>2. ASSUME NEW s \in SUBSET S
        PROVE  g[s] = IF s = {} THEN Nada(base) ELSE Quitar(base, g[s \ {Max(s)}], q[Max(s)])
    BY <1>4, <1>5, <2>1 DEF EsPlegado
  <2>3. E(g)
    BY <2>2
  <2> QED
    BY <2>3
<1> HIDE DEF it
<1>7. SigueEn(it, F, q, n, V)
  <2>1. ASSUME NEW s \in SUBSET S, s # {}, it[s \ {Max(s)}] \in V
        PROVE  it[s] = F[<<it[s \ {Max(s)}], q[Max(s)]>>]
    <3>1. it[s] = Quitar(base, it[s \ {Max(s)}], q[Max(s)])
      BY <1>6, <2>1
    <3>2. q[Max(s)] \in Tramos
      BY <1>5, <2>1
    <3> QED
      BY <1>4, <2>1, <3>1, <3>2
  <2> QED
    BY <2>1 DEF SigueEn
<1>8. PICK h : Prefijos(h, it, F, Nada(base), q, n, V)
  <2>1. it[{}] = Nada(base)
    BY <1>6
  <2> HIDE DEF S
  <2>2. q \in [1 .. n -> Tramos] /\ n \in Nat
    BY <1>1 DEF S
  <2> QED
    BY <1>2, <1>4, <1>7, <2>1, <2>2, PlegadoVale
<1>9. ASSUME NEW k \in 1 .. n PROVE h[k] = Quitar(base, h[k - 1], q[k])
  <2>1. h[k - 1] \in V /\ q[k] \in Tramos
    BY <1>1, <1>8 DEF Prefijos
  <2> QED
    BY <1>4, <1>8, <2>1 DEF Prefijos
<1> QED
  BY <1>3, <1>8, <1>9 DEF Prefijos, PasosHuecos, n, V

\* r is where the pointer stands, and what it left free, after k stretches.
QuitadoDe(r, base, q, k) ==
    /\ r \in Recorridos /\ IsFiniteSet(r.libres)
    /\ base.ini <= r.desde
    /\ \A x \in r.libres : base.ini <= x.ini /\ x.fin <= base.fin /\ x.fin < r.desde
    /\ r.libres # {} => k # 0 /\ \A x \in r.libres : x.fin <= q[k].ini
    /\ \A x, y \in r.libres : x.ini < x.fin /\ y.ini < y.fin => x = y \/ Aparte(x, y)
    /\ \A t \in Int : (\E x \in r.libres : En(t, x)) \/ (r.desde <= t /\ t < base.fin)
                      <=> En(t, base) /\ ~(\E i \in 1 .. k : En(t, q[i]))

\* One more busy stretch, not before the last: what is free up to the pointer is
\* what no stretch so far holds.
LEMMA QuitarQuitado ==
  ASSUME NEW base \in Tramos, NEW q \in Seq(Tramos), NEW k \in 1 .. Len(q),
         q[k].ini < q[k].fin, k # 1 => q[k - 1].ini <= q[k].ini,
         NEW r, QuitadoDe(r, base, q, k - 1)
  PROVE  QuitadoDe(Quitar(base, r, q[k]), base, q, k)
<1> DEFINE o == q[k]
           p == Quitar(base, r, o)
           L == r.libres
           d == r.desde
           Antes1(t) == \E i \in 1 .. k - 1 : En(t, q[i])
           Hasta(t) == \E i \in 1 .. k : En(t, q[i])
           Cae(t, M) == \E x \in M : En(t, x)
<1>1. /\ o \in Tramos /\ o.ini \in Int /\ o.fin \in Int /\ base.ini \in Int /\ base.fin \in Int
      /\ o.ini < o.fin /\ k \in Nat /\ k # 0
  <2>1. o \in Tramos
    OBVIOUS
  <2> HIDE DEF o
  <2>2. o.ini \in Int /\ o.fin \in Int /\ base.ini \in Int /\ base.fin \in Int
    BY <2>1 DEF Tramos
  <2> QED
    BY <2>1, <2>2 DEF o
<1>2. r \in Recorridos /\ d \in Int /\ L \in SUBSET Tramos /\ IsFiniteSet(L) /\ base.ini <= d
  BY DEF QuitadoDe, Recorridos
<1>3. \A x \in L : x.ini \in Int /\ x.fin \in Int
  BY <1>2 DEF Tramos
<1>4. \A x \in L : base.ini <= x.ini /\ x.fin <= base.fin /\ x.fin < d
  BY DEF QuitadoDe
<1>5. \A x, y \in L : x.ini < x.fin /\ y.ini < y.fin => x = y \/ Aparte(x, y)
  BY DEF QuitadoDe
<1>6. \A t \in Int : Cae(t, L) \/ (d <= t /\ t < base.fin) <=> En(t, base) /\ ~Antes1(t)
  BY DEF QuitadoDe
<1>7. \A t \in Int : Hasta(t) <=> Antes1(t) \/ En(t, o)
  OBVIOUS
<1>8. \A x \in L : x.fin <= o.ini
  <2>1. L # {} => k - 1 # 0 /\ \A x \in L : x.fin <= q[k - 1].ini
    BY DEF QuitadoDe
  <2>2. k - 1 # 0 => q[k - 1].ini \in Int /\ q[k - 1].ini <= o.ini
    <3>1. k - 1 # 0 => q[k - 1] \in Tramos /\ k # 1
      BY <1>1
    <3> QED
      BY <3>1 DEF Tramos
  <2> HIDE DEF o, L
  <2> QED
    BY <1>1, <1>3, <2>1, <2>2
<1>9. \A t \in Int : Cae(t, L) => ~En(t, o)
  BY <1>1, <1>3, <1>8 DEF En
<1> HIDE DEF o, L, d, Antes1, Hasta
<1>10. CASE o.fin <= d \/ o.ini >= base.fin
  <2>1. p = r
    BY <1>10 DEF Quitar, o, d
  <2> HIDE DEF p
  <2>2. ASSUME NEW t \in Int
        PROVE  Cae(t, L) \/ (d <= t /\ t < base.fin) <=> En(t, base) /\ ~Hasta(t)
    <3>1. d <= t /\ t < base.fin => ~En(t, o)
      BY <1>1, <1>2, <1>10 DEF En
    <3> QED
      BY <1>6, <1>7, <1>9, <3>1
  <2> QED
    BY <1>1, <1>2, <1>4, <1>5, <1>8, <2>1, <2>2 DEF QuitadoDe, o, L, d, Hasta, p
<1>11. CASE ~(o.fin <= d \/ o.ini >= base.fin)
  <2> DEFINE x == Tramo(d, o.ini)
             M == L \cup {x}
  <2>1. p = [desde |-> o.fin, libres |-> M]
    <3>1. d < o.fin /\ o.ini < base.fin
      BY <1>1, <1>2, <1>11
    <3> QED
      BY <1>1, <1>2, <3>1, QuitarEs DEF d, L
  <2>2. x \in Tramos /\ x.ini = d /\ x.fin = o.ini
    BY <1>1, <1>2 DEF Tramo, Tramos
  <2> HIDE DEF p, x
  <2>3. p \in Recorridos /\ p.desde = o.fin /\ p.libres = M /\ IsFiniteSet(M)
    <3>1. IsFiniteSet(M)
      BY <1>2, FS_AddElement
    <3> QED
      BY <1>1, <1>2, <2>1, <2>2, <3>1 DEF Recorridos
  <2>4. base.ini <= o.fin
    BY <1>1, <1>2, <1>11
  <2>5. ASSUME NEW y \in M PROVE base.ini <= y.ini /\ y.fin <= base.fin /\ y.fin < o.fin /\ y.fin <= o.ini
    <3>1. CASE y \in L
      BY <1>1, <1>2, <1>3, <1>4, <1>8, <1>11, <3>1
    <3>2. CASE y = x
      BY <1>1, <1>2, <1>11, <2>2, <3>2
    <3> QED
      BY <3>1, <3>2
  <2>6. ASSUME NEW y \in M, NEW z \in M, y.ini < y.fin, z.ini < z.fin PROVE y = z \/ Aparte(y, z)
    BY <1>4, <1>5, <2>2, <2>6 DEF Aparte
  <2>7. ASSUME NEW t \in Int
        PROVE  Cae(t, M) \/ (o.fin <= t /\ t < base.fin) <=> En(t, base) /\ ~Hasta(t)
    <3>1. Cae(t, M) <=> Cae(t, L) \/ (d <= t /\ t < o.ini)
      BY <2>2 DEF En
    <3>2. d <= t /\ t < base.fin /\ ~En(t, o) <=> (d <= t /\ t < o.ini) \/ (o.fin <= t /\ t < base.fin)
      BY <1>1, <1>2, <1>11 DEF En
    <3> HIDE DEF M
    <3> QED
      BY <1>6, <1>7, <1>9, <3>1, <3>2
  <2> QED
    BY <1>1, <2>3, <2>4, <2>5, <2>6, <2>7 DEF QuitadoDe, o, Hasta, p
<1> QED
  BY <1>10, <1>11

\* subtractIntervals leaves of a stretch what is not busy, in stretches apart.
LEMMA HuecosFiel ==
  ASSUME NEW base \in Tramos, NEW O \in SUBSET Tramos, IsFiniteSet(O)
  PROVE  /\ Separados(Huecos(base, O)) /\ IsFiniteSet(Huecos(base, O))
         /\ \A x \in Huecos(base, O) : Dentro(x, base)
         /\ \A t \in Int : t \in Instantes(Huecos(base, O)) <=> En(t, base) /\ t \notin Instantes(O)
<1> DEFINE J == {x \in O : x.ini < x.fin}
           q == Ordenados(O)
           n == Len(q)
<1>1. Lista(q, J)
  BY OrdenadosLista
<1> HIDE DEF q, J
<1>2. q \in Seq(Tramos) /\ n \in Nat
  BY <1>1 DEF Lista, J
<1>3. PICK h : PasosHuecos(h, base, q) /\ Recorrer(base, q) = h[n]
  BY <1>2, HuecosPliega
<1> DEFINE K == {k \in 0 .. n : QuitadoDe(h[k], base, q, k)}
<1>4. 0 \in K
  <2>1. h[0] = Nada(base) /\ h[0] \in Recorridos
    BY <1>2, <1>3 DEF PasosHuecos
  <2>2. base.ini \in Int /\ base.fin \in Int /\ IsFiniteSet({})
    BY FS_EmptySet DEF Tramos
  <2>3. QuitadoDe(h[0], base, q, 0)
    BY <1>2, <2>1, <2>2 DEF QuitadoDe, Nada, En
  <2> QED
    BY <1>2, <2>3
<1>5. ASSUME NEW k \in 1 .. n, k - 1 \in K PROVE k \in K
  <2>1. h[k] = Quitar(base, h[k - 1], q[k])
    BY <1>3 DEF PasosHuecos
  <2>2. q[k] \in J /\ (k # 1 => Antes(q[k - 1], q[k]) /\ q[k - 1] \in J)
    <3>1. k \in 1 .. n /\ (k # 1 => k - 1 \in 1 .. n /\ k - 1 < k)
      BY <1>2
    <3>2. \A i \in 1 .. n : q[i] \in J
      BY <1>1 DEF Lista
    <3> QED
      BY <1>1, <3>1, <3>2 DEF Lista
  <2>3. q[k].ini < q[k].fin /\ (k # 1 => q[k - 1].ini <= q[k].ini)
    BY <2>2 DEF Antes, J, Tramos
  <2> QED
    BY <1>2, <1>5, <2>1, <2>3, QuitarQuitado
<1>6. QuitadoDe(h[n], base, q, n)
  <2> HIDE DEF K
  <2>1. K \in SUBSET (0 .. n)
    BY DEF K
  <2>2. K = 0 .. n
    BY <1>2, <1>4, <1>5, <2>1, HastaN
  <2> QED
    BY <1>2, <2>2 DEF K
<1> DEFINE r == h[n]
           L == r.libres
           z == Tramo(r.desde, base.fin)
           R == {x \in L \cup {z} : x.ini < x.fin}
<1>7. Huecos(base, O) = R
  BY <1>3 DEF Huecos, q
<1>8. /\ L \in SUBSET Tramos /\ IsFiniteSet(L) /\ r.desde \in Int /\ z \in Tramos
      /\ z.ini = r.desde /\ z.fin = base.fin /\ base.ini \in Int /\ base.fin \in Int /\ base.ini <= z.ini
  BY <1>6 DEF QuitadoDe, Recorridos, Tramos, Tramo
<1>9. \A x \in L : base.ini <= x.ini /\ x.fin <= base.fin /\ x.fin < r.desde
  BY <1>6 DEF QuitadoDe
<1>10. \A x, y \in L : x.ini < x.fin /\ y.ini < y.fin => x = y \/ Aparte(x, y)
  BY <1>6 DEF QuitadoDe
<1>11. \A t \in Int : (\E x \in L : En(t, x)) \/ (z.ini <= t /\ t < z.fin)
                      <=> En(t, base) /\ ~(\E i \in 1 .. n : En(t, q[i]))
  BY <1>6, <1>8 DEF QuitadoDe
<1> HIDE DEF r, z, L
<1>12. Separados(R)
  <2>1. ASSUME NEW x \in R, NEW y \in R PROVE x = y \/ Aparte(x, y)
    BY <1>8, <1>9, <1>10 DEF Aparte
  <2> QED
    BY <1>8, <2>1 DEF Separados
<1>13. IsFiniteSet(R)
  <2>1. IsFiniteSet(L \cup {z})
    BY <1>8, FS_AddElement
  <2>2. R \in SUBSET (L \cup {z})
    OBVIOUS
  <2> HIDE DEF R
  <2> QED
    BY <2>1, <2>2, FS_Subset
<1>14. \A x \in R : Dentro(x, base)
  BY <1>8, <1>9 DEF Dentro
<1>15. ASSUME NEW t \in Int PROVE t \in Instantes(R) <=> En(t, base) /\ t \notin Instantes(O)
  <2>1. t \in Instantes(R) <=> \E x \in R : En(t, x)
    BY <1>8, InstantesSon
  <2>2. (\E x \in R : En(t, x)) <=> (\E x \in L : En(t, x)) \/ (z.ini <= t /\ t < z.fin)
    <3>1. ASSUME NEW x \in L, En(t, x) PROVE x \in R
      BY <1>8, <3>1 DEF En, Tramos
    <3> QED
      BY <1>8, <3>1 DEF En
  <2>3. t \in Instantes(O) <=> \E x \in O : En(t, x)
    BY InstantesSon
  <2>4. (\E x \in O : En(t, x)) <=> (\E x \in J : En(t, x))
    BY DEF J, En, Tramos
  <2>5. (\E x \in J : En(t, x)) <=> (\E i \in 1 .. n : En(t, q[i]))
    <3>1. \A i \in 1 .. n : q[i] \in J
      BY <1>1 DEF Lista
    <3>2. \A x \in J : \E i \in 1 .. n : q[i] = x
      BY <1>1 DEF Lista
    <3> HIDE DEF n
    <3> QED
      BY <3>1, <3>2
  <2> QED
    BY <1>11, <2>1, <2>2, <2>3, <2>4, <2>5
<1> HIDE DEF R
<1> QED
  BY <1>7, <1>12, <1>13, <1>14, <1>15

\* The image of a finite set is finite.
LEMMA ImagenFinita ==
  ASSUME NEW S, IsFiniteSet(S), NEW f, DOMAIN f = S
  PROVE  IsFiniteSet({f[x] : x \in S})
<1> DEFINE Z == {f[x] : x \in S}
           g == [x \in S |-> f[x]]
<1>1. g \in Surjection(S, Z)
  BY DEF Surjection
<1> QED
  BY <1>1, FS_Surjection

\* What is left of a set of stretches, whether they are apart or not.
LEMMA RestarFiel ==
  ASSUME NEW B \in SUBSET Tramos, IsFiniteSet(B), NEW O \in SUBSET Tramos, IsFiniteSet(O)
  PROVE  /\ Restar(B, O) \in SUBSET Tramos /\ IsFiniteSet(Restar(B, O))
         /\ Instantes(Restar(B, O)) = Instantes(B) \ Instantes(O)
         /\ Separados(B) => Separados(Restar(B, O))
<1> DEFINE O2 == Mezclar(O)
           H == [b \in B |-> Huecos(b, O2)]
           R == UNION {H[b] : b \in B}
<1>1. O2 \in SUBSET Tramos /\ IsFiniteSet(O2) /\ Instantes(O2) = Instantes(O)
  BY MezclarFiel DEF Separados
<1>2. Restar(B, O) = R
  BY DEF Restar
<1> HIDE DEF O2
<1>3. ASSUME NEW b \in B
      PROVE  /\ Separados(H[b]) /\ IsFiniteSet(H[b]) /\ \A x \in H[b] : Dentro(x, b)
             /\ H[b] \in SUBSET Tramos
             /\ \A t \in Int : t \in Instantes(H[b]) <=> En(t, b) /\ t \notin Instantes(O)
  <2>1. H[b] = Huecos(b, O2) /\ b \in Tramos
    OBVIOUS
  <2>2. Separados(H[b]) /\ IsFiniteSet(H[b]) /\ \A x \in H[b] : Dentro(x, b)
    BY <1>1, <2>1, HuecosFiel
  <2>3. \A t \in Int : t \in Instantes(H[b]) <=> En(t, b) /\ t \notin Instantes(O)
    BY <1>1, <2>1, HuecosFiel
  <2> QED
    BY <2>2, <2>3 DEF Separados
<1>4. IsFiniteSet(R)
  <2>1. DOMAIN H = B
    OBVIOUS
  <2> HIDE DEF H
  <2>2. IsFiniteSet({H[b] : b \in B})
    BY <2>1, ImagenFinita
  <2> QED
    BY <1>3, <2>2, FS_UNION
<1> HIDE DEF H
<1>5. R \in SUBSET Tramos
  BY <1>3
<1>6. ASSUME NEW t \in Int PROVE t \in Instantes(R) <=> t \in Instantes(B) /\ t \notin Instantes(O)
  <2>1. t \in Instantes(R) <=> \E x \in R : En(t, x)
    BY <1>5, InstantesSon
  <2>2. \A b \in B : t \in Instantes(H[b]) <=> \E x \in H[b] : En(t, x)
    BY <1>3, InstantesSon
  <2>3. t \in Instantes(B) <=> \E b \in B : En(t, b)
    BY InstantesSon
  <2>4. (\E x \in R : En(t, x)) <=> \E b \in B : \E x \in H[b] : En(t, x)
    OBVIOUS
  <2> HIDE DEF R
  <2> QED
    BY <1>3, <2>1, <2>2, <2>3, <2>4
<1>7. Instantes(R) = Instantes(B) \ Instantes(O)
  <2>1. Instantes(R) \in SUBSET Int /\ Instantes(B) \in SUBSET Int
    BY <1>5, InstantesSon
  <2> HIDE DEF R
  <2> QED
    BY <1>6, <2>1
<1>8. ASSUME Separados(B) PROVE Separados(R)
  <2>1. ASSUME NEW x \in R, NEW y \in R PROVE x.ini < x.fin /\ (x = y \/ Aparte(x, y))
    <3>1. PICK b \in B : x \in H[b]
      OBVIOUS
    <3>2. PICK c \in B : y \in H[c]
      OBVIOUS
    <3>3. x.ini < x.fin /\ (b = c => x = y \/ Aparte(x, y))
      BY <1>3, <3>1, <3>2 DEF Separados
    <3>4. b # c => Aparte(b, c)
      BY <1>8 DEF Separados
    <3>5. Dentro(x, b) /\ Dentro(y, c) /\ {x, y, b, c} \in SUBSET Tramos
      BY <1>3, <1>5, <3>1, <3>2
    <3>6. Aparte(b, c) => Aparte(x, y)
      BY <3>5 DEF Aparte, Dentro, Tramos
    <3> QED
      BY <3>3, <3>4, <3>6
  <2> QED
    BY <1>5, <2>1 DEF Separados
<1> QED
  BY <1>2, <1>4, <1>5, <1>7, <1>8

-----------------------------------------------------------------------------
(* The opening of a day *)

\* The instants of a row, but for its lunch.
DeFila(f) == Instantes({f}) \ (IF f.almuerzo = NADA THEN {} ELSE Instantes({f.almuerzo}))

\* buildBaseIntervalsFromSchedules opens the instants of the rows without the lunches.
LEMMA BaseFiel ==
  ASSUME NEW filas, FilasBien(filas)
  PROVE  /\ Base(filas) \in SUBSET Tramos /\ IsFiniteSet(Base(filas))
         /\ Instantes(Base(filas)) = UNION {DeFila(f) : f \in filas}
<1> DEFINE almuerzo(f) == IF f.almuerzo = NADA THEN {} ELSE {f.almuerzo}
           R == [f \in filas |-> Restar({Tramo(f.ini, f.fin)}, almuerzo(f))]
           U == UNION {R[f] : f \in filas}
<1>1. Base(filas) = U
  BY DEF Base
<1>2. ASSUME NEW f \in filas
      PROVE  R[f] \in SUBSET Tramos /\ IsFiniteSet(R[f]) /\ Instantes(R[f]) = DeFila(f)
  <2> DEFINE x == Tramo(f.ini, f.fin)
  <2>1. x \in Tramos /\ x.ini = f.ini /\ x.fin = f.fin
    BY DEF FilasBien, Tramos, Tramo
  <2>2. almuerzo(f) \in SUBSET Tramos /\ IsFiniteSet(almuerzo(f)) /\ IsFiniteSet({x})
    BY FS_Singleton, FS_EmptySet DEF FilasBien
  <2>3. /\ Restar({x}, almuerzo(f)) \in SUBSET Tramos /\ IsFiniteSet(Restar({x}, almuerzo(f)))
        /\ Instantes(Restar({x}, almuerzo(f))) = Instantes({x}) \ Instantes(almuerzo(f))
    <3> HIDE DEF x, almuerzo
    <3> QED
      BY <2>1, <2>2, RestarFiel
  <2>4. Instantes({x}) = Instantes({f})
    BY <2>1 DEF Instantes
  <2>5. Instantes(almuerzo(f)) = IF f.almuerzo = NADA THEN {} ELSE Instantes({f.almuerzo})
    BY DEF Instantes
  <2>6. R[f] = Restar({x}, almuerzo(f))
    OBVIOUS
  <2> HIDE DEF R, x, almuerzo
  <2> QED
    BY <2>3, <2>4, <2>5, <2>6 DEF DeFila
<1>3. IsFiniteSet(U)
  <2>1. DOMAIN R = filas
    OBVIOUS
  <2> HIDE DEF R
  <2>2. IsFiniteSet({R[f] : f \in filas})
    BY <2>1, ImagenFinita DEF FilasBien
  <2> QED
    BY <1>2, <2>2, FS_UNION
<1> HIDE DEF R
<1>4. U \in SUBSET Tramos
  BY <1>2
<1>5. Instantes(U) = UNION {Instantes(R[f]) : f \in filas}
  BY DEF Instantes
<1>6. Instantes(U) = UNION {DeFila(f) : f \in filas}
  BY <1>2, <1>5
<1> QED
  BY <1>1, <1>3, <1>4, <1>6

\* The stretches of a mode, and that none is empty.
LEMMA TramosDeEs ==
  ASSUME NEW E, ExcepcionesBien(E), NEW modo
  PROVE  /\ TramosDe(E, modo) \in SUBSET Tramos /\ IsFiniteSet(TramosDe(E, modo))
         /\ TramosDe(E, modo) = {} <=> Instantes(TramosDe(E, modo)) = {}
<1> DEFINE D == {x \in E : x.modo = modo}
           f == [e \in D |-> e.tramos]
           Z == TramosDe(E, modo)
<1>1. IsFiniteSet(D)
  BY FS_Subset DEF ExcepcionesBien
<1>2. DOMAIN f = D /\ Z = UNION {f[e] : e \in D}
  BY DEF TramosDe
<1>3. \A e \in D : f[e] \in SUBSET Tramos /\ IsFiniteSet(f[e]) /\ \A x \in f[e] : x.ini < x.fin
  BY DEF ExcepcionesBien
<1> HIDE DEF f, D, Z
<1>4. IsFiniteSet({f[e] : e \in D})
  BY <1>1, <1>2, ImagenFinita
<1>5. IsFiniteSet(Z)
  BY <1>2, <1>3, <1>4, FS_UNION
<1>6. Z \in SUBSET Tramos /\ \A x \in Z : x.ini < x.fin
  BY <1>2, <1>3
<1>7. ASSUME NEW x \in Z PROVE x.ini \in Instantes(Z)
  BY <1>6, <1>7, InstantesSon DEF En, Tramos
<1>8. Z = {} => Instantes(Z) = {}
  BY DEF Instantes
<1> QED
  BY <1>5, <1>6, <1>7, <1>8 DEF Z

\* The instants a calendar opens, by what each mode means.
Abre(filas, E) ==
    LET de(modo) == Instantes(TramosDe(E, modo))
    IN  IF \E e \in E : e.modo = "cierre_total" THEN {}
        ELSE ((IF de("horario_especial") = {} THEN UNION {DeFila(f) : f \in filas}
               ELSE de("horario_especial"))
              \cup de("apertura_extra")) \ de("cierre_parcial")

\* The instants of two sets of stretches are those of either.
LEMMA InstantesUnion ==
  ASSUME NEW A, NEW B
  PROVE  Instantes(A \cup B) = Instantes(A) \cup Instantes(B)
BY DEF Instantes

\* applyBranchExceptionsToIntervals opens what the modes mean, in stretches apart.
LEMMA ExcepcionesFiel ==
  ASSUME NEW filas, FilasBien(filas), NEW E, ExcepcionesBien(E)
  PROVE  LET C == ConExcepciones(Base(filas), E)
         IN  Separados(C) /\ IsFiniteSet(C) /\ Instantes(C) = Abre(filas, E)
<1> DEFINE C == ConExcepciones(Base(filas), E)
           total == \E e \in E : e.modo = "cierre_total"
           especial == TramosDe(E, "horario_especial")
           extra == TramosDe(E, "apertura_extra")
           cierre == TramosDe(E, "cierre_parcial")
           dia == IF especial = {} THEN Base(filas) ELSE especial
           abierto == Mezclar(dia \cup extra)
           resto == Restar(abierto, cierre)
<1>1. /\ especial \in SUBSET Tramos /\ IsFiniteSet(especial)
      /\ especial = {} <=> Instantes(especial) = {}
  BY TramosDeEs
<1>2. extra \in SUBSET Tramos /\ IsFiniteSet(extra)
  BY TramosDeEs
<1>3. cierre \in SUBSET Tramos /\ IsFiniteSet(cierre)
  BY TramosDeEs
<1>4. C = IF total THEN {} ELSE Mezclar(resto)
  BY DEF ConExcepciones
<1>5. Abre(filas, E) = IF total THEN {}
                       ELSE ((IF Instantes(especial) = {} THEN UNION {DeFila(f) : f \in filas}
                              ELSE Instantes(especial))
                             \cup Instantes(extra)) \ Instantes(cierre)
  BY DEF Abre
<1> HIDE DEF especial, extra, cierre, total, C
<1>6. dia \in SUBSET Tramos /\ IsFiniteSet(dia)
  BY <1>1, BaseFiel
<1>7. Instantes(dia) = IF Instantes(especial) = {} THEN UNION {DeFila(f) : f \in filas}
                       ELSE Instantes(especial)
  BY <1>1, BaseFiel
<1> HIDE DEF dia
<1>8. dia \cup extra \in SUBSET Tramos /\ IsFiniteSet(dia \cup extra)
  BY <1>2, <1>6, FS_Union
<1>9. /\ abierto \in SUBSET Tramos /\ IsFiniteSet(abierto)
      /\ Instantes(abierto) = Instantes(dia) \cup Instantes(extra)
  BY <1>8, MezclarFiel, InstantesUnion DEF Separados
<1> HIDE DEF abierto
<1>10. /\ resto \in SUBSET Tramos /\ IsFiniteSet(resto)
       /\ Instantes(resto) = Instantes(abierto) \ Instantes(cierre)
  BY <1>3, <1>9, RestarFiel
<1> HIDE DEF resto
<1>11. CASE total
  <2>1. C = {} /\ Instantes({}) = {} /\ Separados({}) /\ IsFiniteSet({})
    BY <1>4, <1>11, FS_EmptySet DEF Instantes, Separados
  <2> QED
    BY <1>5, <1>11, <2>1 DEF C
<1>12. CASE ~total
  <2>1. Separados(C) /\ IsFiniteSet(C) /\ Instantes(C) = Instantes(resto)
    BY <1>4, <1>10, <1>12, MezclarFiel
  <2> QED
    BY <1>5, <1>7, <1>9, <1>10, <1>12, <2>1 DEF C
<1> QED
  BY <1>11, <1>12

-----------------------------------------------------------------------------
(* The offer of a day *)

\* trimIntervalsByMinimumStart drops the instants before the floor, and no other.
LEMMA RecortarFiel ==
  ASSUME NEW I, Separados(I), NEW piso \in Int
  PROVE  /\ Separados(Recortar(I, piso))
         /\ Instantes(Recortar(I, piso)) = {t \in Instantes(I) : t >= piso}
<1> DEFINE J == {y \in I : y.fin > piso}
           desde(x) == Max({x.ini, piso})
           r(x) == Tramo(desde(x), x.fin)
           R == {r(x) : x \in J}
<1>1. I \in SUBSET Tramos
  BY DEF Separados
<1>2. ASSUME NEW x \in J
      PROVE  /\ x.ini \in Int /\ x.fin \in Int /\ x.ini < x.fin /\ piso < x.fin
             /\ r(x).ini = (IF x.ini >= piso THEN x.ini ELSE piso) /\ r(x).fin = x.fin
             /\ r(x) \in Tramos
  <2>1. x.ini \in Int /\ x.fin \in Int /\ x.ini < x.fin /\ piso < x.fin
    BY <1>1 DEF Separados, Tramos
  <2>2. desde(x) = IF x.ini >= piso THEN x.ini ELSE piso
    BY <2>1, MaxDos
  <2>3. desde(x) \in Int
    BY <2>1, <2>2
  <2> HIDE DEF desde
  <2> QED
    BY <2>1, <2>2, <2>3 DEF Tramo, Tramos
<1> HIDE DEF r
<1>3. R \in SUBSET Tramos
  BY <1>2
<1>4. ASSUME NEW x \in J, NEW y \in J, x = y \/ Aparte(x, y) PROVE r(x) = r(y) \/ Aparte(r(x), r(y))
  BY <1>2, <1>4 DEF Aparte
<1>5. Separados(R)
  <2>1. \A x \in J : r(x).ini < r(x).fin
    BY <1>2
  <2>2. \A x, y \in J : r(x) = r(y) \/ Aparte(r(x), r(y))
    BY <1>4 DEF Separados
  <2> HIDE DEF J
  <2> QED
    BY <1>3, <2>1, <2>2 DEF Separados
<1>6. ASSUME NEW t \in Int
      PROVE  t \in Instantes(R) <=> t \in Instantes(I) /\ t >= piso
  <2>1. t \in Instantes(R) <=> \E x \in J : En(t, r(x))
    BY <1>3, InstantesSon
  <2>2. t \in Instantes(I) <=> \E x \in I : En(t, x)
    BY <1>1, InstantesSon
  <2>3. ASSUME NEW x \in J PROVE En(t, r(x)) <=> En(t, x) /\ t >= piso
    BY <1>2 DEF En
  <2>4. ASSUME NEW x \in I, En(t, x), t >= piso PROVE x \in J
    BY <1>1, <2>4 DEF En, Tramos
  <2> QED
    BY <2>1, <2>2, <2>3, <2>4
<1>7. Instantes(R) \in SUBSET Int /\ Instantes(I) \in SUBSET Int
  BY <1>1, <1>3, InstantesSon
<1>8. Recortar(I, piso) = R
  BY DEF Recortar, r
<1> HIDE DEF R
<1> QED
  BY <1>5, <1>6, <1>7, <1>8

\* Among stretches that do not touch, an instant and the next are of the same
\* one, and the rest on either side of t reaches to the ends of its own.
LEMMA Vecino ==
  ASSUME NEW I, Separados(I), NEW x \in I
  PROVE  /\ x.fin \notin Instantes(I) /\ x.ini - 1 \notin Instantes(I)
         /\ x.ini .. x.fin - 1 \subseteq Instantes(I)
<1>1. I \in SUBSET Tramos /\ x.ini \in Int /\ x.fin \in Int /\ x.ini < x.fin
  BY DEF Separados, Tramos
<1>2. ASSUME NEW t \in {x.fin, x.ini - 1}, t \in Instantes(I) PROVE FALSE
  <2>1. PICK y \in I : En(t, y)
    BY <1>1, <1>2, InstantesSon
  <2>2. y.ini \in Int /\ y.fin \in Int /\ y.ini < y.fin
    BY <1>1 DEF Separados, Tramos
  <2>3. y # x
    BY <1>1, <2>1 DEF En
  <2>4. Aparte(x, y)
    BY <2>3 DEF Separados
  <2> QED
    BY <1>1, <2>1, <2>2, <2>4 DEF En, Aparte
<1>3. x.ini .. x.fin - 1 \subseteq Instantes(I)
  BY DEF Instantes
<1> QED
  BY <1>2, <1>3

\* The rest before t in a stretch is what goes back to its start.
LEMMA AtrasEs ==
  ASSUME NEW I, Separados(I), NEW x \in I, NEW t \in Int, x.ini <= t, t < x.fin
  PROVE  Atras(Instantes(I), t) = t - x.ini
<1> DEFINE L == Instantes(I)
           A == {u \in L : u < t /\ u .. t \subseteq L \cup {t}}
<1>1. I \in SUBSET Tramos /\ x.ini \in Int /\ x.fin \in Int /\ x.ini < x.fin
  BY DEF Separados, Tramos
<1>2. L \in SUBSET Int
  BY <1>1, InstantesSon
<1>3. x.ini - 1 \notin L /\ x.ini .. x.fin - 1 \subseteq L
  BY Vecino
<1> HIDE DEF L
<1>4. ASSUME NEW u \in A PROVE u \in x.ini .. t - 1
  <2>1. u \in Int /\ u < t /\ u .. t \subseteq L \cup {t}
    BY <1>2
  <2>2. ASSUME u < x.ini PROVE FALSE
    <3>1. x.ini - 1 \in u .. t /\ x.ini - 1 # t
      BY <1>1, <2>1, <2>2
    <3> QED
      BY <1>3, <2>1, <3>1
  <2> QED
    BY <1>1, <2>1, <2>2
<1>5. ASSUME NEW u \in x.ini .. t - 1 PROVE u \in A
  <2>1. u \in x.ini .. x.fin - 1 /\ u < t
    BY <1>1
  <2>2. ASSUME NEW v \in u .. t PROVE v \in x.ini .. x.fin - 1
    BY <1>1
  <2> QED
    BY <1>3, <2>1, <2>2
<1>6. A = x.ini .. t - 1
  BY <1>4, <1>5
<1>7. Cardinality(x.ini .. t - 1) = t - x.ini
  <2>1. t - 1 \in Int
    OBVIOUS
  <2>2. Cardinality(x.ini .. t - 1) = IF x.ini > t - 1 THEN 0 ELSE t - 1 - x.ini + 1
    BY <1>1, <2>1, FS_Interval
  <2> QED
    BY <1>1, <2>2
<1> QED
  BY <1>6, <1>7 DEF Atras, L

\* The rest after t in a stretch is what goes on to its end.
LEMMA AdelanteEs ==
  ASSUME NEW I, Separados(I), NEW x \in I, NEW t \in Int, x.ini <= t, t <= x.fin
  PROVE  Adelante(Instantes(I), t) = x.fin - t
<1> DEFINE L == Instantes(I)
           A == {u \in L : u >= t /\ t .. u \subseteq L}
<1>1. I \in SUBSET Tramos /\ x.ini \in Int /\ x.fin \in Int /\ x.ini < x.fin
  BY DEF Separados, Tramos
<1>2. L \in SUBSET Int
  BY <1>1, InstantesSon
<1>3. x.fin \notin L /\ x.ini .. x.fin - 1 \subseteq L
  BY Vecino
<1> HIDE DEF L
<1>4. ASSUME NEW u \in A PROVE u \in t .. x.fin - 1
  <2>1. u \in Int /\ u >= t /\ t .. u \subseteq L
    BY <1>2
  <2>2. ASSUME u >= x.fin PROVE FALSE
    <3>1. x.fin \in t .. u
      BY <1>1, <2>1, <2>2
    <3> QED
      BY <1>3, <2>1, <3>1
  <2> QED
    BY <1>1, <2>1, <2>2
<1>5. ASSUME NEW u \in t .. x.fin - 1 PROVE u \in A
  <2>1. u \in x.ini .. x.fin - 1 /\ u >= t
    BY <1>1
  <2>2. ASSUME NEW v \in t .. u PROVE v \in x.ini .. x.fin - 1
    BY <1>1
  <2> QED
    BY <1>3, <2>1, <2>2
<1>6. A = t .. x.fin - 1
  BY <1>4, <1>5
<1>7. Cardinality(t .. x.fin - 1) = x.fin - t
  <2>1. x.fin - 1 \in Int
    BY <1>1
  <2>2. Cardinality(t .. x.fin - 1) = IF t > x.fin - 1 THEN 0 ELSE x.fin - 1 - t + 1
    BY <1>1, <2>1, FS_Interval
  <2> QED
    BY <1>1, <2>2
<1> QED
  BY <1>6, <1>7 DEF Adelante, L

\* The starts that the instants L leave, by what a start is.
Arranques(L, largo) ==
    {t \in L : /\ t % Paso = 0 /\ t .. t + largo - 1 \subseteq L
               /\ Vendible(Atras(L, t))
               /\ Vendible(Adelante(L, t + largo))}

\* buildSlotsFromIntervals offers the starts that its instants leave, if the stretches
\* it is given do not touch.
LEMMA TurnosFiel ==
  ASSUME NEW I, Separados(I), NEW largo \in Nat \ {0}
  PROVE  {s.ini : s \in Turnos(I, largo)} = Arranques(Instantes(I), largo)
<1> DEFINE L == Instantes(I)
           Sale(t, x) == /\ t \in x.ini .. x.fin - largo /\ t % Paso = 0
                         /\ Vendible(t - x.ini) /\ Vendible(x.fin - t - largo)
           Z == Turnos(I, largo)
<1>1. I \in SUBSET Tramos /\ \A x \in I : x.ini \in Int /\ x.fin \in Int /\ x.ini < x.fin
  BY DEF Separados, Tramos
<1>2. L = {t \in Int : \E x \in I : En(t, x)}
  BY <1>1, InstantesSon
<1>3. Z = UNION {{[ini |-> t, hueco |-> x] : t \in {u \in x.ini .. x.fin - largo :
                    u % Paso = 0 /\ Vendible(u - x.ini) /\ Vendible(x.fin - u - largo)}} : x \in I}
  BY DEF Turnos
<1>4. \A t : t \in {s.ini : s \in Z} <=> \E x \in I : Sale(t, x)
  <2>1. ASSUME NEW s \in Z PROVE \E x \in I : Sale(s.ini, x)
    BY <1>3
  <2>2. ASSUME NEW t, NEW x \in I, Sale(t, x) PROVE \E s \in Z : s.ini = t
    <3>1. [ini |-> t, hueco |-> x] \in Z
      BY <1>3, <2>2
    <3> QED
      BY <3>1
  <2> QED
    BY <2>1, <2>2
<1> HIDE DEF L, Z
<1>5. ASSUME NEW t \in Int, NEW x \in I, x.ini <= t, t + largo <= x.fin
      PROVE  /\ Atras(L, t) = t - x.ini /\ Adelante(L, t + largo) = x.fin - t - largo
             /\ t \in L /\ t .. t + largo - 1 \subseteq L
  <2>1. t < x.fin /\ x.ini <= t + largo /\ t + largo \in Int
    BY <1>1, <1>5
  <2>2. Atras(L, t) = t - x.ini
    BY <1>5, <2>1, AtrasEs DEF L
  <2>3. Adelante(L, t + largo) = x.fin - (t + largo)
    BY <1>5, <2>1, AdelanteEs DEF L
  <2>4. x.ini .. x.fin - 1 \subseteq L
    BY Vecino DEF L
  <2>5. \A u \in t .. t + largo - 1 : u \in x.ini .. x.fin - 1
    BY <1>1, <1>5
  <2>6. t \in x.ini .. x.fin - 1 /\ x.fin - (t + largo) = x.fin - t - largo
    BY <1>1, <1>5, <2>1
  <2> QED
    BY <2>2, <2>3, <2>4, <2>5, <2>6
<1>6. ASSUME NEW t, NEW x \in I, Sale(t, x) PROVE t \in Arranques(L, largo)
  <2>1. t \in Int /\ x.ini <= t /\ t + largo <= x.fin
    BY <1>1, <1>6
  <2> QED
    BY <1>5, <1>6, <2>1 DEF Arranques
<1>7. ASSUME NEW t \in Arranques(L, largo) PROVE \E x \in I : Sale(t, x)
  <2>1. t \in L /\ t \in Int /\ t .. t + largo - 1 \subseteq L
    BY <1>2 DEF Arranques
  <2>2. PICK x \in I : En(t, x)
    BY <1>2, <2>1
  <2>3. x.fin \notin L
    BY Vecino DEF L
  <2>4. t + largo <= x.fin
    <3>1. ASSUME ~(t + largo <= x.fin) PROVE FALSE
      <4>1. x.fin \in t .. t + largo - 1
        BY <1>1, <2>1, <2>2, <3>1 DEF En
      <4> QED
        BY <2>1, <2>3, <4>1
    <3> QED
      BY <3>1
  <2>5. x.ini <= t /\ t \in x.ini .. x.fin - largo
    BY <1>1, <2>1, <2>2, <2>4 DEF En
  <2>6. Atras(L, t) = t - x.ini /\ Adelante(L, t + largo) = x.fin - t - largo
    BY <1>5, <2>1, <2>4, <2>5
  <2>7. t % Paso = 0 /\ Vendible(Atras(L, t)) /\ Vendible(Adelante(L, t + largo))
    BY DEF Arranques
  <2> QED
    BY <2>5, <2>6, <2>7
<1> HIDE DEF Sale
<1> QED
  BY <1>4, <1>6, <1>7 DEF Z, L

\* resolveTodaySellableFloorStartAt is not before now.
LEMMA PisoEs ==
  ASSUME NEW t \in Nat
  PROVE  Piso(t) \in Int /\ Piso(t) >= t
<1> DEFINE d == (t + Paso - 1) \div Paso
<1>1. Paso \in Nat \ {0}
  BY DisponibilidadAssumption
<1>2. d \in Int /\ d * Paso <= t + Paso - 1 /\ t + Paso - 1 < (d + 1) * Paso
  BY <1>1
<1>3. (d + 1) * Paso = d * Paso + Paso /\ d * Paso \in Int
  BY <1>1, <1>2
<1> HIDE DEF d
<1>4. d * Paso >= t
  BY <1>1, <1>2, <1>3
<1> QED
  BY <1>3, <1>4 DEF Piso, d

\* getAvailableSlotsForBarber offers the starts of what is open, not busy, and to
\* come.
LEMMA TurnosDelDiaFiel ==
  ASSUME NEW filas, FilasBien(filas), NEW E, ExcepcionesBien(E),
         NEW O \in SUBSET Tramos, IsFiniteSet(O), NEW largo \in Nat \ {0}, NEW t \in Nat
  PROVE  {s.ini : s \in TurnosDelDia(filas, E, O, largo, t)}
         = Arranques({u \in Abre(filas, E) \ Instantes(O) : u >= Piso(t)}, largo)
<1> DEFINE C == ConExcepciones(Base(filas), E)
           D == Restar(C, O)
           R == Recortar(D, Piso(t))
<1>1. Separados(C) /\ IsFiniteSet(C) /\ Instantes(C) = Abre(filas, E)
  BY ExcepcionesFiel
<1> HIDE DEF C
<1>2. Separados(D) /\ Instantes(D) = Abre(filas, E) \ Instantes(O)
  BY <1>1, RestarFiel DEF Separados
<1> HIDE DEF D
<1>3. Separados(R) /\ Instantes(R) = {u \in Abre(filas, E) \ Instantes(O) : u >= Piso(t)}
  BY <1>2, RecortarFiel, PisoEs
<1> HIDE DEF R
<1>4. {s.ini : s \in Turnos(R, largo)} = Arranques(Instantes(R), largo)
  BY <1>3, TurnosFiel
<1> QED
  BY <1>3, <1>4 DEF TurnosDelDia, R, D, C

-----------------------------------------------------------------------------
(* The rows of the citas *)

Filas0(B) == [estado : Estados, barbero : B, ini : Int, fin : Int]

\* A service lasts some time, and no longer with its buffer left out.
LEMMA Duraciones ==
  ASSUME NEW c \in Citas
  PROVE  Dur[c] \in Nat \ {0} /\ Buf[c] \in Nat /\ Largo(c) \in Nat \ {0} /\ Dur[c] <= Largo(c)
BY JornadaAssumption DEF Largo

Motivos == {"ok", "MF_RESERVA_INICIO_EN_PASADO", "MF_SLOT_BLOCKED", "MF_SLOT_TAKEN",
            "MF_SLOT_OUTSIDE_SCHEDULE"}

\* The function answers one of its codes.
LEMMA ValidarDice ==
  ASSUME NEW f, NEW b, NEW x
  PROVE  Validar(f, b, x) \in Motivos
<1> DEFINE pasado == x.ini <= ahora
           bloqueado == \E y \in heredados : y.barbero = b /\ Chocan(x, y)
           tomado == Solapa(f, b, x)
           dentro == EnHorario(b, x)
           v == Validar(f, b, x)
<1>1. v = IF pasado THEN "MF_RESERVA_INICIO_EN_PASADO"
          ELSE IF bloqueado THEN "MF_SLOT_BLOCKED"
          ELSE IF tomado THEN "MF_SLOT_TAKEN"
          ELSE IF ~dentro THEN "MF_SLOT_OUTSIDE_SCHEDULE"
          ELSE "ok"
  BY DEF Validar
<1> HIDE DEF pasado, bloqueado, tomado, dentro, v
<1>2. v \in Motivos
  BY <1>1 DEF Motivos
<1> QED
  BY <1>2 DEF v

\* One member more: the rows stay well formed, whether it is inserted or refused.
LEMMA InsertarUnoBien ==
  ASSUME NEW s \in Solicitudes, NEW p, NEW k \in DOMAIN Miembros[s], eleccion[s][k].ini \in Int,
         NEW B, p[k] \in B, NEW r \in [motivo : Motivos, filas : [Citas -> Filas0(B)]],
         CitasBien(r.filas)
  PROVE  /\ InsertarUno(s, p, r, k) \in [motivo : Motivos, filas : [Citas -> Filas0(B)]]
         /\ CitasBien(InsertarUno(s, p, r, k).filas)
<1> DEFINE c == Miembros[s][k]
           i == eleccion[s][k].ini
           x == Tramo(i, i + Largo(c))
           v == Validar(r.filas, p[k], x)
           y == [estado |-> "en_espera", barbero |-> p[k], ini |-> i, fin |-> i + Largo(c)]
           u == InsertarUno(s, p, r, k)
<1>1. c \in Citas
  BY JornadaAssumption
<1>2. Largo(c) \in Nat \ {0}
  BY <1>1, Duraciones
<1>3. y \in Filas0(B) /\ CitaBien(c, y)
  BY <1>2 DEF Filas0, CitaBien, Estados, Activas, PorAtender, Pendientes
<1>4. u = IF r.motivo # "ok" THEN r
          ELSE IF v # "ok" THEN [motivo |-> v, filas |-> r.filas]
          ELSE [motivo |-> "ok", filas |-> [r.filas EXCEPT ![c] = y]]
  BY DEF InsertarUno, Tramo
<1>5. v \in Motivos
  BY ValidarDice
<1>6. r.filas \in [Citas -> Filas0(B)] /\ \A d \in Citas : CitaBien(d, r.filas[d])
  BY DEF CitasBien
<1> HIDE DEF c, v, y, u, x
<1> DEFINE W == [Citas -> Filas0(B)]
<1> HIDE DEF W
<1>r. r \in [motivo : Motivos, filas : W]
  BY DEF W
<1>7. CASE r.motivo # "ok" \/ v # "ok"
  <2>1. u = r \/ u = [motivo |-> v, filas |-> r.filas]
    BY <1>4, <1>7
  <2>2. [motivo |-> v, filas |-> r.filas] \in [motivo : Motivos, filas : W]
    BY <1>r, <1>5
  <2>3. u \in [motivo : Motivos, filas : W] /\ u.filas = r.filas
    BY <1>r, <2>1, <2>2
  <2> QED
    BY <2>3 DEF W, u
<1>8. CASE ~(r.motivo # "ok" \/ v # "ok")
  <2> DEFINE f == [r.filas EXCEPT ![c] = y]
  <2>1. u = [motivo |-> "ok", filas |-> f]
    BY <1>4, <1>8
  <2>2. f \in [Citas -> Filas0(B)]
    BY <1>1, <1>3, <1>6
  <2>3. \A d \in Citas : f[d] = IF d = c THEN y ELSE r.filas[d]
    BY <1>1, <1>6
  <2> HIDE DEF f
  <2>4. CitasBien(f)
    BY <1>3, <1>6, <2>2, <2>3 DEF CitasBien
  <2>5. f \in W
    BY <2>2 DEF W
  <2>6. u \in [motivo : Motivos, filas : W] /\ u.filas = f
    BY <2>1, <2>5 DEF Motivos
  <2> QED
    BY <2>4, <2>6 DEF W, u
<1> QED
  BY <1>7, <1>8 DEF u

\* A request inserts its members one after the other, and stays among the results V
\* that one member more never leaves.
LEMMA InsertarEn ==
  ASSUME NEW s \in Solicitudes, NEW p, NEW V, [motivo |-> "ok", filas |-> cita] \in V,
         \A v \in V : \A k \in DOMAIN Miembros[s] : InsertarUno(s, p, v, k) \in V
  PROVE  Insertar(s, p) \in V
<1> DEFINE q == [k \in DOMAIN Miembros[s] |-> k]
           n == Len(Miembros[s])
           S == 1 .. n
           X == DOMAIN Miembros[s]
           base == [motivo |-> "ok", filas |-> cita]
           E(g) == g = [t \in SUBSET S |-> IF t = {} THEN base
                                           ELSE InsertarUno(s, p, g[t \ {Max(t)}], q[Max(t)])]
           it == CHOOSE g : E(g)
           F == [u \in V \X X |-> InsertarUno(s, p, u[1], u[2])]
<1>1. n \in Nat /\ q \in [S -> X] /\ DOMAIN q = S
  <2>1. Miembros[s] \in Seq(Citas)
    BY JornadaAssumption
  <2> QED
    BY <2>1
<1>3. Insertar(s, p) = it[S]
  BY <1>1 DEF Insertar, FoldLeft, MapThenFoldSet
<1> HIDE DEF n, q
<1>4. F \in [V \X X -> V] /\ \A v \in V, x \in X : F[<<v, x>>] = InsertarUno(s, p, v, x)
  OBVIOUS
<1> HIDE DEF F, X, base
<1>5. \A t \in SUBSET S : t # {} => Max(t) \in S /\ q[Max(t)] \in X
  BY <1>1, MaximoDe
<1>6. E(it)
  <2>1. PICK g \in [SUBSET S -> V] : EsPlegado(g, F, base, q, n)
    BY <1>1, <1>4, PlegadoExiste DEF base
  <2>2. ASSUME NEW t \in SUBSET S
        PROVE  g[t] = IF t = {} THEN base ELSE InsertarUno(s, p, g[t \ {Max(t)}], q[Max(t)])
    BY <1>4, <1>5, <2>1 DEF EsPlegado
  <2>3. E(g)
    BY <2>2
  <2> QED
    BY <2>3
<1> HIDE DEF it
<1>7. SigueEn(it, F, q, n, V)
  <2>1. ASSUME NEW t \in SUBSET S, t # {}, it[t \ {Max(t)}] \in V
        PROVE  it[t] = F[<<it[t \ {Max(t)}], q[Max(t)]>>]
    <3>1. it[t] = InsertarUno(s, p, it[t \ {Max(t)}], q[Max(t)])
      BY <1>6, <2>1
    <3>2. q[Max(t)] \in X
      BY <1>5, <2>1
    <3> QED
      BY <1>4, <2>1, <3>1, <3>2
  <2> QED
    BY <2>1 DEF SigueEn
<1>8. PICK h : Prefijos(h, it, F, base, q, n, V)
  <2>1. it[{}] = base
    BY <1>6
  <2> HIDE DEF S
  <2>2. q \in [1 .. n -> X] /\ n \in Nat /\ base \in V
    BY <1>1 DEF S, base
  <2> QED
    BY <1>4, <1>7, <2>1, <2>2, PlegadoVale
<1> QED
  BY <1>1, <1>3, <1>8 DEF Prefijos

\* The rows a request leaves, whoever serves each member.
LEMMA InsertarBien ==
  ASSUME NEW s \in Solicitudes, NEW p, CitasBien(cita),
         \A k \in DOMAIN Miembros[s] : eleccion[s][k].ini \in Int
  PROVE  CitasBien(Insertar(s, p).filas)
<1> DEFINE B == {cita[c].barbero : c \in Citas} \cup {p[k] : k \in DOMAIN Miembros[s]}
           V == {r \in [motivo : Motivos, filas : [Citas -> Filas0(B)]] : CitasBien(r.filas)}
<1>1. [motivo |-> "ok", filas |-> cita] \in V
  <2>1. \A c \in Citas : cita[c] \in Filas0(B)
    BY DEF CitasBien, CitaBien, Filas0
  <2> DEFINE W == [Citas -> Filas0(B)]
  <2>2. cita \in W
    BY <2>1 DEF CitasBien
  <2> HIDE DEF B, W
  <2>3. /\ [motivo |-> "ok", filas |-> cita] \in [motivo : Motivos, filas : W]
        /\ [motivo |-> "ok", filas |-> cita].filas = cita
    BY <2>2 DEF Motivos
  <2> QED
    BY <2>3 DEF W
<1>2. ASSUME NEW v \in V, NEW k \in DOMAIN Miembros[s] PROVE InsertarUno(s, p, v, k) \in V
  <2>1. p[k] \in B
    OBVIOUS
  <2> HIDE DEF B
  <2> QED
    BY <2>1, InsertarUnoBien
<1> HIDE DEF V
<1>3. Insertar(s, p) \in V
  BY <1>1, <1>2, InsertarEn
<1> QED
  BY <1>3 DEF V

\* One cita more: the rows stay well formed, whether it is put back or refused.
LEMMA RetrasarUnaBien ==
  ASSUME NEW retraso \in Int, NEW d, NEW B,
         NEW r \in [ok : BOOLEAN, filas : [Citas -> Filas0(B)]], CitasBien(r.filas)
  PROVE  /\ RetrasarUna(retraso, r, d) \in [ok : BOOLEAN, filas : [Citas -> Filas0(B)]]
         /\ CitasBien(RetrasarUna(retraso, r, d).filas)
<1> DEFINE x == [r.filas[d] EXCEPT !.ini = @ + retraso, !.fin = @ + retraso]
           choca == Solapa([r.filas EXCEPT ![d].estado = "nueva"], x.barbero, x)
           f == [r.filas EXCEPT ![d] = x]
           u == RetrasarUna(retraso, r, d)
<1>1. u = IF choca THEN [r EXCEPT !.ok = FALSE] ELSE [r EXCEPT !.filas = f]
  BY DEF RetrasarUna
<1>2. r.filas \in [Citas -> Filas0(B)] /\ \A c \in Citas : CitaBien(c, r.filas[c])
  BY DEF CitasBien
<1>3. f \in [Citas -> Filas0(B)] /\ CitasBien(f)
  <2>1. CASE d \notin Citas
    <3>1. f = r.filas
      BY <1>2, <2>1
    <3> QED
      BY <1>2, <3>1
  <2>2. CASE d \in Citas
    <3>1. r.filas[d] \in Filas0(B) /\ CitaBien(d, r.filas[d]) /\ Largo(d) \in Nat
      BY <1>2, <2>2, Duraciones
    <3>2. x \in Filas0(B) /\ CitaBien(d, x)
      <4> DEFINE y == r.filas[d]
      <4>1. y \in Filas0(B) /\ CitaBien(d, y) /\ x = [y EXCEPT !.ini = @ + retraso, !.fin = @ + retraso]
        BY <3>1
      <4> HIDE DEF y, x
      <4>2. x = [estado |-> y.estado, barbero |-> y.barbero, ini |-> y.ini + retraso, fin |-> y.fin + retraso]
        BY <4>1 DEF Filas0
      <4>3. /\ x.estado = y.estado /\ x.barbero = y.barbero
            /\ x.ini = y.ini + retraso /\ x.fin = y.fin + retraso
        BY <4>2
      <4>4. /\ y.ini \in Int /\ y.fin \in Int /\ y.fin <= y.ini + Largo(d) /\ y.estado \in Estados
            /\ y.barbero \in B /\ (y.estado # "nueva" => y.ini < y.fin)
        BY <4>1 DEF Filas0, CitaBien
      <4>5. x \in Filas0(B)
        BY <4>2, <4>4 DEF Filas0
      <4> QED
        BY <3>1, <4>2, <4>3, <4>4, <4>5 DEF CitaBien
    <3> HIDE DEF x
    <3>3. f \in [Citas -> Filas0(B)] /\ \A c \in Citas : f[c] = IF c = d THEN x ELSE r.filas[c]
      BY <1>2, <2>2, <3>2
    <3> HIDE DEF f
    <3> QED
      BY <1>2, <3>2, <3>3 DEF CitasBien
  <2> QED
    BY <2>1, <2>2
<1> HIDE DEF choca, f, u, x
<1>4. u \in [ok : BOOLEAN, filas : [Citas -> Filas0(B)]] /\ CitasBien(u.filas)
  <2>1. CASE choca
    BY <1>1, <2>1
  <2>2. CASE ~choca
    BY <1>1, <1>3, <2>2
  <2> QED
    BY <2>1, <2>2
<1> QED
  BY <1>4 DEF u

\* The queue behind a cita is a list as long as those behind it are many.
LEMMA ColaEs ==
  ASSUME NEW f, NEW c
  PROVE  Cola(f, c) = [k \in 1 .. Cardinality(TrasEl(f, c)) |-> Cola(f, c)[k]]
<1> DEFINE D == TrasEl(f, c)
           antes(d, e) == f[d].ini < f[e].ini
           el(k) == CHOOSE x \in D : Cardinality({y \in D : antes(y, x)}) = k - 1
<1>1. Cola(f, c) = [k \in 1 .. Cardinality(D) |-> el(k)]
  BY DEF Cola, EnOrden
<1> HIDE DEF D, el
<1> QED
  BY <1>1 DEF D

\* What a delay leaves of the rows after each cita of the queue.
Retrasos(h, f, c, retraso, V) ==
    LET n == Cardinality(TrasEl(f, c))
    IN  /\ h \in [0 .. n -> V]
        /\ h[0] = [ok |-> TRUE, filas |-> f] /\ h[n] = Retrasar(f, c, retraso)
        /\ \A k \in 1 .. n : h[k] = RetrasarUna(retraso, h[k - 1], Cola(f, c)[k])

\* A delay moves the citas of the queue one after the other, and stays among the
\* results V that one cita more never leaves.
LEMMA RetrasarEn ==
  ASSUME NEW f, NEW c \in Citas, NEW retraso, NEW V, [ok |-> TRUE, filas |-> f] \in V,
         \A v \in V : \A k \in 1 .. Cardinality(TrasEl(f, c)) :
            RetrasarUna(retraso, v, Cola(f, c)[k]) \in V
  PROVE  \E h : Retrasos(h, f, c, retraso, V)
<1> DEFINE q == Cola(f, c)
           n == Cardinality(TrasEl(f, c))
           S == 1 .. n
           X == {q[k] : k \in S}
           base == [ok |-> TRUE, filas |-> f]
           E(g) == g = [t \in SUBSET S |-> IF t = {} THEN base
                                           ELSE RetrasarUna(retraso, g[t \ {Max(t)}], q[Max(t)])]
           it == CHOOSE g : E(g)
           F == [u \in V \X X |-> RetrasarUna(retraso, u[1], u[2])]
<1>1. n \in Nat /\ q \in [S -> X] /\ DOMAIN q = S
  <2>1. TrasEl(f, c) \in SUBSET Citas
    BY DEF TrasEl
  <2>2. n \in Nat
    BY <2>1, JornadaAssumption, FS_Subset, FS_CardinalityType
  <2>3. q = [k \in S |-> q[k]]
    BY ColaEs
  <2> HIDE DEF q, n
  <2> QED
    BY <2>2, <2>3
<1>3. Retrasar(f, c, retraso) = it[S]
  BY <1>1 DEF Retrasar, FoldLeft, MapThenFoldSet
<1>4. F \in [V \X X -> V] /\ \A v \in V, x \in X : F[<<v, x>>] = RetrasarUna(retraso, v, x)
  <2>1. \A v \in V : \A x \in X : RetrasarUna(retraso, v, x) \in V
    OBVIOUS
  <2> HIDE DEF X
  <2> QED
    BY <2>1
<1> HIDE DEF n, F, X, base, q
<1>5. \A t \in SUBSET S : t # {} => Max(t) \in S /\ q[Max(t)] \in X
  BY <1>1, MaximoDe
<1>6. E(it)
  <2>1. PICK g \in [SUBSET S -> V] : EsPlegado(g, F, base, q, n)
    BY <1>1, <1>4, PlegadoExiste DEF base
  <2>2. ASSUME NEW t \in SUBSET S
        PROVE  g[t] = IF t = {} THEN base ELSE RetrasarUna(retraso, g[t \ {Max(t)}], q[Max(t)])
    BY <1>4, <1>5, <2>1 DEF EsPlegado
  <2>3. E(g)
    BY <2>2
  <2> QED
    BY <2>3
<1> HIDE DEF it
<1>7. SigueEn(it, F, q, n, V)
  <2>1. ASSUME NEW t \in SUBSET S, t # {}, it[t \ {Max(t)}] \in V
        PROVE  it[t] = F[<<it[t \ {Max(t)}], q[Max(t)]>>]
    <3>1. it[t] = RetrasarUna(retraso, it[t \ {Max(t)}], q[Max(t)])
      BY <1>6, <2>1
    <3>2. q[Max(t)] \in X
      BY <1>5, <2>1
    <3> QED
      BY <1>4, <2>1, <3>1, <3>2
  <2> QED
    BY <2>1 DEF SigueEn
<1>8. PICK h : Prefijos(h, it, F, base, q, n, V)
  <2>1. it[{}] = base
    BY <1>6
  <2> HIDE DEF S
  <2>2. q \in [1 .. n -> X] /\ n \in Nat /\ base \in V
    BY <1>1 DEF S, base
  <2> QED
    BY <1>4, <1>7, <2>1, <2>2, PlegadoVale
<1>9. /\ h \in [0 .. n -> V] /\ h[0] = base /\ h[n] = it[S]
      /\ \A k \in 1 .. n : h[k] = F[<<h[k - 1], q[k]>>]
  BY <1>8 DEF Prefijos
<1>10. \A k \in 1 .. n : h[k] = RetrasarUna(retraso, h[k - 1], q[k])
  <2>1. ASSUME NEW k \in 1 .. n PROVE h[k - 1] \in V /\ q[k] \in X
    BY <1>1, <1>9
  <2> QED
    BY <1>4, <1>9, <2>1
<1> QED
  BY <1>3, <1>9, <1>10 DEF Retrasos, n, base, q

\* The rows a delay leaves.
LEMMA RetrasarBien ==
  ASSUME NEW f, CitasBien(f), NEW c \in Citas, NEW retraso \in Int
  PROVE  CitasBien(Retrasar(f, c, retraso).filas)
<1> DEFINE B == {f[d].barbero : d \in Citas}
           V == {r \in [ok : BOOLEAN, filas : [Citas -> Filas0(B)]] : CitasBien(r.filas)}
           n == Cardinality(TrasEl(f, c))
<1>1. [ok |-> TRUE, filas |-> f] \in V
  <2>1. \A d \in Citas : f[d] \in Filas0(B)
    BY DEF CitasBien, CitaBien, Filas0
  <2>2. f \in [Citas -> Filas0(B)]
    BY <2>1 DEF CitasBien
  <2> HIDE DEF B
  <2> QED
    BY <2>2
<1>2. ASSUME NEW v \in V, NEW d PROVE RetrasarUna(retraso, v, d) \in V
  <2> HIDE DEF B
  <2> QED
    BY RetrasarUnaBien
<1> HIDE DEF V
<1>3. PICK h : Retrasos(h, f, c, retraso, V)
  BY <1>1, <1>2, RetrasarEn
<1>4. h \in [0 .. n -> V] /\ h[n] = Retrasar(f, c, retraso) /\ n \in Nat
  <2>1. TrasEl(f, c) \in SUBSET Citas
    BY DEF TrasEl
  <2> QED
    BY <1>3, <2>1, JornadaAssumption, FS_Subset, FS_CardinalityType DEF Retrasos
<1>5. Retrasar(f, c, retraso) \in V
  BY <1>4
<1> QED
  BY <1>5 DEF V

\* A change of state leaves the row of a cita well formed.
LEMMA EstadoBien ==
  ASSUME NEW f, CitasBien(f), NEW c \in Citas, NEW e \in Estados, f[c].estado # "nueva"
  PROVE  CitasBien([f EXCEPT ![c].estado = e])
<1> DEFINE x == f[c]
           y == [estado |-> e, barbero |-> x.barbero, ini |-> x.ini, fin |-> x.fin]
           g == [f EXCEPT ![c].estado = e]
           h == [f EXCEPT ![c] = y]
<1>1. /\ CitaBien(c, x) /\ x.estado # "nueva"
      /\ f = [d \in Citas |-> f[d]] /\ \A d \in Citas : CitaBien(d, f[d])
  BY DEF CitasBien
<1>2. CitaBien(c, y)
  <2> HIDE DEF x
  <2> QED
    BY <1>1 DEF CitaBien
<1>3. x \in Filas0({x.barbero})
  <2> HIDE DEF x
  <2> QED
    BY <1>1 DEF CitaBien, Filas0
<1>4. [x EXCEPT !.estado = e] = y
  <2> HIDE DEF x
  <2> QED
    BY <1>3 DEF Filas0
<1>5. g = h
  BY <1>4
<1> HIDE DEF y, g, x
<1>6. h = [d \in Citas |-> h[d]] /\ \A d \in Citas : h[d] = IF d = c THEN y ELSE f[d]
  BY <1>1
<1> HIDE DEF h
<1>7. CitasBien(h)
  BY <1>1, <1>2, <1>6 DEF CitasBien
<1> QED
  BY <1>5, <1>7 DEF g

\* The sweep of those who did not come leaves the rows well formed, each at its hour.
LEMMA NoShowBien ==
  ASSUME NEW f, CitasBien(f)
  PROVE  CitasBien(TrasNoShow(f)) /\ \A c \in Citas : TrasNoShow(f)[c].ini = f[c].ini
<1> DEFINE g == TrasNoShow(f)
<1>1. ASSUME NEW c \in Citas
      PROVE  CitaBien(c, g[c]) /\ g[c].ini = f[c].ini
  <2> DEFINE x == f[c]
             y == [estado |-> "no_show", barbero |-> x.barbero, ini |-> x.ini, fin |-> x.fin]
  <2>1. CitaBien(c, x)
    BY DEF CitasBien
  <2>2. g[c] = IF x.estado = "confirmada" /\ x.ini + Gracia <= ahora
               THEN [x EXCEPT !.estado = "no_show"] ELSE x
    BY DEF TrasNoShow
  <2> HIDE DEF x, g
  <2>3. x \in Filas0({x.barbero})
    BY <2>1 DEF CitaBien, Filas0
  <2>4. [x EXCEPT !.estado = "no_show"] = y
    BY <2>3 DEF Filas0
  <2>5. x.estado = "confirmada" => CitaBien(c, y) /\ y.ini = x.ini
    BY <2>1 DEF CitaBien, Estados
  <2>6. CitaBien(c, g[c]) /\ g[c].ini = x.ini
    <3> HIDE DEF y
    <3> QED
      BY <2>1, <2>2, <2>4, <2>5
  <2> QED
    BY <2>6 DEF x
<1>2. g = [c \in Citas |-> g[c]]
  BY DEF TrasNoShow
<1> HIDE DEF g
<1>3. CitasBien(g)
  BY <1>1, <1>2 DEF CitasBien
<1> QED
  BY <1>1, <1>3 DEF g

-----------------------------------------------------------------------------
(* What the agenda reads *)

\* What keeps a barber busy is a finite set of stretches.
LEMMA OcupadoBien ==
  ASSUME NEW f, CitasBien(f), BloqueosBien(bloqueos), BloqueosBien(heredados), NEW b
  PROVE  Ocupado(f, b) \in SUBSET Tramos /\ IsFiniteSet(Ocupado(f, b))
<1> DEFINE D == {y \in bloqueos \cup heredados : y.barbero = b}
           K == {d \in Citas : f[d].barbero = b /\ f[d].estado \in Activas}
           u == [x \in D |-> Tramo(x.ini, x.fin)]
           v == [c \in K |-> Tramo(f[c].ini, f[c].ini + Largo(c))]
           U == {u[x] : x \in D}
           V == {v[c] : c \in K}
<1>1. Ocupado(f, b) = U \cup V
  BY DEF Ocupado
<1>2. IsFiniteSet(D) /\ \A x \in D : x.ini \in Int /\ x.fin \in Int
  <2>1. IsFiniteSet(bloqueos \cup heredados)
    BY FS_Union DEF BloqueosBien
  <2>2. IsFiniteSet(D)
    BY <2>1, FS_Subset
  <2> QED
    BY <2>2 DEF BloqueosBien
<1>3. IsFiniteSet(K)
  BY JornadaAssumption, FS_Subset
<1>4. \A c \in K : f[c].ini \in Int /\ f[c].ini + Largo(c) \in Int
  <2>1. ASSUME NEW c \in K PROVE f[c].ini \in Int /\ f[c].ini + Largo(c) \in Int
    <3>1. f[c].ini \in Int /\ Largo(c) \in Nat
      BY Duraciones DEF CitasBien, CitaBien
    <3> QED
      BY <3>1
  <2> QED
    BY <2>1
<1>5. U \in SUBSET Tramos /\ V \in SUBSET Tramos
  <2> HIDE DEF D, K
  <2>1. \A x \in D : u[x] \in Tramos
    BY <1>2 DEF Tramo, Tramos
  <2>2. \A c \in K : v[c] \in Tramos
    BY <1>4 DEF Tramo, Tramos
  <2> HIDE DEF u, v
  <2> QED
    BY <2>1, <2>2
<1>6. IsFiniteSet(U) /\ IsFiniteSet(V)
  <2>1. DOMAIN u = D /\ DOMAIN v = K
    OBVIOUS
  <2> HIDE DEF u, v, D, K
  <2> QED
    BY <1>2, <1>3, <2>1, ImagenFinita
<1> HIDE DEF U, V
<1>7. IsFiniteSet(U \cup V)
  BY <1>6, FS_Union
<1> QED
  BY <1>1, <1>5, <1>7

\* The rows the agenda takes for a barber, his own, published or lent.
LEMMA FilasSonBien ==
  ASSUME JornadaTypeOK, NEW b \in Barberos
  PROVE  FilasBien(Filas(b))
<1> DEFINE C == {d \in Barberos : propio[d] # {}}
           P(d) == \A e \in C : Rango[d] <= Rango[e]
           d0 == CHOOSE d \in C : P(d)
<1>1. /\ publicado # NADA => FilasBien(publicado)
      /\ \A d \in Barberos : FilasBien(propio[d])
      /\ FilasBien(PorDefecto)
  BY CalendarioAssumption DEF JornadaTypeOK
<1>2. ASSUME C # {}
      PROVE  d0 \in Barberos
  <2> DEFINE R == {Rango[d] : d \in C}
  <2>1. R \in SUBSET Nat /\ R # {}
    BY <1>2, JornadaAssumption
  <2>2. PICK m \in R : \A n \in R : m <= n
    BY <2>1, HayMinimo
  <2>3. PICK d \in C : m = Rango[d]
    BY <2>2
  <2>4. P(d)
    BY <2>2, <2>3
  <2>5. d0 \in C
    <3> HIDE DEF P, C
    <3> QED
      BY <2>4
  <2> QED
    BY <2>5
<1>3. Plantilla = IF C = {} THEN PorDefecto ELSE propio[d0]
  BY DEF Plantilla
<1> HIDE DEF d0, C
<1>4. FilasBien(Plantilla)
  BY <1>1, <1>2, <1>3
<1> QED
  BY <1>1, <1>4 DEF Filas

\* The offer of a barber, by what a start is.
LEMMA OfertaEs ==
  ASSUME JornadaTypeOK, NEW f, CitasBien(f), NEW b \in Barberos, NEW largo \in Nat \ {0}
  PROVE  {s.ini : s \in Oferta(f, b, largo)}
         = Arranques({u \in Abre(Filas(b), excepciones) \ Instantes(Ocupado(f, b)) :
                        u >= Piso(ahora)}, largo)
<1>1. FilasBien(Filas(b)) /\ ExcepcionesBien(excepciones) /\ ahora \in Nat
  BY FilasSonBien DEF JornadaTypeOK
<1>2. Ocupado(f, b) \in SUBSET Tramos /\ IsFiniteSet(Ocupado(f, b))
  BY OcupadoBien DEF JornadaTypeOK
<1>3. Oferta(f, b, largo) = TurnosDelDia(Filas(b), excepciones, Ocupado(f, b), largo, ahora)
  BY DEF Oferta
<1> QED
  BY <1>1, <1>2, <1>3, TurnosDelDiaFiel

\* What a calendar opens are instants.
LEMMA AbreEnteros ==
  ASSUME NEW filas, FilasBien(filas), NEW E, ExcepcionesBien(E)
  PROVE  Abre(filas, E) \subseteq Int
<1>1. Separados(ConExcepciones(Base(filas), E)) /\ Instantes(ConExcepciones(Base(filas), E)) = Abre(filas, E)
  BY ExcepcionesFiel
<1> QED
  BY <1>1, InstantesSon DEF Separados

\* The starts that are offered are instants.
LEMMA OfertaEnteros ==
  ASSUME JornadaTypeOK, NEW f, CitasBien(f), NEW b \in Barberos, NEW largo \in Nat \ {0}
  PROVE  {s.ini : s \in Oferta(f, b, largo)} \subseteq Int
<1>1. Abre(Filas(b), excepciones) \subseteq Int
  BY FilasSonBien, AbreEnteros DEF JornadaTypeOK
<1> DEFINE L == {u \in Abre(Filas(b), excepciones) \ Instantes(Ocupado(f, b)) :
                   u >= Piso(ahora)}
<1>2. L \subseteq Int
  BY <1>1
<1>3. {s.ini : s \in Oferta(f, b, largo)} = Arranques(L, largo)
  BY OfertaEs
<1> HIDE DEF L
<1>4. Arranques(L, largo) \subseteq L
  BY DEF Arranques
<1> QED
  BY <1>2, <1>3, <1>4

\* The starts resolveBookingSelection accepts are instants.
LEMMA OpcionesEnteras ==
  ASSUME JornadaTypeOK, NEW f, CitasBien(f), NEW pedido, NEW largo \in Nat \ {0}
  PROVE  DOMAIN Opciones(f, pedido, largo) \subseteq Int
<1> DEFINE D == {d \in Barberos : pedido \in {NADA, d}}
           ofrece == [b \in D |-> {s.ini : s \in Oferta(f, b, largo)}]
<1>1. DOMAIN Opciones(f, pedido, largo) = UNION Range(ofrece)
  BY DEF Opciones
<1>2. \A b \in D : ofrece[b] \subseteq Int
  BY OfertaEnteros
<1>3. DOMAIN ofrece = D
  OBVIOUS
<1> HIDE DEF ofrece
<1> QED
  BY <1>1, <1>2, <1>3 DEF Range

\* A rescheduled cita is well formed, and the others stay where they were.
LEMMA MudanzasBien ==
  ASSUME JornadaTypeOK, NEW f, CitasBien(f), NEW c \in Citas, f[c].estado \in Activas,
         NEW g \in Mudanzas(f, c)
  PROVE  CitasBien(g) /\ \A d \in Citas \ {c} : g[d] = f[d]
<1> DEFINE O(p) == Opciones(f, p, Largo(c))
           e == IF f[c].estado = "en_salon" THEN "confirmada" ELSE f[c].estado
<1>1. PICK p \in Barberos \cup {NADA} : \E t \in DOMAIN O(p) :
        g = [f EXCEPT ![c] = [estado |-> e, barbero |-> O(p)[t][1], ini |-> t, fin |-> t + Dur[c]]]
  BY DEF Mudanzas
<1>2. PICK t \in DOMAIN O(p) :
        g = [f EXCEPT ![c] = [estado |-> e, barbero |-> O(p)[t][1], ini |-> t, fin |-> t + Dur[c]]]
  BY <1>1
<1>3. Dur[c] \in Nat \ {0} /\ Largo(c) \in Nat \ {0} /\ Dur[c] <= Largo(c)
  BY Duraciones
<1>4. t \in Int
  BY <1>3, OpcionesEnteras
<1>5. e \in Estados
  BY DEF Estados, Activas, PorAtender, Pendientes
<1> DEFINE b0 == O(p)[t][1]
           y == [estado |-> e, barbero |-> b0, ini |-> t, fin |-> t + Dur[c]]
<1>6. g = [f EXCEPT ![c] = y]
  BY <1>2
<1> HIDE DEF e, O, b0
<1>7. CitaBien(c, y)
  <2>1. /\ y.estado = e /\ y.ini = t /\ y.fin = t + Dur[c] /\ y.barbero = b0
        /\ y = [estado |-> y.estado, barbero |-> y.barbero, ini |-> y.ini, fin |-> y.fin]
    OBVIOUS
  <2> HIDE DEF y
  <2> QED
    BY <1>3, <1>4, <1>5, <2>1 DEF CitaBien
<1> HIDE DEF y
<1>8. f = [d \in Citas |-> f[d]] /\ \A d \in Citas : CitaBien(d, f[d])
  BY DEF CitasBien
<1>9. g = [d \in Citas |-> g[d]] /\ \A d \in Citas : g[d] = IF d = c THEN y ELSE f[d]
  BY <1>6, <1>8
<1> QED
  BY <1>7, <1>8, <1>9 DEF CitasBien

-----------------------------------------------------------------------------
(* Every operation keeps the tables well formed *)

\* The day begins well formed.
LEMMA TiposAlEmpezar ==
  ASSUME Init
  PROVE  JornadaTypeOK
<1>1. /\ publicado = NADA /\ excepciones = {} /\ bloqueos = {} /\ heredados = Heredados
      /\ cita \in Agendas /\ ahora = 0
      /\ eleccion = [s \in Solicitudes |-> <<>>]
      /\ propio \in [Barberos -> UNION Range(Propios)]
      /\ \A b \in Barberos : propio[b] \in Propios[b]
  BY DEF Init
<1>2. \A b \in Barberos : FilasBien(propio[b])
  BY <1>1, CalendarioAssumption
<1>3. ExcepcionesBien({}) /\ BloqueosBien({})
  BY FS_EmptySet DEF ExcepcionesBien, BloqueosBien
<1>4. BloqueosBien(heredados) /\ CitasBien(cita)
  BY <1>1, CalendarioAssumption
<1>5. propio = [b \in Barberos |-> propio[b]]
  BY <1>1
<1>6. \A s \in Solicitudes : eleccion[s] = <<>>
  BY <1>1
<1>7. eleccion = [s \in Solicitudes |-> eleccion[s]]
  BY <1>1
<1> QED
  BY <1>1, <1>2, <1>3, <1>4, <1>5, <1>6, <1>7 DEF JornadaTypeOK

\* A step that only changes the citas has to keep the citas well formed.
LEMMA CambiaCita ==
  ASSUME JornadaTypeOK, UNCHANGED <<calendario, eleccion, ahora>>, CitasBien(cita')
  PROVE  JornadaTypeOK'
BY DEF JornadaTypeOK, calendario

\* The check finds starts that are instants.
LEMMA ElegirTipos ==
  ASSUME JornadaTypeOK, NEW s \in Solicitudes, Elegir(s)
  PROVE  JornadaTypeOK'
<1> DEFINE M == Miembros[s]
           opciones == [k \in DOMAIN M |-> Opciones(cita, Pide[M[k]], Largo(M[k]))]
           e(h) == [k \in DOMAIN M |-> [ini |-> h[k], barberos |-> opciones[k][h[k]]]]
<1>1. PICK h \in [DOMAIN M -> 0 .. FinDia] : eleccion' = [eleccion EXCEPT ![s] = e(h)]
  BY DEF Elegir
<1>2. UNCHANGED <<calendario, cita, ahora>>
  BY DEF Elegir
<1>3. eleccion = [r \in Solicitudes |-> eleccion[r]]
  BY DEF JornadaTypeOK
<1> DEFINE w == e(h)
<1>4. \A k \in DOMAIN Miembros[s] : w[k].ini \in Int
  BY JornadaAssumption
<1> HIDE DEF e, opciones, w
<1>5. /\ eleccion' = [r \in Solicitudes |-> eleccion'[r]]
      /\ \A r \in Solicitudes : eleccion'[r] = IF r = s THEN w ELSE eleccion[r]
  BY <1>1, <1>3 DEF w
<1> HIDE DEF M
<1>6. \A r \in Solicitudes : \A k \in DOMAIN Miembros[r] :
        eleccion'[r] # <<>> => eleccion'[r][k].ini \in Int
  BY <1>4, <1>5 DEF JornadaTypeOK
<1> QED
  BY <1>2, <1>5, <1>6 DEF JornadaTypeOK, calendario

\* The insertion, or the answer with its error.
LEMMA ReservarTipos ==
  ASSUME JornadaTypeOK, NEW s \in Solicitudes, Reservar(s)
  PROVE  JornadaTypeOK'
<1>1. /\ eleccion[s] # <<>>
      /\ cita' = IF Veredicto(s).motivo = "ok" THEN Veredicto(s).filas ELSE cita
      /\ eleccion' = [eleccion EXCEPT ![s] = <<>>]
      /\ UNCHANGED <<calendario, ahora>>
  BY DEF Reservar
<1>2. CitasBien(cita) /\ \A k \in DOMAIN Miembros[s] : eleccion[s][k].ini \in Int
  BY <1>1 DEF JornadaTypeOK
<1>3. \A p : CitasBien(Insertar(s, p).filas)
  BY <1>2, InsertarBien
<1>4. CitasBien(Veredicto(s).filas)
  <2> DEFINE I == Intentos(eleccion[s])
             decide == {i \in DOMAIN I : Insertar(s, I[i]).motivo # "MF_SLOT_TAKEN"}
             p == I[Min(decide)]
             nada == [motivo |-> "MF_SLOT_TAKEN", filas |-> cita]
  <2>1. Veredicto(s) = IF decide = {} THEN nada ELSE Insertar(s, p)
    BY DEF Veredicto
  <2>2. nada.filas = cita
    OBVIOUS
  <2> HIDE DEF nada, decide, p
  <2> QED
    BY <1>2, <1>3, <2>1, <2>2
<1>5. CitasBien(cita')
  BY <1>1, <1>2, <1>4
<1>6. /\ eleccion' = [r \in Solicitudes |-> eleccion'[r]]
      /\ \A r \in Solicitudes : eleccion'[r] = IF r = s THEN <<>> ELSE eleccion[r]
  BY <1>1 DEF JornadaTypeOK
<1>7. \A r \in Solicitudes : \A k \in DOMAIN Miembros[r] :
        eleccion'[r] # <<>> => eleccion'[r][k].ini \in Int
  BY <1>6 DEF JornadaTypeOK
<1> QED
  BY <1>1, <1>5, <1>6, <1>7 DEF JornadaTypeOK, calendario

\* The changes of state of the chairs.
LEMMA OperarTipos ==
  ASSUME JornadaTypeOK, NEW c \in Citas,
         CambiarEstado(c) \/ RegistrarLlegada(c) \/ Finalizar(c)
  PROVE  JornadaTypeOK'
<1>1. PICK e \in Estados : T[c].estado # "nueva" /\ cita' = [T EXCEPT ![c].estado = e]
  <2>1. CASE CambiarEstado(c)
    <3>1. PICK e \in Permitidas(T[c].estado) : cita' = [T EXCEPT ![c].estado = e]
      BY <2>1 DEF CambiarEstado
    <3> HIDE DEF T
    <3>2. T[c].estado # "nueva" /\ e \in Estados
      BY DEF Permitidas, Estados, Activas, PorAtender, Pendientes
    <3> QED
      BY <3>1, <3>2
  <2>2. CASE RegistrarLlegada(c) \/ Finalizar(c)
    <3>1. {"en_salon", "completada"} \subseteq Estados
      BY DEF Estados, Activas, PorAtender
    <3> QED
      BY <2>2, <3>1 DEF RegistrarLlegada, Finalizar
  <2> QED
    BY <2>1, <2>2
<1>2. CitasBien(T)
  BY NoShowBien DEF T, JornadaTypeOK
<1>3. CitasBien(cita')
  <2> HIDE DEF T
  <2> QED
    BY <1>1, <1>2, EstadoBien
<1>4. UNCHANGED <<calendario, eleccion, ahora>>
  BY DEF CambiarEstado, RegistrarLlegada, Finalizar
<1> QED
  BY <1>3, <1>4, CambiaCita

\* The start of an attention, with the delay it passes on.
LEMMA IniciarTipos ==
  ASSUME JornadaTypeOK, NEW c \in Citas, Iniciar(c)
  PROVE  JornadaTypeOK'
<1> DEFINE f == [T EXCEPT ![c].estado = "en_atencion"]
           r == Retrasar(f, c, Retraso(c))
<1>1. /\ T[c].estado = "en_salon" /\ UNCHANGED <<calendario, eleccion, ahora>>
      /\ cita' = f \/ cita' = r.filas
  BY DEF Iniciar
<1>2. CitasBien(T) /\ T[c].ini \in Int
  BY NoShowBien DEF T, JornadaTypeOK, CitasBien, CitaBien
<1>3. Retraso(c) \in Int
  <2>1. ahora - T[c].ini \in Int
    BY <1>2 DEF JornadaTypeOK
  <2> QED
    BY <2>1, MaxDos DEF Retraso
<1>4. CitasBien(f)
  <2>1. "en_atencion" \in Estados
    BY DEF Estados, Activas
  <2> HIDE DEF T
  <2> QED
    BY <1>1, <1>2, <2>1, EstadoBien
<1> HIDE DEF f
<1>5. CitasBien(r.filas)
  BY <1>3, <1>4, RetrasarBien
<1> HIDE DEF r
<1> QED
  BY <1>1, <1>4, <1>5, CambiaCita

\* The emergency rescheduling of one cita.
LEMMA ReagendarTipos ==
  ASSUME JornadaTypeOK, NEW c \in Citas, Reagendar(c)
  PROVE  JornadaTypeOK'
<1>1. T[c].estado \in Activas /\ cita' \in Mudanzas(T, c) /\ UNCHANGED <<calendario, eleccion, ahora>>
  BY DEF Reagendar
<1>2. CitasBien(T)
  BY NoShowBien DEF T, JornadaTypeOK
<1>3. CitasBien(cita')
  <2> HIDE DEF T
  <2> QED
    BY <1>1, <1>2, MudanzasBien
<1> QED
  BY <1>1, <1>3, CambiaCita

\* The emergency rescheduling of two: the second is checked against the table with
\* the first moved.
LEMMA ReagendarLoteTipos ==
  ASSUME JornadaTypeOK, NEW c \in Citas, NEW d \in Citas, ReagendarLote(c, d)
  PROVE  JornadaTypeOK'
<1>1. /\ c # d /\ T[c].estado \in Activas /\ T[d].estado \in Activas
      /\ \E f \in Mudanzas(T, c) : cita' \in Mudanzas(f, d)
      /\ UNCHANGED <<calendario, eleccion, ahora>>
  BY DEF ReagendarLote
<1>2. CitasBien(T)
  BY NoShowBien DEF T, JornadaTypeOK
<1>3. CitasBien(cita')
  <2> HIDE DEF T
  <2>1. PICK f \in Mudanzas(T, c) : cita' \in Mudanzas(f, d)
    BY <1>1
  <2>2. CitasBien(f) /\ f[d] = T[d]
    BY <1>1, <1>2, MudanzasBien
  <2> QED
    BY <1>1, <2>1, <2>2, MudanzasBien
<1> QED
  BY <1>1, <1>3, CambiaCita

\* The changes of the calendar.
LEMMA CalendarioTipos ==
  ASSUME JornadaTypeOK,
         \/ PublicarHorario \/ (\E b \in Barberos : PonerHorario(b) \/ CrearBloqueo(b))
         \/ BorrarBloqueo \/ CrearExcepcion \/ BorrarExcepcion
  PROVE  JornadaTypeOK'
<1>1. CASE PublicarHorario
  <2>1. FilasBien(publicado') /\ UNCHANGED <<propio, excepciones, bloqueos, heredados, cita, eleccion, ahora>>
    BY <1>1, CalendarioAssumption DEF PublicarHorario
  <2> QED
    BY <2>1 DEF JornadaTypeOK
<1>2. ASSUME NEW b \in Barberos, PonerHorario(b)
      PROVE  JornadaTypeOK'
  <2>1. PICK filas \in Propios[b] : propio' = [propio EXCEPT ![b] = filas]
    BY <1>2 DEF PonerHorario
  <2>2. FilasBien(filas)
    BY CalendarioAssumption
  <2>3. /\ propio' = [a \in Barberos |-> propio'[a]]
        /\ \A a \in Barberos : propio'[a] = IF a = b THEN filas ELSE propio[a]
    BY <2>1 DEF JornadaTypeOK
  <2>4. UNCHANGED <<publicado, excepciones, bloqueos, heredados, cita, eleccion, ahora>>
    BY <1>2 DEF PonerHorario
  <2> QED
    BY <2>2, <2>3, <2>4 DEF JornadaTypeOK
<1>3. ASSUME NEW b \in Barberos, CrearBloqueo(b)
      PROVE  JornadaTypeOK'
  <2>1. PICK x \in Bloqueables :
          bloqueos' = bloqueos \cup {[barbero |-> b, ini |-> x.ini, fin |-> x.fin]}
    BY <1>3 DEF CrearBloqueo
  <2>2. x.ini \in Int /\ x.fin \in Int /\ x.ini < x.fin
    BY CalendarioAssumption DEF BloqueosBien
  <2> DEFINE y == [barbero |-> b, ini |-> x.ini, fin |-> x.fin]
  <2>3. y.ini \in Int /\ y.fin \in Int /\ y.ini < y.fin
    BY <2>2
  <2>4. bloqueos' = bloqueos \cup {y}
    BY <2>1
  <2> HIDE DEF y
  <2>5. IsFiniteSet(bloqueos')
    BY <2>4, FS_AddElement DEF JornadaTypeOK, BloqueosBien
  <2>6. BloqueosBien(bloqueos')
    BY <2>3, <2>4, <2>5 DEF JornadaTypeOK, BloqueosBien
  <2>7. UNCHANGED <<publicado, propio, excepciones, heredados, cita, eleccion, ahora>>
    BY <1>3 DEF CrearBloqueo
  <2> QED
    BY <2>6, <2>7 DEF JornadaTypeOK
<1>4. CASE BorrarBloqueo
  <2>1. PICK x : /\ bloqueos' = bloqueos \ {x} \/ UNCHANGED bloqueos
                 /\ heredados' = heredados \ {x} \/ UNCHANGED heredados
    BY <1>4 DEF BorrarBloqueo
  <2>2. \A B : BloqueosBien(B) => BloqueosBien(B \ {x})
    BY FS_RemoveElement DEF BloqueosBien
  <2>3. BloqueosBien(bloqueos') /\ BloqueosBien(heredados')
    BY <2>1, <2>2 DEF JornadaTypeOK
  <2>4. UNCHANGED <<publicado, propio, excepciones, cita, eleccion, ahora>>
    BY <1>4 DEF BorrarBloqueo
  <2> QED
    BY <2>3, <2>4 DEF JornadaTypeOK
<1>5. CASE CrearExcepcion
  <2>1. PICK e \in Excepcionales : excepciones' = excepciones \cup {e}
    BY <1>5 DEF CrearExcepcion
  <2>2. ExcepcionesBien(excepciones) /\ ExcepcionesBien({e})
    BY CalendarioAssumption DEF JornadaTypeOK
  <2>3. ExcepcionesBien(excepciones')
    BY <2>1, <2>2, FS_AddElement DEF ExcepcionesBien
  <2>4. UNCHANGED <<publicado, propio, bloqueos, heredados, cita, eleccion, ahora>>
    BY <1>5 DEF CrearExcepcion
  <2> QED
    BY <2>3, <2>4 DEF JornadaTypeOK
<1>6. CASE BorrarExcepcion
  <2>1. PICK e : excepciones' = excepciones \ {e}
    BY <1>6 DEF BorrarExcepcion
  <2>2. ExcepcionesBien(excepciones')
    BY <2>1, FS_RemoveElement DEF JornadaTypeOK, ExcepcionesBien
  <2>3. UNCHANGED <<publicado, propio, bloqueos, heredados, cita, eleccion, ahora>>
    BY <1>6 DEF BorrarExcepcion
  <2> QED
    BY <2>2, <2>3 DEF JornadaTypeOK
<1> QED
  BY <1>1, <1>2, <1>3, <1>4, <1>5, <1>6

\* The tables of the day stay well formed through every operation: what no list of
\* the agenda is prepared for (an empty block, a row of no length, a cita longer than
\* its service) is never written.
THEOREM JornadaTipos == Spec => []JornadaTypeOK
<1>1. Init => JornadaTypeOK
  BY TiposAlEmpezar
<1>2. JornadaTypeOK /\ [Next]_vars => JornadaTypeOK'
  <2> SUFFICES ASSUME JornadaTypeOK, [Next]_vars
               PROVE  JornadaTypeOK'
    OBVIOUS
  <2>1. ASSUME NEW s \in Solicitudes, Elegir(s) \/ Reservar(s)
        PROVE  JornadaTypeOK'
    BY <2>1, ElegirTipos, ReservarTipos
  <2>2. CASE Consultar
    <3>1. CitasBien(cita') /\ UNCHANGED <<calendario, eleccion, ahora>>
      BY <2>2, NoShowBien DEF Consultar, T, JornadaTypeOK
    <3> QED
      BY <3>1, CambiaCita
  <2>3. ASSUME NEW c \in Citas,
               CambiarEstado(c) \/ RegistrarLlegada(c) \/ Finalizar(c)
        PROVE  JornadaTypeOK'
    BY <2>3, OperarTipos
  <2>4. ASSUME NEW c \in Citas, Iniciar(c) \/ Reagendar(c)
        PROVE  JornadaTypeOK'
    BY <2>4, IniciarTipos, ReagendarTipos
  <2>5. ASSUME NEW c \in Citas, NEW d \in Citas, ReagendarLote(c, d)
        PROVE  JornadaTypeOK'
    BY <2>5, ReagendarLoteTipos
  <2>6. CASE \/ PublicarHorario \/ (\E b \in Barberos : PonerHorario(b) \/ CrearBloqueo(b))
             \/ BorrarBloqueo \/ CrearExcepcion \/ BorrarExcepcion
    BY <2>6, CalendarioTipos
  <2>7. CASE PasarTiempo
    BY <2>7 DEF PasarTiempo, JornadaTypeOK, calendario
  <2>8. CASE UNCHANGED vars
    BY <2>8 DEF vars, JornadaTypeOK, calendario
  <2> QED
    BY <2>1, <2>2, <2>3, <2>4, <2>5, <2>6, <2>7, <2>8 DEF Next
<1> QED
  BY <1>1, <1>2, PTL DEF Spec

-----------------------------------------------------------------------------
(* The offer is exact *)

\* The starts that are offered are the ones the instants leave, by OfertaEs.
LEMMA OfertaJusta ==
  ASSUME JornadaTypeOK
  PROVE  OfertaExacta
<1> DEFINE L(b) == {u \in Abierto(b) \ Instantes(Ocupado(cita, b)) : u >= Piso(ahora)}
<1>1. ASSUME NEW b \in Barberos, NEW largo \in Largos
      PROVE  {s.ini : s \in Oferta(cita, b, largo)} = Arranques(L(b), largo)
  <2>1. largo \in Nat \ {0}
    BY Duraciones DEF Largos
  <2>2. Abierto(b) = Abre(Filas(b), excepciones)
    BY DEF Abierto, Abre, DeFila
  <2>3. CitasBien(cita)
    BY DEF JornadaTypeOK
  <2> QED
    BY <2>1, <2>2, <2>3, OfertaEs
<1> HIDE DEF L
<1>2. \A b \in Barberos : \A largo \in Largos :
        {s.ini : s \in Oferta(cita, b, largo)} = Arranques(L(b), largo)
  BY <1>1
<1> QED
  BY <1>2 DEF OfertaExacta, L, Arranques

\* For every calendar, whatever is busy and at any hour, the agenda offers exactly
\* the starts on the step that are open, free and to come and leave nothing too short
\* to sell: merging, cutting and trimming lists of stretches never loses an instant,
\* never offers one twice and never joins two gaps.
THEOREM JornadaOfertaExacta == Spec => []OfertaExacta
<1>1. JornadaTypeOK => OfertaExacta
  BY OfertaJusta
<1> QED
  BY <1>1, JornadaTipos, PTL

-----------------------------------------------------------------------------
(* The offer can be reserved *)

\* Two stretches that overlap, neither empty, share an instant.
LEMMA ChocanSi ==
  ASSUME NEW x, x.ini \in Int, x.fin \in Int, x.ini < x.fin,
         NEW y, y.ini \in Int, y.fin \in Int, y.ini < y.fin, Chocan(x, y)
  PROVE  \E t \in x.ini .. x.fin - 1 : En(t, y)
<1> DEFINE t == IF x.ini >= y.ini THEN x.ini ELSE y.ini
<1>1. t \in x.ini .. x.fin - 1 /\ En(t, y)
  BY DEF Chocan, En
<1> QED
  BY <1>1

\* An instant of a row is in it and not in its lunch.
LEMMA EnFila ==
  ASSUME NEW filas, FilasBien(filas), NEW f \in filas, NEW t
  PROVE  t \in DeFila(f) =>
           t \in Int /\ En(t, f) /\ (f.almuerzo = NADA \/ ~En(t, f.almuerzo))
<1>1. f.ini \in Int /\ f.fin \in Int /\ (f.almuerzo # NADA => f.almuerzo.ini \in Int /\ f.almuerzo.fin \in Int)
  BY DEF FilasBien, Tramos
<1>2. \A x : Instantes({x}) = x.ini .. x.fin - 1
  BY DEF Instantes
<1> SUFFICES ASSUME t \in DeFila(f)
             PROVE  t \in Int /\ En(t, f) /\ (f.almuerzo = NADA \/ ~En(t, f.almuerzo))
  OBVIOUS
<1>3. t \in Instantes({f}) /\ (f.almuerzo # NADA => t \notin Instantes({f.almuerzo}))
  BY DEF DeFila
<1>4. t \in Int /\ En(t, f)
  BY <1>1, <1>2, <1>3 DEF En
<1>5. f.almuerzo # NADA => ~En(t, f.almuerzo)
  BY <1>1, <1>2, <1>3, <1>4 DEF En
<1> QED
  BY <1>4, <1>5

\* What a schedule without exceptions over it opens for the whole of a service, and
\* the SQL refuses.
Rehusa(x, filas) ==
    \/ \E f, g \in filas : f # g /\ Chocan(x, f) /\ Chocan(x, g)
    \/ \E f \in filas : /\ f.almuerzo # NADA /\ Chocan(x, f.almuerzo)
                        /\ f.almuerzo.fin <= f.almuerzo.ini

\* When every instant of a service is in a row, and it lies in one and meets no lunch
\* that ends before it begins, the SQL finds the row it fits in.
LEMMA CabeSinDudas ==
  ASSUME NEW filas, FilasBien(filas), NEW x, x.ini \in Int, x.fin \in Int, x.ini < x.fin,
         \A t \in x.ini .. x.fin - 1 : \E f \in filas : t \in DeFila(f),
         ~Rehusa(x, filas)
  PROVE  Cabe(x, filas)
<1>1. \A f \in filas : f.ini \in Int /\ f.fin \in Int /\ f.ini < f.fin
  BY DEF FilasBien
<1>2. PICK f \in filas : x.ini \in DeFila(f)
  <2>1. x.ini \in x.ini .. x.fin - 1
    OBVIOUS
  <2> QED
    BY <2>1
<1>3. ASSUME NEW t \in x.ini .. x.fin - 1
      PROVE  En(t, f) /\ (f.almuerzo = NADA \/ ~En(t, f.almuerzo))
  <2>1. PICK g \in filas : t \in DeFila(g)
    OBVIOUS
  <2>2. En(t, g) /\ En(x.ini, f)
    BY <1>2, <2>1, EnFila
  <2>3. Chocan(x, g) /\ Chocan(x, f)
    BY <1>1, <2>2 DEF Chocan, En
  <2>4. g = f
    BY <2>3 DEF Rehusa
  <2> QED
    BY <2>1, <2>4, EnFila
<1>4. Dentro(x, f)
  <2>1. En(x.ini, f) /\ En(x.fin - 1, f)
    BY <1>3
  <2> QED
    BY <1>1, <2>1 DEF Dentro, En
<1>5. f.almuerzo = NADA \/ ~Chocan(x, f.almuerzo)
  <2> SUFFICES ASSUME f.almuerzo # NADA, Chocan(x, f.almuerzo)
               PROVE  FALSE
    OBVIOUS
  <2>1. f.almuerzo.ini \in Int /\ f.almuerzo.fin \in Int
    BY DEF FilasBien, Tramos
  <2>2. f.almuerzo.ini < f.almuerzo.fin
    BY <2>1 DEF Rehusa
  <2>3. PICK t \in x.ini .. x.fin - 1 : En(t, f.almuerzo)
    BY <2>1, <2>2, ChocanSi
  <2> QED
    BY <1>3, <2>3
<1> QED
  BY <1>4, <1>5 DEF Cabe

\* The legacy blocks and the rows of the live citas are among what keeps a barber busy:
\* a cita lasts no longer than its service.
LEMMA OcupadoCubre ==
  ASSUME JornadaTypeOK, NEW f, CitasBien(f), NEW b, NEW t \in Int
  PROVE  /\ \A y \in heredados : y.barbero = b /\ En(t, y) => t \in Instantes(Ocupado(f, b))
         /\ \A c \in Citas : f[c].barbero = b /\ f[c].estado \in Activas /\ En(t, f[c])
                             => t \in Instantes(Ocupado(f, b))
<1> DEFINE O == Ocupado(f, b)
<1>1. O \in SUBSET Tramos
  BY OcupadoBien DEF JornadaTypeOK
<1>2. \A z \in O : En(t, z) => t \in Instantes(O)
  <2> HIDE DEF O
  <2> QED
    BY <1>1, InstantesSon
<1>3. ASSUME NEW y \in heredados, y.barbero = b, En(t, y)
      PROVE  t \in Instantes(O)
  <2>1. Tramo(y.ini, y.fin) \in O
    BY <1>3 DEF Ocupado
  <2>2. En(t, Tramo(y.ini, y.fin))
    BY <1>3 DEF En, Tramo
  <2> HIDE DEF O
  <2> QED
    BY <1>2, <2>1, <2>2
<1>4. ASSUME NEW c \in Citas, f[c].barbero = b, f[c].estado \in Activas, En(t, f[c])
      PROVE  t \in Instantes(O)
  <2>1. Tramo(f[c].ini, f[c].ini + Largo(c)) \in O
    BY <1>4 DEF Ocupado
  <2>2. CitaBien(c, f[c]) /\ Largo(c) \in Nat
    BY Duraciones DEF CitasBien
  <2>3. En(t, Tramo(f[c].ini, f[c].ini + Largo(c)))
    BY <1>4, <2>2 DEF En, Tramo, CitaBien
  <2> HIDE DEF O
  <2> QED
    BY <1>2, <2>1, <2>3
<1> QED
  BY <1>3, <1>4

\* What no exception opens is opened by a row.
LEMMA AbreSinExcepcion ==
  ASSUME NEW filas, FilasBien(filas), NEW E, ExcepcionesBien(E),
         NEW x, x.ini \in Int, x.fin \in Int, x.ini < x.fin,
         x.ini .. x.fin - 1 \subseteq Abre(filas, E),
         ~\E e \in E : /\ e.modo \in {"horario_especial", "apertura_extra"}
                       /\ \E y \in e.tramos : Chocan(x, y)
  PROVE  \A t \in x.ini .. x.fin - 1 : \E f \in filas : t \in DeFila(f)
<1>1. ASSUME NEW modo \in {"horario_especial", "apertura_extra"}, NEW t \in x.ini .. x.fin - 1
      PROVE  t \notin Instantes(TramosDe(E, modo))
  <2>1. SUFFICES ASSUME t \in Instantes(TramosDe(E, modo)) PROVE FALSE
    OBVIOUS
  <2>2. TramosDe(E, modo) \in SUBSET Tramos
    BY TramosDeEs
  <2>3. PICK y \in TramosDe(E, modo) : En(t, y)
    BY <2>1, <2>2, InstantesSon
  <2>4. PICK e \in E : e.modo = modo /\ y \in e.tramos
    BY DEF TramosDe
  <2>5. y.ini \in Int /\ y.fin \in Int
    BY <2>2 DEF Tramos
  <2>6. Chocan(x, y)
    BY <2>3, <2>5 DEF Chocan, En
  <2> QED
    BY <2>4, <2>6
<1> DEFINE especial == Instantes(TramosDe(E, "horario_especial"))
           extra == Instantes(TramosDe(E, "apertura_extra"))
           U == UNION {DeFila(f) : f \in filas}
<1>2. \A t \in Abre(filas, E) :
        t \in especial \/ t \in extra \/ t \in U
  BY DEF Abre
<1>3. \A t \in x.ini .. x.fin - 1 : t \notin especial /\ t \notin extra
  BY <1>1
<1> HIDE DEF especial, extra
<1> QED
  BY <1>2, <1>3

\* An offered start is open, free and to come at each of its instants, so that the
\* function can only refuse it by the clock or by the schedule.
LEMMA OfertaSeReserva ==
  ASSUME JornadaTypeOK
  PROVE  OfertaReservable
<1> SUFFICES ASSUME NEW b \in Barberos, NEW largo \in Largos, NEW s \in Oferta(cita, b, largo)
             PROVE  LET x == Tramo(s.ini, s.ini + largo)
                        v == Validar(cita, b, x)
                    IN  /\ v \notin {"MF_SLOT_BLOCKED", "MF_SLOT_TAKEN"}
                        /\ v = "MF_RESERVA_INICIO_EN_PASADO" => s.ini = ahora
                        /\ v = "MF_SLOT_OUTSIDE_SCHEDULE" =>
                             \/ \E e \in excepciones :
                                  /\ e.modo \in {"horario_especial", "apertura_extra"}
                                  /\ \E y \in e.tramos : Chocan(x, y)
                             \/ \E f, g \in Filas(b) : f # g /\ Chocan(x, f) /\ Chocan(x, g)
                             \/ \E f \in Filas(b) : /\ f.almuerzo # NADA /\ Chocan(x, f.almuerzo)
                                                    /\ f.almuerzo.fin <= f.almuerzo.ini
  BY DEF OfertaReservable
<1> DEFINE x == Tramo(s.ini, s.ini + largo)
           v == Validar(cita, b, x)
           filas == Filas(b)
           abierto == Abre(filas, excepciones)
           ocupado == Instantes(Ocupado(cita, b))
           L == {u \in abierto \ ocupado : u >= Piso(ahora)}
           extra == \E e \in excepciones : /\ e.modo \in {"horario_especial", "apertura_extra"}
                                           /\ \E y \in e.tramos : Chocan(x, y)
<1>1. largo \in Nat \ {0} /\ CitasBien(cita) /\ ahora \in Nat /\ BloqueosBien(heredados)
      /\ FilasBien(filas) /\ ExcepcionesBien(excepciones)
  BY Duraciones, FilasSonBien DEF Largos, JornadaTypeOK
<1>2. s.ini \in Arranques(L, largo)
  BY <1>1, OfertaEs
<1>3. abierto \subseteq Int
  BY <1>1, AbreEnteros
<1>4. /\ s.ini \in Int /\ s.ini >= Piso(ahora)
      /\ s.ini .. s.ini + largo - 1 \subseteq abierto
      /\ \A t \in s.ini .. s.ini + largo - 1 : t \notin ocupado
  <2> HIDE DEF abierto, ocupado
  <2> QED
    BY <1>2, <1>3 DEF Arranques
<1>5. s.ini >= ahora
  BY <1>1, <1>4, PisoEs
<1>6. x.ini = s.ini /\ x.fin = s.ini + largo
  BY DEF Tramo
<1> HIDE DEF x, abierto, ocupado, filas
<1>7. x.ini \in Int /\ x.fin \in Int /\ x.ini < x.fin
  BY <1>1, <1>4, <1>6
<1>8. x.ini .. x.fin - 1 \subseteq abierto /\ \A t \in x.ini .. x.fin - 1 : t \in Int /\ t \notin ocupado
  <2>1. x.ini = s.ini /\ x.fin - 1 = s.ini + largo - 1
    <3>1. s.ini \in Int /\ largo \in Int
      BY <1>1, <1>4
    <3> QED
      BY <1>6, <3>1
  <2>2. \A t \in s.ini .. s.ini + largo - 1 : t \in Int
    OBVIOUS
  <2> QED
    BY <1>4, <2>1, <2>2
<1>c. ASSUME NEW t \in Int
      PROVE  /\ \A y \in heredados : y.barbero = b /\ En(t, y) => t \in ocupado
             /\ \A c \in Citas : cita[c].barbero = b /\ cita[c].estado \in Activas /\ En(t, cita[c])
                                 => t \in ocupado
  BY <1>1, OcupadoCubre DEF ocupado
<1>9. ~\E y \in heredados : y.barbero = b /\ Chocan(x, y)
  <2> SUFFICES ASSUME NEW y \in heredados, y.barbero = b, Chocan(x, y) PROVE FALSE
    OBVIOUS
  <2>1. PICK t \in x.ini .. x.fin - 1 : En(t, y)
    BY <1>1, <1>7, ChocanSi DEF BloqueosBien
  <2> QED
    BY <1>8, <1>c, <2>1
<1>10. ~Solapa(cita, b, x)
  <2> SUFFICES ASSUME NEW c \in Citas, cita[c].barbero = b, cita[c].estado \in Activas,
                      Chocan(cita[c], x)
               PROVE  FALSE
    BY DEF Solapa
  <2>1. CitaBien(c, cita[c]) /\ cita[c].estado # "nueva"
    BY <1>1 DEF CitasBien, Activas, PorAtender, Pendientes
  <2>2. cita[c].ini \in Int /\ cita[c].fin \in Int /\ cita[c].ini < cita[c].fin
    BY <2>1 DEF CitaBien
  <2>3. Chocan(x, cita[c])
    BY DEF Chocan
  <2>4. PICK t \in x.ini .. x.fin - 1 : En(t, cita[c])
    BY <1>7, <2>2, <2>3, ChocanSi
  <2> QED
    BY <1>8, <1>c, <2>4
<1>11. ~EnHorario(b, x) => extra \/ Rehusa(x, filas)
  <2>1. EnHorario(b, x) <=> Cabe(x, filas)
    BY DEF EnHorario, Filas, filas
  <2>2. SUFFICES ASSUME ~extra, ~Rehusa(x, filas) PROVE Cabe(x, filas)
    BY <2>1
  <2>3. \A t \in x.ini .. x.fin - 1 : \E f \in filas : t \in DeFila(f)
    BY <1>1, <1>7, <1>8, <2>2, AbreSinExcepcion DEF abierto
  <2> QED
    BY <1>1, <1>7, <2>2, <2>3, CabeSinDudas
<1>12. v = IF x.ini <= ahora THEN "MF_RESERVA_INICIO_EN_PASADO"
           ELSE IF ~EnHorario(b, x) THEN "MF_SLOT_OUTSIDE_SCHEDULE" ELSE "ok"
  BY <1>9, <1>10 DEF Validar
<1> HIDE DEF v, extra
<1>13. /\ v \notin {"MF_SLOT_BLOCKED", "MF_SLOT_TAKEN"}
       /\ v = "MF_RESERVA_INICIO_EN_PASADO" => s.ini = ahora
       /\ v = "MF_SLOT_OUTSIDE_SCHEDULE" => extra \/ Rehusa(x, filas)
  BY <1>1, <1>4, <1>5, <1>6, <1>11, <1>12
<1> QED
  BY <1>13 DEF v, x, extra, filas, Rehusa

\* For every calendar and whatever is busy, the SQL function never answers that a start
\* the pages offer is blocked or taken, and refuses it for the hour or the schedule only
\* in the cases the property names, though it looks everything up by itself.
THEOREM JornadaOfertaReservable == Spec => []OfertaReservable
<1>1. JornadaTypeOK => OfertaReservable
  BY OfertaSeReserva
<1> QED
  BY <1>1, JornadaTipos, PTL

-----------------------------------------------------------------------------
(* The citas of a barber stay apart *)

\* A row that meets no live cita of its barber can be put in the place of another.
LEMMA PonerAparte ==
  ASSUME NEW f, f = [d \in Citas |-> f[d]], Apartadas(f), NEW c \in Citas, NEW y,
         \A d \in Citas \ {c} : f[d].barbero = y.barbero /\ f[d].estado \in Activas
                                => ~Chocan(f[d], y)
  PROVE  Apartadas([f EXCEPT ![c] = y])
<1> DEFINE g == [f EXCEPT ![c] = y]
<1>1. \A d \in Citas : g[d] = IF d = c THEN y ELSE f[d]
  OBVIOUS
<1> HIDE DEF g
<1>2. ASSUME NEW d \in Citas, NEW e \in Citas, d # e, g[d].barbero = g[e].barbero,
             {g[d].estado, g[e].estado} \subseteq Activas, Chocan(g[d], g[e])
      PROVE  FALSE
  <2>1. \A x, z : Chocan(x, z) <=> Chocan(z, x)
    BY DEF Chocan
  <2> QED
    BY <1>1, <1>2, <2>1 DEF Apartadas
<1> QED
  BY <1>2 DEF Apartadas, g

\* Where no cita moves and none comes back, they stay apart.
LEMMA MismoLugar ==
  ASSUME NEW f, NEW g, Apartadas(f),
         \A c \in Citas : /\ g[c].barbero = f[c].barbero /\ g[c].ini = f[c].ini /\ g[c].fin = f[c].fin
                          /\ g[c].estado \in Activas => f[c].estado \in Activas
  PROVE  Apartadas(g)
<1>1. \A c, d \in Citas : Chocan(g[c], g[d]) <=> Chocan(f[c], f[d])
  BY DEF Chocan
<1> QED
  BY <1>1 DEF Apartadas

\* Two live citas of a barber begin at different times.
LEMMA InicioPropio ==
  ASSUME NEW f, CitasBien(f), Apartadas(f), NEW c \in Citas, NEW d \in Citas,
         f[c].barbero = f[d].barbero, {f[c].estado, f[d].estado} \subseteq Activas,
         f[c].ini = f[d].ini
  PROVE  c = d
<1>1. CitaBien(c, f[c]) /\ CitaBien(d, f[d]) /\ "nueva" \notin Activas
  BY DEF CitasBien, Activas, PorAtender, Pendientes
<1>2. Chocan(f[c], f[d])
  BY <1>1 DEF CitaBien, Chocan
<1> QED
  BY <1>2 DEF Apartadas

\* A row is a record of the four columns.
LEMMA FilaEs ==
  ASSUME NEW f, CitasBien(f), NEW c \in Citas
  PROVE  /\ f[c] = [estado |-> f[c].estado, barbero |-> f[c].barbero,
                    ini |-> f[c].ini, fin |-> f[c].fin]
         /\ f = [d \in Citas |-> f[d]]
BY DEF CitasBien, CitaBien

\* A change of state, of a cita that is in the agenda.
LEMMA EstadoAparte ==
  ASSUME NEW f, CitasBien(f), Apartadas(f), NEW c \in Citas, NEW e,
         e \in Activas => f[c].estado \in Activas
  PROVE  LET g == [f EXCEPT ![c].estado = e]
         IN  /\ Apartadas(g)
             /\ \A d \in Citas : /\ g[d].ini = f[d].ini /\ g[d].fin = f[d].fin
                                 /\ g[d].barbero = f[d].barbero
                                 /\ g[d].estado = IF d = c THEN e ELSE f[d].estado
<1> DEFINE g == [f EXCEPT ![c].estado = e]
           x == f[c]
           y == [estado |-> e, barbero |-> x.barbero, ini |-> x.ini, fin |-> x.fin]
<1>1. /\ x = [estado |-> x.estado, barbero |-> x.barbero, ini |-> x.ini, fin |-> x.fin]
      /\ f = [d \in Citas |-> f[d]]
  BY FilaEs
<1>2. [x EXCEPT !.estado = e] = y
  <2> HIDE DEF x
  <2> QED
    BY <1>1
<1>3. \A d \in Citas : g[d] = IF d = c THEN y ELSE f[d]
  BY <1>1, <1>2
<1>4. y.estado = e /\ y.barbero = x.barbero /\ y.ini = x.ini /\ y.fin = x.fin
  OBVIOUS
<1> HIDE DEF g, y
<1>5. \A d \in Citas : /\ g[d].ini = f[d].ini /\ g[d].fin = f[d].fin
                       /\ g[d].barbero = f[d].barbero
                       /\ g[d].estado = IF d = c THEN e ELSE f[d].estado
  BY <1>3, <1>4 DEF x
<1>6. Apartadas(g)
  BY <1>5, MismoLugar
<1> QED
  BY <1>5, <1>6 DEF g

\* The sweep of those who did not come.
LEMMA NoShowAparte ==
  ASSUME NEW f, CitasBien(f), Apartadas(f)
  PROVE  LET g == TrasNoShow(f)
         IN  /\ Apartadas(g)
             /\ \A d \in Citas : /\ g[d].ini = f[d].ini /\ g[d].fin = f[d].fin
                                 /\ g[d].barbero = f[d].barbero
                                 /\ \/ g[d].estado = f[d].estado
                                    \/ f[d].estado = "confirmada" /\ g[d].estado = "no_show"
<1> DEFINE g == TrasNoShow(f)
<1>1. ASSUME NEW d \in Citas
      PROVE  /\ g[d].ini = f[d].ini /\ g[d].fin = f[d].fin /\ g[d].barbero = f[d].barbero
             /\ \/ g[d].estado = f[d].estado
                \/ f[d].estado = "confirmada" /\ g[d].estado = "no_show"
  <2> DEFINE x == f[d]
  <2>1. x = [estado |-> x.estado, barbero |-> x.barbero, ini |-> x.ini, fin |-> x.fin]
    BY FilaEs
  <2>2. g[d] = IF x.estado = "confirmada" /\ x.ini + Gracia <= ahora
               THEN [x EXCEPT !.estado = "no_show"] ELSE x
    BY DEF TrasNoShow
  <2> HIDE DEF x, g
  <2>3. /\ g[d].ini = x.ini /\ g[d].fin = x.fin /\ g[d].barbero = x.barbero
        /\ \/ g[d].estado = x.estado
           \/ x.estado = "confirmada" /\ g[d].estado = "no_show"
    BY <2>1, <2>2
  <2> QED
    BY <2>3 DEF x
<1> HIDE DEF g
<1>2. "no_show" \notin Activas
  BY DEF Activas, PorAtender, Pendientes
<1>3. Apartadas(g)
  BY <1>1, <1>2, MismoLugar
<1> QED
  BY <1>1, <1>3 DEF g

-----------------------------------------------------------------------------
(* Insertion *)

\* What is inserted meets no live cita of the barber; only the row of the member changes.
LEMMA InsertarUnoAparte ==
  ASSUME NEW s \in Solicitudes, NEW p, NEW k \in DOMAIN Miembros[s],
         NEW r, CitasBien(r.filas), Apartadas(r.filas)
  PROVE  LET g == InsertarUno(s, p, r, k).filas
         IN  /\ Apartadas(g)
             /\ \A d \in Citas : d # Miembros[s][k] => g[d] = r.filas[d]
<1> DEFINE c == Miembros[s][k]
           i == eleccion[s][k].ini
           x == Tramo(i, i + Largo(c))
           v == Validar(r.filas, p[k], x)
           y == [estado |-> "en_espera", barbero |-> p[k], ini |-> i, fin |-> i + Largo(c)]
           f == [r.filas EXCEPT ![c] = y]
           u == InsertarUno(s, p, r, k)
<1>1. c \in Citas
  BY JornadaAssumption
<1>2. u = IF r.motivo # "ok" THEN r
          ELSE IF v # "ok" THEN [motivo |-> v, filas |-> r.filas]
          ELSE [motivo |-> "ok", filas |-> f]
  BY DEF InsertarUno, Tramo
<1>3. v = "ok" => ~Solapa(r.filas, p[k], x)
  <2> DEFINE pasado == x.ini <= ahora
             bloqueado == \E z \in heredados : z.barbero = p[k] /\ Chocan(x, z)
             tomado == Solapa(r.filas, p[k], x)
             dentro == EnHorario(p[k], x)
  <2>1. v = IF pasado THEN "MF_RESERVA_INICIO_EN_PASADO"
            ELSE IF bloqueado THEN "MF_SLOT_BLOCKED"
            ELSE IF tomado THEN "MF_SLOT_TAKEN"
            ELSE IF ~dentro THEN "MF_SLOT_OUTSIDE_SCHEDULE"
            ELSE "ok"
    BY DEF Validar
  <2> HIDE DEF pasado, bloqueado, tomado, dentro, v
  <2>2. v = "ok" => ~tomado
    BY <2>1
  <2> QED
    BY <2>2 DEF tomado
<1>4. r.filas = [d \in Citas |-> r.filas[d]]
  BY DEF CitasBien
<1>5. v = "ok" => Apartadas(f) /\ \A d \in Citas : d # c => f[d] = r.filas[d]
  <2> SUFFICES ASSUME v = "ok"
               PROVE  Apartadas(f) /\ \A d \in Citas : d # c => f[d] = r.filas[d]
    OBVIOUS
  <2>1. \A d \in Citas : Chocan(r.filas[d], y) <=> Chocan(r.filas[d], x)
    BY DEF Chocan, Tramo
  <2>2. \A d \in Citas : r.filas[d].barbero = y.barbero /\ r.filas[d].estado \in Activas
                         => ~Chocan(r.filas[d], y)
    BY <1>3, <2>1 DEF Solapa
  <2> HIDE DEF c, y
  <2>3. Apartadas(f)
    BY <1>1, <1>4, <2>2, PonerAparte
  <2> QED
    BY <1>1, <1>4, <2>3
<1> HIDE DEF f, v, u
<1>6. u.filas = r.filas \/ (v = "ok" /\ u.filas = f)
  BY <1>2
<1>7. Apartadas(u.filas) /\ \A d \in Citas : d # c => u.filas[d] = r.filas[d]
  BY <1>5, <1>6
<1> QED
  BY <1>7 DEF u, c

\* So does a whole request.
LEMMA InsertarAparte ==
  ASSUME NEW s \in Solicitudes, NEW p, CitasBien(cita), Apartadas(cita),
         \A k \in DOMAIN Miembros[s] : eleccion[s][k].ini \in Int
  PROVE  LET g == Insertar(s, p).filas
         IN  /\ Apartadas(g)
             /\ \A d \in Citas : d \notin Range(Miembros[s]) => g[d] = cita[d]
<1> DEFINE B == {cita[c].barbero : c \in Citas} \cup {p[k] : k \in DOMAIN Miembros[s]}
           W == [Citas -> Filas0(B)]
           V == {r \in [motivo : Motivos, filas : W] :
                   /\ CitasBien(r.filas) /\ Apartadas(r.filas)
                   /\ \A d \in Citas : d \notin Range(Miembros[s]) => r.filas[d] = cita[d]}
<1>1. [motivo |-> "ok", filas |-> cita] \in V
  <2>1. \A c \in Citas : cita[c] \in Filas0(B)
    BY DEF CitasBien, CitaBien, Filas0
  <2>2. cita \in W
    BY <2>1 DEF CitasBien
  <2> HIDE DEF B, W
  <2>3. /\ [motivo |-> "ok", filas |-> cita] \in [motivo : Motivos, filas : W]
        /\ [motivo |-> "ok", filas |-> cita].filas = cita
    BY <2>2 DEF Motivos
  <2> QED
    BY <2>3
<1>2. ASSUME NEW v \in V, NEW k \in DOMAIN Miembros[s] PROVE InsertarUno(s, p, v, k) \in V
  <2> DEFINE u == InsertarUno(s, p, v, k)
  <2>1. p[k] \in B /\ Miembros[s][k] \in Range(Miembros[s]) /\ eleccion[s][k].ini \in Int
    BY DEF Range
  <2> HIDE DEF B
  <2>2. u \in [motivo : Motivos, filas : W] /\ CitasBien(u.filas)
    BY <2>1, InsertarUnoBien
  <2>3. Apartadas(u.filas) /\ \A d \in Citas : d # Miembros[s][k] => u.filas[d] = v.filas[d]
    <3>1. CitasBien(v.filas) /\ Apartadas(v.filas)
      OBVIOUS
    <3> HIDE DEF V
    <3> QED
      BY <3>1, InsertarUnoAparte
  <2> HIDE DEF u, W
  <2>4. u \in V
    BY <2>1, <2>2, <2>3
  <2> QED
    BY <2>4 DEF u
<1> HIDE DEF V
<1>3. Insertar(s, p) \in V
  BY <1>1, <1>2, InsertarEn
<1> QED
  BY <1>3 DEF V

-----------------------------------------------------------------------------
(* Delay *)

\* The row y, later.
Movida(y, retraso) == [estado |-> y.estado, barbero |-> y.barbero,
                       ini |-> y.ini + retraso, fin |-> y.fin + retraso]

\* The row UPDATE leaves, column by column.
LEMMA MovidaEs ==
  ASSUME NEW B, NEW y \in Filas0(B), NEW retraso \in Int
  PROVE  [y EXCEPT !.ini = @ + retraso, !.fin = @ + retraso] = Movida(y, retraso)
<1> DEFINE x == [y EXCEPT !.ini = @ + retraso, !.fin = @ + retraso]
<1>1. x = [estado |-> y.estado, barbero |-> y.barbero, ini |-> y.ini + retraso, fin |-> y.fin + retraso]
  <2>1. y \in Filas0(B) /\ x = [y EXCEPT !.ini = @ + retraso, !.fin = @ + retraso]
    OBVIOUS
  <2> HIDE DEF x
  <2> QED
    BY <2>1 DEF Filas0
<1> QED
  BY <1>1 DEF Movida

\* One cita of the queue is put later, where it meets no live cita of its barber but
\* itself, or the whole delay is refused.
LEMMA RetrasarUnaEs ==
  ASSUME NEW retraso \in Int, NEW d \in Citas, NEW W, NEW r \in [ok : BOOLEAN, filas : W],
         CitasBien(r.filas)
  PROVE  LET x == Movida(r.filas[d], retraso)
             libre == \A c \in Citas \ {d} :
                        r.filas[c].barbero = x.barbero /\ r.filas[c].estado \in Activas
                        => ~Chocan(r.filas[c], x)
             u == RetrasarUna(retraso, r, d)
         IN  \/ libre /\ u.ok = r.ok /\ u.filas = [r.filas EXCEPT ![d] = x]
             \/ ~u.ok /\ u.filas = r.filas
<1> DEFINE y == r.filas[d]
           x == Movida(y, retraso)
           x1 == [y EXCEPT !.ini = @ + retraso, !.fin = @ + retraso]
           f == r.filas
           f1 == [f EXCEPT ![d].estado = "nueva"]
           choca == Solapa(f1, x1.barbero, x1)
           u == RetrasarUna(retraso, r, d)
<1>1. y \in Filas0({y.barbero}) /\ f = [c \in Citas |-> f[c]]
  <2>1. CitaBien(d, y) /\ f = [c \in Citas |-> f[c]]
    BY DEF CitasBien
  <2> HIDE DEF y
  <2> QED
    BY <2>1 DEF CitaBien, Filas0
<1>2. x1 = x
  BY <1>1, MovidaEs
<1>3. u = IF choca THEN [r EXCEPT !.ok = FALSE] ELSE [r EXCEPT !.filas[d] = x1]
  BY DEF RetrasarUna
<1>4. choca => ~u.ok /\ u.filas = f
  <2>1. ~[r EXCEPT !.ok = FALSE].ok /\ [r EXCEPT !.ok = FALSE].filas = f
    OBVIOUS
  <2> HIDE DEF choca, f
  <2> QED
    BY <1>3, <2>1
<1>5. ~choca => u.ok = r.ok /\ u.filas = [f EXCEPT ![d] = x]
  <2> HIDE DEF choca, x1
  <2>1. /\ [r EXCEPT !.filas[d] = x1].ok = r.ok
        /\ [r EXCEPT !.filas[d] = x1].filas = [f EXCEPT ![d] = x1]
    OBVIOUS
  <2> QED
    BY <1>2, <1>3, <2>1
<1>6. ~choca => \A c \in Citas \ {d} :
                  f[c].barbero = x.barbero /\ f[c].estado \in Activas => ~Chocan(f[c], x)
  <2> SUFFICES ASSUME ~choca, NEW c \in Citas \ {d}, f[c].barbero = x.barbero,
                      f[c].estado \in Activas, Chocan(f[c], x)
               PROVE  FALSE
    OBVIOUS
  <2>1. f1[c] = f[c]
    BY <1>1
  <2> HIDE DEF f1, f, x, x1
  <2> QED
    BY <1>2, <2>1 DEF Solapa
<1> HIDE DEF choca, u, x, x1
<1> QED
  BY <1>3, <1>4, <1>5, <1>6 DEF u, x

\* The queue lists each cita behind another once: two of a barber do not begin at a time.
LEMMA ColaLista ==
  ASSUME NEW f, CitasBien(f), Apartadas(f), NEW c \in Citas
  PROVE  LET D == TrasEl(f, c)
             n == Cardinality(D)
             q == Cola(f, c)
         IN  /\ n \in Nat /\ q \in [1 .. n -> D] /\ D \in SUBSET Citas
             /\ \A x \in D : \E k \in 1 .. n : q[k] = x
             /\ \A i, j \in 1 .. n : i < j => q[i] # q[j]
<1> DEFINE D == TrasEl(f, c)
           R == {p \in D \X D : f[p[1]].ini < f[p[2]].ini}
           n == Cardinality(D)
           q == Cola(f, c)
           w == Puestos(D, R)
           antes(d, e) == f[d].ini < f[e].ini
           el(k) == CHOOSE x \in D : Cardinality({y \in D : antes(y, x)}) = k - 1
           en(k) == CHOOSE x \in D : Cardinality({y \in D : <<y, x>> \in R}) = k - 1
<1>1. D \in SUBSET Citas /\ IsFiniteSet(D)
  <2>1. D \in SUBSET Citas
    BY DEF TrasEl
  <2> QED
    BY <2>1, JornadaAssumption, FS_Subset
<1>2. \A x \in D : f[x].ini \in Int
  <2>1. \A x \in Citas : f[x].ini \in Int
    BY DEF CitasBien, CitaBien
  <2> QED
    BY <1>1, <2>1
<1>3. \A x, y \in D : f[x].ini = f[y].ini => x = y
  <2>1. \A x \in D : x \in Citas /\ f[x].barbero = f[c].barbero /\ f[x].estado \in Activas
    BY DEF TrasEl, Activas
  <2> HIDE DEF D
  <2> QED
    BY <2>1, InicioPropio
<1>4. w = q
  <2>1. \A k : el(k) = en(k)
    <3> HIDE DEF D
    <3>1. \A x \in D : {y \in D : antes(y, x)} = {y \in D : <<y, x>> \in R}
      OBVIOUS
    <3> HIDE DEF R, antes
    <3> QED
      BY <3>1
  <2>2. q = [k \in 1 .. n |-> el(k)]
    BY DEF Cola, EnOrden
  <2>3. w = [k \in 1 .. n |-> en(k)]
    BY DEF Puestos
  <2> HIDE DEF q, w, el, en, n
  <2> QED
    BY <2>1, <2>2, <2>3
<1> HIDE DEF D, q, el, en
<1>5. Ordena(R, D)
  BY <1>2, <1>3 DEF Ordena
<1>6. \A p \in R : p[1] # p[2]
  BY <1>2
<1> HIDE DEF R
<1>7. /\ n \in Nat /\ w \in [1 .. n -> D]
      /\ \A x \in D : \E k \in 1 .. n : w[k] = x
      /\ \A i, j \in 1 .. n : i < j => <<w[i], w[j]>> \in R
  BY <1>1, <1>5, PuestosLista
<1>8. \A i, j \in 1 .. n : i < j => w[i] # w[j]
  BY <1>6, <1>7
<1> QED
  BY <1>1, <1>4, <1>7, <1>8 DEF D, q

\* The rows r after the citas Q of a queue were put later.
Movidas(r, f, Q, retraso) ==
    r.ok => \A d \in Citas : r.filas[d].ini = IF d \in Q THEN f[d].ini + retraso ELSE f[d].ini

\* A delay that is not refused puts every cita behind c later by the same time, and
\* leaves the others; refused or not, the citas of a barber stay apart.
LEMMA RetrasarTodos ==
  ASSUME NEW f, CitasBien(f), Apartadas(f), NEW c \in Citas, NEW retraso \in Int
  PROVE  LET r == Retrasar(f, c, retraso)
         IN  /\ Apartadas(r.filas) /\ Movidas(r, f, TrasEl(f, c), retraso)
             /\ \A d \in Citas : /\ r.filas[d].estado = f[d].estado
                                 /\ r.filas[d].barbero = f[d].barbero
<1> DEFINE B == {f[d].barbero : d \in Citas}
           W == [Citas -> Filas0(B)]
           V == {r \in [ok : BOOLEAN, filas : W] :
                   /\ CitasBien(r.filas) /\ Apartadas(r.filas)
                   /\ \A d \in Citas : /\ r.filas[d].estado = f[d].estado
                                       /\ r.filas[d].barbero = f[d].barbero}
           D == TrasEl(f, c)
           n == Cardinality(D)
           q == Cola(f, c)
           base == [ok |-> TRUE, filas |-> f]
           Q(k) == {q[i] : i \in 1 .. k}
<1>1. base \in V
  <2>1. \A d \in Citas : f[d] \in Filas0(B)
    BY DEF CitasBien, CitaBien, Filas0
  <2>2. f \in W
    BY <2>1 DEF CitasBien
  <2> HIDE DEF W
  <2> QED
    BY <2>2
<1>2. /\ n \in Nat /\ q \in [1 .. n -> D] /\ D \in SUBSET Citas
      /\ \A x \in D : \E k \in 1 .. n : q[k] = x
      /\ \A i, j \in 1 .. n : i < j => q[i] # q[j]
  BY ColaLista
<1> HIDE DEF D, n, q
<1>3. ASSUME NEW v \in V, NEW d \in Citas
      PROVE  LET u == RetrasarUna(retraso, v, d)
             IN  /\ u \in V
                 /\ u.ok => /\ v.ok
                            /\ \A e \in Citas : u.filas[e].ini = IF e = d THEN v.filas[d].ini + retraso
                                                                 ELSE v.filas[e].ini
  <2> DEFINE u == RetrasarUna(retraso, v, d)
             x == Movida(v.filas[d], retraso)
             g == [v.filas EXCEPT ![d] = x]
  <2>1. /\ v \in [ok : BOOLEAN, filas : W] /\ CitasBien(v.filas) /\ Apartadas(v.filas)
        /\ \A e \in Citas : /\ v.filas[e].estado = f[e].estado
                            /\ v.filas[e].barbero = f[e].barbero
        /\ v.filas = [e \in Citas |-> v.filas[e]]
    BY DEF CitasBien
  <2>2. u \in [ok : BOOLEAN, filas : W] /\ CitasBien(u.filas)
    <3> HIDE DEF B
    <3> QED
      BY <2>1, RetrasarUnaBien
  <2> HIDE DEF W
  <2>3. \/ /\ \A e \in Citas \ {d} : v.filas[e].barbero = x.barbero /\ v.filas[e].estado \in Activas
                                     => ~Chocan(v.filas[e], x)
           /\ u.ok = v.ok /\ u.filas = g
        \/ ~u.ok /\ u.filas = v.filas
    <3> HIDE DEF V
    <3> QED
      BY <2>1, RetrasarUnaEs
  <2>4. x.estado = v.filas[d].estado /\ x.barbero = v.filas[d].barbero
        /\ x.ini = v.filas[d].ini + retraso
    BY DEF Movida
  <2>5. \A e \in Citas : g[e] = IF e = d THEN x ELSE v.filas[e]
    BY <2>1
  <2> HIDE DEF u, g, x, V
  <2>6. Apartadas(u.filas)
    <3>1. CASE u.filas = v.filas
      BY <2>1, <3>1
    <3>2. CASE u.filas # v.filas
      <4>1. /\ \A e \in Citas \ {d} : v.filas[e].barbero = x.barbero /\ v.filas[e].estado \in Activas
                                      => ~Chocan(v.filas[e], x)
            /\ u.filas = g
        BY <2>3, <3>2
      <4>2. Apartadas([v.filas EXCEPT ![d] = x])
        BY <2>1, <4>1, PonerAparte
      <4> QED
        BY <4>1, <4>2 DEF g
    <3> QED
      BY <3>1, <3>2
  <2>7. \A e \in Citas : /\ u.filas[e].estado = f[e].estado
                         /\ u.filas[e].barbero = f[e].barbero
    BY <2>1, <2>3, <2>4, <2>5
  <2>8. u \in V
    BY <2>2, <2>6, <2>7 DEF V
  <2>9. u.ok => /\ v.ok
                /\ \A e \in Citas : u.filas[e].ini = IF e = d THEN v.filas[d].ini + retraso
                                                     ELSE v.filas[e].ini
    BY <2>3, <2>4, <2>5
  <2> QED
    BY <2>8, <2>9 DEF u
<1>4. PICK h : Retrasos(h, f, c, retraso, V)
  <2>1. \A v \in V : \A k \in 1 .. n : RetrasarUna(retraso, v, q[k]) \in V
    <3> HIDE DEF V
    <3> QED
      BY <1>2, <1>3
  <2> HIDE DEF V
  <2> QED
    BY <1>1, <2>1, RetrasarEn DEF n, q, D, base
<1>5. /\ h \in [0 .. n -> V] /\ h[0] = base /\ h[n] = Retrasar(f, c, retraso)
      /\ \A k \in 1 .. n : h[k] = RetrasarUna(retraso, h[k - 1], q[k])
  <2> HIDE DEF V
  <2> QED
    BY <1>4 DEF Retrasos, n, q, D, base
<1> DEFINE K == {k \in 0 .. n : Movidas(h[k], f, Q(k), retraso)}
<1>6. 0 \in K
  <2>1. Q(0) = {}
    OBVIOUS
  <2>2. base.filas = f
    OBVIOUS
  <2> HIDE DEF Q, base, V
  <2> QED
    BY <1>2, <1>5, <2>1, <2>2 DEF Movidas
<1>7. ASSUME NEW k \in 1 .. n, k - 1 \in K PROVE k \in K
  <2> DEFINE d == q[k]
             v == h[k - 1]
             u == h[k]
  <2>1. d \in Citas /\ v \in V /\ u = RetrasarUna(retraso, v, d) /\ k \in 0 .. n
    <3> HIDE DEF V
    <3> QED
      BY <1>2, <1>5
  <2>2. d \notin Q(k - 1) /\ Q(k) = Q(k - 1) \cup {d}
    <3>1. \A i \in 1 .. k - 1 : i \in 1 .. n /\ i < k
      BY <1>2
    <3>2. 1 .. k = (1 .. k - 1) \cup {k}
      OBVIOUS
    <3> QED
      BY <1>2, <3>1, <3>2
  <2>3. Movidas(v, f, Q(k - 1), retraso)
    BY <1>7
  <2> HIDE DEF Q, V, d, v, u
  <2>4. u.ok => /\ v.ok
                /\ \A e \in Citas : u.filas[e].ini = IF e = d THEN v.filas[d].ini + retraso
                                                     ELSE v.filas[e].ini
    BY <1>3, <2>1
  <2>5. Movidas(u, f, Q(k), retraso)
    BY <2>1, <2>2, <2>3, <2>4 DEF Movidas
  <2> QED
    BY <2>1, <2>5 DEF u
<1>8. n \in K
  <2>1. K \in SUBSET (0 .. n)
    OBVIOUS
  <2> HIDE DEF K
  <2>2. K = 0 .. n
    BY <1>2, <1>6, <1>7, <2>1, HastaN
  <2> QED
    BY <1>2, <2>2
<1>9. Q(n) = D
  BY <1>2
<1>10. h[n] \in V
  <2> HIDE DEF V
  <2> QED
    BY <1>2, <1>5
<1> QED
  BY <1>5, <1>8, <1>9, <1>10 DEF D

-----------------------------------------------------------------------------
(* Rescheduling *)

\* The first barber of an accepted start is one who offers it, and is free for the
\* whole of the service.
LEMMA OpcionesLibres ==
  ASSUME JornadaTypeOK, NEW f, CitasBien(f), NEW pedido, NEW largo \in Nat \ {0},
         NEW t \in DOMAIN Opciones(f, pedido, largo)
  PROVE  LET b == Opciones(f, pedido, largo)[t][1]
         IN  t \in Int /\ \A u \in t .. t + largo - 1 : u \notin Instantes(Ocupado(f, b))
<1> DEFINE Q == {d \in Barberos : pedido \in {NADA, d}}
           ofrece == [b \in Q |-> {s.ini : s \in Oferta(f, b, largo)}]
           S == {b \in Q : t \in ofrece[b]}
           R == {p \in S \X S : Rango[p[1]] < Rango[p[2]]}
           n == Cardinality(S)
           antes(a, b) == Rango[a] < Rango[b]
           el(k) == CHOOSE x \in S : Cardinality({y \in S : antes(y, x)}) = k - 1
           en(k) == CHOOSE x \in S : Cardinality({y \in S : <<y, x>> \in R}) = k - 1
           q == Opciones(f, pedido, largo)[t]
           w == Puestos(S, R)
<1>1. t \in Int
  BY OpcionesEnteras
<1>2. t \in UNION Range(ofrece) /\ q = [k \in 1 .. n |-> el(k)]
  <2> DEFINE P(x) == {b \in DOMAIN ofrece : x \in ofrece[b]}
             G(x) == [k \in 1 .. Cardinality(P(x)) |->
                        CHOOSE z \in P(x) : Cardinality({y \in P(x) : antes(y, z)}) = k - 1]
             U == UNION Range(ofrece)
  <2>1. Opciones(f, pedido, largo) = [x \in U |-> G(x)]
    BY DEF Opciones, EnOrden
  <2>2. P(t) = S
    OBVIOUS
  <2>3. G(t) = [k \in 1 .. n |-> el(k)]
    <3> HIDE DEF P, S
    <3> QED
      BY <2>2
  <2> HIDE DEF G, P, U, S, el, n
  <2>4. t \in U /\ q = G(t)
    BY <2>1
  <2> QED
    BY <2>3, <2>4 DEF U
<1>3. S # {}
  <2>1. DOMAIN ofrece = Q
    OBVIOUS
  <2> HIDE DEF ofrece
  <2> QED
    BY <1>2, <2>1 DEF Range
<1>4. S \in SUBSET Barberos /\ IsFiniteSet(S)
  <2>1. S \in SUBSET Barberos
    OBVIOUS
  <2> HIDE DEF S
  <2> QED
    BY <2>1, JornadaAssumption, FS_Subset
<1>5. \A b \in S : t \in {s.ini : s \in Oferta(f, b, largo)}
  OBVIOUS
<1> HIDE DEF S, q, el, en
<1>6. Ordena(R, S)
  <2>1. \A x \in S : Rango[x] \in Int
    BY <1>4, JornadaAssumption
  <2>2. \A x, y \in S : Rango[x] = Rango[y] => x = y
    BY <1>4, JornadaAssumption
  <2> QED
    BY <2>1, <2>2 DEF Ordena
<1>7. w = q
  <2>1. \A k : el(k) = en(k)
    <3>1. \A x \in S : {y \in S : antes(y, x)} = {y \in S : <<y, x>> \in R}
      OBVIOUS
    <3> HIDE DEF R, antes
    <3> QED
      BY <3>1 DEF el, en
  <2>2. w = [k \in 1 .. n |-> en(k)]
    BY DEF Puestos, en
  <2> HIDE DEF w, n
  <2> QED
    BY <1>2, <2>1, <2>2
<1> HIDE DEF R, w
<1>8. n \in Nat /\ w \in [1 .. n -> S] /\ \A x \in S : \E k \in 1 .. n : w[k] = x
  BY <1>4, <1>6, PuestosLista DEF w
<1>9. q[1] \in S
  <2>1. 1 \in 1 .. n
    BY <1>3, <1>8
  <2> QED
    BY <1>7, <1>8, <2>1
<1> DEFINE b == q[1]
           L == {u \in Abre(Filas(b), excepciones) \ Instantes(Ocupado(f, b)) : u >= Piso(ahora)}
<1>10. b \in Barberos /\ t \in {s.ini : s \in Oferta(f, b, largo)}
  BY <1>4, <1>5, <1>9
<1> HIDE DEF b
<1>11. t \in Arranques(L, largo)
  BY <1>10, OfertaEs
<1>12. t .. t + largo - 1 \subseteq L
  <2> HIDE DEF L
  <2> QED
    BY <1>11 DEF Arranques
<1> QED
  BY <1>1, <1>12 DEF b, q

\* A cita is moved where its new barber has no other.
LEMMA MudanzasAparte ==
  ASSUME JornadaTypeOK, NEW f, CitasBien(f), Apartadas(f), NEW c \in Citas,
         f[c].estado \in Activas, NEW g \in Mudanzas(f, c)
  PROVE  Apartadas(g)
<1> DEFINE O(p) == Opciones(f, p, Largo(c))
           e == IF f[c].estado = "en_salon" THEN "confirmada" ELSE f[c].estado
<1>1. PICK p \in Barberos \cup {NADA} : \E t \in DOMAIN O(p) :
        g = [f EXCEPT ![c] = [estado |-> e, barbero |-> O(p)[t][1], ini |-> t, fin |-> t + Dur[c]]]
  BY DEF Mudanzas
<1>2. PICK t \in DOMAIN O(p) :
        g = [f EXCEPT ![c] = [estado |-> e, barbero |-> O(p)[t][1], ini |-> t, fin |-> t + Dur[c]]]
  BY <1>1
<1>3. Dur[c] \in Nat \ {0} /\ Largo(c) \in Nat \ {0} /\ Dur[c] <= Largo(c)
  BY Duraciones
<1> DEFINE b == O(p)[t][1]
           y == [estado |-> e, barbero |-> b, ini |-> t, fin |-> t + Dur[c]]
<1>5. t \in Int /\ \A u \in t .. t + Largo(c) - 1 : u \notin Instantes(Ocupado(f, b))
  BY <1>3, OpcionesLibres
<1>6. g = [f EXCEPT ![c] = y] /\ f = [d \in Citas |-> f[d]]
  BY <1>2 DEF CitasBien
<1>7. y.estado = e /\ y.barbero = b /\ y.ini = t /\ y.fin = t + Dur[c]
  OBVIOUS
<1> HIDE DEF e, O, b, y
<1>8. ASSUME NEW d \in Citas \ {c}, f[d].barbero = b, f[d].estado \in Activas, Chocan(f[d], y)
      PROVE  FALSE
  <2>1. CitaBien(d, f[d]) /\ f[d].estado # "nueva"
    BY <1>8 DEF CitasBien, Activas, PorAtender, Pendientes
  <2>2. f[d].ini \in Int /\ f[d].fin \in Int /\ f[d].ini < f[d].fin
    BY <2>1 DEF CitaBien
  <2>3. y.ini \in Int /\ y.fin \in Int /\ y.ini < y.fin /\ Chocan(y, f[d])
    BY <1>3, <1>5, <1>7, <1>8 DEF Chocan
  <2>4. PICK u \in y.ini .. y.fin - 1 : En(u, f[d])
    BY <2>2, <2>3, ChocanSi
  <2>5. u \in t .. t + Largo(c) - 1 /\ u \in Int
    BY <1>3, <1>5, <1>7
  <2>6. u \in Instantes(Ocupado(f, b))
    BY <1>8, <2>4, <2>5, OcupadoCubre
  <2> QED
    BY <1>5, <2>5, <2>6
<1> QED
  BY <1>6, <1>7, <1>8, PonerAparte

-----------------------------------------------------------------------------
(* The queue of a barber *)

\* Nothing a step does puts one who waits before another of the same barber.
EnTurno(f, g) ==
    \A c, d \in Citas :
        /\ {f[c].estado, f[d].estado, g[c].estado, g[d].estado} \subseteq PorAtender
        /\ f[c].barbero = f[d].barbero
        /\ f[c].ini < f[d].ini
        => g[c].ini < g[d].ini

\* What a step that leaves the calendar and the requests has to show of the citas.
LEMMA DiaCita ==
  ASSUME DiaInv, JornadaTypeOK', UNCHANGED eleccion, novedades' \in Nat, Apartadas(cita'),
         \A c \in Citas : cita[c].estado = "nueva" => cita'[c].estado = "nueva"
  PROVE  DiaInv'
<1>1. \A s \in Solicitudes : \A k \in DOMAIN Miembros[s] : Miembros[s][k] \in Citas
  BY JornadaAssumption
<1> QED
  BY <1>1 DEF DiaInv

\* The sweep, and the changes of state that follow it.
LEMMA DiaEstado ==
  ASSUME DiaInv, JornadaTypeOK', UNCHANGED <<eleccion, novedades>>, NEW c \in Citas, NEW e,
         e \in Activas => T[c].estado \in Activas, T[c].estado # "nueva",
         cita' = T \/ cita' = [T EXCEPT ![c].estado = e]
  PROVE  DiaInv' /\ EnTurno(cita, cita')
<1>1. CitasBien(cita) /\ Apartadas(cita) /\ novedades \in Nat
  BY DEF DiaInv, JornadaTypeOK
<1>2. CitasBien(T)
  BY <1>1, NoShowBien DEF T
<1>3. /\ Apartadas(T)
      /\ \A d \in Citas : /\ T[d].ini = cita[d].ini
                          /\ T[d].estado = cita[d].estado \/ cita[d].estado = "confirmada"
  BY <1>1, NoShowAparte DEF T
<1> HIDE DEF T
<1>4. /\ Apartadas(cita')
      /\ \A d \in Citas : /\ cita'[d].ini = T[d].ini
                          /\ cita'[d].estado = T[d].estado \/ d = c
  <2>1. CASE cita' = T
    BY <1>3, <2>1
  <2>2. CASE cita' = [T EXCEPT ![c].estado = e]
    <3> DEFINE g == [T EXCEPT ![c].estado = e]
    <3>1. Apartadas(g) /\ \A d \in Citas : /\ g[d].ini = T[d].ini
                                         /\ g[d].estado = IF d = c THEN e ELSE T[d].estado
      BY <1>2, <1>3, EstadoAparte
    <3> HIDE DEF g
    <3> QED
      BY <2>2, <3>1 DEF g
  <2> QED
    BY <2>1, <2>2
<1>5. \A d \in Citas : cita[d].estado = "nueva" => cita'[d].estado = "nueva"
  BY <1>3, <1>4
<1>6. EnTurno(cita, cita')
  BY <1>3, <1>4 DEF EnTurno
<1> QED
  BY <1>1, <1>4, <1>5, <1>6, DiaCita

\* The check of a request: its members are not in the agenda.
LEMMA DiaElegir ==
  ASSUME DiaInv, JornadaTypeOK', NEW s \in Solicitudes, Elegir(s)
  PROVE  DiaInv' /\ novedades' # novedades
<1> DEFINE M == Miembros[s]
           opciones == [k \in DOMAIN M |-> Opciones(cita, Pide[M[k]], Largo(M[k]))]
           e(h) == [k \in DOMAIN M |-> [ini |-> h[k], barberos |-> opciones[k][h[k]]]]
<1>1. /\ novedades' = novedades + 1 /\ UNCHANGED cita
      /\ \A k \in DOMAIN Miembros[s] : cita[Miembros[s][k]].estado = "nueva"
      /\ \E h \in [DOMAIN M -> 0 .. FinDia] : eleccion' = [eleccion EXCEPT ![s] = e(h)]
  BY DEF Elegir, Novedad
<1>2. PICK w : eleccion' = [eleccion EXCEPT ![s] = w]
  BY <1>1
<1>3. \A r \in Solicitudes : r # s => eleccion'[r] = eleccion[r]
  BY <1>2 DEF DiaInv, JornadaTypeOK
<1> HIDE DEF M, e
<1>4. novedades \in Nat
  BY DEF DiaInv
<1>5. \A r \in Solicitudes : \A k \in DOMAIN Miembros[r] :
        eleccion'[r] # <<>> => cita'[Miembros[r][k]].estado = "nueva"
  BY <1>1, <1>3 DEF DiaInv
<1>6. Apartadas(cita')
  BY <1>1 DEF DiaInv
<1> QED
  BY <1>1, <1>4, <1>5, <1>6 DEF DiaInv

\* The insertion moves no cita that was in the agenda.
LEMMA DiaReservar ==
  ASSUME DiaInv, JornadaTypeOK', NEW s \in Solicitudes, Reservar(s)
  PROVE  DiaInv' /\ EnTurno(cita, cita')
<1>1. /\ eleccion[s] # <<>>
      /\ cita' = IF Veredicto(s).motivo = "ok" THEN Veredicto(s).filas ELSE cita
      /\ eleccion' = [eleccion EXCEPT ![s] = <<>>] /\ novedades' = novedades
  BY DEF Reservar
<1>2. /\ CitasBien(cita) /\ Apartadas(cita) /\ novedades \in Nat
      /\ \A k \in DOMAIN Miembros[s] : eleccion[s][k].ini \in Int
      /\ \A k \in DOMAIN Miembros[s] : cita[Miembros[s][k]].estado = "nueva"
  BY <1>1 DEF DiaInv, JornadaTypeOK
<1>3. \A p : /\ Apartadas(Insertar(s, p).filas)
             /\ \A d \in Citas : d \notin Range(Miembros[s]) => Insertar(s, p).filas[d] = cita[d]
  BY <1>2, InsertarAparte
<1>4. /\ Apartadas(Veredicto(s).filas)
      /\ \A d \in Citas : d \notin Range(Miembros[s]) => Veredicto(s).filas[d] = cita[d]
  <2> DEFINE I == Intentos(eleccion[s])
             decide == {i \in DOMAIN I : Insertar(s, I[i]).motivo # "MF_SLOT_TAKEN"}
             p == I[Min(decide)]
             nada == [motivo |-> "MF_SLOT_TAKEN", filas |-> cita]
  <2>1. Veredicto(s) = IF decide = {} THEN nada ELSE Insertar(s, p)
    BY DEF Veredicto
  <2>2. nada.filas = cita
    OBVIOUS
  <2> HIDE DEF nada, decide, p
  <2> QED
    BY <1>2, <1>3, <2>1, <2>2
<1>5. Apartadas(cita') /\ \A d \in Citas : d \notin Range(Miembros[s]) => cita'[d] = cita[d]
  BY <1>1, <1>2, <1>4
<1>6. \A d \in Citas : cita[d].estado # "nueva" => cita'[d] = cita[d]
  BY <1>2, <1>5 DEF Range
<1>7. EnTurno(cita, cita')
  BY <1>6 DEF EnTurno, PorAtender, Pendientes
<1>8. \A r \in Solicitudes : eleccion'[r] = IF r = s THEN <<>> ELSE eleccion[r]
  BY <1>1 DEF DiaInv, JornadaTypeOK
<1>9. \A r \in Solicitudes : \A k \in DOMAIN Miembros[r] :
        eleccion'[r] # <<>> => cita'[Miembros[r][k]].estado = "nueva"
  <2> SUFFICES ASSUME NEW r \in Solicitudes, NEW k \in DOMAIN Miembros[r], eleccion'[r] # <<>>
               PROVE  cita'[Miembros[r][k]].estado = "nueva"
    OBVIOUS
  <2>1. r # s /\ eleccion[r] # <<>>
    BY <1>8
  <2>2. Miembros[r][k] \in Citas /\ Miembros[r][k] \in Range(Miembros[r])
    BY JornadaAssumption DEF Range
  <2>3. Miembros[r][k] \notin Range(Miembros[s])
    BY <2>1, <2>2, JornadaAssumption
  <2>4. cita[Miembros[r][k]].estado = "nueva"
    BY <2>1 DEF DiaInv
  <2> QED
    BY <1>5, <2>2, <2>3, <2>4
<1> QED
  BY <1>1, <1>2, <1>5, <1>7, <1>9 DEF DiaInv

\* The delay passes to all who wait behind, by the same time.
LEMMA DiaIniciar ==
  ASSUME DiaInv, JornadaTypeOK', NEW c \in Citas, Iniciar(c)
  PROVE  DiaInv' /\ EnTurno(cita, cita')
<1> DEFINE f == [T EXCEPT ![c].estado = "en_atencion"]
           retraso == Retraso(c)
           r == Retrasar(f, c, retraso)
<1>1. /\ T[c].estado = "en_salon" /\ UNCHANGED <<eleccion, novedades>>
      /\ cita' = f \/ (r.ok /\ cita' = r.filas)
  BY DEF Iniciar
<1>2. CitasBien(cita) /\ Apartadas(cita) /\ novedades \in Nat /\ ahora \in Nat
  BY DEF DiaInv, JornadaTypeOK
<1>3. CitasBien(T) /\ T[c].ini \in Int
  <2>1. CitasBien(T)
    BY <1>2, NoShowBien DEF T
  <2> QED
    BY <2>1 DEF CitasBien, CitaBien
<1>4. /\ Apartadas(T)
      /\ \A d \in Citas : /\ T[d].ini = cita[d].ini /\ T[d].barbero = cita[d].barbero
                          /\ \/ T[d].estado = cita[d].estado
                             \/ cita[d].estado = "confirmada" /\ T[d].estado = "no_show"
  BY <1>2, NoShowAparte DEF T
<1>5. retraso \in Nat
  <2>1. ahora - T[c].ini \in Int
    BY <1>2, <1>3
  <2> QED
    BY <2>1, MaxDos DEF Retraso
<1> HIDE DEF T, retraso
<1>6. {"en_salon", "en_atencion"} \subseteq Activas /\ "en_atencion" \in Estados
      /\ "en_atencion" \notin PorAtender /\ "no_show" \notin PorAtender
      /\ PorAtender \subseteq Activas
  BY DEF Activas, PorAtender, Pendientes, Estados
<1>7. CitasBien(f)
  BY <1>1, <1>3, <1>6, EstadoBien
<1>8. /\ Apartadas(f)
      /\ \A d \in Citas : /\ f[d].ini = T[d].ini /\ f[d].barbero = T[d].barbero
                          /\ f[d].estado = IF d = c THEN "en_atencion" ELSE T[d].estado
  BY <1>1, <1>3, <1>4, <1>6, EstadoAparte
<1> HIDE DEF f
<1>9. /\ Apartadas(r.filas) /\ Movidas(r, f, TrasEl(f, c), retraso)
      /\ \A d \in Citas : /\ r.filas[d].estado = f[d].estado
                          /\ r.filas[d].barbero = f[d].barbero
  BY <1>5, <1>7, <1>8, RetrasarTodos
<1> HIDE DEF r
<1>10. /\ Apartadas(cita')
       /\ \A d \in Citas : cita'[d].estado = f[d].estado
  BY <1>1, <1>8, <1>9
<1>11. \A d \in Citas : cita[d].estado = "nueva" => cita'[d].estado = "nueva"
  BY <1>1, <1>4, <1>8, <1>10
<1>12. DiaInv'
  BY <1>1, <1>2, <1>10, <1>11, DiaCita
<1>13. \A d \in Citas : f[d].ini \in Int
  BY <1>7 DEF CitasBien, CitaBien
<1>14. EnTurno(cita, cita')
  <2> SUFFICES ASSUME NEW d \in Citas, NEW e \in Citas,
                      {cita'[d].estado, cita'[e].estado} \subseteq PorAtender,
                      cita[d].barbero = cita[e].barbero, cita[d].ini < cita[e].ini
               PROVE  cita'[d].ini < cita'[e].ini
    BY DEF EnTurno
  <2>1. /\ d # c /\ e # c /\ {f[d].estado, f[e].estado} \subseteq PorAtender
        /\ f[d].barbero = f[e].barbero /\ f[d].ini < f[e].ini
    BY <1>4, <1>6, <1>8, <1>10
  <2>2. d \in TrasEl(f, c) => e \in TrasEl(f, c)
    BY <1>13, <2>1 DEF TrasEl
  <2>3. CASE cita' = f
    BY <2>1, <2>3
  <2>4. CASE r.ok /\ cita' = r.filas
    <3>1. \A x \in {d, e} : cita'[x].ini = IF x \in TrasEl(f, c) THEN f[x].ini + retraso ELSE f[x].ini
      BY <1>9, <2>4 DEF Movidas
    <3> QED
      BY <1>5, <1>13, <2>1, <2>2, <3>1
  <2> QED
    BY <1>1, <2>3, <2>4
<1> QED
  BY <1>12, <1>14

\* Rescheduling, of one cita or of two, is a change of the day.
LEMMA DiaReagendar ==
  ASSUME DiaInv, JornadaTypeOK', NEW c \in Citas, NEW d \in Citas,
         Reagendar(c) \/ ReagendarLote(c, d)
  PROVE  DiaInv' /\ novedades' # novedades
<1>1. novedades' = novedades + 1 /\ UNCHANGED eleccion /\ T[c].estado \in Activas
  BY DEF Reagendar, ReagendarLote, Novedad
<1>2. CitasBien(cita) /\ Apartadas(cita) /\ novedades \in Nat /\ JornadaTypeOK
  BY DEF DiaInv, JornadaTypeOK
<1>3. CitasBien(T)
  BY <1>2, NoShowBien DEF T
<1>4. /\ Apartadas(T)
      /\ \A x \in Citas : T[x].estado = cita[x].estado \/ cita[x].estado = "confirmada"
  BY <1>2, NoShowAparte DEF T
<1>5. "nueva" \notin Activas
  BY DEF Activas, PorAtender, Pendientes
<1>6. Apartadas(cita') /\ \A x \in Citas : T[x].estado = "nueva" => cita'[x].estado = "nueva"
  <2>1. CASE Reagendar(c)
    <3>1. cita' \in Mudanzas(T, c)
      BY <2>1 DEF Reagendar
    <3> HIDE DEF T
    <3>2. Apartadas(cita') /\ \A x \in Citas \ {c} : cita'[x] = T[x]
      BY <1>1, <1>2, <1>3, <1>4, <3>1, MudanzasBien, MudanzasAparte
    <3> QED
      BY <1>1, <1>5, <3>2
  <2>2. CASE ReagendarLote(c, d)
    <3>1. PICK f \in Mudanzas(T, c) : cita' \in Mudanzas(f, d)
      BY <2>2 DEF ReagendarLote
    <3>2. T[d].estado \in Activas /\ c # d
      BY <2>2 DEF ReagendarLote
    <3> HIDE DEF T
    <3>3. CitasBien(f) /\ Apartadas(f) /\ \A x \in Citas \ {c} : f[x] = T[x]
      BY <1>1, <1>2, <1>3, <1>4, <3>1, MudanzasBien, MudanzasAparte
    <3>4. f[d].estado \in Activas
      BY <3>2, <3>3
    <3>5. Apartadas(cita') /\ \A x \in Citas \ {d} : cita'[x] = f[x]
      BY <1>2, <3>1, <3>3, <3>4, MudanzasBien, MudanzasAparte
    <3> QED
      BY <1>1, <1>5, <3>2, <3>3, <3>5
  <2> QED
    BY <2>1, <2>2
<1>7. \A x \in Citas : cita[x].estado = "nueva" => cita'[x].estado = "nueva"
  BY <1>4, <1>6
<1> QED
  BY <1>1, <1>2, <1>6, <1>7, DiaCita

\* The calendar, and the clock.
LEMMA DiaCalendario ==
  ASSUME DiaInv, JornadaTypeOK',
         \/ PublicarHorario \/ (\E b \in Barberos : PonerHorario(b) \/ CrearBloqueo(b))
         \/ BorrarBloqueo \/ CrearExcepcion \/ BorrarExcepcion \/ PasarTiempo \/ UNCHANGED vars
  PROVE  DiaInv' /\ EnTurno(cita, cita')
<1>1. UNCHANGED <<cita, eleccion>> /\ (novedades' = novedades + 1 \/ novedades' = novedades)
  BY DEF PublicarHorario, PonerHorario, CrearBloqueo, BorrarBloqueo, CrearExcepcion,
         BorrarExcepcion, PasarTiempo, Novedad, vars
<1>2. DiaInv'
  BY <1>1 DEF DiaInv
<1>3. EnTurno(cita, cita')
  BY <1>1 DEF EnTurno
<1> QED
  BY <1>2, <1>3

\* Every step keeps the day in order, and the order of the queue unless it is a change of
\* the day.
LEMMA DiaPaso ==
  ASSUME DiaInv, JornadaTypeOK', [Next]_vars
  PROVE  DiaInv' /\ (novedades' = novedades => EnTurno(cita, cita'))
<1>1. ASSUME NEW s \in Solicitudes, Elegir(s) \/ Reservar(s)
      PROVE  DiaInv' /\ (novedades' = novedades => EnTurno(cita, cita'))
  BY <1>1, DiaElegir, DiaReservar
<1>2. ASSUME NEW c \in Citas, CambiarEstado(c) \/ RegistrarLlegada(c) \/ Finalizar(c)
      PROVE  DiaInv' /\ EnTurno(cita, cita')
  <2>1. CASE CambiarEstado(c)
    <3>1. PICK e \in Permitidas(T[c].estado) :
            cita' = [T EXCEPT ![c].estado = e] /\ UNCHANGED <<eleccion, novedades>>
      BY <2>1 DEF CambiarEstado
    <3>2. (e \in Activas => T[c].estado \in Activas) /\ T[c].estado # "nueva"
      <4> HIDE DEF T
      <4> QED
        BY DEF Permitidas, Activas, PorAtender, Pendientes
    <3> QED
      BY <3>1, <3>2, DiaEstado
  <2>2. CASE RegistrarLlegada(c)
    <3>1. T[c].estado \in Activas /\ T[c].estado # "nueva"
      BY <2>2 DEF RegistrarLlegada, Activas, PorAtender
    <3> QED
      BY <2>2, <3>1, DiaEstado DEF RegistrarLlegada
  <2>3. CASE Finalizar(c)
    <3>1. T[c].estado \in Activas /\ T[c].estado # "nueva"
      BY <2>3 DEF Finalizar, Activas
    <3> QED
      BY <2>3, <3>1, DiaEstado DEF Finalizar
  <2> QED
    BY <1>2, <2>1, <2>2, <2>3
<1>3. CASE Consultar
  <2>1. cita' = T /\ UNCHANGED <<eleccion, novedades>> /\ T # cita
    BY <1>3 DEF Consultar
  <2>2. CitasBien(cita) /\ Apartadas(cita)
    BY DEF DiaInv, JornadaTypeOK
  <2>3. /\ Apartadas(T)
        /\ \A d \in Citas : /\ T[d].ini = cita[d].ini
                            /\ T[d].estado = cita[d].estado \/ cita[d].estado = "confirmada"
    BY <2>2, NoShowAparte DEF T
  <2> HIDE DEF T
  <2>4. \A c \in Citas : cita[c].estado = "nueva" => cita'[c].estado = "nueva"
    BY <2>1, <2>3
  <2>5. DiaInv'
    BY <2>1, <2>3, <2>4, DiaCita DEF DiaInv
  <2> QED
    BY <2>1, <2>3, <2>5 DEF EnTurno
<1>4. ASSUME NEW c \in Citas, NEW d \in Citas, Iniciar(c) \/ Reagendar(c) \/ ReagendarLote(c, d)
      PROVE  DiaInv' /\ (novedades' = novedades => EnTurno(cita, cita'))
  BY <1>4, DiaIniciar, DiaReagendar
<1>5. CASE \/ PublicarHorario \/ (\E b \in Barberos : PonerHorario(b) \/ CrearBloqueo(b))
           \/ BorrarBloqueo \/ CrearExcepcion \/ BorrarExcepcion \/ PasarTiempo \/ UNCHANGED vars
  BY <1>5, DiaCalendario
<1> QED
  BY <1>1, <1>2, <1>3, <1>4, <1>5 DEF Next

\* The day begins with the citas of every barber apart, and no request.
LEMMA DiaAlEmpezar ==
  ASSUME Init
  PROVE  DiaInv
<1>1. /\ cita \in Agendas /\ eleccion = [s \in Solicitudes |-> <<>>]
      /\ novedades = Cardinality({c \in Citas : cita[c] # CitaNueva})
  BY DEF Init
<1>2. Apartadas(cita)
  BY <1>1, CalendarioAssumption
<1>3. novedades \in Nat
  <2> DEFINE D == {c \in Citas : cita[c] # CitaNueva}
  <2>1. IsFiniteSet(D)
    BY JornadaAssumption, FS_Subset
  <2> HIDE DEF D
  <2>2. Cardinality(D) \in Nat
    BY <2>1, FS_CardinalityType
  <2> QED
    BY <1>1, <2>2 DEF D
<1>4. \A s \in Solicitudes : eleccion[s] = <<>>
  BY <1>1
<1> QED
  BY <1>2, <1>3, <1>4, TiposAlEmpezar DEF DiaInv

\* No barber is ever given two live citas at a time, through insertions, delays and
\* emergency moves, and what a request is about to insert is not in the agenda yet.
THEOREM JornadaInvariante == Spec => []DiaInv
<1>1. Init => DiaInv
  BY DiaAlEmpezar
<1>2. DiaInv /\ JornadaTypeOK' /\ [Next]_vars => DiaInv'
  BY DiaPaso
<1> QED
  BY <1>1, <1>2, JornadaTipos, PTL DEF Spec

\* A delay never lets one who waits for a barber overtake another, and nothing else
\* but a rescheduling moves anyone: for any number of citas, the queue is listed once each
\* and put later by one same time.
THEOREM JornadaColaEnOrden == Spec => ColaEnOrden
<1>1. DiaInv /\ JornadaTypeOK' /\ [Next]_vars
      => [novedades' = novedades =>
          \A c, d \in Citas :
            /\ {cita[c].estado, cita[d].estado, cita'[c].estado, cita'[d].estado} \subseteq PorAtender
            /\ cita[c].barbero = cita[d].barbero
            /\ cita[c].ini < cita[d].ini
            => cita'[c].ini < cita'[d].ini]_vars
  BY DiaPaso DEF EnTurno
<1> QED
  BY <1>1, JornadaTipos, JornadaInvariante, PTL DEF Spec, ColaEnOrden

-----------------------------------------------------------------------------
(* What the public page shows *)

\* A finite set of integers has a least one, and Min is it.
LEMMA MinimoEs ==
  ASSUME NEW S \in SUBSET Int, IsFiniteSet(S), S # {}
  PROVE  Min(S) \in S /\ \A y \in S : Min(S) <= y
<1> DEFINE R == {p \in S \X S : p[1] < p[2]}
           n == Cardinality(S)
           q == Puestos(S, R)
<1>1. Ordena(R, S)
  BY DEF Ordena
<1>2. \A x, y \in S : <<x, y>> \in R => x < y
  OBVIOUS
<1> HIDE DEF R
<1>3. /\ n \in Nat /\ q \in [1 .. n -> S]
      /\ \A x \in S : \E k \in 1 .. n : q[k] = x
      /\ \A i, j \in 1 .. n : i < j => <<q[i], q[j]>> \in R
  BY <1>1, PuestosLista
<1> HIDE DEF n, q
<1>4. 1 \in 1 .. n
  <2>1. PICK k \in 1 .. n : TRUE
    BY <1>3
  <2> QED
    BY <1>3, <2>1
<1>5. ASSUME NEW y \in S PROVE q[1] <= y
  <2>1. PICK k \in 1 .. n : q[k] = y
    BY <1>3
  <2>2. CASE k = 1
    BY <1>3, <1>4, <2>1, <2>2
  <2>3. CASE k # 1
    <3>1. <<q[1], q[k]>> \in R /\ q[1] \in S /\ q[k] \in S
      BY <1>3, <1>4, <2>3
    <3>2. q[1] < y /\ q[1] \in Int /\ y \in Int
      BY <1>2, <2>1, <3>1
    <3> QED
      BY <3>2
  <2> QED
    BY <2>2, <2>3
<1>6. \E x \in S : \A y \in S : x =< y
  BY <1>3, <1>4, <1>5
<1> QED
  BY <1>6 DEF Min

\* A start of an offer: it lies in its gap with the whole service.
Turno(s, largo) ==
    /\ s = [ini |-> s.ini, hueco |-> s.hueco] /\ s.ini \in Int /\ s.hueco \in Tramos
    /\ s.hueco.ini <= s.ini /\ s.ini + largo <= s.hueco.fin
\* The starts of an offer: finitely many, no two at one time.
Turnero(S, largo) ==
    /\ IsFiniteSet(S) /\ \A s \in S : Turno(s, largo)
    /\ \A s, r \in S : s.ini = r.ini => s = r

\* buildSlotsFromIntervals offers no time twice, if the stretches do not touch.
LEMMA TurnosSon ==
  ASSUME NEW I, Separados(I), IsFiniteSet(I), NEW largo \in Nat \ {0}
  PROVE  Turnero(Turnos(I, largo), largo)
<1> DEFINE P(u, x) == u % Paso = 0 /\ Vendible(u - x.ini) /\ Vendible(x.fin - u - largo)
           D(x) == {u \in x.ini .. x.fin - largo : P(u, x)}
           A(x) == {[ini |-> t, hueco |-> x] : t \in D(x)}
           a == [x \in I |-> A(x)]
           Z == Turnos(I, largo)
<1>1. Z = UNION {a[x] : x \in I}
  BY DEF Turnos
<1>2. \A x \in I : x \in Tramos /\ x.ini \in Int /\ x.fin \in Int
  BY DEF Separados, Tramos
<1>3. ASSUME NEW x \in I PROVE IsFiniteSet(a[x])
  <2> DEFINE g == [t \in D(x) |-> [ini |-> t, hueco |-> x]]
  <2>1. IsFiniteSet(x.ini .. x.fin - largo)
    BY <1>2, FS_Interval
  <2>2. D(x) \in SUBSET (x.ini .. x.fin - largo)
    OBVIOUS
  <2>3. IsFiniteSet(D(x))
    BY <2>1, <2>2, FS_Subset
  <2>4. a[x] = {g[t] : t \in D(x)}
    OBVIOUS
  <2>5. DOMAIN g = D(x)
    OBVIOUS
  <2> HIDE DEF g, a, D
  <2> QED
    BY <2>3, <2>4, <2>5, ImagenFinita
<1>4. ASSUME NEW s \in Z PROVE \E x \in I : s.hueco = x /\ s = [ini |-> s.ini, hueco |-> x]
                                            /\ s.ini \in x.ini .. x.fin - largo
  <2>1. PICK x \in I : s \in a[x]
    BY <1>1
  <2>2. PICK t \in D(x) : s = [ini |-> t, hueco |-> x]
    BY <2>1
  <2> QED
    BY <2>2
<1>5. IsFiniteSet(Z)
  <2>1. DOMAIN a = I
    OBVIOUS
  <2> HIDE DEF a
  <2>2. IsFiniteSet({a[x] : x \in I})
    BY <2>1, ImagenFinita
  <2> QED
    BY <1>1, <1>3, <2>2, FS_UNION
<1> HIDE DEF Z
<1>6. ASSUME NEW s \in Z PROVE Turno(s, largo)
  <2>1. PICK x \in I : s.hueco = x /\ s = [ini |-> s.ini, hueco |-> x]
                       /\ s.ini \in x.ini .. x.fin - largo
    BY <1>4
  <2> QED
    BY <1>2, <2>1 DEF Turno
<1>7. ASSUME NEW s \in Z, NEW r \in Z, s.ini = r.ini PROVE s = r
  <2>1. PICK x \in I : s.hueco = x /\ s = [ini |-> s.ini, hueco |-> x]
                       /\ s.ini \in x.ini .. x.fin - largo
    BY <1>4
  <2>2. PICK y \in I : r.hueco = y /\ r = [ini |-> r.ini, hueco |-> y]
                       /\ r.ini \in y.ini .. y.fin - largo
    BY <1>4
  <2>3. ~Aparte(x, y)
    BY <1>2, <1>7, <2>1, <2>2 DEF Aparte
  <2>4. x = y
    BY <2>3 DEF Separados
  <2> QED
    BY <1>7, <2>1, <2>2, <2>4
<1> QED
  BY <1>5, <1>6, <1>7 DEF Turnero, Z

\* So is the offer of a barber.
LEMMA OfertaTurnero ==
  ASSUME JornadaTypeOK, NEW b \in Barberos, NEW largo \in Nat \ {0}
  PROVE  Turnero(Oferta(cita, b, largo), largo)
<1> DEFINE C == ConExcepciones(Base(Filas(b)), excepciones)
           O == Ocupado(cita, b)
           D == Restar(C, O)
           J == {y \in D : y.fin > Piso(ahora)}
           g == [x \in J |-> Tramo(Max({x.ini, Piso(ahora)}), x.fin)]
           R == Recortar(D, Piso(ahora))
<1>1. FilasBien(Filas(b)) /\ ExcepcionesBien(excepciones) /\ ahora \in Nat /\ CitasBien(cita)
  BY FilasSonBien DEF JornadaTypeOK
<1>2. O \in SUBSET Tramos /\ IsFiniteSet(O)
  BY <1>1, OcupadoBien DEF JornadaTypeOK
<1>3. Separados(C) /\ IsFiniteSet(C)
  BY <1>1, ExcepcionesFiel
<1>0. Oferta(cita, b, largo) = Turnos(R, largo)
  BY DEF Oferta, TurnosDelDia
<1>r. R = {g[x] : x \in J}
  BY DEF Recortar
<1>g. DOMAIN g = J
  OBVIOUS
<1> HIDE DEF C, O, g
<1>4. Separados(D) /\ IsFiniteSet(D)
  BY <1>2, <1>3, RestarFiel DEF Separados
<1> HIDE DEF D
<1>5. Separados(R)
  BY <1>1, <1>4, PisoEs, RecortarFiel
<1>6. IsFiniteSet(R)
  <2>1. IsFiniteSet(J)
    BY <1>4, FS_Subset
  <2> HIDE DEF R, J
  <2> QED
    BY <1>r, <1>g, <2>1, ImagenFinita
<1> HIDE DEF R, J
<1> QED
  BY <1>0, <1>5, <1>6, TurnosSon

\* resolveEffectiveDayAvailability picks a barber of the branch, or nobody.
LEMMA AutoAsignadoEs ==
  ASSUME JornadaTypeOK, NEW largo \in Nat \ {0}
  PROVE  AutoAsignado(largo) \in Barberos \cup {NADA}
<1> DEFINE ofrece == [b \in Barberos |-> {s.ini : s \in Oferta(cita, b, largo)}]
           libres == {b \in Barberos : ofrece[b] # {}}
           primero == [b \in libres |-> Min(ofrece[b])]
           P(b) == \A d \in libres \ {b} :
                      \/ primero[b] < primero[d]
                      \/ primero[b] = primero[d] /\ Rango[b] < Rango[d]
           R == {p \in libres \X libres :
                      \/ primero[p[1]] < primero[p[2]]
                      \/ primero[p[1]] = primero[p[2]] /\ Rango[p[1]] < Rango[p[2]]}
           n == Cardinality(libres)
           q == Puestos(libres, R)
<1>0. AutoAsignado(largo) = IF libres = {} THEN NADA ELSE CHOOSE b \in libres : P(b)
  BY DEF AutoAsignado
<1>1. ASSUME NEW b \in libres PROVE primero[b] \in Int /\ Rango[b] \in Nat
  <2> DEFINE S == Oferta(cita, b, largo)
             f == [s \in S |-> s.ini]
  <2>1. Turnero(S, largo)
    BY OfertaTurnero
  <2>2. ofrece[b] = {f[s] : s \in S} /\ DOMAIN f = S
    OBVIOUS
  <2> HIDE DEF S
  <2>3. \A s \in S : f[s] \in Int
    BY <2>1 DEF Turnero, Turno
  <2> HIDE DEF f, ofrece
  <2>4. ofrece[b] \in SUBSET Int /\ IsFiniteSet(ofrece[b]) /\ ofrece[b] # {}
    BY <2>1, <2>2, <2>3, ImagenFinita DEF Turnero
  <2> QED
    BY <2>4, MinimoEs, JornadaAssumption
<1>2. IsFiniteSet(libres) /\ libres \subseteq Barberos
  BY JornadaAssumption, FS_Subset
<1>3. \A b, d \in libres : Rango[b] = Rango[d] => b = d
  BY JornadaAssumption
<1> HIDE DEF libres, ofrece, primero
<1>4. Ordena(R, libres)
  BY <1>1, <1>3 DEF Ordena
<1>5. \A b, d \in libres : <<b, d>> \in R =>
                      \/ primero[b] < primero[d]
                      \/ primero[b] = primero[d] /\ Rango[b] < Rango[d]
  OBVIOUS
<1> HIDE DEF R
<1>6. /\ n \in Nat /\ q \in [1 .. n -> libres]
      /\ \A x \in libres : \E k \in 1 .. n : q[k] = x
      /\ \A i, j \in 1 .. n : i < j => <<q[i], q[j]>> \in R
  BY <1>2, <1>4, PuestosLista
<1> HIDE DEF n, q
<1>7. ASSUME libres # {} PROVE \E b \in libres : P(b)
  <2>1. 1 \in 1 .. n
    <3>1. PICK k \in 1 .. n : TRUE
      BY <1>6, <1>7
    <3> QED
      BY <1>6, <3>1
  <2>2. ASSUME NEW d \in libres \ {q[1]} PROVE <<q[1], d>> \in R
    <3>1. PICK k \in 1 .. n : q[k] = d
      BY <1>6
    <3>2. k # 1
      BY <3>1, <2>2
    <3> QED
      BY <1>6, <2>1, <3>1, <3>2
  <2>3. q[1] \in libres
    BY <1>6, <2>1
  <2> QED
    BY <1>5, <2>2, <2>3
<1>8. libres # {} => (CHOOSE b \in libres : P(b)) \in libres
  <2> HIDE DEF P
  <2> QED
    BY <1>7
<1> QED
  BY <1>0, <1>2, <1>8

-----------------------------------------------------------------------------
(* The score of a start *)

\* The rows of the day push a later gap back by no more than it is later.
LEMMA DesfaseEs ==
  ASSUME NEW filas, FilasBien(filas), NEW a \in Int, NEW b \in Int
  PROVE  /\ Desfase(filas, a) \in Nat /\ Desfase(filas, b) \in Nat
         /\ Desfase(filas, a) - Desfase(filas, b) <= (IF a >= b THEN a - b ELSE 0)
<1>1. CASE filas = {}
  BY <1>1 DEF Desfase
<1>2. CASE filas # {}
  <2> DEFINE f == [x \in filas |-> x.ini]
             S == {x.ini : x \in filas}
  <2>1. S = {f[x] : x \in filas} /\ DOMAIN f = filas
    OBVIOUS
  <2>2. IsFiniteSet(filas) /\ S \in SUBSET Int /\ S # {}
    BY <1>2 DEF FilasBien
  <2> HIDE DEF f, S
  <2>3. IsFiniteSet(S)
    BY <2>1, <2>2, ImagenFinita
  <2>4. Min(S) \in Int
    BY <2>2, <2>3, MinimoEs
  <2>5. Max({0, a - Min(S)}) = (IF 0 >= a - Min(S) THEN 0 ELSE a - Min(S))
    BY <2>4, MaxDos
  <2>6. Max({0, b - Min(S)}) = (IF 0 >= b - Min(S) THEN 0 ELSE b - Min(S))
    BY <2>4, MaxDos
  <2>7. Desfase(filas, a) = Max({0, a - Min(S)}) /\ Desfase(filas, b) = Max({0, b - Min(S)})
    BY <1>2 DEF Desfase, S
  <2> QED
    BY <2>4, <2>5, <2>6, <2>7
<1> QED
  BY <1>1, <1>2

\* The parts of the score of a start, tenfold: the gap it begins, what it leaves
\* before and after it, and how late its gap is in the day.
LEMMA PuntajeEs ==
  ASSUME NEW filas, FilasBien(filas), NEW largo \in Nat \ {0}, NEW s, Turno(s, largo)
  PROVE  LET antes == (s.ini - s.hueco.ini) * Minutos
             tarde == Desfase(filas, s.hueco.ini) * Minutos
         IN  /\ Puntaje(s, largo, filas) \in Int /\ antes \in Nat /\ tarde \in Nat
             /\ antes = 0 <=> s.ini = s.hueco.ini
             /\ antes = 0 => Puntaje(s, largo, filas) >= 5000 - 10 * tarde
             /\ antes > 0 => Puntaje(s, largo, filas) <= 300 - 90 * antes - 10 * tarde
<1> DEFINE a == s.ini - s.hueco.ini
           d == s.hueco.fin - s.ini - largo
           e == Desfase(filas, s.hueco.ini)
           antes == a * Minutos
           despues == d * Minutos
           tarde == e * Minutos
           limpio == IF despues = 0 THEN 300 ELSE Min({200, despues})
           parte == IF antes > 0 /\ despues > 0 THEN 120 ELSE 0
           borde == IF antes = 0 THEN 5000 ELSE 0
<1>1. s.ini \in Int /\ s.hueco.ini \in Int /\ s.hueco.fin \in Int
      /\ s.hueco.ini <= s.ini /\ s.ini + largo <= s.hueco.fin
  BY DEF Turno, Tramos
<1>2. a \in Nat /\ d \in Nat /\ (a = 0 <=> s.ini = s.hueco.ini)
  BY <1>1
<1>3. e \in Nat
  BY <1>1, DesfaseEs
<1>4. Minutos \in Nat \ {0}
  BY DisponibilidadAssumption
<1> HIDE DEF a, d, e
<1>5. antes \in Nat /\ despues \in Nat /\ tarde \in Nat /\ (antes = 0 <=> a = 0)
  BY <1>2, <1>3, <1>4
<1>6. Puntaje(s, largo, filas) = borde - 90 * antes + limpio - parte - 10 * e * Minutos
  BY DEF Puntaje, a, d, e
<1>7. 10 * e * Minutos = 10 * tarde
  BY <1>3, <1>4
<1> HIDE DEF antes, despues, tarde
<1>8. limpio \in 0 .. 300 /\ parte \in {0, 120} /\ borde \in {0, 5000}
  <2>1. Min({200, despues}) = IF 200 <= despues THEN 200 ELSE despues
    BY <1>5, MaxDos
  <2> QED
    BY <1>5, <2>1
<1>9. (antes = 0 => borde = 5000 /\ parte = 0) /\ (antes > 0 => borde = 0)
  BY <1>5
<1> HIDE DEF limpio, parte, borde
<1>10. /\ Puntaje(s, largo, filas) \in Int
       /\ antes = 0 => Puntaje(s, largo, filas) >= 5000 - 10 * tarde
       /\ antes > 0 => Puntaje(s, largo, filas) <= 300 - 90 * antes - 10 * tarde
  BY <1>5, <1>6, <1>7, <1>8, <1>9
<1> QED
  BY <1>2, <1>5, <1>10 DEF antes, tarde, a, e

\* A start that begins its gap goes before one that does not, unless it is more
\* than 470 minutes later.
LEMMA InicioGana ==
  ASSUME NEW filas, FilasBien(filas), NEW largo \in Nat \ {0},
         NEW s, Turno(s, largo), s.ini = s.hueco.ini,
         NEW t, Turno(t, largo), t.ini # t.hueco.ini,
         (s.ini - t.ini) * Minutos <= 470
  PROVE  Puntaje(s, largo, filas) > Puntaje(t, largo, filas)
<1> DEFINE a == t.ini - t.hueco.ini
           u == Desfase(filas, s.hueco.ini)
           v == Desfase(filas, t.hueco.ini)
           x == s.ini - t.ini
           A == a * Minutos
           U == u * Minutos
           V == v * Minutos
           X == x * Minutos
           p == Puntaje(s, largo, filas)
           r == Puntaje(t, largo, filas)
<1>1. s.ini \in Int /\ t.ini \in Int /\ s.hueco.ini \in Int /\ t.hueco.ini \in Int
      /\ t.hueco.ini <= t.ini
  BY DEF Turno, Tramos
<1>2. Minutos \in Nat \ {0}
  BY DisponibilidadAssumption
<1>3. u \in Nat /\ v \in Nat
      /\ u - v <= (IF s.hueco.ini >= t.hueco.ini THEN s.hueco.ini - t.hueco.ini ELSE 0)
  BY <1>1, DesfaseEs
<1>4. a \in Nat /\ x \in Int /\ u - v <= (IF x + a >= 0 THEN x + a ELSE 0)
  BY <1>1, <1>3
<1>5. p \in Int /\ p >= 5000 - 10 * U
  BY PuntajeEs
<1>6. r \in Int /\ A > 0 /\ r <= 300 - 90 * A - 10 * V
  <2>1. A \in Nat /\ A # 0
    BY PuntajeEs
  <2> QED
    BY <2>1, PuntajeEs
<1>7. X <= 470
  OBVIOUS
<1> HIDE DEF a, u, v, x, p, r
<1>8. U \in Int /\ V \in Int /\ A \in Int /\ X \in Int
  BY <1>2, <1>3, <1>4
<1>9. U - V <= (IF X + A >= 0 THEN X + A ELSE 0)
  <2>1. CASE x + a >= 0
    <3>1. (u - v) * Minutos <= (x + a) * Minutos /\ (x + a) * Minutos >= 0
      BY <1>2, <1>3, <1>4, <2>1
    <3>2. (u - v) * Minutos = U - V /\ (x + a) * Minutos = X + A
      BY <1>2, <1>3, <1>4
    <3> HIDE DEF U, V, X, A
    <3> QED
      BY <1>8, <3>1, <3>2
  <2>2. CASE ~(x + a >= 0)
    <3>1. u <= v
      BY <1>3, <1>4, <2>2
    <3>2. U <= V
      BY <1>2, <1>3, <3>1
    <3> HIDE DEF U, V, X, A
    <3> QED
      BY <1>8, <3>2
  <2> QED
    BY <2>1, <2>2
<1> HIDE DEF U, V, X, A
<1>10. p > r
  BY <1>5, <1>6, <1>7, <1>8, <1>9
<1> QED
  BY <1>10 DEF p, r

-----------------------------------------------------------------------------
(* The ranking and the cut *)

\* x goes before y, by their scores and then by their hours.
Mejor(x, y, largo, filas) ==
    \/ Puntaje(x, largo, filas) > Puntaje(y, largo, filas)
    \/ Puntaje(x, largo, filas) = Puntaje(y, largo, filas) /\ x.ini < y.ini

\* buildCuratedRankingByPeriod lists every start once, the best first.
LEMMA ClasificadosLista ==
  ASSUME NEW filas, FilasBien(filas), NEW largo \in Nat \ {0}, NEW Ts, Turnero(Ts, largo)
  PROVE  LET n == Cardinality(Ts)
             q == Clasificados(Ts, largo, filas)
         IN  /\ n \in Nat /\ q \in [1 .. n -> Ts] /\ DOMAIN q = 1 .. n
             /\ \A x \in Ts : \E k \in 1 .. n : q[k] = x
             /\ \A i, j \in 1 .. n : i < j => Mejor(q[i], q[j], largo, filas) /\ q[i] # q[j]
<1> DEFINE P == [s \in Ts |-> Puntaje(s, largo, filas)]
           antes(x, y) == P[x] > P[y] \/ (P[x] = P[y] /\ x.ini < y.ini)
           R == {p \in Ts \X Ts : antes(p[1], p[2])}
           n == Cardinality(Ts)
           q == Clasificados(Ts, largo, filas)
           w == Puestos(Ts, R)
           el(k) == CHOOSE x \in Ts : Cardinality({y \in Ts : antes(y, x)}) = k - 1
           en(k) == CHOOSE x \in Ts : Cardinality({y \in Ts : <<y, x>> \in R}) = k - 1
<1>1. IsFiniteSet(Ts) /\ \A x \in Ts : x.ini \in Int
  BY DEF Turnero, Turno
<1>2. \A x \in Ts : P[x] = Puntaje(x, largo, filas) /\ P[x] \in Int
  <2>1. ASSUME NEW x \in Ts PROVE Puntaje(x, largo, filas) \in Int
    BY PuntajeEs DEF Turnero
  <2> QED
    BY <2>1
<1>3. \A x, y \in Ts : x.ini = y.ini => x = y
  BY DEF Turnero
<1>q. q = [k \in 1 .. n |-> el(k)]
  BY DEF Clasificados, EnOrden
<1> HIDE DEF P
<1>4. w = q
  <2>1. \A k : el(k) = en(k)
    <3>1. \A x \in Ts : {y \in Ts : antes(y, x)} = {y \in Ts : <<y, x>> \in R}
      OBVIOUS
    <3> HIDE DEF R, antes
    <3> QED
      BY <3>1
  <2>2. w = [k \in 1 .. n |-> en(k)]
    BY DEF Puestos
  <2> HIDE DEF q, w, el, en, n
  <2> QED
    BY <1>q, <2>1, <2>2
<1> HIDE DEF q, el, en
<1>5. Ordena(R, Ts)
  BY <1>1, <1>2, <1>3 DEF Ordena
<1>6. ASSUME NEW x \in Ts, NEW y \in Ts, <<x, y>> \in R
      PROVE  Mejor(x, y, largo, filas) /\ x # y
  <2>1. antes(x, y)
    BY <1>6
  <2>2. Mejor(x, y, largo, filas)
    BY <1>2, <2>1 DEF Mejor
  <2>3. x # y
    BY <1>1, <1>2, <2>1
  <2> QED
    BY <2>2, <2>3
<1> HIDE DEF R
<1>7. /\ n \in Nat /\ w \in [1 .. n -> Ts]
      /\ \A x \in Ts : \E k \in 1 .. n : w[k] = x
      /\ \A i, j \in 1 .. n : i < j => <<w[i], w[j]>> \in R
  BY <1>1, <1>5, PuestosLista
<1> HIDE DEF w, n
<1>8. \A i, j \in 1 .. n : i < j => Mejor(w[i], w[j], largo, filas) /\ w[i] # w[j]
  <2>1. \A i \in 1 .. n : w[i] \in Ts
    BY <1>7
  <2> QED
    BY <1>6, <1>7, <2>1
<1>9. DOMAIN w = 1 .. n
  BY <1>7
<1> QED
  BY <1>4, <1>7, <1>8, <1>9 DEF q, n

\* One start more of the ranking.
Exponer(r, s) ==
    IF Len(r.elegidos) <= Limite /\ Separado(r.elegidos, s)
    THEN [r EXCEPT !.elegidos = Append(@, s)]
    ELSE [r EXCEPT !.resto = @ \cup {s}]

\* h gives what is chosen and left of each beginning of the ranking q.
Expuestos(h, q, n, Ts, largo, filas) ==
    /\ h \in [0 .. n -> [elegidos : Seq(Ts), resto : SUBSET Ts]]
    /\ h[0] = [elegidos |-> <<>>, resto |-> {}] /\ h[n] = Exposicion(Ts, largo, filas)
    /\ \A k \in 1 .. n : h[k] = Exponer(h[k - 1], q[k])

\* buildCuratedSlotExposure goes through the ranking one by one.
LEMMA ExposicionPliega ==
  ASSUME NEW filas, FilasBien(filas), NEW largo \in Nat \ {0}, NEW Ts, Turnero(Ts, largo)
  PROVE  \E h : Expuestos(h, Clasificados(Ts, largo, filas), Cardinality(Ts), Ts, largo, filas)
<1> DEFINE q == Clasificados(Ts, largo, filas)
           n == Cardinality(Ts)
           S == 1 .. n
           V == [elegidos : Seq(Ts), resto : SUBSET Ts]
           base == [elegidos |-> <<>>, resto |-> {}]
           E(g) == g = [t \in SUBSET S |-> IF t = {} THEN base
                                           ELSE Exponer(g[t \ {Max(t)}], q[Max(t)])]
           it == CHOOSE g : E(g)
           F == [u \in V \X Ts |-> Exponer(u[1], u[2])]
<1>1. n \in Nat /\ q \in [S -> Ts] /\ DOMAIN q = S
  BY ClasificadosLista
<1>2. base \in V
  OBVIOUS
<1> HIDE DEF q
<1>3. Exposicion(Ts, largo, filas) = it[S]
  BY <1>1 DEF Exposicion, FoldLeft, MapThenFoldSet, Exponer, q
<1>4. F \in [V \X Ts -> V] /\ \A v \in V, x \in Ts : F[<<v, x>>] = Exponer(v, x)
  <2>1. ASSUME NEW v \in V, NEW x \in Ts PROVE Exponer(v, x) \in V
    <3>1. Append(v.elegidos, x) \in Seq(Ts) /\ v.resto \cup {x} \in SUBSET Ts
      OBVIOUS
    <3> QED
      BY <3>1 DEF Exponer
  <2> HIDE DEF V
  <2> QED
    BY <2>1
<1> HIDE DEF n, F, V, base
<1>5. \A t \in SUBSET S : t # {} => Max(t) \in S /\ q[Max(t)] \in Ts
  BY <1>1, MaximoDe
<1>6. E(it)
  <2>1. PICK g \in [SUBSET S -> V] : EsPlegado(g, F, base, q, n)
    BY <1>1, <1>2, <1>4, PlegadoExiste
  <2>2. ASSUME NEW t \in SUBSET S
        PROVE  g[t] = IF t = {} THEN base ELSE Exponer(g[t \ {Max(t)}], q[Max(t)])
    BY <1>4, <1>5, <2>1 DEF EsPlegado
  <2>3. E(g)
    BY <2>2
  <2> QED
    BY <2>3
<1> HIDE DEF it
<1>7. SigueEn(it, F, q, n, V)
  <2>1. ASSUME NEW t \in SUBSET S, t # {}, it[t \ {Max(t)}] \in V
        PROVE  it[t] = F[<<it[t \ {Max(t)}], q[Max(t)]>>]
    <3>1. it[t] = Exponer(it[t \ {Max(t)}], q[Max(t)])
      BY <1>6, <2>1
    <3>2. q[Max(t)] \in Ts
      BY <1>5, <2>1
    <3> QED
      BY <1>4, <2>1, <3>1, <3>2
  <2> QED
    BY <2>1 DEF SigueEn
<1>8. PICK h : Prefijos(h, it, F, base, q, n, V)
  <2>1. it[{}] = base
    BY <1>6
  <2> HIDE DEF S
  <2>2. q \in [1 .. n -> Ts] /\ n \in Nat
    BY <1>1 DEF S
  <2> QED
    BY <1>2, <1>4, <1>7, <2>1, <2>2, PlegadoVale
<1>9. /\ h \in [0 .. n -> V] /\ h[0] = base /\ h[n] = it[S]
      /\ \A k \in 1 .. n : h[k] = F[<<h[k - 1], q[k]>>]
  BY <1>8 DEF Prefijos
<1>10. \A k \in 1 .. n : h[k] = Exponer(h[k - 1], q[k])
  <2>1. ASSUME NEW k \in 1 .. n PROVE h[k - 1] \in V /\ q[k] \in Ts
    BY <1>1, <1>9
  <2> QED
    BY <1>4, <1>9, <2>1
<1> QED
  BY <1>3, <1>9, <1>10 DEF Expuestos, n, base, q, V

Lejos(x, y) == x.ini - y.ini >= Separacion \/ y.ini - x.ini >= Separacion

\* What r shows and hides of the first k starts of the ranking q.
Curado(r, q, k) ==
    LET e == r.elegidos
        m == Len(r.elegidos)
    IN  /\ \A i \in 1 .. k : q[i] \in r.resto \/ \E j \in 1 .. m : e[j] = q[i]
        /\ \A x \in r.resto : \E i \in 1 .. k : x = q[i]
        /\ \A j \in 1 .. m : \E i \in 1 .. k : e[j] = q[i]
        /\ \A j \in 1 .. m : e[j] \notin r.resto
        /\ \A i, j \in 1 .. m : i # j => Lejos(e[i], e[j])
        /\ \A x \in r.resto : m > Limite \/ \E j \in 1 .. m : ~Lejos(x, e[j])
        /\ k > 0 => m > 0 /\ e[1] = q[1]

\* A start more is shown last or hidden, and the others stay where they are.
LEMMA ExponerCurado ==
  ASSUME NEW Ts, NEW n \in Nat, NEW q \in [1 .. n -> Ts], NEW k \in 1 .. n,
         \A x \in Ts : x.ini \in Int,
         \A i, j \in 1 .. n : i < j => q[i] # q[j],
         NEW r \in [elegidos : Seq(Ts), resto : SUBSET Ts], Curado(r, q, k - 1)
  PROVE  Curado(Exponer(r, q[k]), q, k)
<1> DEFINE e == r.elegidos
           m == Len(e)
           s == q[k]
           u == Exponer(r, s)
<1>1. e \in Seq(Ts) /\ m \in Nat /\ s \in Ts /\ r.resto \in SUBSET Ts /\ Limite \in 2 .. 3
      /\ Separacion \in Nat \ {0} /\ \A j \in 1 .. m : e[j] \in Ts
  BY DisponibilidadAssumption
<1>2. /\ \A i \in 1 .. k - 1 : q[i] \in r.resto \/ \E j \in 1 .. m : e[j] = q[i]
      /\ \A x \in r.resto : \E i \in 1 .. k - 1 : x = q[i]
      /\ \A j \in 1 .. m : \E i \in 1 .. k - 1 : e[j] = q[i]
      /\ \A j \in 1 .. m : e[j] \notin r.resto
      /\ \A i, j \in 1 .. m : i # j => Lejos(e[i], e[j])
      /\ \A x \in r.resto : m > Limite \/ \E j \in 1 .. m : ~Lejos(x, e[j])
      /\ k - 1 > 0 => m > 0 /\ e[1] = q[1]
  BY DEF Curado
<1>3. \A i \in 1 .. k : i = k \/ i \in 1 .. k - 1
  OBVIOUS
<1>4. \A i \in 1 .. k - 1 : i \in 1 .. k /\ i \in 1 .. n /\ q[i] # s
  OBVIOUS
<1>5. s \notin r.resto /\ \A j \in 1 .. m : e[j] # s
  BY <1>2, <1>4
<1>6. Separado(e, s) <=> \A j \in 1 .. m : Lejos(e[j], s)
  <2>1. Range(e) = {e[j] : j \in 1 .. m}
    BY <1>1 DEF Range
  <2> QED
    BY <2>1 DEF Separado, Lejos
<1>7. \A x, y : Lejos(x, y) <=> Lejos(y, x)
  BY DEF Lejos
<1>8. k \in 1 .. k
  OBVIOUS
<1>9. CASE m <= Limite /\ Separado(e, s)
  <2> DEFINE g == Append(e, s)
  <2>1. u.elegidos = g /\ u.resto = r.resto
    BY <1>9 DEF Exponer
  <2>2. Len(g) = m + 1 /\ g[m + 1] = s /\ \A j \in 1 .. m : g[j] = e[j] /\ j \in 1 .. m + 1
    BY <1>1
  <2>3. \A j \in 1 .. m + 1 : j = m + 1 \/ j \in 1 .. m
    BY <1>1
  <2>4. m + 1 \in 1 .. m + 1
    BY <1>1
  <2> HIDE DEF g, u, e, m, s
  <2>5. \A i \in 1 .. k : q[i] \in u.resto \/ \E j \in 1 .. m + 1 : g[j] = q[i]
    BY <1>2, <1>3, <2>1, <2>2, <2>4 DEF s
  <2>6. \A x \in u.resto : \E i \in 1 .. k : x = q[i]
    BY <1>2, <1>4, <2>1
  <2>7. \A j \in 1 .. m + 1 : (\E i \in 1 .. k : g[j] = q[i]) /\ g[j] \notin u.resto
    <3>1. ASSUME NEW j \in 1 .. m PROVE (\E i \in 1 .. k : g[j] = q[i]) /\ g[j] \notin u.resto
      <4>1. g[j] = e[j] /\ e[j] \notin r.resto
        BY <1>2, <2>2
      <4>2. PICK i \in 1 .. k - 1 : e[j] = q[i]
        BY <1>2
      <4> QED
        BY <1>4, <2>1, <4>1, <4>2
    <3>2. (\E i \in 1 .. k : g[m + 1] = q[i]) /\ g[m + 1] \notin u.resto
      BY <1>5, <1>8, <2>1, <2>2 DEF s
    <3> QED
      BY <2>3, <3>1, <3>2
  <2>8. \A i, j \in 1 .. m + 1 : i # j => Lejos(g[i], g[j])
    BY <1>2, <1>6, <1>7, <1>9, <2>2, <2>3
  <2>9. \A x \in u.resto : m + 1 > Limite \/ \E j \in 1 .. m + 1 : ~Lejos(x, g[j])
    <3>1. ASSUME NEW x \in u.resto PROVE m + 1 > Limite \/ \E j \in 1 .. m + 1 : ~Lejos(x, g[j])
      <4>1. m > Limite => m + 1 > Limite
        BY <1>1
      <4>2. ASSUME NEW j \in 1 .. m, ~Lejos(x, e[j]) PROVE \E i \in 1 .. m + 1 : ~Lejos(x, g[i])
        BY <2>2, <4>2
      <4> QED
        BY <1>2, <2>1, <4>1, <4>2
    <3> QED
      BY <3>1
  <2>10. m + 1 > 0 /\ g[1] = q[1]
    <3>1. CASE k = 1
      <4>1. m = 0
        <5>1. \A j \in 1 .. m : FALSE
          BY <1>2, <3>1
        <5> QED
          BY <1>1, <5>1
      <4>2. m + 1 = 1
        BY <4>1
      <4> QED
        BY <2>2, <3>1, <4>2 DEF s
    <3>2. CASE k # 1
      <4>1. m > 0 /\ e[1] = q[1]
        BY <1>2, <3>2
      <4>2. 1 \in 1 .. m
        BY <1>1, <4>1
      <4> QED
        BY <2>2, <4>1, <4>2
    <3> QED
      BY <3>1, <3>2
  <2>11. Curado(u, q, k)
    BY <2>1, <2>2, <2>5, <2>6, <2>7, <2>8, <2>9, <2>10 DEF Curado
  <2> QED
    BY <2>11 DEF u, s
<1>10. CASE ~(m <= Limite /\ Separado(e, s))
  <2>1. u.elegidos = e /\ u.resto = r.resto \cup {s}
    BY <1>10 DEF Exponer
  <2> HIDE DEF u, e, m, s
  <2>2. \A i \in 1 .. k : q[i] \in u.resto \/ \E j \in 1 .. m : e[j] = q[i]
    BY <1>2, <1>3, <2>1 DEF s
  <2>3. \A x \in u.resto : \E i \in 1 .. k : x = q[i]
    BY <1>2, <1>4, <1>8, <2>1 DEF s
  <2>4. \A j \in 1 .. m : (\E i \in 1 .. k : e[j] = q[i]) /\ e[j] \notin u.resto
    BY <1>2, <1>4, <1>5, <2>1
  <2>5. \A x \in u.resto : m > Limite \/ \E j \in 1 .. m : ~Lejos(x, e[j])
    BY <1>1, <1>2, <1>6, <1>7, <1>10, <2>1
  <2>6. m > 0 /\ e[1] = q[1]
    <3>1. m # 0
      BY <1>1, <1>6, <1>10
    <3>2. \A j \in 1 .. m : \E i \in 1 .. k - 1 : e[j] = q[i]
      BY <1>2
    <3>3. 1 \in 1 .. m
      BY <1>1, <3>1
    <3>4. k - 1 > 0
      <4>1. PICK i \in 1 .. k - 1 : e[1] = q[i]
        BY <3>2, <3>3
      <4> QED
        BY <4>1
    <3> QED
      BY <1>2, <3>4
  <2>7. Curado(u, q, k)
    BY <1>2, <2>1, <2>2, <2>3, <2>4, <2>5, <2>6 DEF Curado, e, m
  <2> QED
    BY <2>7 DEF u, s
<1> QED
  BY <1>9, <1>10

\* The whole of the cut: nothing is lost or shown twice, what is shown is kept
\* apart, what is hidden is too near or one too many, and the best comes first.
LEMMA ExposicionFiel ==
  ASSUME NEW filas, FilasBien(filas), NEW largo \in Nat \ {0}, NEW Ts, Turnero(Ts, largo)
  PROVE  LET r == Exposicion(Ts, largo, filas)
             vistos == Range(r.elegidos)
         IN  /\ vistos \cup r.resto = Ts /\ vistos \cap r.resto = {}
             /\ Cardinality(vistos) = Len(r.elegidos)
             /\ \A x, y \in vistos : x # y => Lejos(x, y)
             /\ \A x \in r.resto : Len(r.elegidos) > Limite \/ \E y \in vistos : ~Lejos(x, y)
             /\ \A x \in Ts : x = r.elegidos[1] \/ Mejor(r.elegidos[1], x, largo, filas)
             /\ Ts # {} => r.elegidos[1] \in Ts
<1> DEFINE q == Clasificados(Ts, largo, filas)
           n == Cardinality(Ts)
           V == [elegidos : Seq(Ts), resto : SUBSET Ts]
           r == Exposicion(Ts, largo, filas)
           e == r.elegidos
           m == Len(e)
           vistos == Range(e)
<1>1. /\ n \in Nat /\ q \in [1 .. n -> Ts]
      /\ \A x \in Ts : \E k \in 1 .. n : q[k] = x
      /\ \A i, j \in 1 .. n : i < j => Mejor(q[i], q[j], largo, filas) /\ q[i] # q[j]
  BY ClasificadosLista
<1>2. PICK h : Expuestos(h, q, n, Ts, largo, filas)
  BY ExposicionPliega
<1>3. /\ h \in [0 .. n -> V] /\ h[0] = [elegidos |-> <<>>, resto |-> {}] /\ h[n] = r
      /\ \A k \in 1 .. n : h[k] = Exponer(h[k - 1], q[k])
  BY <1>2 DEF Expuestos
<1>4. \A x \in Ts : x.ini \in Int
  BY DEF Turnero, Turno
<1>s. Separacion \in Nat \ {0}
  BY DisponibilidadAssumption
<1> HIDE DEF q, n, V, r
<1> DEFINE K == {k \in 0 .. n : Curado(h[k], q, k)}
<1>5. 0 \in K
  <2> DEFINE v == h[0]
  <2>1. v.elegidos = <<>> /\ v.resto = {} /\ Len(v.elegidos) = 0
    BY <1>3
  <2> HIDE DEF v
  <2>2. Curado(v, q, 0)
    BY <2>1 DEF Curado
  <2> QED
    BY <1>1, <2>2 DEF v
<1>6. ASSUME NEW k \in 1 .. n, k - 1 \in K PROVE k \in K
  <2>1. h[k - 1] \in [elegidos : Seq(Ts), resto : SUBSET Ts] /\ h[k] = Exponer(h[k - 1], q[k])
    <3>1. k - 1 \in 0 .. n
      BY <1>1
    <3>2. h[k - 1] \in V
      BY <1>3, <3>1
    <3>3. h[k] = Exponer(h[k - 1], q[k])
      BY <1>3
    <3> QED
      BY <3>2, <3>3 DEF V
  <2>2. Curado(h[k - 1], q, k - 1)
    BY <1>6
  <2>3. \A i, j \in 1 .. n : i < j => q[i] # q[j]
    BY <1>1
  <2>4. Curado(Exponer(h[k - 1], q[k]), q, k)
    BY <1>1, <1>4, <2>1, <2>2, <2>3, ExponerCurado
  <2> QED
    BY <1>1, <2>1, <2>4
<1>7. Curado(r, q, n)
  <2>1. K \in SUBSET (0 .. n)
    OBVIOUS
  <2> HIDE DEF K
  <2>2. n \in K
    BY <1>1, <1>5, <1>6, <2>1, HastaN
  <2> QED
    BY <1>3, <2>2 DEF K
<1>8. r \in V
  BY <1>1, <1>3
<1>9. e \in Seq(Ts) /\ m \in Nat /\ r.resto \in SUBSET Ts /\ e \in [1 .. m -> Ts]
  BY <1>8 DEF V
<1>10. /\ \A i \in 1 .. n : q[i] \in r.resto \/ \E j \in 1 .. m : e[j] = q[i]
       /\ \A j \in 1 .. m : e[j] \notin r.resto
       /\ \A i, j \in 1 .. m : i # j => Lejos(e[i], e[j])
       /\ \A x \in r.resto : m > Limite \/ \E j \in 1 .. m : ~Lejos(x, e[j])
       /\ n > 0 => m > 0 /\ e[1] = q[1]
  BY <1>7 DEF Curado
<1> HIDE DEF e, m
<1>11. vistos = {e[j] : j \in 1 .. m}
  BY <1>9 DEF Range
<1>12. vistos \cup r.resto = Ts /\ vistos \cap r.resto = {}
  BY <1>1, <1>9, <1>10, <1>11
<1>13. \A i, j \in 1 .. m : e[i] = e[j] => i = j
  <2>1. ASSUME NEW i \in 1 .. m, NEW j \in 1 .. m, i # j, e[i] = e[j] PROVE FALSE
    <3>1. Lejos(e[i], e[i]) /\ e[i].ini \in Int
      BY <1>4, <1>9, <1>10, <2>1
    <3> QED
      BY <1>s, <3>1 DEF Lejos
  <2> QED
    BY <2>1
<1>14. Cardinality(vistos) = m
  <2>1. e \in Bijection(1 .. m, vistos)
    BY <1>9, <1>11, <1>13 DEF Bijection, Injection, Surjection, IsInjective
  <2>2. IsFiniteSet(1 .. m) /\ Cardinality(1 .. m) = m
    BY <1>9, FS_Interval
  <2> HIDE DEF vistos
  <2> QED
    BY <2>1, <2>2, FS_Bijection DEF ExistsBijection
<1>15. \A x, y \in vistos : x # y => Lejos(x, y)
  BY <1>10, <1>11
<1>16. \A x \in r.resto : m > Limite \/ \E y \in vistos : ~Lejos(x, y)
  BY <1>10, <1>11
<1>17. ASSUME NEW x \in Ts PROVE (x = e[1] \/ Mejor(e[1], x, largo, filas)) /\ e[1] \in Ts
  <2>1. PICK k \in 1 .. n : q[k] = x
    BY <1>1
  <2>2. n > 0 /\ 1 \in 1 .. n /\ (k = 1 \/ 1 < k)
    BY <1>1, <2>1
  <2>3. e[1] = q[1]
    BY <1>10, <2>2
  <2> QED
    BY <1>1, <2>1, <2>2, <2>3
<1> QED
  BY <1>12, <1>14, <1>15, <1>16, <1>17 DEF r, e, m

\* What the page shows of a period is faithful to the offer.
LEMMA CuradoEsFiel ==
  ASSUME JornadaTypeOK
  PROVE  CuradoFiel
<1> SUFFICES ASSUME NEW largo \in Largos, NEW b \in {AutoAsignado(largo)} \ {NADA},
                    NEW p \in DOMAIN Periodos,
                    NEW S \in {EnPeriodo(Oferta(cita, b, largo), largo, p)},
                    NEW r \in {Exposicion(S, largo, Filas(b))}
             PROVE  LET vistos == Range(r.elegidos)
                        primero == r.elegidos[1]
                        lejos(x, y) == x.ini - y.ini >= Separacion \/ y.ini - x.ini >= Separacion
                    IN  /\ vistos \cup r.resto = S /\ vistos \cap r.resto = {}
                        /\ Cardinality(vistos) = Len(r.elegidos)
                        /\ \A x, y \in vistos : x # y => lejos(x, y)
                        /\ \A x \in r.resto : Len(r.elegidos) > Limite
                                              \/ \E y \in vistos : ~lejos(x, y)
                        /\ \A x \in S : x.ini = x.hueco.ini =>
                              \/ primero.ini = primero.hueco.ini
                              \/ (x.ini - primero.ini) * Minutos > 470
  BY DEF CuradoFiel
<1>1. largo \in Nat \ {0}
  BY Duraciones DEF Largos
<1>2. b \in Barberos
  BY <1>1, AutoAsignadoEs
<1>3. FilasBien(Filas(b))
  BY <1>2, FilasSonBien
<1>4. Turnero(S, largo)
  <2>1. S \in SUBSET Oferta(cita, b, largo)
    BY DEF EnPeriodo
  <2>2. Turnero(Oferta(cita, b, largo), largo)
    BY <1>1, <1>2, OfertaTurnero
  <2> QED
    BY <2>1, <2>2, FS_Subset DEF Turnero
<1> DEFINE vistos == Range(r.elegidos)
           t == r.elegidos[1]
<1>5. /\ vistos \cup r.resto = S /\ vistos \cap r.resto = {}
      /\ Cardinality(vistos) = Len(r.elegidos)
      /\ \A x, y \in vistos : x # y => Lejos(x, y)
      /\ \A x \in r.resto : Len(r.elegidos) > Limite \/ \E y \in vistos : ~Lejos(x, y)
      /\ \A x \in S : x = t \/ Mejor(t, x, largo, Filas(b))
      /\ S # {} => t \in S
  BY <1>1, <1>3, <1>4, ExposicionFiel
<1> HIDE DEF vistos, t
<1>6. ASSUME NEW x \in S, x.ini = x.hueco.ini, t.ini # t.hueco.ini
      PROVE  (x.ini - t.ini) * Minutos > 470
  <2> DEFINE F == Filas(b)
             d == (x.ini - t.ini) * Minutos
             P == Puntaje(x, largo, F)
             Q == Puntaje(t, largo, F)
  <2>1. Turno(x, largo) /\ Turno(t, largo) /\ x # t /\ Mejor(t, x, largo, F)
    BY <1>4, <1>5, <1>6 DEF Turnero
  <2>2. d \in Int
    <3>1. x.ini \in Int /\ t.ini \in Int /\ Minutos \in Nat
      BY <2>1, DisponibilidadAssumption DEF Turno
    <3> QED
      BY <3>1
  <2>3. P \in Int /\ Q \in Int
    BY <1>1, <1>3, <2>1, PuntajeEs
  <2>4. Q >= P
    <3> HIDE DEF P, Q
    <3> QED
      BY <2>1, <2>3 DEF Mejor, P, Q
  <2>5. d <= 470 => P > Q
    BY <1>1, <1>3, <1>6, <2>1, InicioGana
  <2> HIDE DEF d, P, Q
  <2>6. d > 470
    BY <2>2, <2>3, <2>4, <2>5
  <2> QED
    BY <2>6 DEF d
<1> QED
  BY <1>5, <1>6 DEF Lejos, vistos, t

\* For every calendar, period and length of service: the public page loses no start
\* that is offered, shows none twice, keeps what it recommends apart, hides a start only
\* when it is too near or one too many, and prefers the start of a gap to any that
\* is not, unless it comes more than 470 minutes later.
THEOREM JornadaCuradoFiel == Spec => []CuradoFiel
<1>1. JornadaTypeOK => CuradoFiel
  BY CuradoEsFiel
<1> QED
  BY <1>1, JornadaTipos, PTL
=============================================================================
