--------------------------- MODULE Disponibilidad ---------------------------
(* The arithmetic of one day in agendaService.js: which starts of a service a
   barber offers, given the rows of his schedule, the exceptions of the branch
   and what keeps him busy, and how the offer of a period is ranked and cut
   down for the public page.  Instants are integers on a grid, a stretch of time
   is [ini, fin), and the lists of the code are sets wherever their order
   decides nothing. *)
EXTENDS Integers, FiniteSets, SequencesExt

CONSTANTS
    Paso,        \* SLOT_INTERVAL_MINUTES
    Minimo,      \* agenda_min_servicio_vendible_min: the least rest worth selling
    Minutos,     \* minutes in one unit of the grid
    Periodos,    \* CURATED_PERIOD_SEGMENTS: the stretches of manana, tarde and noche
    Separacion,  \* alternativeSpacingMin
    Limite,      \* alternativesLimit
    NADA         \* SQL NULL

ASSUME DisponibilidadAssumption ==
    /\ Paso \in Nat \ {0} /\ Minutos \in Nat \ {0} /\ Minimo \in Nat
    /\ Separacion \in Nat \ {0} /\ Limite \in 2 .. 3

Tramo(a, b) == [ini |-> a, fin |-> b]
Tramos == [ini : Int, fin : Int]
Chocan(x, y) == x.ini < y.fin /\ y.ini < x.fin
Dentro(x, y) == y.ini <= x.ini /\ x.fin <= y.fin
Instantes(I) == UNION {x.ini .. x.fin - 1 : x \in I}

\* The elements of S as a sequence, in the strict total order antes.
EnOrden(S, antes(_, _)) ==
    [k \in 1 .. Cardinality(S) |->
        CHOOSE x \in S : Cardinality({y \in S : antes(y, x)}) = k - 1]

-----------------------------------------------------------------------------
(* Stretches of time *)

\* normalizeInterval and the sort: what is empty is dropped.
Antes(x, y) == x.ini < y.ini \/ (x.ini = y.ini /\ x.fin < y.fin)
Ordenados(I) == EnOrden({x \in I : x.ini < x.fin}, Antes)

\* Mutant: stretches that only touch are kept apart.
MutantPegan(x, y) == y.ini < x.fin
Pegan(x, y) == y.ini <= x.fin

\* mergeIntervals: stretches that overlap or touch become one.
Pegar(m, x) ==
    IF m # <<>> /\ Pegan(Last(m), x) THEN [m EXCEPT ![Len(m)].fin = Max({@, x.fin})]
    ELSE Append(m, x)
Mezclar(I) == Range(FoldLeft(Pegar, <<>>, Ordenados(I)))

\* subtractIntervals, for one stretch: a pointer jumps over what is busy.
Quitar(base, s, o) ==
    IF o.fin <= s.desde \/ o.ini >= base.fin THEN s
    ELSE [desde  |-> Max({s.desde, o.fin}),
          libres |-> s.libres \cup {Tramo(s.desde, Min({o.ini, base.fin}))}]
Recorrer(base, q) ==
    FoldLeft(LAMBDA s, o : Quitar(base, s, o), [desde |-> base.ini, libres |-> {}], q)
Huecos(base, ocupado) ==
    LET r == Recorrer(base, Ordenados(ocupado))
    IN  {x \in r.libres \cup {Tramo(r.desde, base.fin)} : x.ini < x.fin}

Restar(B, O) == LET O2 == Mezclar(O) IN UNION {Huecos(b, O2) : b \in B}

-----------------------------------------------------------------------------
(* The opening of a day *)

\* buildBaseIntervalsFromSchedules: the rows of a schedule without their lunch.
Base(filas) ==
    UNION {Restar({Tramo(f.ini, f.fin)}, IF f.almuerzo = NADA THEN {} ELSE {f.almuerzo})
           : f \in filas}

\* What the administrators may enter: the rows of a day and the exceptions, none
\* of which is empty; only the lunch of a row is taken as it comes.
FilasBien(filas) ==
    /\ IsFiniteSet(filas)
    /\ \A f \in filas : /\ f.ini \in Int /\ f.fin \in Int /\ f.ini < f.fin
                        /\ f.almuerzo # NADA => f.almuerzo \in Tramos
ExcepcionesBien(E) ==
    /\ IsFiniteSet(E)
    /\ \A e \in E : /\ IsFiniteSet(e.tramos) /\ e.tramos \subseteq Tramos
                    /\ \A x \in e.tramos : x.ini < x.fin

TramosDe(E, modo) == UNION {e.tramos : e \in {x \in E : x.modo = modo}}

\* applyBranchExceptionsToIntervals: a closed day, else the special hours in
\* place of the schedule, what is opened besides, and at last what is closed.
ConExcepciones(base, E) ==
    LET especial == TramosDe(E, "horario_especial")
        dia      == IF especial = {} THEN base ELSE especial
    IN  IF \E e \in E : e.modo = "cierre_total" THEN {}
        ELSE Mezclar(Restar(Mezclar(dia \cup TramosDe(E, "apertura_extra")),
                            TramosDe(E, "cierre_parcial")))

\* resolveOperationalDayBoundsFromSchedules: how late in the day t is; the day
\* begins with the first row of the schedule, whatever the exceptions open.
Desfase(filas, t) == IF filas = {} THEN 0 ELSE Max({0, t - Min({f.ini : f \in filas})})

-----------------------------------------------------------------------------
(* The offer of a day *)

\* resolveTodaySellableFloorStartAt: the first step not before now.
Piso(t) == ((t + Paso - 1) \div Paso) * Paso

\* trimIntervalsByMinimumStart
Recortar(I, piso) == {Tramo(Max({x.ini, piso}), x.fin) : x \in {y \in I : y.fin > piso}}

Vendible(resto) == resto = 0 \/ resto >= Minimo

\* buildSlotsFromIntervals: the starts, on the step, of a service of that length
\* that leave on neither side a rest too short to sell, with the gap they cut.
Turnos(I, largo) ==
    UNION {{[ini |-> t, hueco |-> x] :
              t \in {u \in x.ini .. x.fin - largo :
                       u % Paso = 0 /\ Vendible(u - x.ini) /\ Vendible(x.fin - u - largo)}}
           : x \in I}

\* getAvailableSlotsForBarber, once the rows are read.
TurnosDelDia(filas, E, ocupado, largo, t) ==
    Turnos(Recortar(Restar(ConExcepciones(Base(filas), E), ocupado), Piso(t)), largo)

-----------------------------------------------------------------------------
(* buildCuratedSlotExposure: what the public page shows of an offer *)

\* resolveOperationalPeriodMembership: a service that crosses the border of two
\* stretches belongs to no period.
EnPeriodo(T, largo, p) ==
    {s \in T : \E g \in Periodos[p] : Dentro(Tramo(s.ini, s.ini + largo), g)}

\* scoreSlotForCuratedPeriod, tenfold so that it stays an integer.  What the
\* score takes from a rest too short to sell never applies: those starts are
\* not offered.
Puntaje(s, largo, filas) ==
    LET antes   == (s.ini - s.hueco.ini) * Minutos
        despues == (s.hueco.fin - s.ini - largo) * Minutos
    IN  (IF antes = 0 THEN 5000 ELSE 0) - 90 * antes
        + (IF despues = 0 THEN 300 ELSE Min({200, despues}))
        - (IF antes > 0 /\ despues > 0 THEN 120 ELSE 0)
        - 10 * Desfase(filas, s.hueco.ini) * Minutos

\* buildCuratedRankingByPeriod: the best first, the earlier of two as good.
Clasificados(T, largo, filas) ==
    LET P == [s \in T |-> Puntaje(s, largo, filas)]
    IN  EnOrden(T, LAMBDA x, y : P[x] > P[y] \/ (P[x] = P[y] /\ x.ini < y.ini))

\* Mutant: an alternative is only kept away from the ones later than it.
MutantSeparado(sel, s) == \A x \in Range(sel) : x.ini < s.ini \/ x.ini - s.ini >= Separacion
Separado(sel, s) ==
    \A x \in Range(sel) : x.ini - s.ini >= Separacion \/ s.ini - x.ini >= Separacion

\* The recommended start, at most Limite alternatives kept apart, and the rest.
Exposicion(T, largo, filas) ==
    FoldLeft(LAMBDA r, s : IF Len(r.elegidos) <= Limite /\ Separado(r.elegidos, s)
                           THEN [r EXCEPT !.elegidos = Append(@, s)]
                           ELSE [r EXCEPT !.resto = @ \cup {s}],
             [elegidos |-> <<>>, resto |-> {}], Clasificados(T, largo, filas))
=============================================================================
