-------------------------- MODULE AgendaAbstracta --------------------------
(***************************************************************************)
(* What the booking tables promise to barbers and clients, without holds,  *)
(* clocks, intents, requests or crashes: a group takes all its slots in    *)
(* one step and only free ones, what is set aside ends firm, lapsed or     *)
(* given up, and a group is paid for once, whole, after the charge.  The   *)
(* one way back is the payment, which takes lapsed slots again if nobody   *)
(* else has them.                                                          *)
(***************************************************************************)
CONSTANTS
    Citas, Grupos,
    GrupoDe,        \* the group of each cita
    Choca           \* pairs of citas that overlap on one barber

VARIABLES
    estado,         \* libre, apartada, firme, vencida, cerrada
    cobrados,       \* groups the provider has charged
    pagados         \* groups with a captured payment

agenda == <<estado, cobrados, pagados>>

Tomada == {"apartada", "firme"}
Del(g) == {c \in Citas : GrupoDe[c] = g}
En(e) == {c \in Citas : estado[c] = e}

\* The table f after the citas of S have passed to e
Pasar(S, e, f) == [c \in Citas |-> IF c \in S THEN e ELSE f[c]]

\* The citas of S overlap neither each other nor a slot that f has as taken.
Cabe(S, f) == \A c \in S, d \in Citas : <<c, d>> \in Choca => d \notin S /\ f[d] \notin Tomada

AgendaInit == estado = [c \in Citas |-> "libre"] /\ cobrados = {} /\ pagados = {}

-----------------------------------------------------------------------------
\* Slots may lapse in the same step to make room.
Apartar(g) ==
    /\ Del(g) \subseteq En("libre")
    /\ \E V \in SUBSET En("apartada") :
          LET tras == Pasar(V, "vencida", estado)
          IN  Cabe(Del(g), tras) /\ estado' = Pasar(Del(g), "apartada", tras)
    /\ UNCHANGED <<cobrados, pagados>>

\* Some citas in one state pass to another together.
Mudar(de, a) ==
    /\ \E S \in SUBSET En(de) : estado' = Pasar(S, a, estado)
    /\ UNCHANGED <<cobrados, pagados>>

Vencer == Mudar("apartada", "vencida")
Soltar == Mudar("apartada", "cerrada")
AfirmarSinPago == Mudar("apartada", "firme")
Cerrar == Mudar("firme", "cerrada")

\* The card is charged for what was reserved, in time or not.
Cobrar(g) ==
    /\ Del(g) \cap En("libre") = {}
    /\ cobrados' = cobrados \cup {g}
    /\ UNCHANGED <<estado, pagados>>

Pagar(g) ==
    /\ g \in cobrados \ pagados
    /\ Del(g) \subseteq En("apartada") \cup En("vencida")
    /\ Cabe(Del(g), estado)
    /\ estado' = Pasar(Del(g), "firme", estado)
    /\ pagados' = pagados \cup {g}
    /\ UNCHANGED cobrados

\* A step that changes nothing to be seen is no step of the agenda.
AgendaNext ==
    /\ agenda' # agenda
    /\ \/ \E g \in Grupos : Apartar(g) \/ Cobrar(g) \/ Pagar(g)
       \/ Vencer \/ Soltar \/ AfirmarSinPago \/ Cerrar

AgendaSpec == AgendaInit /\ [][AgendaNext]_agenda

-----------------------------------------------------------------------------
\* What follows for everybody: no barber is taken twice, and a paid group was
\* charged and is never again set aside, lapsed or free.
AgendaPromesa ==
    /\ \A c, d \in Citas : <<c, d>> \in Choca => estado[c] \notin Tomada \/ estado[d] \notin Tomada
    /\ pagados \subseteq cobrados
    /\ \A g \in pagados, c \in Citas : GrupoDe[c] = g => estado[c] \in {"firme", "cerrada"}
=============================================================================
