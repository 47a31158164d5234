----------------------------- MODULE MCJornada ------------------------------
EXTENDS Jornada

CONSTANTS b1, b2, c1, c2, c3, s1, s2
Dada(a, b) == [estado |-> "confirmada", barbero |-> b1, ini |-> a, fin |-> b]
MCRango == (b1 :> 1) @@ (b2 :> 2)
MCMiembros == (s1 :> <<c1>>) @@ (s2 :> <<c2, c3>>)
MCDur == (c1 :> 2) @@ (c2 :> 2) @@ (c3 :> 2)
MCBuf == (c1 :> 1) @@ (c2 :> 0) @@ (c3 :> 0)
MCPide == (c1 :> NADA) @@ (c2 :> NADA) @@ (c3 :> b1)
Fila(a, b, l) == [ini |-> a, fin |-> b, almuerzo |-> l]
MCAgendas == {[c \in Citas |-> CitaNueva],
              (c1 :> Dada(0, 2)) @@ (c2 :> Dada(2, 4)) @@ (c3 :> Dada(4, 6))}
MCPropios == (b1 :> {{}, {Fila(0, 8, Tramo(2, 4))}}) @@ (b2 :> {{}})
MCPublicables == {{}, {Fila(0, 4, NADA), Fila(4, 8, NADA)}}
Modo(m, a, b) == [modo |-> m, tramos |-> {Tramo(a, b)}]
MCExcepcionales == {[modo |-> "cierre_total", tramos |-> {}], Modo("cierre_parcial", 2, 5),
                    Modo("apertura_extra", 4, 8), Modo("horario_especial", 1, 6)}
MCBloqueables == {Tramo(0, 8), Tramo(1, 3)}
MCHeredados == {[barbero |-> b2, ini |-> 0, fin |-> 2]}
MCPorDefecto == {Fila(0, 7, Tramo(3, 4))}
MCPeriodos == [manana |-> {Tramo(0, 6)}, tarde |-> {Tramo(6, 8)}]
=============================================================================
