SPECIFICATION FairSpec
CONSTANTS
    Citas = {"c1", "c2", "c3"}
    Grupos = {"g1", "g2"}
    Intents = {1}
    GrupoDe <- MCGrupoDe
    GrupoIntent <- MCGrupoIntent
    Ancla <- MCAncla
    ClienteDe <- MCUnCliente
    SinCliente = "invitado"
    Choca <- MCSinChoque
    Inicio <- MCInicio
    Gratis = {"g2"}
    TTL = 1
    VentanaEstado = 0
    GraciaNoShow = 0
    MaxTiempo = 2
    MaxCaidas = 1
INVARIANTS
    UnaPendientePorCliente
PROPERTIES
    SlotLiberado
