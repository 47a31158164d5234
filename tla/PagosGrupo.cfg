SPECIFICATION PagosSpec
CONSTANTS
    Citas = {"c1", "c2"}
    Grupos = {"g1"}
    Intents = {1, 2}
    GrupoDe <- MCGrupoDeDos
    GrupoIntent <- MCGrupoIntent
    Ancla <- MCAnclaDos
    ClienteDe <- MCClienteDe
    SinCliente = "invitado"
    Choca <- MCSinChoque
    Inicio <- MCInicio
    Gratis = {}
    TTL = 1
    VentanaEstado = 1
    GraciaNoShow = 1
    MaxTiempo = 3
    MaxCaidas = 0
    Gracia = 2
    Usuarios = {"u1", "u2"}
    Nadie = "nadie"
    CreadoresDe <- MCUnCreador
    ConPromocion = {"g1"}
INVARIANTS
    CobroUnicoPorGrupo
