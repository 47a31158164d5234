SPECIFICATION PagosSpec
CONSTANTS
    Citas = {"c1", "c2"}
    Grupos = {"g1", "g2"}
    Intents = {1}
    GrupoDe <- MCGrupoDe
    GrupoIntent <- MCGrupoIntent
    Ancla <- MCAncla
    ClienteDe <- MCClienteDe
    SinCliente = "invitado"
    Choca <- MCChoca
    Inicio <- MCInicio
    Gratis = {"g2"}
    TTL = 1
    VentanaEstado = 1
    GraciaNoShow = 1
    MaxTiempo = 3
    MaxCaidas = 1
    Gracia = 2
    Usuarios = {"u1", "u2"}
    Nadie = "nadie"
    CreadoresDe <- MCUnCreador
    ConPromocion = {}
INVARIANTS
    SinSolape
    VentaUnica
    PagoEnVentana
    PagoConfirmaReserva
PROPERTIES
    ImplementaAgenda
