SPECIFICATION CompraFairSpec
CONSTANTS
    MaxOrdenes = 3
    SucursalDe <- MCSucursalDe
    MaxCaidas = 2
INVARIANTS
    PagadaUnaVez
PROPERTIES
    SinSegundoCobro
    SinReapertura
    AprobadaSeActiva
CHECK_DEADLOCK FALSE
