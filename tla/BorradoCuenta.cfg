SPECIFICATION BorradoSpec
CONSTANTS
    Procesos = {p1, p2}
    Archivos = {a1, a2}
    MaxTokens = 2
    MaxSolicitudes = 2
    MaxVuelo = 1
    MaxFallos = 1
INVARIANTS
    IdentidadAlFinal
    CompletadaSinRestos
    UnaSeccion
PROPERTIES
    SagaSpec
    BorradoTermina
CHECK_DEADLOCK FALSE
