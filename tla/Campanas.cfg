SPECIFICATION CampanasFairSpec
CONSTANTS
    Clientes = {c1, c2}
    Procesos = {p1, p2}
    Nadie = nadie
    MaxIntentos = 2
    MaxFallos = 1
    MaxEdiciones = 2
INVARIANTS
    CorreoUnico
    FinalizadaCompleta
    OmisionContada
PROPERTIES
    CanceladaCalla
    EnviosSalen
CHECK_DEADLOCK FALSE
