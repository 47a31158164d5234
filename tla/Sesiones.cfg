SPECIFICATION SesionesSpec
CONSTANTS
    Procesos = {p1, p2}
    Nadie = nadie
    Sesiones = {s1, s2}
    Proveedor = {x1, x2}
    Reglas <- MCReglas
    Umbral = 2
    MaxClaves = 1
    MaxCaidas = 1
INVARIANTS
    ResetCierraTodo
    LimiteSesiones
PROPERTIES
    BloqueoVale
SYMMETRY Simetria
CHECK_DEADLOCK FALSE
