SPECIFICATION AgendaFairSpec
CONSTANTS
    Eventos = {1, 2}
    SucEvento <- MCSucEvento
    Clientes = {b1, b2}
    SucCliente <- MCSucCliente
    Ips = {"ip1"}
    IpDe <- MCUnaIp
    MaxPorIp = 1
    MaxGlobal = 2
    Lote = 1
    BufferMax = 1
    LoteReenvio = 1
    MaxReenvio = 1
    Capacidad = 1
    MaxPeticiones = 1
    MaxPercances = 2
INVARIANTS
    ConexionesContadas
    SinFugaVista
PROPERTIES
    CursorAvanza
CHECK_DEADLOCK FALSE
