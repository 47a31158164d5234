SPECIFICATION AgendaSpec
CONSTANTS
    Eventos = {1, 2, 3, 4}
    SucEvento <- MCSucEvento
    Clientes = {b1}
    SucCliente <- MCSucCliente
    Ips = {"ip1"}
    IpDe <- MCUnaIp
    MaxPorIp = 1
    MaxGlobal = 1
    Lote = 2
    BufferMax = 1
    LoteReenvio = 1
    MaxReenvio = 1
    Capacidad = 2
    MaxPeticiones = 2
    MaxPercances = 1
INVARIANTS
    PosicionSegura
    SinHuecos
    DrenajePendiente
CHECK_DEADLOCK FALSE
