SPECIFICATION BeneficiosSpec
CONSTANTS
    titular = titular
    otro = otro
    Citas = {titular, otro}
    TitularDe <- MCTitularDe
    Sucursal <- MCSucursal
    NPlanes = 3
    SucursalPlan <- MCSucursalPlan
    Servicios <- MCServicios
    Cortesias <- MCCortesias
    Premios = {1, 2}
    MaxCiclos = 2
    MaxAjustes = 1
INVARIANTS
    PlanSoloTitular
CHECK_DEADLOCK FALSE
