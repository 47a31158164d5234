SPECIFICATION FairSpec
CONSTANTS
  Paso = 2
  Minimo = 2
  Minutos = 15
  Periodos <- MCPeriodos
  Separacion = 3
  Limite = 2
  NADA = NADA
  b1 = b1
  b2 = b2
  c1 = c1
  c2 = c2
  c3 = c3
  s1 = s1
  s2 = s2
  Barberos = {b1, b2}
  Rango <- MCRango
  Citas = {c1, c2, c3}
  Agendas <- MCAgendas
  Solicitudes = {s1, s2}
  Miembros <- MCMiembros
  Dur <- MCDur
  Buf <- MCBuf
  Pide <- MCPide
  Propios <- MCPropios
  Publicables <- MCPublicables
  Excepcionales <- MCExcepcionales
  Bloqueables <- MCBloqueables
  Heredados <- MCHeredados
  PorDefecto <- MCPorDefecto
  FinDia = 8
  Gracia = 1
  Umbral = 1
  Ventana = 2
  MaxTiempo = 5
  MaxNovedades = 2
INVARIANTS
  OfertaExacta
  OfertaReservable
  CuradoFiel
PROPERTIES
  ColaEnOrden
  LlegadaSeAtiende
CHECK_DEADLOCK FALSE
