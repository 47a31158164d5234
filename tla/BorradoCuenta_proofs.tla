------------------------ MODULE BorradoCuenta_proofs ------------------------
(***************************************************************************)
(* Theorems about BorradoCuenta, for any number of requests and files and  *)
(* any bounds: the sections exclude each other, a request that says the    *)
(* account is deleted is right, the identity goes last, and the deletion   *)
(* implements SagaBorrado.                                                 *)
(***************************************************************************)
EXTENDS BorradoCuenta, TLAPS

Antes == {"ninguna", "pendiente_aprobacion", "aprobada", "rechazada", "cancelada",
          "pendiente_confirmacion", "bloqueada", "evaluada"}
Despues == {"storage_pendiente", "auth_pendiente", "completada"}

\* Who is in a section holds the lock, and the request stays in its stage.
Secciones ==
    \A p \in Procesos :
        /\ proc[p].pc \in EnSeccion => candado = p
        /\ proc[p].pc \in EnArchivos => estado = "storage_pendiente"
        /\ proc[p].pc \in EnAuth => estado = "auth_pendiente"
        /\ proc[p].pc = "cerrarAuth" => ~identidad
        /\ proc[p].pc = "cerrarArchivos" => proc[p].pendientes = {}

\* What each state of the request says of the account.
Etapas ==
    /\ estado \in Antes => cuenta = "activa"
    /\ estado = "procesando" => cuenta = "inactiva"
    /\ estado \in Despues => cuenta = "anonima"
    /\ estado \in {"auth_pendiente", "completada"} => TodasEliminadas
    /\ ~identidad => estado \in {"auth_pendiente", "completada"}
    /\ estado = "completada" => ~identidad
    /\ tipo = "cliente" /\ estado \notin Despues => instantanea = {}

\* A file found absent comes back only through an upload that tardios records.
Ausentes ==
    /\ \A a \in objetos : fila[a] = "eliminada" => a \in tardios
    /\ tipo = "cliente" =>
           \A p \in Procesos : proc[p].pc \in EnArchivos =>
               \A a \in objetos \cap instantanea :
                   a \in proc[p].pendientes \cup proc[p].fallidas \cup tardios

BorradoInv == BorradoTypeOK /\ Secciones /\ Etapas /\ Ausentes

-----------------------------------------------------------------------------
(* The records of the requests *)

\* A record is replaced by another of the type.
LEMMA RegistroNuevo ==
    ASSUME proc \in [Procesos -> Registros], NEW p \in Procesos, NEW r \in Registros
    PROVE  [proc EXCEPT ![p] = r] \in [Procesos -> Registros]
OBVIOUS

\* The record of a request that is not running.
LEMMA RegistroLibre == Libre \in Registros
BY BorradoAssumption DEF Libre, Registros, Rutinas, NULO

\* The records a request starts with.
LEMMA RegistroInicial ==
    ASSUME NEW t \in 0..MaxTokens
    PROVE  /\ [Libre EXCEPT !.pc = "cargar", !.admin = TRUE] \in Registros
           /\ [Libre EXCEPT !.pc = "cargar", !.token = t] \in Registros
BY RegistroLibre DEF Registros, Rutinas

\* A request that passes to another section keeps its record.
LEMMA PasaTipo ==
    ASSUME proc \in [Procesos -> Registros], NEW p \in Procesos, NEW x \in Rutinas, Pasa(p, x)
    PROVE  proc' \in [Procesos -> Registros]
<1>1. proc[p] \in Registros
  OBVIOUS
<1>2. [proc[p] EXCEPT !.pc = x] \in Registros
  BY <1>1 DEF Registros
<1> QED
  BY <1>2, RegistroNuevo DEF Pasa

\* A request that ends leaves a free record.
LEMMA TerminaTipo ==
    ASSUME proc \in [Procesos -> Registros], NEW p \in Procesos, Termina(p)
    PROVE  proc' \in [Procesos -> Registros]
BY RegistroNuevo, RegistroLibre DEF Termina

\* The other fields a step may change.
LEMMA RegistroCambia ==
    ASSUME proc \in [Procesos -> Registros], NEW p \in Procesos, NEW x \in Rutinas
    PROVE  /\ \A t \in 0..MaxTokens :
                 [proc EXCEPT ![p].pc = x, ![p].reauth = t] \in [Procesos -> Registros]
           /\ \A S \in SUBSET Archivos :
                 /\ [proc EXCEPT ![p].pc = x, ![p].pendientes = S] \in [Procesos -> Registros]
                 /\ [proc EXCEPT ![p] = [@ EXCEPT !.pc = x, !.fallidas = S]]
                       \in [Procesos -> Registros]
           /\ \A S, T \in SUBSET Archivos :
                 [proc EXCEPT ![p].pc = x, ![p].pendientes = S, ![p].fallidas = T]
                       \in [Procesos -> Registros]
<1> DEFINE r == proc[p]
<1>1. r \in Registros
  OBVIOUS
<1>2. ASSUME NEW t \in 0..MaxTokens
      PROVE  [proc EXCEPT ![p].pc = x, ![p].reauth = t] \in [Procesos -> Registros]
  <2>1. [r EXCEPT !.pc = x, !.reauth = t] \in Registros
    BY <1>1 DEF Registros
  <2> QED BY <2>1
<1>3. ASSUME NEW S \in SUBSET Archivos
      PROVE  /\ [proc EXCEPT ![p].pc = x, ![p].pendientes = S] \in [Procesos -> Registros]
             /\ [proc EXCEPT ![p] = [@ EXCEPT !.pc = x, !.fallidas = S]]
                   \in [Procesos -> Registros]
  <2>1. /\ [r EXCEPT !.pc = x, !.pendientes = S] \in Registros
        /\ [r EXCEPT !.pc = x, !.fallidas = S] \in Registros
    BY <1>1 DEF Registros
  <2> QED BY <2>1
<1>4. ASSUME NEW S \in SUBSET Archivos, NEW T \in SUBSET Archivos
      PROVE  [proc EXCEPT ![p].pc = x, ![p].pendientes = S, ![p].fallidas = T]
                   \in [Procesos -> Registros]
  <2>1. [r EXCEPT !.pc = x, !.pendientes = S, !.fallidas = T] \in Registros
    BY <1>1 DEF Registros
  <2> QED BY <2>1
<1> QED BY <1>2, <1>3, <1>4

\* What the fields of a record may hold.
LEMMA RegistroCampos ==
    ASSUME proc \in [Procesos -> Registros], NEW p \in Procesos
    PROVE  /\ proc[p].pc \in Rutinas /\ proc[p].admin \in BOOLEAN
           /\ proc[p].token \in 0..MaxTokens /\ proc[p].reauth \in 0..MaxTokens
           /\ proc[p].pendientes \subseteq Archivos /\ proc[p].fallidas \subseteq Archivos
BY DEF Registros

\* The record of a request stays one.
LEMMA PasoProc == BorradoInv /\ [BorradoNext]_vars => (proc \in [Procesos -> Registros])'
<1> SUFFICES ASSUME BorradoInv, [BorradoNext]_vars PROVE (proc \in [Procesos -> Registros])'
  OBVIOUS
<1> USE BorradoAssumption DEF BorradoInv, BorradoTypeOK, solicitud, sujeto, archivos, Rutinas, EnSeccion, EnArchivos, EnAuth
<1>1. CASE Crear
  BY <1>1 DEF Crear, Bloqueada
<1>2. CASE Confirmar
  BY <1>2 DEF Confirmar, LoginReciente, Confirmada, Impedida, Bloqueada, Confirmables
<1>3. CASE Tiempo
  BY <1>3 DEF Tiempo
<1>4. CASE CrearPersonal
  BY <1>4 DEF CrearPersonal, PersonalApto
<1>5. CASE Cancelar
  BY <1>5 DEF Cancelar, Decide
<1>6. CASE Rechazar
  BY <1>6 DEF Rechazar, Decide
<1>7. ASSUME NEW p \in Procesos, Aprobar(p) PROVE (proc \in [Procesos -> Registros])'
  BY <1>7, RegistroNuevo, RegistroInicial DEF Aprobar, Decide
<1>8. ASSUME NEW p \in Procesos, Iniciar(p) PROVE (proc \in [Procesos -> Registros])'
  <2>1. PICK t \in 1..emitidos : proc' = [proc EXCEPT ![p] = [Libre EXCEPT !.pc = "cargar", !.token = t]]
    BY <1>8 DEF Iniciar
  <2>2. t \in 0..MaxTokens
    BY <2>1
  <2> QED BY <2>1, <2>2, RegistroNuevo, RegistroInicial
<1>9. ASSUME NEW p \in Procesos, Reintentar(p) PROVE (proc \in [Procesos -> Registros])'
  BY <1>9, RegistroNuevo, RegistroInicial DEF Reintentar
<1>10. ASSUME NEW p \in Procesos, Cargar(p) PROVE (proc \in [Procesos -> Registros])'
  <2>1. (token # NULO /\ estado # "completada") \/ estado \in Tecnicos \cup {"aprobada"}
            => Etapa(estado) \in Rutinas
    BY <1>10 DEF Etapa, Tecnicos, ConToken
  <2>2. reauth \in 0..MaxTokens
    OBVIOUS
  <2>3. CASE CargaCliente(p)
    <3>1. CASE proc' = [proc EXCEPT ![p].pc = Etapa(estado), ![p].reauth = reauth]
      <4>1. CASE Etapa(estado) \in Rutinas
        BY <2>2, <3>1, <4>1, RegistroCambia
      <4>2. CASE Etapa(estado) \notin Rutinas
        BY <2>1, <2>3, <4>2, PasaTipo, TerminaTipo DEF CargaCliente
      <4> QED BY <4>1, <4>2
    <3> QED BY <2>3, <3>1, PasaTipo, TerminaTipo DEF CargaCliente
  <2>4. CASE CargaAdmin(p)
    BY <2>1, <2>4, PasaTipo, TerminaTipo DEF CargaAdmin
  <2> QED BY <1>10, <2>3, <2>4 DEF Cargar
<1>11. ASSUME NEW p \in Procesos, Limpiar(p) PROVE (proc \in [Procesos -> Registros])'
  BY <1>11, PasaTipo, TerminaTipo DEF Limpiar
<1>12. ASSUME NEW p \in Procesos, Ejecutar(p) PROVE (proc \in [Procesos -> Registros])'
  BY <1>12, PasaTipo, TerminaTipo DEF Ejecutar, EjecutarCliente, EjecutarPersonal, SinAcceso, Impedida, Vigentes
<1>13. ASSUME NEW p \in Procesos, Anonimizar(p) PROVE (proc \in [Procesos -> Registros])'
  BY <1>13, PasaTipo, TerminaTipo DEF Anonimizar, AnonimizarCliente, AnonimizarPersonal, Anonimizada, SinDatos, ListaParaAnonimizar, Vigentes
<1>14. ASSUME NEW p \in Procesos, PrepararArchivos(p) PROVE (proc \in [Procesos -> Registros])'
  <2>1. CASE TomarArchivos(p)
    <3> DEFINE x == IF PorQuitar = {} THEN "cerrarArchivos" ELSE "quitar"
    <3>1. PorQuitar \in SUBSET Archivos /\ {} \in SUBSET Archivos /\ x \in Rutinas
      BY DEF PorQuitar
    <3>2. proc' = [proc EXCEPT ![p].pc = x, ![p].pendientes = PorQuitar, ![p].fallidas = {}]
      BY <2>1 DEF TomarArchivos
    <3> HIDE DEF x
    <3> QED BY <3>1, <3>2, RegistroCambia
  <2> QED
    BY <1>14, <2>1, PasaTipo, TerminaTipo DEF PrepararArchivos
<1>15. ASSUME NEW p \in Procesos, NEW a \in Archivos, Quitar(p, a) PROVE (proc \in [Procesos -> Registros])'
  BY <1>15, PasaTipo, TerminaTipo, RegistroCambia, RegistroCampos DEF Quitar, Sigue, TrasQuitar
<1>16. ASSUME NEW p \in Procesos, CerrarArchivos(p) PROVE (proc \in [Procesos -> Registros])'
  <2>1. CASE proc' = [proc EXCEPT ![p] = [@ EXCEPT !.pc = "cargar", !.fallidas = {}]]
    <3>1. {} \in SUBSET Archivos /\ "cargar" \in Rutinas
      OBVIOUS
    <3> QED BY <2>1, <3>1, RegistroCambia
  <2> QED
    BY <1>16, <2>1, TerminaTipo DEF CerrarArchivos, CerrarCliente, CerrarPersonal
<1>17. ASSUME NEW p \in Procesos, PrepararAuth(p) PROVE (proc \in [Procesos -> Registros])'
  BY <1>17, PasaTipo, TerminaTipo DEF PrepararAuth
<1>18. ASSUME NEW p \in Procesos, BorrarAuth(p) PROVE (proc \in [Procesos -> Registros])'
  BY <1>18, PasaTipo, TerminaTipo DEF BorrarAuth
<1>19. ASSUME NEW p \in Procesos, CerrarAuth(p) PROVE (proc \in [Procesos -> Registros])'
  BY <1>19, PasaTipo, TerminaTipo DEF CerrarAuth
<1>20. ASSUME NEW p \in Procesos, NEW a \in Archivos, NoQuitar(p, a) PROVE (proc \in [Procesos -> Registros])'
  <2> DEFINE x == TrasQuitar(p, a)
  <2>1. x \in Rutinas
    BY DEF TrasQuitar
  <2>2. /\ proc[p].pendientes \ {a} \in SUBSET Archivos
        /\ proc[p].fallidas \cup {a} \in SUBSET Archivos
    BY RegistroCampos
  <2>3. proc' = [proc EXCEPT ![p].pc = x, ![p].pendientes = proc[p].pendientes \ {a},
                            ![p].fallidas = proc[p].fallidas \cup {a}]
    BY <1>20 DEF NoQuitar
  <2> HIDE DEF x
  <2> QED BY <2>1, <2>2, <2>3, RegistroCambia
<1>21. ASSUME NEW p \in Procesos, FallaAuth(p) PROVE (proc \in [Procesos -> Registros])'
  BY <1>21, PasaTipo, TerminaTipo DEF FallaAuth
<1>22. ASSUME NEW p \in Procesos, Caer(p) PROVE (proc \in [Procesos -> Registros])'
  BY <1>22, PasaTipo, TerminaTipo DEF Caer, Suelta
<1>23. CASE Admitir
  BY <1>23 DEF Admitir, EnVuelo
<1>24. CASE Reservar
  BY <1>24 DEF Reservar
<1>25. CASE GuardarPerfil
  BY <1>25 DEF GuardarPerfil
<1>26. CASE PrepararFoto
  BY <1>26 DEF PrepararFoto
<1>27. ASSUME NEW a \in Archivos, Subir(a) PROVE (proc \in [Procesos -> Registros])'
  BY <1>27 DEF Subir
<1>28. CASE Resolver
  BY <1>28 DEF Resolver
<1>29. CASE UNCHANGED vars
  BY <1>29 DEF vars, solicitud, sujeto, archivos
<1> QED
  BY <1>1, <1>2, <1>3, <1>4, <1>5, <1>6, <1>7, <1>8, <1>9, <1>10, <1>11,
     <1>12, <1>13, <1>14, <1>15, <1>16, <1>17, <1>18, <1>19, <1>20,
     <1>21, <1>22, <1>23, <1>24, <1>25, <1>26, <1>27, <1>28, <1>29
     DEF BorradoNext, Paso, Falla

\* Every step keeps the types.
LEMMA PasoTipo == BorradoInv /\ [BorradoNext]_vars => BorradoTypeOK'
<1> SUFFICES ASSUME BorradoInv, [BorradoNext]_vars PROVE BorradoTypeOK'
  OBVIOUS
<1>0. (proc \in [Procesos -> Registros])'
  BY PasoProc
<1> USE <1>0, BorradoAssumption DEF BorradoInv, BorradoTypeOK, solicitud, sujeto, archivos, Etapas, Antes, Despues, Estados, ConToken, Terminales, Confirmables, NULO, Nadie
<1>1. CASE Crear
  BY <1>1 DEF Crear, Bloqueada
<1>2. CASE Confirmar
  BY <1>2 DEF Confirmar, LoginReciente, Confirmada, Impedida, Bloqueada, Confirmables
<1>3. CASE Tiempo
  BY <1>3 DEF Tiempo
<1>4. CASE CrearPersonal
  BY <1>4 DEF CrearPersonal, PersonalApto
<1>5. CASE Cancelar
  BY <1>5 DEF Cancelar, Decide
<1>6. CASE Rechazar
  BY <1>6 DEF Rechazar, Decide
<1>7. ASSUME NEW p \in Procesos, Aprobar(p) PROVE BorradoTypeOK'
  BY <1>7 DEF Aprobar, Decide
<1>8. ASSUME NEW p \in Procesos, Iniciar(p) PROVE BorradoTypeOK'
  BY <1>8 DEF Iniciar
<1>9. ASSUME NEW p \in Procesos, Reintentar(p) PROVE BorradoTypeOK'
  BY <1>9 DEF Reintentar
<1>10. ASSUME NEW p \in Procesos, Cargar(p) PROVE BorradoTypeOK'
  BY <1>10 DEF Cargar, CargaCliente, CargaAdmin, Etapa, Tecnicos
<1>11. ASSUME NEW p \in Procesos, Limpiar(p) PROVE BorradoTypeOK'
  BY <1>11 DEF Limpiar
<1>12. ASSUME NEW p \in Procesos, Ejecutar(p) PROVE BorradoTypeOK'
  <2>1. CASE EjecutarCliente(p)
    <3>1. UNCHANGED <<archivos, identidad, candado, fallos>>
      BY <1>12, <2>1 DEF Ejecutar, EjecutarCliente
    <3>2. CASE Impedida /\ UNCHANGED <<tipo, solicitudes, sujeto>>
      BY <3>1, <3>2 DEF Impedida
    <3>3. CASE SinAcceso
      BY <3>1, <3>3 DEF SinAcceso
    <3>4. CASE UNCHANGED <<solicitud, sujeto>>
      BY <3>1, <3>4
    <3> QED BY <2>1, <3>2, <3>3, <3>4 DEF EjecutarCliente
  <2>2. CASE EjecutarPersonal(p)
    BY <1>12, <2>2 DEF Ejecutar, EjecutarPersonal, SinAcceso, Vigentes
  <2> QED BY <1>12, <2>1, <2>2 DEF Ejecutar
<1>13. ASSUME NEW p \in Procesos, Anonimizar(p) PROVE BorradoTypeOK'
  BY <1>13 DEF Anonimizar, AnonimizarCliente, AnonimizarPersonal, Anonimizada, SinDatos, ListaParaAnonimizar, Vigentes
<1>14. ASSUME NEW p \in Procesos, PrepararArchivos(p) PROVE BorradoTypeOK'
  BY <1>14, ZenonT(40) DEF PrepararArchivos, TomarArchivos, Cuarentena, PorQuitar, Nuevas, Vigentes
<1>15. ASSUME NEW p \in Procesos, NEW a \in Archivos, Quitar(p, a) PROVE BorradoTypeOK'
  BY <1>15 DEF Quitar, Sigue, TrasQuitar
<1>16. ASSUME NEW p \in Procesos, CerrarArchivos(p) PROVE BorradoTypeOK'
  BY <1>16 DEF CerrarArchivos, CerrarCliente, CerrarPersonal, Lapidas, Nuevas
<1>17. ASSUME NEW p \in Procesos, PrepararAuth(p) PROVE BorradoTypeOK'
  BY <1>17 DEF PrepararAuth
<1>18. ASSUME NEW p \in Procesos, BorrarAuth(p) PROVE BorradoTypeOK'
  BY <1>18 DEF BorrarAuth
<1>19. ASSUME NEW p \in Procesos, CerrarAuth(p) PROVE BorradoTypeOK'
  BY <1>19 DEF CerrarAuth, Preparada
<1>20. ASSUME NEW p \in Procesos, NEW a \in Archivos, NoQuitar(p, a) PROVE BorradoTypeOK'
  <2>1. fallos' \in 0..MaxFallos
    BY <1>20 DEF NoQuitar
  <2> QED
    BY <1>20, <2>1 DEF NoQuitar, Sigue
<1>21. ASSUME NEW p \in Procesos, FallaAuth(p) PROVE BorradoTypeOK'
  <2>1. fallos' \in 0..MaxFallos
    BY <1>21 DEF FallaAuth
  <2>2. identidad' \in BOOLEAN
    BY <1>21 DEF FallaAuth
  <2>3. candado' = Nadie
    BY <1>21 DEF FallaAuth
  <2> QED
    BY <1>21, <2>1, <2>2, <2>3 DEF FallaAuth
<1>22. ASSUME NEW p \in Procesos, Caer(p) PROVE BorradoTypeOK'
  BY <1>22 DEF Caer, Suelta
<1>23. CASE Admitir
  BY <1>23 DEF Admitir, EnVuelo
<1>24. CASE Reservar
  BY <1>24 DEF Reservar
<1>25. CASE GuardarPerfil
  BY <1>25 DEF GuardarPerfil
<1>26. CASE PrepararFoto
  BY <1>26 DEF PrepararFoto
<1>27. ASSUME NEW a \in Archivos, Subir(a) PROVE BorradoTypeOK'
  BY <1>27 DEF Subir
<1>28. CASE Resolver
  BY <1>28 DEF Resolver
<1>29. CASE UNCHANGED vars
  BY <1>29 DEF vars, solicitud, sujeto, archivos
<1> QED
  BY <1>1, <1>2, <1>3, <1>4, <1>5, <1>6, <1>7, <1>8, <1>9, <1>10, <1>11,
     <1>12, <1>13, <1>14, <1>15, <1>16, <1>17, <1>18, <1>19, <1>20,
     <1>21, <1>22, <1>23, <1>24, <1>25, <1>26, <1>27, <1>28, <1>29
     DEF BorradoNext, Paso, Falla

-----------------------------------------------------------------------------
(* The sections and their lock *)

\* How a step of one request shows in the records of all.
LEMMA PasaCampos ==
    ASSUME proc \in [Procesos -> Registros], NEW p \in Procesos, NEW x, Pasa(p, x)
    PROVE  \A q \in Procesos :
               /\ proc'[q].pc = IF q = p THEN x ELSE proc[q].pc
               /\ proc'[q].pendientes = proc[q].pendientes
               /\ proc'[q].fallidas = proc[q].fallidas
BY DEF Pasa, Registros

\* What the end of a request writes.
LEMMA TerminaCampos ==
    ASSUME proc \in [Procesos -> Registros], NEW p \in Procesos, Termina(p)
    PROVE  \A q \in Procesos :
               /\ proc'[q].pc = IF q = p THEN "libre" ELSE proc[q].pc
               /\ q # p => proc'[q] = proc[q]
BY DEF Termina, Registros, Libre

\* What the end of the stage of the files writes.
LEMMA CierraCampos ==
    ASSUME proc \in [Procesos -> Registros], NEW p \in Procesos,
           proc' = [proc EXCEPT ![p] = [@ EXCEPT !.pc = "cargar", !.fallidas = {}]]
    PROVE  \A q \in Procesos :
               /\ proc'[q].pc = IF q = p THEN "cargar" ELSE proc[q].pc
               /\ q # p => proc'[q] = proc[q]
BY DEF Registros

\* What the start of an iteration writes.
LEMMA CargarCampos ==
    ASSUME BorradoTypeOK, NEW p \in Procesos, Cargar(p)
    PROVE  /\ \A q \in Procesos : q # p => proc'[q] = proc[q]
           /\ proc'[p].pc \notin EnSeccion
<1> USE DEF BorradoTypeOK, EnSeccion, EnArchivos, EnAuth
<1>1. \A q \in Procesos : q # p => proc'[q] = proc[q]
  BY TerminaCampos DEF Cargar, CargaCliente, CargaAdmin, Pasa
<1>2. Etapa(estado) \notin EnSeccion \/ ~(token # NULO /\ estado # "completada")
  BY DEF Etapa, ConToken
<1>3. estado \in Tecnicos \cup {"aprobada"} => Etapa(estado) \notin EnSeccion
  BY DEF Etapa, Tecnicos
<1>4. CASE CargaCliente(p)
  BY <1>1, <1>2, <1>4, TerminaCampos, PasaCampos DEF CargaCliente, Registros
<1>5. CASE CargaAdmin(p)
  BY <1>1, <1>3, <1>5, TerminaCampos, PasaCampos DEF CargaAdmin
<1> QED BY <1>1, <1>4, <1>5 DEF Cargar

\* Nobody is in a section while the lock is free.
LEMMA CandadoLibreNadie ==
    ASSUME Secciones, CandadoLibre
    PROVE  \A p \in Procesos : proc[p].pc \notin EnSeccion
BY BorradoAssumption DEF Secciones, CandadoLibre, Nadie

\* Every step keeps the sections.
LEMMA PasoSecciones == BorradoInv /\ [BorradoNext]_vars => Secciones'
<1> SUFFICES ASSUME BorradoInv, [BorradoNext]_vars PROVE Secciones'
  OBVIOUS
<1> USE BorradoAssumption DEF BorradoInv, BorradoTypeOK, Secciones, EnSeccion, EnArchivos, EnAuth, solicitud, sujeto, archivos, Nadie
<1>1. CASE Crear
  BY <1>1, CandadoLibreNadie DEF Crear, Bloqueada
<1>2. CASE Confirmar
  BY <1>2, CandadoLibreNadie DEF Confirmar, LoginReciente, Confirmada, Impedida, Bloqueada, Confirmables
<1>3. CASE Tiempo
  BY <1>3 DEF Tiempo
<1>4. CASE CrearPersonal
  BY <1>4, CandadoLibreNadie DEF CrearPersonal, PersonalApto
<1>5. CASE Cancelar
  BY <1>5, CandadoLibreNadie DEF Cancelar, Decide
<1>6. CASE Rechazar
  BY <1>6, CandadoLibreNadie DEF Rechazar, Decide
<1>7. ASSUME NEW p \in Procesos, Aprobar(p) PROVE Secciones'
  BY <1>7, PasaCampos, TerminaCampos, CandadoLibreNadie DEF Aprobar, Decide, Registros
<1>8. ASSUME NEW p \in Procesos, Iniciar(p) PROVE Secciones'
  BY <1>8, PasaCampos, TerminaCampos, CandadoLibreNadie DEF Iniciar, Registros
<1>9. ASSUME NEW p \in Procesos, Reintentar(p) PROVE Secciones'
  BY <1>9, PasaCampos, TerminaCampos, CandadoLibreNadie DEF Reintentar, Registros
<1>10. ASSUME NEW p \in Procesos, Cargar(p) PROVE Secciones'
  <2>1. \A q \in Procesos : q # p => proc'[q] = proc[q]
    BY <1>10, CargarCampos
  <2>2. proc'[p].pc \notin EnSeccion
    BY <1>10, CargarCampos
  <2> QED BY <1>10, <2>1, <2>2 DEF Cargar
<1>11. ASSUME NEW p \in Procesos, Limpiar(p) PROVE Secciones'
  BY <1>11, PasaCampos, TerminaCampos, CandadoLibreNadie DEF Limpiar
<1>12. ASSUME NEW p \in Procesos, Ejecutar(p) PROVE Secciones'
  BY <1>12, PasaCampos, TerminaCampos, CandadoLibreNadie DEF Ejecutar, EjecutarCliente, EjecutarPersonal, SinAcceso, Impedida, Vigentes
<1>13. ASSUME NEW p \in Procesos, Anonimizar(p) PROVE Secciones'
  BY <1>13, PasaCampos, TerminaCampos, CandadoLibreNadie DEF Anonimizar, AnonimizarCliente, AnonimizarPersonal, Anonimizada, SinDatos, ListaParaAnonimizar, Vigentes
<1>14. ASSUME NEW p \in Procesos, PrepararArchivos(p) PROVE Secciones'
  <2>1. \A q \in Procesos : proc[q].pc \notin EnSeccion
    BY <1>14, CandadoLibreNadie DEF PrepararArchivos
  <2>2. CASE estado = "storage_pendiente" /\ TomarArchivos(p)
    <3>1. \A q \in Procesos :
             /\ proc'[q].pc = IF q # p THEN proc[q].pc
                              ELSE IF PorQuitar = {} THEN "cerrarArchivos" ELSE "quitar"
             /\ proc'[q].pendientes = IF q = p THEN PorQuitar ELSE proc[q].pendientes
      <4> DEFINE x == IF PorQuitar = {} THEN "cerrarArchivos" ELSE "quitar"
      <4>1. proc' = [proc EXCEPT ![p].pc = x, ![p].pendientes = PorQuitar, ![p].fallidas = {}]
        BY <2>2 DEF TomarArchivos
      <4> HIDE DEF x
      <4>2. \A q \in Procesos :
               /\ proc'[q].pc = IF q = p THEN x ELSE proc[q].pc
               /\ proc'[q].pendientes = IF q = p THEN PorQuitar ELSE proc[q].pendientes
        BY <4>1 DEF Registros
      <4> QED BY <4>2 DEF x
    <3>2. candado' = p /\ UNCHANGED <<estado, identidad>>
      BY <1>14, <2>2 DEF PrepararArchivos, TomarArchivos
    <3> QED BY <2>1, <2>2, <3>1, <3>2
  <2>3. CASE Pasa(p, "cargar") \/ Termina(p)
    BY <1>14, <2>1, <2>3, PasaCampos, TerminaCampos
  <2> QED BY <1>14, <2>2, <2>3 DEF PrepararArchivos
<1>15. ASSUME NEW p \in Procesos, NEW a \in Archivos, Quitar(p, a) PROVE Secciones'
  <2>1. \A q \in Procesos :
           /\ proc'[q].pc = IF q = p THEN TrasQuitar(p, a) ELSE proc[q].pc
           /\ proc'[q].pendientes = IF q = p THEN proc[q].pendientes \ {a} ELSE proc[q].pendientes
    BY <1>15, ZenonT(40) DEF Quitar, NoQuitar, Registros
  <2>2. UNCHANGED <<estado, candado, identidad>> /\ proc[p].pc = "quitar"
    BY <1>15 DEF Quitar, NoQuitar, Sigue
  <2> QED BY <2>1, <2>2 DEF TrasQuitar
<1>16. ASSUME NEW p \in Procesos, CerrarArchivos(p) PROVE Secciones'
  <2>1. \A q \in Procesos :
           /\ proc'[q].pc = IF q = p THEN proc'[p].pc ELSE proc[q].pc
           /\ q # p => proc'[q] = proc[q]
    BY <1>16, TerminaCampos, CierraCampos DEF CerrarArchivos, CerrarCliente, CerrarPersonal
  <2>2. proc'[p].pc \in {"cargar", "libre"}
    BY <1>16, TerminaCampos, CierraCampos DEF CerrarArchivos, CerrarCliente, CerrarPersonal
  <2>3. \A q \in Procesos : q # p => proc[q].pc \notin EnSeccion
    BY <1>16 DEF CerrarArchivos
  <2> QED BY <2>1, <2>2, <2>3
<1>17. ASSUME NEW p \in Procesos, PrepararAuth(p) PROVE Secciones'
  BY <1>17, PasaCampos, TerminaCampos, CandadoLibreNadie DEF PrepararAuth
<1>18. ASSUME NEW p \in Procesos, BorrarAuth(p) PROVE Secciones'
  BY <1>18, PasaCampos, TerminaCampos, CandadoLibreNadie DEF BorrarAuth
<1>19. ASSUME NEW p \in Procesos, CerrarAuth(p) PROVE Secciones'
  BY <1>19, PasaCampos, TerminaCampos, CandadoLibreNadie DEF CerrarAuth
<1>20. ASSUME NEW p \in Procesos, NEW a \in Archivos, NoQuitar(p, a) PROVE Secciones'
  <2>1. \A q \in Procesos :
           /\ proc'[q].pc = IF q = p THEN TrasQuitar(p, a) ELSE proc[q].pc
           /\ proc'[q].pendientes = IF q = p THEN proc[q].pendientes \ {a} ELSE proc[q].pendientes
    BY <1>20, ZenonT(40) DEF Quitar, NoQuitar, Registros
  <2>2. UNCHANGED <<estado, candado, identidad>> /\ proc[p].pc = "quitar"
    BY <1>20 DEF Quitar, NoQuitar, Sigue
  <2> QED BY <2>1, <2>2 DEF TrasQuitar
<1>21. ASSUME NEW p \in Procesos, FallaAuth(p) PROVE Secciones'
  BY <1>21, PasaCampos, TerminaCampos, CandadoLibreNadie DEF FallaAuth
<1>22. ASSUME NEW p \in Procesos, Caer(p) PROVE Secciones'
  BY <1>22, PasaCampos, TerminaCampos, CandadoLibreNadie DEF Caer, Suelta
<1>23. CASE Admitir
  BY <1>23 DEF Admitir, EnVuelo
<1>24. CASE Reservar
  BY <1>24 DEF Reservar
<1>25. CASE GuardarPerfil
  BY <1>25 DEF GuardarPerfil
<1>26. CASE PrepararFoto
  BY <1>26 DEF PrepararFoto
<1>27. ASSUME NEW a \in Archivos, Subir(a) PROVE Secciones'
  BY <1>27 DEF Subir
<1>28. CASE Resolver
  BY <1>28 DEF Resolver
<1>29. CASE UNCHANGED vars
  BY <1>29 DEF vars, solicitud, sujeto, archivos
<1> QED
  BY <1>1, <1>2, <1>3, <1>4, <1>5, <1>6, <1>7, <1>8, <1>9, <1>10, <1>11,
     <1>12, <1>13, <1>14, <1>15, <1>16, <1>17, <1>18, <1>19, <1>20,
     <1>21, <1>22, <1>23, <1>24, <1>25, <1>26, <1>27, <1>28, <1>29
     DEF BorradoNext, Paso, Falla

-----------------------------------------------------------------------------
(* The stages *)

\* Rows only move towards the tombstone.
LEMMA LapidasCrecen ==
    ASSUME BorradoTypeOK, NEW S
    PROVE  /\ \A a \in Archivos : fila[a] = "eliminada" =>
                  Lapidas(S)[a] = "eliminada" /\ Cuarentena[a] = "eliminada"
           /\ \A a \in Archivos \cap S : Lapidas(S)[a] = "eliminada"
           /\ \A a \in Archivos : fila[a] # "eliminada" => Cuarentena[a] # "eliminada"
BY DEF BorradoTypeOK, Lapidas, Cuarentena

\* Every step keeps what the state of the request says of the account.
LEMMA PasoEtapas == BorradoInv /\ [BorradoNext]_vars => Etapas'
<1> SUFFICES ASSUME BorradoInv, [BorradoNext]_vars PROVE Etapas'
  OBVIOUS
<1> USE BorradoAssumption DEF BorradoInv, BorradoTypeOK, Secciones, EnSeccion, EnArchivos, EnAuth, solicitud, sujeto, archivos, Etapas, Antes, Despues, Estados, TodasEliminadas, Terminales, Confirmables
<1>1. CASE Crear
  BY <1>1, CandadoLibreNadie DEF Crear, Bloqueada
<1>2. CASE Confirmar
  BY <1>2, CandadoLibreNadie DEF Confirmar, LoginReciente, Confirmada, Impedida, Bloqueada, Confirmables
<1>3. CASE Tiempo
  BY <1>3 DEF Tiempo
<1>4. CASE CrearPersonal
  BY <1>4, CandadoLibreNadie DEF CrearPersonal, PersonalApto
<1>5. CASE Cancelar
  BY <1>5, CandadoLibreNadie DEF Cancelar, Decide
<1>6. CASE Rechazar
  BY <1>6, CandadoLibreNadie DEF Rechazar, Decide
<1>7. ASSUME NEW p \in Procesos, Aprobar(p) PROVE Etapas'
  BY <1>7 DEF Aprobar, Decide
<1>8. ASSUME NEW p \in Procesos, Iniciar(p) PROVE Etapas'
  BY <1>8 DEF Iniciar
<1>9. ASSUME NEW p \in Procesos, Reintentar(p) PROVE Etapas'
  BY <1>9 DEF Reintentar
<1>10. ASSUME NEW p \in Procesos, Cargar(p) PROVE Etapas'
  BY <1>10 DEF Cargar, CargaCliente, CargaAdmin, Etapa, Tecnicos
<1>11. ASSUME NEW p \in Procesos, Limpiar(p) PROVE Etapas'
  BY <1>11 DEF Limpiar
<1>12. ASSUME NEW p \in Procesos, Ejecutar(p) PROVE Etapas'
  BY <1>12 DEF Ejecutar, EjecutarCliente, EjecutarPersonal, SinAcceso, Impedida, Vigentes
<1>13. ASSUME NEW p \in Procesos, Anonimizar(p) PROVE Etapas'
  BY <1>13 DEF Anonimizar, AnonimizarCliente, AnonimizarPersonal, Anonimizada, SinDatos, ListaParaAnonimizar, Vigentes
<1>14. ASSUME NEW p \in Procesos, PrepararArchivos(p) PROVE Etapas'
  BY <1>14, LapidasCrecen DEF PrepararArchivos, TomarArchivos, Cuarentena, PorQuitar
<1>15. ASSUME NEW p \in Procesos, NEW a \in Archivos, Quitar(p, a) PROVE Etapas'
  BY <1>15 DEF Quitar, Sigue, TrasQuitar
<1>16. ASSUME NEW p \in Procesos, CerrarArchivos(p) PROVE Etapas'
  BY <1>16, LapidasCrecen DEF CerrarArchivos, CerrarCliente, CerrarPersonal, Lapidas
<1>17. ASSUME NEW p \in Procesos, PrepararAuth(p) PROVE Etapas'
  BY <1>17 DEF PrepararAuth
<1>18. ASSUME NEW p \in Procesos, BorrarAuth(p) PROVE Etapas'
  BY <1>18 DEF BorrarAuth
<1>19. ASSUME NEW p \in Procesos, CerrarAuth(p) PROVE Etapas'
  BY <1>19 DEF CerrarAuth
<1>20. ASSUME NEW p \in Procesos, NEW a \in Archivos, NoQuitar(p, a) PROVE Etapas'
  BY <1>20 DEF NoQuitar, Sigue, TrasQuitar
<1>21. ASSUME NEW p \in Procesos, FallaAuth(p) PROVE Etapas'
  BY <1>21 DEF FallaAuth
<1>22. ASSUME NEW p \in Procesos, Caer(p) PROVE Etapas'
  BY <1>22 DEF Caer, Suelta
<1>23. CASE Admitir
  BY <1>23 DEF Admitir, EnVuelo
<1>24. CASE Reservar
  BY <1>24 DEF Reservar
<1>25. CASE GuardarPerfil
  BY <1>25 DEF GuardarPerfil
<1>26. CASE PrepararFoto
  BY <1>26 DEF PrepararFoto, TodasEliminadas
<1>27. ASSUME NEW a \in Archivos, Subir(a) PROVE Etapas'
  BY <1>27 DEF Subir
<1>28. CASE Resolver
  BY <1>28 DEF Resolver
<1>29. CASE UNCHANGED vars
  BY <1>29 DEF vars, solicitud, sujeto, archivos
<1> QED
  BY <1>1, <1>2, <1>3, <1>4, <1>5, <1>6, <1>7, <1>8, <1>9, <1>10, <1>11,
     <1>12, <1>13, <1>14, <1>15, <1>16, <1>17, <1>18, <1>19, <1>20,
     <1>21, <1>22, <1>23, <1>24, <1>25, <1>26, <1>27, <1>28, <1>29
     DEF BorradoNext, Paso, Falla

-----------------------------------------------------------------------------
(* The files found absent *)

\* What the removal of one file, done or failed, writes.
LEMMA QuitarCampos ==
    ASSUME proc \in [Procesos -> Registros], NEW p \in Procesos, NEW a, Quitar(p, a)
    PROVE  /\ \A q \in Procesos : q # p => proc'[q] = proc[q]
           /\ proc[p].pc = "quitar" /\ proc'[p].pc \in EnArchivos
           /\ proc'[p].pendientes = proc[p].pendientes \ {a}
           /\ proc'[p].fallidas = proc[p].fallidas
           /\ objetos' = objetos \ {a}
           /\ UNCHANGED <<tipo, fila, tardios, instantanea>>
BY DEF Quitar, Sigue, Registros, TrasQuitar, EnArchivos, solicitud

\* The removal that failed leaves the object.
LEMMA NoQuitarCampos ==
    ASSUME proc \in [Procesos -> Registros], NEW p \in Procesos, NEW a, NoQuitar(p, a)
    PROVE  /\ \A q \in Procesos : q # p => proc'[q] = proc[q]
           /\ proc[p].pc = "quitar" /\ proc'[p].pc \in EnArchivos
           /\ proc'[p].pendientes = proc[p].pendientes \ {a}
           /\ proc'[p].fallidas = proc[p].fallidas \cup {a}
           /\ UNCHANGED <<tipo, fila, tardios, instantanea, objetos>>
BY DEF NoQuitar, Sigue, Registros, TrasQuitar, EnArchivos, solicitud

\* Every step keeps that a file found absent comes back only late.
LEMMA PasoAusentes == BorradoInv /\ [BorradoNext]_vars => Ausentes'
<1> SUFFICES ASSUME BorradoInv, [BorradoNext]_vars PROVE Ausentes'
  OBVIOUS
<1> USE BorradoAssumption DEF BorradoInv, BorradoTypeOK, Secciones, EnSeccion, EnArchivos, EnAuth, solicitud, sujeto, archivos, Ausentes
<1>1. CASE Crear
  BY <1>1 DEF Crear, Bloqueada
<1>2. CASE Confirmar
  BY <1>2 DEF Confirmar, LoginReciente, Confirmada, Impedida, Bloqueada, Confirmables
<1>3. CASE Tiempo
  BY <1>3 DEF Tiempo
<1>4. CASE CrearPersonal
  BY <1>4 DEF CrearPersonal, PersonalApto
<1>5. CASE Cancelar
  BY <1>5 DEF Cancelar, Decide
<1>6. CASE Rechazar
  BY <1>6 DEF Rechazar, Decide
<1>7. ASSUME NEW p \in Procesos, Aprobar(p) PROVE Ausentes'
  BY <1>7, PasaCampos, TerminaCampos DEF Aprobar, Decide, Registros
<1>8. ASSUME NEW p \in Procesos, Iniciar(p) PROVE Ausentes'
  BY <1>8, PasaCampos, TerminaCampos DEF Iniciar, Registros
<1>9. ASSUME NEW p \in Procesos, Reintentar(p) PROVE Ausentes'
  BY <1>9, PasaCampos, TerminaCampos DEF Reintentar, Registros
<1>10. ASSUME NEW p \in Procesos, Cargar(p) PROVE Ausentes'
  <2>1. \A q \in Procesos : q # p => proc'[q] = proc[q]
    BY <1>10, CargarCampos
  <2>2. proc'[p].pc \notin EnSeccion
    BY <1>10, CargarCampos
  <2> QED BY <1>10, <2>1, <2>2 DEF Cargar
<1>11. ASSUME NEW p \in Procesos, Limpiar(p) PROVE Ausentes'
  BY <1>11, PasaCampos, TerminaCampos DEF Limpiar
<1>12. ASSUME NEW p \in Procesos, Ejecutar(p) PROVE Ausentes'
  BY <1>12, PasaCampos, TerminaCampos DEF Ejecutar, EjecutarCliente, EjecutarPersonal, SinAcceso, Impedida, Vigentes
<1>13. ASSUME NEW p \in Procesos, Anonimizar(p) PROVE Ausentes'
  BY <1>13, PasaCampos, TerminaCampos DEF Anonimizar, AnonimizarCliente, AnonimizarPersonal, Anonimizada, SinDatos, ListaParaAnonimizar, Vigentes
<1>14. ASSUME NEW p \in Procesos, PrepararArchivos(p) PROVE Ausentes'
  <2>1. \A q \in Procesos : proc[q].pc \notin EnSeccion
    BY <1>14, CandadoLibreNadie DEF PrepararArchivos
  <2>2. UNCHANGED <<objetos, tardios, instantanea, tipo>>
    BY <1>14 DEF PrepararArchivos
  <2>3. CASE estado = "storage_pendiente" /\ TomarArchivos(p)
    <3> DEFINE x == IF PorQuitar = {} THEN "cerrarArchivos" ELSE "quitar"
    <3>1. proc' = [proc EXCEPT ![p].pc = x, ![p].pendientes = PorQuitar, ![p].fallidas = {}]
      BY <2>3 DEF TomarArchivos
    <3> HIDE DEF x
    <3>2. proc'[p].pendientes = PorQuitar /\ \A q \in Procesos : q # p => proc'[q] = proc[q]
      BY <3>1 DEF Registros
    <3>3. \A y \in objetos : fila'[y] = "eliminada" => y \in tardios
      BY <2>3, LapidasCrecen DEF TomarArchivos
    <3>4. tipo = "cliente" => \A y \in objetos \cap instantanea : y \in PorQuitar \cup tardios
      BY DEF PorQuitar
    <3> QED BY <2>1, <2>2, <3>2, <3>3, <3>4
  <2>4. CASE (Pasa(p, "cargar") \/ Termina(p)) /\ UNCHANGED fila
    BY <2>1, <2>2, <2>4, PasaCampos, TerminaCampos
  <2> QED BY <1>14, <2>3, <2>4 DEF PrepararArchivos
<1>15. ASSUME NEW p \in Procesos, NEW a \in Archivos, Quitar(p, a) PROVE Ausentes'
  BY <1>15, QuitarCampos
<1>16. ASSUME NEW p \in Procesos, CerrarArchivos(p) PROVE Ausentes'
  <2>1. \A q \in Procesos : q # p => proc'[q] = proc[q]
    BY <1>16, TerminaCampos, CierraCampos DEF CerrarArchivos, CerrarCliente, CerrarPersonal
  <2>2. proc'[p].pc \in {"cargar", "libre"}
    BY <1>16, TerminaCampos, CierraCampos DEF CerrarArchivos, CerrarCliente, CerrarPersonal
  <2>3. \A q \in Procesos : q # p => proc[q].pc \notin EnSeccion
    BY <1>16 DEF CerrarArchivos
  <2>4. UNCHANGED <<objetos, tardios, instantanea, tipo>> /\ proc[p].pc = "cerrarArchivos"
    BY <1>16 DEF CerrarArchivos
  <2>5. \A x \in objetos : fila'[x] = "eliminada" => x \in tardios
    <3>1. CASE CerrarCliente(p)
      BY <2>4, <3>1 DEF CerrarCliente, Lapidas
    <3>2. CASE CerrarPersonal(p)
      BY <3>2 DEF CerrarPersonal, Lapidas
    <3> QED BY <1>16, <3>1, <3>2 DEF CerrarArchivos
  <2> QED BY <2>1, <2>2, <2>3, <2>4, <2>5
<1>17. ASSUME NEW p \in Procesos, PrepararAuth(p) PROVE Ausentes'
  BY <1>17, PasaCampos, TerminaCampos DEF PrepararAuth
<1>18. ASSUME NEW p \in Procesos, BorrarAuth(p) PROVE Ausentes'
  BY <1>18, PasaCampos, TerminaCampos DEF BorrarAuth
<1>19. ASSUME NEW p \in Procesos, CerrarAuth(p) PROVE Ausentes'
  BY <1>19, PasaCampos, TerminaCampos DEF CerrarAuth
<1>20. ASSUME NEW p \in Procesos, NEW a \in Archivos, NoQuitar(p, a) PROVE Ausentes'
  BY <1>20, NoQuitarCampos
<1>21. ASSUME NEW p \in Procesos, FallaAuth(p) PROVE Ausentes'
  BY <1>21, PasaCampos, TerminaCampos DEF FallaAuth
<1>22. ASSUME NEW p \in Procesos, Caer(p) PROVE Ausentes'
  BY <1>22, PasaCampos, TerminaCampos DEF Caer, Suelta
<1>23. CASE Admitir
  BY <1>23 DEF Admitir, EnVuelo
<1>24. CASE Reservar
  BY <1>24 DEF Reservar
<1>25. CASE GuardarPerfil
  BY <1>25 DEF GuardarPerfil
<1>26. CASE PrepararFoto
  BY <1>26 DEF PrepararFoto, TodasEliminadas
<1>27. ASSUME NEW a \in Archivos, Subir(a) PROVE Ausentes'
  BY <1>27 DEF Subir, YaQuitados
<1>28. CASE Resolver
  BY <1>28 DEF Resolver
<1>29. CASE UNCHANGED vars
  BY <1>29 DEF vars, solicitud, sujeto, archivos
<1> QED
  BY <1>1, <1>2, <1>3, <1>4, <1>5, <1>6, <1>7, <1>8, <1>9, <1>10, <1>11,
     <1>12, <1>13, <1>14, <1>15, <1>16, <1>17, <1>18, <1>19, <1>20,
     <1>21, <1>22, <1>23, <1>24, <1>25, <1>26, <1>27, <1>28, <1>29
     DEF BorradoNext, Paso, Falla

-----------------------------------------------------------------------------
(* The invariant *)

\* It holds at first.
LEMMA InicioInv == BorradoInit => BorradoInv
<1> SUFFICES ASSUME BorradoInit PROVE BorradoInv
  OBVIOUS
<1> USE BorradoAssumption DEF BorradoInit
<1>1. BorradoTypeOK
  BY RegistroLibre DEF BorradoTypeOK, NULO, Estados, Nadie
<1>2. \A p \in Procesos : proc[p].pc = "libre"
  BY DEF Libre
<1>3. Secciones
  BY <1>2 DEF Secciones, EnSeccion, EnArchivos, EnAuth
<1>4. Etapas
  BY DEF Etapas, Antes, Despues, TodasEliminadas
<1>5. Ausentes
  BY <1>2 DEF Ausentes, EnArchivos
<1> QED BY <1>1, <1>3, <1>4, <1>5 DEF BorradoInv

\* The inductive invariant: types, who is in a section, what the state of the
\* request says of the account, and which files may be back.
THEOREM BorradoInvariante == BorradoSpec => []BorradoInv
<1>1. BorradoInv /\ [BorradoNext]_vars => BorradoInv'
  BY PasoTipo, PasoSecciones, PasoEtapas, PasoAusentes DEF BorradoInv
<1> QED BY InicioInv, <1>1, PTL DEF BorradoSpec

\* Every variable keeps its type and only a request that may be carried out
\* has a token.
THEOREM BorradoTipo == BorradoSpec => []BorradoTypeOK
<1>1. BorradoInv => BorradoTypeOK
  BY DEF BorradoInv
<1> QED BY <1>1, BorradoInvariante, PTL

\* Two requests are never at the same time in the sections that call Storage
\* or the identity provider.
THEOREM BorradoUnaSeccion == BorradoSpec => []UnaSeccion
<1>1. BorradoInv => UnaSeccion
  BY DEF BorradoInv, Secciones, UnaSeccion
<1> QED BY <1>1, BorradoInvariante, PTL

\* A request that says the account is deleted is right: the identity is gone
\* and every row of its list is a tombstone.
THEOREM BorradoCompletada == BorradoSpec => []CompletadaSinRestos
<1>1. BorradoInv => CompletadaSinRestos
  BY DEF BorradoInv, Etapas, CompletadaSinRestos
<1> QED BY <1>1, BorradoInvariante, PTL

\* The identity is deleted last, after the data and the files.
THEOREM BorradoIdentidad == BorradoSpec => []IdentidadAlFinal
<1>1. BorradoInv => IdentidadAlFinal
  BY DEF BorradoInv, Etapas, Despues, Ausentes, TodasEliminadas, IdentidadAlFinal
<1> QED BY <1>1, BorradoInvariante, PTL

\* Every step keeps the tombstones.
LEMMA PasoLapida == BorradoTypeOK /\ [BorradoNext]_vars => (\A x \in Archivos : fila[x] = "eliminada" => fila'[x] = "eliminada")
<1> SUFFICES ASSUME BorradoTypeOK, [BorradoNext]_vars PROVE (\A x \in Archivos : fila[x] = "eliminada" => fila'[x] = "eliminada")
  OBVIOUS
<1> USE BorradoAssumption DEF BorradoTypeOK, solicitud, sujeto, archivos
<1>1. CASE Crear
  BY <1>1 DEF Crear, Bloqueada
<1>2. CASE Confirmar
  BY <1>2 DEF Confirmar, LoginReciente, Confirmada, Impedida, Bloqueada, Confirmables
<1>3. CASE Tiempo
  BY <1>3 DEF Tiempo
<1>4. CASE CrearPersonal
  BY <1>4 DEF CrearPersonal, PersonalApto
<1>5. CASE Cancelar
  BY <1>5 DEF Cancelar, Decide
<1>6. CASE Rechazar
  BY <1>6 DEF Rechazar, Decide
<1>7. ASSUME NEW p \in Procesos, Aprobar(p) PROVE (\A x \in Archivos : fila[x] = "eliminada" => fila'[x] = "eliminada")
  BY <1>7 DEF Aprobar, Decide
<1>8. ASSUME NEW p \in Procesos, Iniciar(p) PROVE (\A x \in Archivos : fila[x] = "eliminada" => fila'[x] = "eliminada")
  BY <1>8 DEF Iniciar
<1>9. ASSUME NEW p \in Procesos, Reintentar(p) PROVE (\A x \in Archivos : fila[x] = "eliminada" => fila'[x] = "eliminada")
  BY <1>9 DEF Reintentar
<1>10. ASSUME NEW p \in Procesos, Cargar(p) PROVE (\A x \in Archivos : fila[x] = "eliminada" => fila'[x] = "eliminada")
  BY <1>10 DEF Cargar, CargaCliente, CargaAdmin, Etapa, Tecnicos
<1>11. ASSUME NEW p \in Procesos, Limpiar(p) PROVE (\A x \in Archivos : fila[x] = "eliminada" => fila'[x] = "eliminada")
  BY <1>11 DEF Limpiar
<1>12. ASSUME NEW p \in Procesos, Ejecutar(p) PROVE (\A x \in Archivos : fila[x] = "eliminada" => fila'[x] = "eliminada")
  BY <1>12 DEF Ejecutar, EjecutarCliente, EjecutarPersonal, SinAcceso, Impedida, Vigentes
<1>13. ASSUME NEW p \in Procesos, Anonimizar(p) PROVE (\A x \in Archivos : fila[x] = "eliminada" => fila'[x] = "eliminada")
  BY <1>13 DEF Anonimizar, AnonimizarCliente, AnonimizarPersonal, Anonimizada, SinDatos, ListaParaAnonimizar, Vigentes
<1>14. ASSUME NEW p \in Procesos, PrepararArchivos(p) PROVE (\A x \in Archivos : fila[x] = "eliminada" => fila'[x] = "eliminada")
  BY <1>14 DEF PrepararArchivos, TomarArchivos, Cuarentena, PorQuitar
<1>15. ASSUME NEW p \in Procesos, NEW a \in Archivos, Quitar(p, a) PROVE (\A x \in Archivos : fila[x] = "eliminada" => fila'[x] = "eliminada")
  BY <1>15 DEF Quitar, Sigue, TrasQuitar
<1>16. ASSUME NEW p \in Procesos, CerrarArchivos(p) PROVE (\A x \in Archivos : fila[x] = "eliminada" => fila'[x] = "eliminada")
  BY <1>16, LapidasCrecen DEF CerrarArchivos, CerrarCliente, CerrarPersonal, Lapidas
<1>17. ASSUME NEW p \in Procesos, PrepararAuth(p) PROVE (\A x \in Archivos : fila[x] = "eliminada" => fila'[x] = "eliminada")
  BY <1>17 DEF PrepararAuth
<1>18. ASSUME NEW p \in Procesos, BorrarAuth(p) PROVE (\A x \in Archivos : fila[x] = "eliminada" => fila'[x] = "eliminada")
  BY <1>18 DEF BorrarAuth
<1>19. ASSUME NEW p \in Procesos, CerrarAuth(p) PROVE (\A x \in Archivos : fila[x] = "eliminada" => fila'[x] = "eliminada")
  BY <1>19 DEF CerrarAuth
<1>20. ASSUME NEW p \in Procesos, NEW a \in Archivos, NoQuitar(p, a) PROVE (\A x \in Archivos : fila[x] = "eliminada" => fila'[x] = "eliminada")
  BY <1>20 DEF NoQuitar, Sigue, TrasQuitar
<1>21. ASSUME NEW p \in Procesos, FallaAuth(p) PROVE (\A x \in Archivos : fila[x] = "eliminada" => fila'[x] = "eliminada")
  BY <1>21 DEF FallaAuth
<1>22. ASSUME NEW p \in Procesos, Caer(p) PROVE (\A x \in Archivos : fila[x] = "eliminada" => fila'[x] = "eliminada")
  BY <1>22 DEF Caer, Suelta
<1>23. CASE Admitir
  BY <1>23 DEF Admitir, EnVuelo
<1>24. CASE Reservar
  BY <1>24 DEF Reservar
<1>25. CASE GuardarPerfil
  BY <1>25 DEF GuardarPerfil
<1>26. CASE PrepararFoto
  BY <1>26 DEF PrepararFoto
<1>27. ASSUME NEW a \in Archivos, Subir(a) PROVE (\A x \in Archivos : fila[x] = "eliminada" => fila'[x] = "eliminada")
  BY <1>27 DEF Subir
<1>28. CASE Resolver
  BY <1>28 DEF Resolver
<1>29. CASE UNCHANGED vars
  BY <1>29 DEF vars, solicitud, sujeto, archivos
<1> QED
  BY <1>1, <1>2, <1>3, <1>4, <1>5, <1>6, <1>7, <1>8, <1>9, <1>10, <1>11,
     <1>12, <1>13, <1>14, <1>15, <1>16, <1>17, <1>18, <1>19, <1>20,
     <1>21, <1>22, <1>23, <1>24, <1>25, <1>26, <1>27, <1>28, <1>29
     DEF BorradoNext, Paso, Falla

\* A tombstone is final, whoever retries the deletion.
THEOREM BorradoLapida == BorradoSpec => LapidaFinal
<1> DEFINE L == \A a \in Archivos : fila[a] = "eliminada" => fila'[a] = "eliminada"
<1>1. BorradoTypeOK /\ [BorradoNext]_vars => [L]_vars
  BY PasoLapida
<1> QED BY <1>1, BorradoTipo, PTL DEF BorradoSpec, LapidaFinal

-----------------------------------------------------------------------------
(* The deletion implements SagaBorrado *)

Restos == {a \in instantanea : fila[a] # "eliminada"}

\* Every step is a step of SagaBorrado or leaves its state alone.
LEMMA PasoSaga == BorradoInv /\ [BorradoNext]_vars => [Saga!SagaNext]_(Saga!saga)
<1> SUFFICES ASSUME BorradoInv, [BorradoNext]_vars PROVE [Saga!SagaNext]_(Saga!saga)
  OBVIOUS
<1> USE BorradoAssumption DEF BorradoInv, BorradoTypeOK, solicitud, sujeto, archivos, Saga!saga, Saga!SagaNext
<1>1. CASE Crear
  BY <1>1 DEF Crear, Etapas, Despues, Restos
<1>2. CASE Confirmar
  BY <1>2 DEF Confirmar, LoginReciente, Confirmada, Impedida, Bloqueada, Confirmables, Restos
<1>3. CASE Tiempo
  BY <1>3 DEF Tiempo, Restos
<1>4. CASE CrearPersonal
  BY <1>4 DEF CrearPersonal, PersonalApto, Etapas, Despues, Restos
<1>5. CASE Cancelar
  BY <1>5 DEF Cancelar, Decide, Restos
<1>6. CASE Rechazar
  BY <1>6 DEF Rechazar, Decide, Restos
<1>7. ASSUME NEW p \in Procesos, Aprobar(p) PROVE [Saga!SagaNext]_(Saga!saga)
  BY <1>7 DEF Aprobar, Decide, Restos
<1>8. ASSUME NEW p \in Procesos, Iniciar(p) PROVE [Saga!SagaNext]_(Saga!saga)
  BY <1>8 DEF Iniciar, Restos
<1>9. ASSUME NEW p \in Procesos, Reintentar(p) PROVE [Saga!SagaNext]_(Saga!saga)
  BY <1>9 DEF Reintentar, Restos
<1>10. ASSUME NEW p \in Procesos, Cargar(p) PROVE [Saga!SagaNext]_(Saga!saga)
  BY <1>10 DEF Cargar, CargaCliente, CargaAdmin, Etapa, Tecnicos, Restos
<1>11. ASSUME NEW p \in Procesos, Limpiar(p) PROVE [Saga!SagaNext]_(Saga!saga)
  BY <1>11 DEF Limpiar, Restos
<1>12. ASSUME NEW p \in Procesos, Ejecutar(p) PROVE [Saga!SagaNext]_(Saga!saga)
  <2>1. CASE UNCHANGED <<cuenta, estado, instantanea, fila, identidad>>
    BY <2>1 DEF Restos
  <2>2. CASE /\ estado \in {"evaluada", "aprobada"} /\ estado' = "procesando" /\ cuenta' = "inactiva"
             /\ UNCHANGED <<fila, identidad>> /\ instantanea' \subseteq Archivos
    BY <2>2 DEF Saga!Cerrar, Etapas, Antes, Restos
  <2>3. CASE /\ estado = "evaluada" /\ estado' = "bloqueada"
             /\ UNCHANGED <<cuenta, instantanea, fila, identidad>>
    BY <2>3 DEF Restos
  <2> QED BY <1>12, <2>1, <2>2, <2>3
          DEF Ejecutar, EjecutarCliente, EjecutarPersonal, SinAcceso, Impedida, Vigentes
<1>13. ASSUME NEW p \in Procesos, Anonimizar(p) PROVE [Saga!SagaNext]_(Saga!saga)
  <2>1. CASE UNCHANGED <<cuenta, estado, instantanea, fila, identidad>>
    BY <2>1 DEF Restos
  <2>2. CASE /\ estado = "procesando" /\ estado' \in {"storage_pendiente", "auth_pendiente"}
             /\ cuenta' = "anonima" /\ UNCHANGED <<fila, identidad>>
             /\ instantanea' \subseteq Archivos
             /\ tipo = "cliente" \/ instantanea' = instantanea
    BY <2>2 DEF Saga!Anonimizar, Etapas, Despues, Restos
  <2> QED BY <1>13, <2>1, <2>2
          DEF Anonimizar, AnonimizarCliente, AnonimizarPersonal, Anonimizada, SinDatos, Vigentes
<1>14. ASSUME NEW p \in Procesos, PrepararArchivos(p) PROVE [Saga!SagaNext]_(Saga!saga)
  <2>1. UNCHANGED <<instantanea, cuenta, estado, identidad>>
    BY <1>14 DEF PrepararArchivos
  <2>2. fila' = fila \/ fila' = Cuarentena
    BY <1>14 DEF PrepararArchivos, TomarArchivos
  <2>3. Restos' = Restos
    <3>1. CASE fila' = fila
      BY <2>1, <3>1 DEF Restos
    <3>2. CASE fila' = Cuarentena
      BY <2>1, <3>2, LapidasCrecen DEF Restos
    <3> QED BY <2>2, <3>1, <3>2
  <2> QED BY <2>1, <2>3 DEF Restos
<1>15. ASSUME NEW p \in Procesos, NEW a \in Archivos, Quitar(p, a) PROVE [Saga!SagaNext]_(Saga!saga)
  BY <1>15 DEF Quitar, Sigue, TrasQuitar, Restos
<1>16. ASSUME NEW p \in Procesos, CerrarArchivos(p) PROVE [Saga!SagaNext]_(Saga!saga)
  <2>1. /\ cuenta = "anonima" /\ estado = "storage_pendiente" /\ estado' # "completada"
        /\ UNCHANGED <<cuenta, identidad>>
    BY <1>16 DEF CerrarArchivos, CerrarCliente, CerrarPersonal, Secciones, EnArchivos, Etapas, Despues
  <2>2. \A a \in Archivos : fila[a] = "eliminada" => fila'[a] = "eliminada"
    BY <1>16, PasoLapida
  <2>3. Restos' \subseteq Restos
    <3>1. instantanea' = instantanea
      BY <1>16 DEF CerrarArchivos
    <3> QED BY <2>2, <3>1 DEF Restos
  <2> QED BY <2>1, <2>3 DEF Saga!Verificar, Restos
<1>17. ASSUME NEW p \in Procesos, PrepararAuth(p) PROVE [Saga!SagaNext]_(Saga!saga)
  BY <1>17 DEF PrepararAuth, Restos
<1>18. ASSUME NEW p \in Procesos, BorrarAuth(p) PROVE [Saga!SagaNext]_(Saga!saga)
  BY <1>18 DEF BorrarAuth, Secciones, EnAuth, Etapas, Despues, TodasEliminadas, Restos, Saga!BorrarIdentidad
<1>19. ASSUME NEW p \in Procesos, CerrarAuth(p) PROVE [Saga!SagaNext]_(Saga!saga)
  BY <1>19 DEF CerrarAuth, Secciones, EnAuth, Restos, Saga!Terminar
<1>20. ASSUME NEW p \in Procesos, NEW a \in Archivos, NoQuitar(p, a) PROVE [Saga!SagaNext]_(Saga!saga)
  BY <1>20 DEF NoQuitar, Sigue, TrasQuitar, Restos
<1>21. ASSUME NEW p \in Procesos, FallaAuth(p) PROVE [Saga!SagaNext]_(Saga!saga)
  BY <1>21 DEF FallaAuth, Secciones, EnAuth, Etapas, Despues, TodasEliminadas, Restos, Saga!BorrarIdentidad
<1>22. ASSUME NEW p \in Procesos, Caer(p) PROVE [Saga!SagaNext]_(Saga!saga)
  BY <1>22 DEF Caer, Suelta, Restos
<1>23. CASE Admitir
  BY <1>23 DEF Admitir, EnVuelo, Restos
<1>24. CASE Reservar
  BY <1>24 DEF Reservar, Restos
<1>25. CASE GuardarPerfil
  BY <1>25 DEF GuardarPerfil, Restos
<1>26. CASE PrepararFoto
  BY <1>26 DEF PrepararFoto, Restos
<1>27. ASSUME NEW a \in Archivos, Subir(a) PROVE [Saga!SagaNext]_(Saga!saga)
  BY <1>27 DEF Subir, Restos
<1>28. CASE Resolver
  BY <1>28 DEF Resolver, Restos
<1>29. CASE UNCHANGED vars
  BY <1>29 DEF Restos, vars, solicitud, sujeto, archivos
<1> QED
  BY <1>1, <1>2, <1>3, <1>4, <1>5, <1>6, <1>7, <1>8, <1>9, <1>10, <1>11,
     <1>12, <1>13, <1>14, <1>15, <1>16, <1>17, <1>18, <1>19, <1>20,
     <1>21, <1>22, <1>23, <1>24, <1>25, <1>26, <1>27, <1>28, <1>29
     DEF BorradoNext, Paso, Falla

\* However many requests take part and wherever they die, the deletion is one
\* run of the four stages of SagaBorrado.
THEOREM BorradoImplementa == BorradoSpec => SagaSpec
<1>1. BorradoInit => Saga!SagaInit
  BY DEF BorradoInit, Saga!SagaInit
<1> QED BY <1>1, PasoSaga, BorradoInvariante, PTL DEF BorradoSpec, SagaSpec, Saga!SagaSpec
=============================================================================
