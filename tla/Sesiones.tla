------------------------------ MODULE Sesiones ------------------------------
(***************************************************************************)
(* The access of one account: the sessions of the application              *)
(* (seguridad_sesiones), which are what admits a request, against its      *)
(* password and its sessions at the identity provider (Supabase Auth).     *)
(*                                                                         *)
(* A login, the exchange of a session of the provider and the reset of the *)
(* password each take several statements and calls to the provider, in     *)
(* any of the processes of the server.  They exclude each other with an    *)
(* advisory lock on the address of the account; the administrators and the *)
(* logout do not take it.                                                  *)
(***************************************************************************)
EXTENDS Naturals, FiniteSets, FiniteSetsExt

CONSTANTS
    Procesos,       \* requests under way
    Nadie,          \* no process, no session of the provider
    Sesiones,       \* rows of seguridad_sesiones
    Proveedor,      \* sessions at the provider
    Reglas,         \* rows of seguridad_session_policy for the roles of the account
    Umbral,         \* AUTH_LOGIN_FAILED_LOCK_THRESHOLD
    MaxClaves,      \* bound: changes of the password
    MaxCaidas       \* bound: processes that die

ASSUME SesionesAssumption ==
    /\ IsFiniteSet(Sesiones) /\ Nadie \notin Procesos \cup Proveedor
    /\ Umbral \in Nat \ {0} /\ MaxClaves \in Nat /\ MaxCaidas \in Nat
    /\ Reglas \subseteq [max : Nat \ {0}, accion : {"allow", "block", "confirm_replace"}]
    /\ IsFiniteSet(Reglas)

VARIABLES
    clave,          \* the password at the provider, by number of changes
    cerrada,        \* history: the password of the last reset that was confirmed
    prov,           \* sessions at the provider, with the password of their time
    sesion,         \* seguridad_sesiones, with the password their credential was checked
                    \* with; "terminada": cerrada, revocada or expirada
    acceso,         \* usuarios.estado_acceso
    fallidos,       \* failed_login_count, while last_failed_login_at is within
                    \* LOGIN_WINDOW_MINUTES: an older count starts again
    bloqueo,        \* locked_until_at is in the future
    candado,        \* the process that holds the lock of the address
    proc,           \* the requests
    caidas

vars == <<clave, cerrada, prov, sesion, acceso, fallidos, bloqueo, candado,
          proc, caidas>>

Claves == 0..MaxClaves
Libre == [op |-> "nada", paso |-> "libre", clave |-> 0, prov |-> Nadie, reemplaza |-> FALSE]

Salida == [estado |-> "cerrada", clave |-> 0]

\* The sessions that admit a request, and count for the limit
Activas == {s \in Sesiones : sesion[s].estado = "activa" /\ ~sesion[s].vencida}

Init ==
    /\ clave = 0 /\ cerrada = 0
    /\ prov = [x \in Proveedor |-> [estado |-> "ninguna", clave |-> 0]]
    /\ sesion = [s \in Sesiones |-> [estado |-> "ninguna", clave |-> 0, vencida |-> FALSE]]
    /\ acceso \in {"pendiente_password", "activo"}
    /\ fallidos = 0 /\ bloqueo = FALSE
    /\ candado = Nadie
    /\ proc = [p \in Procesos |-> Libre]
    /\ caidas = 0

-----------------------------------------------------------------------------
(* The identity provider *)

\* The browser signs in at the provider, with the password or socially.
EntrarProveedor(x) ==
    /\ prov[x].estado = "ninguna"
    /\ prov' = [prov EXCEPT ![x] = [estado |-> "viva", clave |-> clave]]
    /\ UNCHANGED <<clave, cerrada, sesion, acceso, fallidos, bloqueo, candado,
                   proc, caidas>>

\* It signs out, or its session ends (not_after).
SalirProveedor(x) ==
    /\ prov[x].estado = "viva"
    /\ prov' = [prov EXCEPT ![x] = Salida]
    /\ UNCHANGED <<clave, cerrada, sesion, acceso, fallidos, bloqueo, candado,
                   proc, caidas>>

-----------------------------------------------------------------------------
(* Requests, up to the lock *)

\* POST /login with some password.  Attempts refused by the rate limits change
\* nothing here.
Login(p, v, r) ==
    /\ proc[p] = Libre
    /\ proc' = [proc EXCEPT ![p] = [op |-> "login", paso |-> "espera", clave |-> v,
                                    prov |-> Nadie, reemplaza |-> r]]
    /\ UNCHANGED <<clave, cerrada, prov, sesion, acceso, fallidos, bloqueo,
                   candado, caidas>>

\* POST /exchange and /social/confirm (which never replaces): the provider
\* answers for the session before the lock is taken.
Canje(p, x, r) ==
    /\ proc[p] = Libre /\ prov[x].estado = "viva"
    /\ proc' = [proc EXCEPT ![p] = [op |-> "canje", paso |-> "espera", clave |-> prov[x].clave,
                                    prov |-> x, reemplaza |-> r]]
    /\ UNCHANGED <<clave, cerrada, prov, sesion, acceso, fallidos, bloqueo,
                   candado, caidas>>

\* POST /reset-password: the code of the e-mail opens a session at the provider.
Reset(p, x) ==
    /\ proc[p] = Libre /\ prov[x].estado = "ninguna"
    /\ prov' = [prov EXCEPT ![x] = [estado |-> "viva", clave |-> clave]]
    /\ proc' = [proc EXCEPT ![p] = [op |-> "reset", paso |-> "espera", clave |-> clave,
                                    prov |-> x, reemplaza |-> FALSE]]
    /\ UNCHANGED <<clave, cerrada, sesion, acceso, fallidos, bloqueo, candado,
                   caidas>>

CandadoLibre == candado = Nadie

\* acquirePasswordOperationLock
Tomar(p) ==
    /\ proc[p].paso = "espera" /\ CandadoLibre
    /\ candado' = p
    /\ proc' = [proc EXCEPT ![p].paso = IF proc[p].op = "reset" THEN "revocar" ELSE "verificar"]
    /\ UNCHANGED <<clave, cerrada, prov, sesion, acceso, fallidos, bloqueo,
                   caidas>>

\* The session of a recovery that did not complete is signed out, if the
\* provider answers.
ProvTras(p, sale) ==
    IF proc[p].op = "reset" /\ sale THEN [prov EXCEPT ![proc[p].prov] = Salida] ELSE prov

\* lock_timeout of the database, or half of the pool already waits for locks
Desistir(p, sale) ==
    /\ proc[p].paso = "espera"
    /\ proc' = [proc EXCEPT ![p] = Libre]
    /\ prov' = ProvTras(p, sale)
    /\ UNCHANGED <<clave, cerrada, sesion, acceso, fallidos, bloqueo, candado,
                   caidas>>

\* The request ends and its transaction, which holds the lock, is rolled back.
Termina(p) == proc' = [proc EXCEPT ![p] = Libre] /\ candado' = Nadie
Sigue(p, paso) == proc' = [proc EXCEPT ![p].paso = paso] /\ UNCHANGED candado

-----------------------------------------------------------------------------
(* Under the lock: a session is issued *)

\* Mutant: the session of the provider is not looked up again.
VigenteAntes(p) == TRUE

\* signInWithPassword, or the row of auth.sessions
Vigente(p) ==
    IF proc[p].op = "login" THEN proc[p].clave = clave ELSE prov[proc[p].prov].estado = "viva"

\* registerFailedLoginAttempt: the failures are counted within a window, and
\* the last one sets the end of the lock, or takes it away.
Fallar ==
    /\ fallidos' = Min({fallidos + 1, Umbral})
    /\ bloqueo' = (fallidos + 1 >= Umbral)

Verificar(p) ==
    /\ proc[p].paso = "verificar"
    /\ IF Vigente(p)
       THEN Sigue(p, "admitir") /\ UNCHANGED <<fallidos, bloqueo>>
       ELSE /\ Termina(p)
            /\ IF proc[p].op = "login" THEN Fallar
               ELSE UNCHANGED <<fallidos, bloqueo>>
    /\ UNCHANGED <<clave, cerrada, prov, sesion, acceso, caidas>>

\* getAuthClaims, and syncAccessStateAfterLogin
Admitir(p) ==
    /\ proc[p].paso = "admitir"
    /\ IF acceso \in {"bloqueado", "inactivo"}
       THEN Termina(p) /\ UNCHANGED acceso
       ELSE Sigue(p, "revisar") /\ acceso' = "activo"
    /\ UNCHANGED <<clave, cerrada, prov, sesion, fallidos, bloqueo, caidas>>

\* Mutant: the lock of the user is not looked at.
BloqueadoNunca == FALSE

Bloqueado == bloqueo

\* checkUserTemporaryLock
Revisar(p) ==
    /\ proc[p].paso = "revisar"
    /\ IF Bloqueado THEN Termina(p) ELSE Sigue(p, "abrir")
    /\ UNCHANGED <<clave, cerrada, prov, sesion, acceso, fallidos, bloqueo,
                   caidas>>

\* resolvePolicy
Acciones == {r.accion : r \in Reglas}
MaxActivas == IF Reglas = {} THEN 5 ELSE Min({r.max : r \in Reglas})
Politica == IF "confirm_replace" \in Acciones THEN "confirm_replace"
            ELSE IF "block" \in Acciones THEN "block" ELSE "allow"

\* Mutant: one session too many.
ColisionUnaMas == Politica # "allow" /\ Cardinality(Activas) > MaxActivas

Colision == Politica # "allow" /\ Cardinality(Activas) >= MaxActivas

\* The active rows of a set, ended
Terminadas(de, t) ==
    [s \in Sesiones |-> IF t[s].estado = "activa" /\ s \in de
                        THEN [estado |-> "terminada", clave |-> 0, vencida |-> FALSE] ELSE t[s]]

\* createActiveSession, one transaction under the lock of the user
Abrir(p, s) ==
    LET vencidas == {t \in Sesiones : sesion[t].vencida}
        alDia == Terminadas(vencidas, sesion)
        reemplaza == Politica = "confirm_replace" /\ proc[p].reemplaza
        previas == IF Colision THEN Terminadas(Sesiones, alDia) ELSE alDia
    IN  /\ proc[p].paso = "abrir" /\ sesion[s].estado = "ninguna"
        /\ IF Colision /\ ~reemplaza
           THEN sesion' = alDia /\ Termina(p)
           ELSE /\ sesion' = [previas EXCEPT ![s] = [estado |-> "activa", clave |-> proc[p].clave,
                                                     vencida |-> FALSE]]
                /\ IF proc[p].op = "login" THEN Sigue(p, "acertar") ELSE Termina(p)
        /\ UNCHANGED <<clave, cerrada, prov, acceso, fallidos, bloqueo,
                       caidas>>

\* registerSuccessfulLogin
Acertar(p) ==
    /\ proc[p].paso = "acertar"
    /\ fallidos' = 0 /\ bloqueo' = FALSE
    /\ Termina(p)
    /\ UNCHANGED <<clave, cerrada, prov, sesion, acceso, caidas>>

-----------------------------------------------------------------------------
(* Under the lock: resetPasswordWithRecovery *)

\* Every active row, in a connection of its own: it stays done.
Revocar(p) ==
    /\ proc[p].paso = "revocar"
    /\ sesion' = Terminadas(Sesiones, sesion)
    /\ Sigue(p, "cambiar")
    /\ UNCHANGED <<clave, cerrada, prov, acceso, fallidos, bloqueo, caidas>>

\* updateUserById, done or not, with an answer or not
CambiarClave(p, hecho, responde, sale) ==
    /\ proc[p].paso = "cambiar" /\ (hecho => clave < MaxClaves)
    /\ clave' = IF hecho THEN clave + 1 ELSE clave
    /\ IF hecho /\ responde THEN Sigue(p, "salir") /\ UNCHANGED prov
                            ELSE Termina(p) /\ prov' = ProvTras(p, sale)
    /\ UNCHANGED <<cerrada, sesion, acceso, fallidos, bloqueo, caidas>>

\* signOut({ scope: "global" })
Cierre(p) == Proveedor

SalirDeTodas(p, hecho, responde, sale) ==
    LET fuera == [x \in Proveedor |-> IF x \in Cierre(p) /\ prov[x].estado = "viva"
                                      THEN Salida ELSE prov[x]]
    IN  /\ proc[p].paso = "salir"
        /\ prov' = IF hecho THEN fuera ELSE ProvTras(p, sale)
        /\ cerrada' = IF hecho /\ responde THEN clave ELSE cerrada
        /\ Termina(p)
        /\ UNCHANGED <<clave, sesion, acceso, fallidos, bloqueo, caidas>>

-----------------------------------------------------------------------------
(* Without the lock *)

\* expira_at passes
Vencer(s) ==
    /\ sesion[s].estado = "activa" /\ ~sesion[s].vencida
    /\ sesion' = [sesion EXCEPT ![s].vencida = TRUE]
    /\ UNCHANGED <<clave, cerrada, prov, acceso, fallidos, bloqueo, candado,
                   proc, caidas>>

\* validateActiveSession marks an active row that is due.
MarcarVencida(s) ==
    /\ sesion[s].estado = "activa" /\ sesion[s].vencida
    /\ sesion' = Terminadas({s}, sesion)
    /\ UNCHANGED <<clave, cerrada, prov, acceso, fallidos, bloqueo, candado, proc, caidas>>

\* It finds a row that was not used for SESSION_IDLE_TIMEOUT_SECONDS.
Inactiva(s) ==
    /\ s \in Activas
    /\ sesion' = Terminadas({s}, sesion)
    /\ UNCHANGED <<clave, cerrada, prov, acceso, fallidos, bloqueo, candado,
                   proc, caidas>>

\* POST /logout: closeActiveSession
Cerrar(s) ==
    /\ s \in Activas
    /\ sesion' = Terminadas({s}, sesion)
    /\ UNCHANGED <<clave, cerrada, prov, acceso, fallidos, bloqueo, candado,
                   proc, caidas>>

\* An administrator revokes one session, or all of them.
RevocarAdmin(cuales) ==
    /\ \E s \in cuales : sesion[s].estado = "activa"
    /\ sesion' = Terminadas(cuales, sesion)
    /\ UNCHANGED <<clave, cerrada, prov, acceso, fallidos, bloqueo, candado,
                   proc, caidas>>

\* PATCH /usuarios/:id/estado-acceso: the lock of the user goes with the state.
CambiarAcceso(e) ==
    /\ acceso' = e
    /\ fallidos' = IF e = "activo" THEN 0 ELSE fallidos
    /\ bloqueo' = (e = "bloqueado" \/ (e # "activo" /\ bloqueo))
    /\ UNCHANGED <<clave, cerrada, prov, sesion, candado, proc, caidas>>

\* LOGIN_WINDOW_MINUTES, and the longer LOGIN_LOCK_MINUTES, since the last failure
PasarVentana ==
    /\ fallidos > 0
    /\ fallidos' = 0
    /\ UNCHANGED <<clave, cerrada, prov, sesion, acceso, bloqueo, candado, proc, caidas>>

PasarBloqueo ==
    /\ fallidos = 0 /\ bloqueo
    /\ bloqueo' = FALSE
    /\ UNCHANGED <<clave, cerrada, prov, sesion, acceso, fallidos, candado, proc, caidas>>

\* The process dies, and its connection with it.
Caer(p) ==
    /\ caidas < MaxCaidas /\ proc[p] # Libre
    /\ caidas' = caidas + 1
    /\ proc' = [proc EXCEPT ![p] = Libre]
    /\ candado' = IF candado = p THEN Nadie ELSE candado
    /\ UNCHANGED <<clave, cerrada, prov, sesion, acceso, fallidos, bloqueo>>

-----------------------------------------------------------------------------
Paso(p) ==
    \/ Tomar(p) \/ Verificar(p) \/ Admitir(p) \/ Revisar(p)
    \/ (\E s \in Sesiones : Abrir(p, s))
    \/ Acertar(p) \/ Revocar(p)
    \/ \E hecho, responde, sale \in BOOLEAN :
          CambiarClave(p, hecho, responde, sale) \/ SalirDeTodas(p, hecho, responde, sale)

Next ==
    \/ \E x \in Proveedor : EntrarProveedor(x) \/ SalirProveedor(x)
    \/ \E p \in Procesos :
          \/ \E v \in Claves, r \in BOOLEAN : Login(p, v, r)
          \/ \E x \in Proveedor : Reset(p, x) \/ \E r \in BOOLEAN : Canje(p, x, r)
          \/ \E sale \in BOOLEAN : Desistir(p, sale)
          \/ Paso(p) \/ Caer(p)
    \/ \E s \in Sesiones :
          \/ Vencer(s) \/ MarcarVencida(s) \/ Inactiva(s) \/ Cerrar(s)
          \/ RevocarAdmin({s})
    \/ RevocarAdmin(Sesiones)
    \/ \E e \in {"activo", "bloqueado", "inactivo", "pendiente_password"} : CambiarAcceso(e)
    \/ PasarVentana \/ PasarBloqueo

SesionesSpec == Init /\ [][Next]_vars

-----------------------------------------------------------------------------
(* Properties *)

Pasos == {"libre", "espera", "verificar", "admitir", "revisar", "abrir", "acertar",
          "revocar", "cambiar", "salir"}
Peticion == [op : {"nada", "login", "canje", "reset"}, paso : Pasos, clave : Claves,
             prov : Proveedor \cup {Nadie}, reemplaza : BOOLEAN]
DeProveedor == [estado : {"ninguna", "viva", "cerrada"}, clave : Claves]
DeSesion == [estado : {"ninguna", "activa", "terminada"}, clave : Claves, vencida : BOOLEAN]

SesionesTypeOK ==
    /\ clave \in Claves /\ cerrada \in Claves
    /\ prov \in [Proveedor -> DeProveedor]
    /\ sesion \in [Sesiones -> DeSesion]
    /\ acceso \in {"pendiente_password", "activo", "bloqueado", "inactivo"}
    /\ fallidos \in 0..Umbral /\ bloqueo \in BOOLEAN
    /\ candado \in Procesos \cup {Nadie}
    /\ proc \in [Procesos -> Peticion]
    /\ caidas \in 0..MaxCaidas

\* A reset that was confirmed ends every access obtained before it: no session
\* of the application is active, and none of the provider alive, by a
\* credential older than the password it set, whatever logins, exchanges and
\* other resets overlap, fail or die.
ResetCierraTodo ==
    /\ \A s \in Sesiones : sesion[s].estado = "activa" => sesion[s].clave >= cerrada
    /\ \A x \in Proveedor : prov[x].estado = "viva" => prov[x].clave >= cerrada

\* An account never has more sessions than its policy allows, whatever logins
\* and exchanges overlap.
LimiteSesiones == Politica # "allow" => Cardinality(Activas) <= MaxActivas

\* No session is opened, by any of the ways in, once so many passwords were
\* refused, until their window passes or an administrator lifts the lock: not
\* by a login or an exchange that was under way either.
BloqueoVale ==
    [][\A s \in Sesiones :
          sesion[s].estado = "ninguna" /\ sesion'[s].estado = "activa" => fallidos < Umbral]_vars
=============================================================================
