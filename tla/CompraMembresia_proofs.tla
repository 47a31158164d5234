------------------------ MODULE CompraMembresia_proofs ------------------------
(***************************************************************************)
(* Proofs about CompraMembresia, for any number of orders, any assignment  *)
(* of branches and any number of crashes.                                  *)
(*                                                                         *)
(* PagadaUnaVez is not inductive: that a confirmation finds an approval    *)
(* stored in time, and that a claim finds no charge in doubt, follow from  *)
(* what the place of the Sale and the state of its intent say of the       *)
(* charge and of the approval.  Ligadura states it, and the invariant is   *)
(* the conjunction.                                                        *)
(***************************************************************************)
EXTENDS CompraMembresia, TLAPS

USE DEF Ordenes

(***************************************************************************)
(* The place of the Sale, the state of the intent, the charge and the      *)
(* approval: before the claim there is no charge, after a refusal neither; *)
(* an approval is stored once, by a Sale that was approved; an expired     *)
(* intent is past its time.                                                *)
(***************************************************************************)
Ligadura ==
    \A o \in Ordenes :
        /\ orden[o] = "ninguna" => intento[o] = "ninguno"
        /\ intento[o] \in {"ninguno", "link_generado", "fallido"} =>
              venta[o] = "libre" /\ ~cobrado[o]
        /\ intento[o] = "expirado" => ~vigente[o]
        /\ venta[o] \in {"cobrando", "rechazada"} => ~cobrado[o]
        /\ venta[o] \in {"cobrando", "aprobada", "incierta", "rechazada"} => evidencia[o] = "no"
        /\ venta[o] \in {"aprobada", "verificada"} => cobrado[o]
        /\ venta[o] = "verificada" /\ vigente[o] => evidencia[o] = "a_tiempo"
        /\ evidencia[o] # "no" => cobrado[o]

CompraInv == CompraTypeOK /\ PagadaUnaVez /\ Ligadura

-----------------------------------------------------------------------------
(* The initial states and each action keep the invariant *)

\* Nothing was bought yet.
LEMMA InicioInv == CompraAssumption /\ Init => CompraInv
  BY DEF CompraAssumption, Init, CompraInv, CompraTypeOK, PagadaUnaVez, Ligadura

\* A step that changes nothing keeps the invariant.
LEMMA QuietoInv == CompraInv /\ UNCHANGED vars => CompraInv'
  BY DEF CompraInv, CompraTypeOK, PagadaUnaVez, Ligadura, vars

\* The invariant when an order is made.
LEMMA CrearOrdenInv ==
  ASSUME CompraAssumption, CompraInv, NEW o \in Ordenes, CrearOrden(o)
  PROVE  CompraInv'
<1>1. CompraTypeOK'
  BY DEF CompraAssumption, CompraInv, CompraTypeOK, PagadaUnaVez, Ligadura, CrearOrden, EnVenta
<1>2. PagadaUnaVez'
  BY DEF CompraInv, CompraTypeOK, PagadaUnaVez, Ligadura, CrearOrden
<1>3. Ligadura'
  BY DEF CompraInv, CompraTypeOK, PagadaUnaVez, Ligadura, CrearOrden, EnVenta
<1> QED
  BY <1>1, <1>2, <1>3 DEF CompraInv

\* The invariant when its intent is made.
LEMMA CrearIntentoInv ==
  ASSUME CompraAssumption, CompraInv, NEW o \in Ordenes, CrearIntento(o)
  PROVE  CompraInv'
<1>1. CompraTypeOK'
  BY DEF CompraAssumption, CompraInv, CompraTypeOK, PagadaUnaVez, Ligadura, CrearIntento, EnVenta
<1>2. PagadaUnaVez'
  BY DEF CompraInv, CompraTypeOK, PagadaUnaVez, Ligadura, CrearIntento
<1>3. Ligadura'
  BY DEF CompraInv, CompraTypeOK, PagadaUnaVez, Ligadura, CrearIntento, EnVenta
<1> QED
  BY <1>1, <1>2, <1>3 DEF CompraInv

\* The invariant when the order's time passes.
LEMMA PasarVigenciaInv ==
  ASSUME CompraAssumption, CompraInv, NEW o \in Ordenes, PasarVigencia(o)
  PROVE  CompraInv'
<1>1. CompraTypeOK'
  BY DEF CompraAssumption, CompraInv, CompraTypeOK, PagadaUnaVez, Ligadura, PasarVigencia, EnVenta
<1>2. PagadaUnaVez'
  BY DEF CompraInv, CompraTypeOK, PagadaUnaVez, Ligadura, PasarVigencia
<1>3. Ligadura'
  BY DEF CompraInv, CompraTypeOK, PagadaUnaVez, Ligadura, PasarVigencia, EnVenta
<1> QED
  BY <1>1, <1>2, <1>3 DEF CompraInv

\* The invariant when a Sale claims the intent.
LEMMA VentaReclamarInv ==
  ASSUME CompraAssumption, CompraInv, NEW o \in Ordenes, VentaReclamar(o)
  PROVE  CompraInv'
<1>1. CompraTypeOK'
  BY DEF CompraAssumption, CompraInv, CompraTypeOK, PagadaUnaVez, Ligadura, VentaReclamar, EnVenta
<1>2. PagadaUnaVez'
  BY DEF CompraInv, CompraTypeOK, PagadaUnaVez, Ligadura, VentaReclamar
<1>3. Ligadura'
  BY DEF CompraInv, CompraTypeOK, PagadaUnaVez, Ligadura, VentaReclamar, EnVenta
<1> QED
  BY <1>1, <1>2, <1>3 DEF CompraInv

\* The invariant when the provider answers.
LEMMA VentaRespondeInv ==
  ASSUME CompraAssumption, CompraInv, NEW o \in Ordenes,
         NEW r \in {"aprobada", "incierta", "rechazada"}, VentaResponde(o, r)
  PROVE  CompraInv'
<1>1. CompraTypeOK'
  BY DEF CompraAssumption, CompraInv, CompraTypeOK, PagadaUnaVez, Ligadura, VentaResponde, EnVenta
<1>2. PagadaUnaVez'
  BY DEF CompraInv, CompraTypeOK, PagadaUnaVez, Ligadura, VentaResponde
<1>3. Ligadura'
  BY DEF CompraInv, CompraTypeOK, PagadaUnaVez, Ligadura, VentaResponde, EnVenta
<1> QED
  BY <1>1, <1>2, <1>3 DEF CompraInv

\* The invariant when a Sale that was not approved is closed.
LEMMA VentaCerrarInv ==
  ASSUME CompraAssumption, CompraInv, NEW o \in Ordenes, VentaCerrar(o)
  PROVE  CompraInv'
<1>1. CompraTypeOK'
  BY DEF CompraAssumption, CompraInv, CompraTypeOK, PagadaUnaVez, Ligadura, VentaCerrar, PuedeCerrar, EstadoTrasFallo, EnVenta
<1>2. PagadaUnaVez'
  BY DEF CompraInv, CompraTypeOK, PagadaUnaVez, Ligadura, VentaCerrar, PuedeCerrar, EstadoTrasFallo
<1>3. Ligadura'
  BY DEF CompraInv, CompraTypeOK, PagadaUnaVez, Ligadura, VentaCerrar, PuedeCerrar, EstadoTrasFallo, EnVenta
<1> QED
  BY <1>1, <1>2, <1>3 DEF CompraInv

\* The invariant when the approval is stored.
LEMMA VentaVerificarInv ==
  ASSUME CompraAssumption, CompraInv, NEW o \in Ordenes, VentaVerificar(o)
  PROVE  CompraInv'
<1>1. CompraTypeOK'
  BY DEF CompraAssumption, CompraInv, CompraTypeOK, PagadaUnaVez, Ligadura, VentaVerificar, EnVenta
<1>2. PagadaUnaVez'
  BY DEF CompraInv, CompraTypeOK, PagadaUnaVez, Ligadura, VentaVerificar
<1>3. Ligadura'
  BY DEF CompraInv, CompraTypeOK, PagadaUnaVez, Ligadura, VentaVerificar, EnVenta
<1> QED
  BY <1>1, <1>2, <1>3 DEF CompraInv

\* The invariant when the Sale activates the plan, or fails to.
LEMMA VentaConfirmarInv ==
  ASSUME CompraAssumption, CompraInv, NEW o \in Ordenes, VentaConfirmar(o)
  PROVE  CompraInv'
<1>1. CASE Confirmable(o, FALSE) /\ PagoATiempo(o) /\ Activar(o)
  <2>1. CompraTypeOK'
    BY <1>1, SMTT(30) DEF CompraAssumption, CompraInv, CompraTypeOK, PagadaUnaVez, Ligadura, VentaConfirmar, Confirmable, Activar, IntentsActivos, EnVenta
  <2>2. PagadaUnaVez'
    BY <1>1, SMTT(30) DEF CompraInv, CompraTypeOK, PagadaUnaVez, Ligadura, VentaConfirmar, Confirmable, PagoATiempo, Activar, IntentsActivos
  <2>3. Ligadura'
    BY <1>1, SMTT(30) DEF CompraInv, CompraTypeOK, PagadaUnaVez, Ligadura, VentaConfirmar, Confirmable, Activar, IntentsActivos, EnVenta
  <2> QED
    BY <2>1, <2>2, <2>3 DEF CompraInv
<1>2. CASE UNCHANGED <<orden, suscripcion, altas, intento>>
  <2>1. CompraTypeOK'
    BY <1>2 DEF CompraInv, CompraTypeOK, VentaConfirmar, EnVenta
  <2>2. PagadaUnaVez'
    BY <1>2 DEF CompraInv, PagadaUnaVez, VentaConfirmar
  <2>3. Ligadura'
    BY <1>2 DEF CompraInv, CompraTypeOK, Ligadura, VentaConfirmar, EnVenta
  <2> QED
    BY <2>1, <2>2, <2>3 DEF CompraInv
<1> QED
  BY <1>1, <1>2 DEF VentaConfirmar

\* The invariant when an approval is recovered.
LEMMA RecuperarInv ==
  ASSUME CompraAssumption, CompraInv, NEW o \in Ordenes, Recuperar(o)
  PROVE  CompraInv'
<1>1. CompraTypeOK'
  BY DEF CompraAssumption, CompraInv, CompraTypeOK, PagadaUnaVez, Ligadura, Recuperar, AprobacionDurable, Confirmable, Activar, IntentsActivos, EnVenta
<1>2. PagadaUnaVez'
  BY DEF CompraInv, CompraTypeOK, PagadaUnaVez, Ligadura, Recuperar, AprobacionDurable, Confirmable, Activar, IntentsActivos
<1>3. Ligadura'
  BY DEF CompraInv, CompraTypeOK, PagadaUnaVez, Ligadura, Recuperar, AprobacionDurable, Confirmable, Activar, IntentsActivos, EnVenta
<1> QED
  BY <1>1, <1>2, <1>3 DEF CompraInv

\* The invariant when a plan runs out.
LEMMA VencerPlanInv ==
  ASSUME CompraAssumption, CompraInv, NEW o \in Ordenes, VencerPlan(o)
  PROVE  CompraInv'
<1>1. CompraTypeOK'
  BY DEF CompraAssumption, CompraInv, CompraTypeOK, PagadaUnaVez, Ligadura, VencerPlan, EnVenta
<1>2. PagadaUnaVez'
  BY DEF CompraInv, CompraTypeOK, PagadaUnaVez, Ligadura, VencerPlan
<1>3. Ligadura'
  BY DEF CompraInv, CompraTypeOK, PagadaUnaVez, Ligadura, VencerPlan, EnVenta
<1> QED
  BY <1>1, <1>2, <1>3 DEF CompraInv

\* The invariant when the client cancels a plan.
LEMMA CancelarPlanInv ==
  ASSUME CompraAssumption, CompraInv, NEW o \in Ordenes, CancelarPlan(o)
  PROVE  CompraInv'
<1>1. CompraTypeOK'
  BY DEF CompraAssumption, CompraInv, CompraTypeOK, PagadaUnaVez, Ligadura, CancelarPlan, EnVenta
<1>2. PagadaUnaVez'
  BY DEF CompraInv, CompraTypeOK, PagadaUnaVez, Ligadura, CancelarPlan
<1>3. Ligadura'
  BY DEF CompraInv, CompraTypeOK, PagadaUnaVez, Ligadura, CancelarPlan, EnVenta
<1> QED
  BY <1>1, <1>2, <1>3 DEF CompraInv

\* The invariant when the process of a Sale dies.
LEMMA CaerInv ==
  ASSUME CompraAssumption, CompraInv, NEW o \in Ordenes, Caer(o)
  PROVE  CompraInv'
<1>1. CompraTypeOK'
  BY DEF CompraAssumption, CompraInv, CompraTypeOK, PagadaUnaVez, Ligadura, Caer, EnVenta
<1>2. PagadaUnaVez'
  BY DEF CompraInv, CompraTypeOK, PagadaUnaVez, Ligadura, Caer, EnVenta
<1>3. Ligadura'
  BY DEF CompraInv, CompraTypeOK, PagadaUnaVez, Ligadura, Caer, EnVenta
<1> QED
  BY <1>1, <1>2, <1>3 DEF CompraInv

\* The invariant when the sweep expires intents.
LEMMA BarrerInv ==
  ASSUME CompraAssumption, CompraInv, Barrer
  PROVE  CompraInv'
<1>1. CompraTypeOK'
  BY DEF CompraAssumption, CompraInv, CompraTypeOK, PagadaUnaVez, Ligadura, Barrer, VencidosAhora, IntentsActivos, EnVenta
<1>2. PagadaUnaVez'
  BY DEF CompraInv, CompraTypeOK, PagadaUnaVez, Ligadura, Barrer, VencidosAhora, IntentsActivos
<1>3. Ligadura'
  BY DEF CompraInv, CompraTypeOK, PagadaUnaVez, Ligadura, Barrer, VencidosAhora, IntentsActivos, EnVenta
<1> QED
  BY <1>1, <1>2, <1>3 DEF CompraInv

\* The invariant when the deletion of the account begins.
LEMMA EliminarCuentaInv ==
  ASSUME CompraAssumption, CompraInv, EliminarCuenta
  PROVE  CompraInv'
<1>1. CompraTypeOK'
  BY DEF CompraAssumption, CompraInv, CompraTypeOK, PagadaUnaVez, Ligadura, EliminarCuenta, IntentsActivos, EnVenta
<1>2. PagadaUnaVez'
  BY DEF CompraInv, CompraTypeOK, PagadaUnaVez, Ligadura, EliminarCuenta, IntentsActivos
<1>3. Ligadura'
  BY DEF CompraInv, CompraTypeOK, PagadaUnaVez, Ligadura, EliminarCuenta, IntentsActivos, EnVenta
<1> QED
  BY <1>1, <1>2, <1>3 DEF CompraInv

-----------------------------------------------------------------------------
(* The invariant *)

\* Every step keeps the invariant.
LEMMA PasoInv == CompraAssumption /\ CompraInv /\ [Next]_vars => CompraInv'
<1> SUFFICES ASSUME CompraAssumption, CompraInv, [Next]_vars PROVE CompraInv'
  OBVIOUS
<1>1. CASE UNCHANGED vars
  BY <1>1, QuietoInv
<1>2. ASSUME NEW o \in Ordenes,
             \/ CrearOrden(o) \/ CrearIntento(o) \/ PasarVigencia(o)
             \/ VentaReclamar(o)
             \/ \E r \in {"aprobada", "incierta", "rechazada"} : VentaResponde(o, r)
             \/ VentaCerrar(o) \/ VentaVerificar(o) \/ VentaConfirmar(o)
      PROVE CompraInv'
  BY <1>2, CrearOrdenInv, CrearIntentoInv, PasarVigenciaInv, VentaReclamarInv,
     VentaRespondeInv, VentaCerrarInv, VentaVerificarInv, VentaConfirmarInv
<1>3. ASSUME NEW o \in Ordenes,
             Recuperar(o) \/ VencerPlan(o) \/ CancelarPlan(o) \/ Caer(o)
      PROVE CompraInv'
  BY <1>3, RecuperarInv, VencerPlanInv, CancelarPlanInv, CaerInv
<1>4. CASE Barrer \/ EliminarCuenta
  BY <1>4, BarrerInv, EliminarCuentaInv
<1> QED
  BY <1>1, <1>2, <1>3, <1>4 DEF Next

\* The inductive invariant holds of every purchase.
THEOREM CompraInvariante == CompraSpec => []CompraInv
<1>1. Init => CompraInv
  BY CompraAssumption, InicioInv
<1>2. CompraInv /\ [Next]_vars => CompraInv'
  BY CompraAssumption, PasoInv
<1> QED
  BY <1>1, <1>2, PTL DEF CompraSpec

\* The tables of orders, intents and subscriptions keep their types, and no
\* order gives two plans.
THEOREM CompraTipo == CompraSpec => []CompraTypeOK
<1>1. CompraInv => CompraTypeOK
  BY DEF CompraInv
<1> QED
  BY <1>1, CompraInvariante, PTL

\* Whatever the Sale, the recovery, the sweep and the crashes do, an order is
\* paid exactly when its intent is confirmed and its plan was given once, for a
\* charge whose approval was stored in time.
THEOREM CompraPagadaUnaVez == CompraSpec => []PagadaUnaVez
<1>1. CompraInv => PagadaUnaVez
  BY DEF CompraInv
<1> QED
  BY <1>1, CompraInvariante, PTL

-----------------------------------------------------------------------------
(* Action properties *)

\* An order whose card may have been charged, still in time and not paid,
\* waits in pendiente_confirmacion: a claim in its branch sees it.
LEMMA CobroVisible ==
  ASSUME CompraInv, NEW p \in Ordenes, vigente[p],
         cobrado[p] \/ venta[p] = "cobrando", orden[p] # "pagada"
  PROVE  intento[p] = "pendiente_confirmacion"
  BY DEF CompraInv, CompraTypeOK, PagadaUnaVez, Ligadura

\* Only a claim starts the call to the provider.
LEMMA SoloReclamarCobra ==
  ASSUME CompraInv, Next, NEW o \in Ordenes, venta[o] # "cobrando", venta'[o] = "cobrando"
  PROVE  VentaReclamar(o)
<1>1. PICK q \in Ordenes : VentaReclamar(q)
  BY ZenonT(40) DEF Next, CompraInv, CompraTypeOK, CrearOrden, CrearIntento, PasarVigencia,
         VentaResponde, VentaCerrar, VentaVerificar, VentaConfirmar, Recuperar,
         VencerPlan, CancelarPlan, Caer, Barrer, EliminarCuenta
<1>2. q = o
  BY <1>1 DEF VentaReclamar, CompraInv, CompraTypeOK
<1> QED
  BY <1>1, <1>2

\* A Sale never begins while another order of the branch, still in time, may
\* hold a charge that gave no plan.
THEOREM CompraSinSegundoCobro == CompraSpec => SinSegundoCobro
<1> DEFINE Paso == \A o, p \in Ordenes :
          /\ venta[o] # "cobrando" /\ venta'[o] = "cobrando"
          /\ p # o /\ MismaSucursal(o, p) /\ vigente[p]
          /\ (cobrado[p] \/ venta[p] = "cobrando")
          => orden[p] = "pagada"
<1>1. CompraInv /\ [Next]_vars => Paso
  <2> SUFFICES ASSUME CompraInv, [Next]_vars, NEW o \in Ordenes, NEW p \in Ordenes,
                      venta[o] # "cobrando", venta'[o] = "cobrando",
                      p # o, MismaSucursal(o, p), vigente[p],
                      cobrado[p] \/ venta[p] = "cobrando",
                      orden[p] # "pagada"
               PROVE FALSE
    OBVIOUS
  <2>1. Next
    BY DEF vars
  <2>2. VentaReclamar(o)
    BY <2>1, SoloReclamarCobra
  <2>3. intento[p] # "pendiente_confirmacion"
    BY <2>2 DEF VentaReclamar, SinPendienteEnSucursal
  <2> QED
    BY <2>3, CobroVisible
<1> QED
  BY <1>1, CompraInvariante, PTL DEF CompraSpec, SinSegundoCobro

\* A confirmed or failed intent stays so, and an expired one is left only to
\* activate an approval stored in time.
THEOREM CompraSinReapertura == CompraSpec => SinReapertura
<1> DEFINE Cierre(o) ==
          /\ intento[o] \in {"confirmado", "fallido"} => intento'[o] = intento[o]
          /\ intento[o] = "expirado" /\ intento'[o] # "expirado" =>
                intento'[o] = "confirmado" /\ evidencia[o] = "a_tiempo"
<1>1. CompraInv /\ [Next]_vars => \A o \in Ordenes : Cierre(o)
  <2> SUFFICES ASSUME CompraInv, [Next]_vars, NEW o \in Ordenes PROVE Cierre(o)
    OBVIOUS
  <2> USE DEF CompraInv, CompraTypeOK
  <2>1. CASE UNCHANGED intento
    BY <2>1
  <2>2. ASSUME NEW q \in Ordenes, CrearIntento(q) \/ VentaReclamar(q) PROVE Cierre(o)
    BY <2>2 DEF CrearIntento, VentaReclamar
  <2>3. ASSUME NEW q \in Ordenes, VentaCerrar(q) PROVE Cierre(o)
    BY <2>3 DEF VentaCerrar, PuedeCerrar
  <2>4. ASSUME NEW q \in Ordenes, VentaConfirmar(q) PROVE Cierre(o)
    BY <2>4 DEF VentaConfirmar, Confirmable, Activar, IntentsActivos
  <2>5. ASSUME NEW q \in Ordenes, Recuperar(q) PROVE Cierre(o)
    BY <2>5 DEF Recuperar, AprobacionDurable, Confirmable, Activar, IntentsActivos
  <2>6. CASE Barrer
    BY <2>6 DEF Barrer, VencidosAhora, IntentsActivos
  <2>7. \/ UNCHANGED intento \/ Barrer
        \/ \E q \in Ordenes : \/ CrearIntento(q) \/ VentaReclamar(q) \/ VentaCerrar(q)
                               \/ VentaConfirmar(q) \/ Recuperar(q)
    BY DEF Next, vars, CrearOrden, PasarVigencia, VentaResponde, VentaVerificar,
           VencerPlan, CancelarPlan, Caer, EliminarCuenta
  <2> QED
    BY <2>1, <2>2, <2>3, <2>4, <2>5, <2>6, <2>7
<1> QED
  BY <1>1, CompraInvariante, PTL DEF CompraSpec, SinReapertura
=============================================================================
