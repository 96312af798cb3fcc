------------------------- MODULE Planificador_proof -------------------------
(***************************************************************************)
(* Planificador keeps its types, plans correctly, searches sanely and      *)
(* implements Asignacion, for any number of workers, nodes and blocks, any *)
(* DISP_BASE, either algorithm and any order of listaWorkers.              *)
(***************************************************************************)
EXTENDS Planificador, TLAPS, WellFoundedInduction, SequenceTheorems

(* The inductive invariant: the planner's types, and what its program      *)
(* counter says of clock, aux and the plan.                                *)
IInv == TypeOK /\ PlanCorrecto /\ BusquedaSana

(* A nonempty set of positions has a first one. *)
LEMMA HayPrimero ==
  ASSUME NEW S \in SUBSET Nat, S # {}
  PROVE  \E k \in S : \A j \in S : k <= j
<1>1. \E k \in S : \A j \in S : <<j, k>> \notin OpToRel(<, Nat)
  BY NatLessThanWellFounded, WFMin
<1>2. \A j, k \in S : <<j, k>> \notin OpToRel(<, Nat) => k <= j
  BY DEF OpToRel
<1>3. QED
  BY <1>1, <1>2

(* list_find (yama.c:126-128) returns NULL only when no worker satisfies   *)
(* the condition, and otherwise one that does.                             *)
LEMMA PrimeroPertenece ==
  ASSUME NEW l \in Ordenes, NEW S \in SUBSET W, S # {}
  PROVE  PrimeroDe(l, S) \in S
<1> DEFINE K == {k \in W : l[k] \in S}
<1>1. K \in SUBSET Nat /\ K # {}
  <2>1. PICK w \in S : TRUE
    OBVIOUS
  <2>2. \E k \in W : l[k] = w
    BY <2>1 DEF Ordenes
  <2>3. W \subseteq Nat
    BY DEF W
  <2>4. QED
    BY <2>1, <2>2, <2>3
<1>2. PICK k \in K : \A j \in K : k <= j
  BY <1>1, HayPrimero
<1>3. \E x \in W : l[x] \in S /\ \A j \in W : l[j] \in S => x <= j
  BY <1>2
<1>4. QED
  BY <1>3 DEF PrimeroDe

(* proximoWorkerDisponible (yama.c:125-131) never returns the worker it is *)
(* asked from, and what it returns has availability.                       *)
LEMMA ProximoDisponible ==
  ASSUME NEW l \in Ordenes, NEW d \in [W -> Nat], NEW a \in W,
         Proximo(l, d, a) # Nulo
  PROVE  Proximo(l, d, a) \in W \ {a} /\ d[Proximo(l, d, a)] > 0
<1> DEFINE Mayores == {w \in W : d[w] > 0 /\ w > a}
           Menores == {w \in W : d[w] > 0 /\ w < a}
           S == IF Mayores # {} THEN Mayores ELSE Menores
<1>1. Proximo(l, d, a) = PrimeroDe(l, S)
  BY DEF Proximo
<1>2. S # {}
  BY <1>1 DEF PrimeroDe
<1>3. PrimeroDe(l, S) \in S
  BY <1>2, PrimeroPertenece
<1>4. \A w \in S : w \in W \ {a} /\ d[w] > 0
  BY DEF W
<1>5. QED
  BY <1>1, <1>3, <1>4

(* Computing availabilities leaves naturals and an order of listaWorkers.  *)
LEMMA CalcularTipos ==
  ASSUME TypeOK, NEW S, CalcularDisponibilidad(S)
  PROVE  disp' \in [W -> Nat] /\ lista' \in Ordenes
<1>1. PICK m \in W : MasCargado(m) /\
        disp' = [w \in W |-> IF w \in S THEN Disponibilidad(w, m) ELSE disp[w]]
  BY DEF CalcularDisponibilidad
<1>2. \A w \in W : Disponibilidad(w, m) \in Nat
  BY <1>1, Tamanios DEF Disponibilidad, MasCargado, TypeOK
<1>3. QED
  BY <1>1, <1>2 DEF CalcularDisponibilidad, TypeOK

(* The next worker of the clock is a worker. *)
LEMMA AvanzarTipo ==
  ASSUME NEW l \in Ordenes, NEW p \in W
  PROVE  Avanzar(l, p) \in W
<1>1. l \in [W -> W]
  BY DEF Ordenes
<1>2. 1 \in W /\ (p # N => p + 1 \in W)
  BY Tamanios DEF W
<1>3. QED
  BY <1>1, <1>2 DEF Avanzar

(* The lists of blocks FileSystem answers are sequences of pairs of nodes. *)
LEMMA PedidosSonListas ==
  ASSUME NEW b \in Pedidos
  PROVE  b \in Seq(Copias) /\ Len(b) \in Nat
<1>1. PICK k \in 0..MaxBloques : b \in [1..k -> Copias]
  BY DEF Pedidos
<1>2. k \in Nat
  BY Tamanios
<1>3. b \in Seq(Copias)
  BY <1>1, <1>2, SeqDef
<1>4. QED
  BY <1>3

(* The plan of one more block is a plan of one more block. *)
LEMMA CargarCorrecto ==
  ASSUME TypeOK, PlanCorrecto, pc # "enviado", i <= Len(bloques),
         NEW w \in W, NEW c \in CopiasEn(w, bloques[i]), CargarBloque(w, c),
         UNCHANGED bloques, pc' # "enviado"
  PROVE  /\ asignados' \in Seq([nodo : W, otra : 1..NNodos, copia : 1..2])
         /\ carga' \in [W -> Nat]
         /\ i' \in 1..(Len(bloques') + 1)
         /\ PlanCorrecto'
         /\ disp[w] > 0
<1> DEFINE e == [nodo |-> w, otra |-> bloques[i][3 - c], copia |-> c]
<1>1. bloques \in Seq(Copias) /\ i \in 1..Len(bloques) /\ bloques[i] \in Copias
  BY PedidosSonListas, ElementOfSeq DEF TypeOK
<1>2. /\ c \in 1..2 /\ 3 - c \in 1..2 /\ disp[w] > 0
      /\ bloques[i][c] = w /\ bloques[i][3 - c] \in 1..NNodos
  BY <1>1 DEF CopiasEn, Copias
<1>3. e \in [nodo : W, otra : 1..NNodos, copia : 1..2]
  BY <1>2
<1>4. asignados' = Append(asignados, e) /\ i' = i + 1
  BY DEF CargarBloque
<1>5. asignados' \in Seq([nodo : W, otra : 1..NNodos, copia : 1..2])
  BY <1>3, <1>4 DEF TypeOK
<1>6. PlanCorrecto'
  <2>1. Len(asignados) = i - 1 /\ Len(asignados') = i
    BY <1>1, <1>4 DEF PlanCorrecto, TypeOK
  <2>2. ASSUME NEW k \in 1..Len(asignados')
        PROVE  /\ bloques[k][asignados'[k].copia] = asignados'[k].nodo
               /\ bloques[k][3 - asignados'[k].copia] = asignados'[k].otra
    <3>1. CASE k = i
      <4>1. asignados' = Append(asignados, e) /\ Len(asignados) + 1 = k
        BY <1>1, <1>4, <2>1, <3>1 DEF TypeOK
      <4>2. asignados'[k] = e
        BY <4>1 DEF TypeOK
      <4>3. QED
        BY <1>2, <3>1, <4>2
    <3>2. CASE k # i
      <4>1. k \in 1..Len(asignados)
        BY <1>1, <2>1, <2>2, <3>2
      <4>2. asignados \in Seq([nodo : W, otra : 1..NNodos, copia : 1..2])
        BY DEF TypeOK
      <4>3. asignados' = Append(asignados, e)
        BY <1>4
      <4> HIDE DEF e
      <4>4. asignados'[k] = asignados[k]
        BY <4>1, <4>2, <4>3, SMTT(30)
      <4>5. QED
        BY <4>1, <4>4 DEF PlanCorrecto
    <3>3. QED
      BY <3>1, <3>2
  <2>3. QED
    BY <1>1, <1>4, <2>1, <2>2 DEF PlanCorrecto
<1>7. carga' \in [W -> Nat] /\ i' \in 1..(Len(bloques') + 1)
  BY <1>1 DEF CargarBloque, TypeOK
<1>8. QED
  BY <1>2, <1>5, <1>6, <1>7

-----------------------------------------------------------------------------
LEMMA Inicial == Init => IInv
<1> SUFFICES ASSUME Init PROVE IInv
  OBVIOUS
<1>1. TypeOK
  <2>1. bloques \in Pedidos /\ Len(bloques) \in Nat
    BY DEF Init, Pedidos
  <2>2. algoritmo \in {"C", "WC"} /\ lista \in Ordenes
    BY ListasSonOrdenes DEF Init
  <2>3. /\ disp \in [W -> Nat] /\ carga \in [W -> Nat]
        /\ tareas \in [W -> Nat]
    BY Tamanios, ListasSonOrdenes DEF Init
  <2>4. QED
    BY <2>1, <2>2, <2>3 DEF Init, TypeOK
<1>2. PlanCorrecto
  BY DEF Init, PlanCorrecto
<1>3. BusquedaSana
  BY DEF Init, BusquedaSana
<1>4. QED
  BY <1>1, <1>2, <1>3 DEF IInv

LEMMA Paso == IInv /\ [Next]_vars => IInv'
<1> SUFFICES ASSUME IInv, [Next]_vars PROVE IInv'
  OBVIOUS
<1> USE DEF IInv
<1>1. CASE Iniciar
  <2>1. PICK m \in W, l \in Ordenes :
          /\ MasCargado(m)
          /\ lista' = l
          /\ disp' = [w \in W |-> IF w \in Recorridos(l) THEN Disponibilidad(w, m)
                                  ELSE disp[w]]
          /\ \E w \in W : EsElInicio(w, l, disp') /\ clock' = w
    BY <1>1 DEF Iniciar
  <2>2. \A w \in W : Disponibilidad(w, m) \in Nat
    BY <2>1, Tamanios DEF Disponibilidad, MasCargado, TypeOK
  <2>3. disp' \in [W -> Nat] /\ lista' \in Ordenes /\ clock' \in W
    BY <2>1, <2>2 DEF TypeOK
  <2>4. TypeOK'
    BY <1>1, <2>3 DEF Iniciar, TypeOK
  <2>5. PlanCorrecto' /\ BusquedaSana'
    BY <1>1, <2>3 DEF Iniciar, PlanCorrecto, BusquedaSana
  <2>6. QED
    BY <2>4, <2>5
<1>2. CASE AsignarEnClock
  <2>1. pc = "bloque" /\ i <= Len(bloques) /\ clock \in W
    BY <1>2 DEF AsignarEnClock, BusquedaSana
  <2>2. PICK c \in CopiasEn(clock, bloques[i]) : CargarBloque(clock, c)
    BY <1>2 DEF AsignarEnClock
  <2>3. UNCHANGED <<algoritmo, bloques, lista, tareas, aux, pc>>
    BY <1>2 DEF AsignarEnClock
  <2>4. /\ asignados' \in Seq([nodo : W, otra : 1..NNodos, copia : 1..2])
        /\ carga' \in [W -> Nat]
        /\ i' \in 1..(Len(bloques') + 1)
        /\ PlanCorrecto'
        /\ disp[clock] > 0
    BY <2>1, <2>2, <2>3, CargarCorrecto
  <2>5. Avanzar(lista, clock) \in W /\ Avanzar(lista, Avanzar(lista, clock)) \in W
    BY <2>1, AvanzarTipo DEF TypeOK
  <2>6. [disp EXCEPT ![clock] = @ - 1] \in [W -> Nat]
    BY <2>1, <2>4 DEF TypeOK
  <2>7. disp' \in [W -> Nat] /\ clock' \in W
    BY <1>2, <2>5, <2>6, Tamanios DEF AsignarEnClock
  <2>8. TypeOK'
    BY <2>3, <2>4, <2>7 DEF TypeOK
  <2>9. BusquedaSana'
    BY <2>1, <2>3, <2>7 DEF BusquedaSana
  <2>10. QED
    BY <2>4, <2>8, <2>9
<1>3. CASE BuscarOtro
  <2>1. clock \in W /\ disp' \in [W -> Nat] /\ lista' \in Ordenes
    BY <1>3, CalcularTipos DEF BuscarOtro, Recalcular, TypeOK, BusquedaSana
  <2>2. /\ aux' = Proximo(lista', disp', clock)
        /\ aux' # Nulo => aux' \in W \ {clock} /\ disp'[aux'] > 0
    BY <1>3, <2>1, ProximoDisponible DEF BuscarOtro
  <2>3. TypeOK'
    BY <1>3, <2>1, <2>2 DEF BuscarOtro, TypeOK
  <2>4. PlanCorrecto'
    BY <1>3 DEF BuscarOtro, PlanCorrecto
  <2>5. BusquedaSana'
    BY <1>3, <2>1, <2>2 DEF BuscarOtro, BusquedaSana
  <2>6. QED
    BY <2>3, <2>4, <2>5
<1>4. CASE AsignarEnAux
  <2>1. pc = "aux" /\ i <= Len(bloques) /\ aux \in W /\ clock \in W
    BY <1>4 DEF AsignarEnAux, BusquedaSana
  <2>2. PICK c \in CopiasEn(aux, bloques[i]) : CargarBloque(aux, c)
    BY <1>4 DEF AsignarEnAux
  <2>3. UNCHANGED <<algoritmo, bloques, lista, tareas, clock, aux>> /\ pc' = "bloque"
    BY <1>4 DEF AsignarEnAux
  <2>4. /\ asignados' \in Seq([nodo : W, otra : 1..NNodos, copia : 1..2])
        /\ carga' \in [W -> Nat]
        /\ i' \in 1..(Len(bloques') + 1)
        /\ PlanCorrecto'
        /\ disp[aux] > 0
    BY <2>1, <2>2, <2>3, CargarCorrecto
  <2>5. disp' \in [W -> Nat]
    BY <1>4, <2>1, <2>4 DEF AsignarEnAux, TypeOK
  <2>6. TypeOK'
    BY <2>3, <2>4, <2>5 DEF TypeOK
  <2>7. BusquedaSana'
    BY <2>1, <2>3 DEF BusquedaSana
  <2>8. QED
    BY <2>4, <2>6, <2>7
<1>5. CASE SeguirBuscando
  <2>1. pc = "aux" /\ aux \in W /\ clock \in W /\ i <= Len(bloques)
    BY <1>5 DEF SeguirBuscando, BusquedaSana
  <2>2. /\ aux' = Proximo(lista, disp, aux) /\ aux' \notin {Nulo, clock}
        /\ UNCHANGED <<algoritmo, bloques, lista, disp, carga, tareas, clock, i, asignados, pc>>
    BY <1>5 DEF SeguirBuscando
  <2>3. aux' \in W \ {clock} /\ disp[aux'] > 0
    BY <2>1, <2>2, ProximoDisponible DEF TypeOK
  <2>4. TypeOK'
    BY <2>2, <2>3 DEF TypeOK
  <2>5. PlanCorrecto' /\ BusquedaSana'
    BY <2>1, <2>2, <2>3 DEF PlanCorrecto, BusquedaSana
  <2>6. QED
    BY <2>4, <2>5
<1>6. CASE VueltaCompleta
  <2>1. disp' \in [W -> Nat] /\ lista' \in Ordenes
    BY <1>6, CalcularTipos DEF VueltaCompleta, Recalcular
  <2>2. TypeOK'
    BY <1>6, <2>1 DEF VueltaCompleta, TypeOK
  <2>3. PlanCorrecto' /\ BusquedaSana'
    BY <1>6 DEF VueltaCompleta, PlanCorrecto, BusquedaSana
  <2>4. QED
    BY <2>2, <2>3
<1>7. CASE SinProximo
  <2>1. disp' \in [W -> Nat] /\ lista' \in Ordenes
    BY <1>7, CalcularTipos DEF SinProximo, Recalcular
  <2>2. TypeOK'
    BY <1>7, <2>1 DEF SinProximo, TypeOK
  <2>3. PlanCorrecto' /\ BusquedaSana'
    BY <1>7 DEF SinProximo, PlanCorrecto, BusquedaSana
  <2>4. QED
    BY <2>2, <2>3
<1>8. CASE Enviar
  <2>1. TypeOK'
    BY <1>8 DEF Enviar, TypeOK
  <2>2. i = Len(bloques) + 1
    <3>1. Len(bloques) \in Nat /\ i \in 1..(Len(bloques) + 1)
      BY PedidosSonListas DEF TypeOK
    <3>2. i > Len(bloques)
      BY <1>8 DEF Enviar
    <3>3. QED
      BY <3>1, <3>2
  <2>3. PlanCorrecto' /\ BusquedaSana'
    BY <1>8, <2>2 DEF Enviar, PlanCorrecto, BusquedaSana
  <2>4. QED
    BY <2>1, <2>3
<1>9. CASE UNCHANGED vars
  BY <1>9 DEF vars, TypeOK, PlanCorrecto, BusquedaSana
<1>10. QED
  BY <1>1, <1>2, <1>3, <1>4, <1>5, <1>6, <1>7, <1>8, <1>9 DEF Next

(* The variables of planificacionT keep their types: in particular no      *)
(* disponibilidad is ever decremented at zero (uint32_t would wrap) and    *)
(* punteroClock never leaves listaWorkers.                                 *)
THEOREM TiposCorrectos == Spec => []TypeOK
<1>1. IInv => TypeOK
  BY DEF IInv
<1>2. QED
  BY Inicial, Paso, <1>1, PTL DEF Spec

(* Every request the planner sends holds each block once, in order, on a   *)
(* registered worker with a copy, together with where the other copy is.   *)
THEOREM SiemprePlanCorrecto == Spec => []PlanCorrecto
<1>1. IInv => PlanCorrecto
  BY DEF IInv
<1>2. QED
  BY Inicial, Paso, <1>1, PTL DEF Spec

(* punteroAux is, for the whole search, an available worker that is not    *)
(* the clock's.                                                            *)
THEOREM SiempreBusquedaSana == Spec => []BusquedaSana
<1>1. IInv => BusquedaSana
  BY DEF IInv
<1>2. QED
  BY Inicial, Paso, <1>1, PTL DEF Spec
-----------------------------------------------------------------------------
(* Assigning block i is one Asignar step of the promise. *)
LEMMA CargarEsAsignar ==
  ASSUME TypeOK, PlanCorrecto, pc # "enviado", i <= Len(bloques),
         NEW w \in W, NEW c \in CopiasEn(w, bloques[i]), CargarBloque(w, c),
         UNCHANGED bloques, pc' # "enviado"
  PROVE  Promesa!Asignar
<1>1. Len(asignados) = i - 1 /\ i \in Nat /\ Len(bloques) \in Nat
  BY PedidosSonListas DEF PlanCorrecto, TypeOK
<1>2. Len(asignados) < Len(bloques) /\ Len(asignados) + 1 = i
  BY <1>1
<1>3. c \in 1..2 /\ bloques[i][c] = w
  BY DEF CopiasEn
<1>4. asignados' = Append(asignados, Promesa!Entrega(bloques[i], w, c))
  BY DEF CargarBloque, Promesa!Entrega
<1>5. QED
  BY <1>2, <1>3, <1>4 DEF Promesa!Asignar

LEMMA PasoImplementa == IInv /\ [Next]_vars => [Promesa!Next]_(Promesa!vars)
<1> SUFFICES ASSUME IInv, [Next]_vars
             PROVE  Promesa!Asignar \/ Promesa!Publicar \/ UNCHANGED Promesa!vars
  BY DEF Promesa!Next
<1> USE DEF IInv
<1>1. CASE AsignarEnClock
  <2>1. /\ pc = "bloque" /\ i <= Len(bloques) /\ clock \in W
        /\ UNCHANGED <<bloques, pc>>
    BY <1>1 DEF AsignarEnClock, BusquedaSana
  <2>2. PICK c \in CopiasEn(clock, bloques[i]) : CargarBloque(clock, c)
    BY <1>1 DEF AsignarEnClock
  <2>3. QED
    BY <2>1, <2>2, CargarEsAsignar
<1>2. CASE AsignarEnAux
  <2>1. /\ pc = "aux" /\ i <= Len(bloques) /\ aux \in W
        /\ UNCHANGED bloques /\ pc' = "bloque"
    BY <1>2 DEF AsignarEnAux, BusquedaSana
  <2>2. PICK c \in CopiasEn(aux, bloques[i]) : CargarBloque(aux, c)
    BY <1>2 DEF AsignarEnAux
  <2>3. QED
    BY <2>1, <2>2, CargarEsAsignar
<1>3. CASE Enviar
  <2>1. i = Len(bloques) + 1 /\ Len(asignados) = i - 1 /\ Len(bloques) \in Nat
    BY <1>3, PedidosSonListas DEF Enviar, TypeOK, PlanCorrecto
  <2>2. QED
    BY <1>3, <2>1 DEF Enviar, Promesa!Publicar
<1>4. CASE Iniciar
  BY <1>4 DEF Iniciar, Promesa!vars
<1>5. CASE BuscarOtro
  BY <1>5 DEF BuscarOtro, Promesa!vars
<1>6. CASE SeguirBuscando
  BY <1>6 DEF SeguirBuscando, Promesa!vars
<1>7. CASE VueltaCompleta
  BY <1>7 DEF VueltaCompleta, Promesa!vars
<1>8. CASE SinProximo
  BY <1>8 DEF SinProximo, Promesa!vars
<1>9. CASE UNCHANGED vars
  BY <1>9 DEF vars, Promesa!vars
<1>10. QED
  BY <1>1, <1>2, <1>3, <1>4, <1>5, <1>6, <1>7, <1>8, <1>9 DEF Next

(* planificacionT implements what Asignacion promises to the rest of YAMA: *)
(* whatever the algorithm does, the job's record is made only of complete  *)
(* and correct plans.                                                      *)
THEOREM CumplePromesa == Spec => ImplementaAsignacion
<1>1. Init => Promesa!Init
  BY DEF Init, Promesa!Init
<1>2. QED
  BY Inicial, Paso, PasoImplementa, <1>1, PTL
     DEF Spec, ImplementaAsignacion, Promesa!Spec
=============================================================================
