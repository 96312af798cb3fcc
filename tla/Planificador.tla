---------------------------- MODULE Planificador ----------------------------
(***************************************************************************)
(* planificacionT (yama.c): the pre-planning of the transformations of one *)
(* job with the Clock ("C") or Weighted Clock ("WC") algorithm, run by the *)
(* thread that listens to FileSystem while it holds mutex_plani.           *)
(*                                                                         *)
(* A worker is its indice in listaWorkers plus one, so the nodes 1..N have *)
(* a registered worker and the nodes N+1..NNodos have none.  One action is *)
(* one pass of a loop body; NULL pointers are Nulo and dereferencing one   *)
(* kills the process ("caida").                                            *)
(***************************************************************************)
EXTENDS Integers, Sequences

CONSTANTS
  N,          \* number of workers in listaWorkers
  NNodos,     \* number of nodes that may hold a copy of a block
  Base,       \* DISP_BASE
  Arranques,  \* the algorithms, orders of listaWorkers and cargaDeTrabajo of the workers
              \* that may be found; largo: bound, blocks of the file
  MaxBloques, \* bound: blocks of a file
  MaxTareas,  \* bound: contTareasRealizadas of a worker when planning starts
  MaxDisp     \* bound: disponibilidad left behind by the previous planning

W == 1..N
Nulo == 0

ASSUME Tamanios ==
  /\ N \in Nat \ {0}
  /\ NNodos \in Nat /\ NNodos >= N
  /\ Base \in Nat \ {0}
  /\ MaxBloques \in Nat
  /\ MaxTareas \in Nat /\ MaxDisp \in Nat

(* The orders of listaWorkers: every worker has a position. *)
Ordenes == {l \in [W -> W] : \A w \in W : \E k \in W : l[k] = w}

ASSUME ListasSonOrdenes ==
  Arranques \subseteq
    [algoritmo : {"C", "WC"}, lista : Ordenes, carga : [W -> Nat], largo : 0..MaxBloques]

(* FileSystem never puts the two copies of a block on one node. *)
Copias == {b \in (1..NNodos) \X (1..NNodos) : b[1] # b[2]}
Pedidos == UNION {[1..k -> Copias] : k \in 0..MaxBloques}

VARIABLES
  algoritmo,  \* ALGORITMO_BALANCEO, which SIGUSR1 may change between plannings
  bloques,    \* the blocks FileSystem answered, in file order
  lista,      \* listaWorkers: position -> worker
  disp,       \* datosWorker.disponibilidad
  carga,      \* datosWorker.cargaDeTrabajo
  tareas,     \* datosWorker.contTareasRealizadas
  clock,      \* punteroClock
  aux,        \* punteroAux
  i,          \* the block being assigned
  asignados,  \* listaDeBloquesAEnviar
  pc          \* "inicio", "bloque", "aux", "enviado" or "caida"

vars == <<algoritmo, bloques, lista, disp, carga, tareas, clock, aux, i, asignados, pc>>

Init ==
  /\ bloques \in Pedidos
  /\ \E a \in Arranques :
       /\ algoritmo = a.algoritmo /\ lista = a.lista /\ carga = a.carga
       /\ Len(bloques) <= a.largo
  /\ disp \in [W -> 0..MaxDisp]
  /\ tareas \in [W -> 0..MaxTareas]
  /\ clock = Nulo
  /\ aux = Nulo
  /\ i = 1
  /\ asignados = <<>>
  /\ pc = "inicio"

-----------------------------------------------------------------------------
(* list_find on listaWorkers: the first worker of S in list order. *)
PrimeroDe(l, S) ==
  IF S = {} THEN Nulo
  ELSE l[CHOOSE k \in W : l[k] \in S /\ \A j \in W : l[j] \in S => k <= j]

(* Mutant of Proximo: the worker need not have availability left. *)
ProximoAgotado(l, d, a) ==
  LET Mayores == {w \in W : w > a}
      Menores == {w \in W : w < a}
  IN PrimeroDe(l, IF Mayores # {} THEN Mayores ELSE Menores)

(* proximoWorkerDisponible: the first available worker with a larger       *)
(* indice, else the first with a smaller one, else NULL.                   *)
Proximo(l, d, a) ==
  LET Mayores == {w \in W : d[w] > 0 /\ w > a}
      Menores == {w \in W : d[w] > 0 /\ w < a}
  IN PrimeroDe(l, IF Mayores # {} THEN Mayores ELSE Menores)

(* avanzarPuntero: list_get at indice + 1, or at 0 from the last indice. *)
Avanzar(l, p) == IF p = N THEN l[1] ELSE l[p + 1]

(* Mutant of CopiasEn: the availability is not looked at. *)
CopiasEnAgotado(w, b) == {c \in 1..2 : b[c] = w}

(* bloqueAAsignarEsta: the copies of b that worker w can serve; empty when *)
(* w has no availability left.                                             *)
CopiasEn(w, b) == {c \in 1..2 : disp[w] > 0 /\ b[c] = w}

(* list_sort of listaWorkers by cargaDeTrabajo, largest first, is stable. *)
EsOrdenPorCarga(l) ==
  \A j, k \in W : j < k =>
    \/ carga[l[j]] > carga[l[k]]
    \/ /\ carga[l[j]] = carga[l[k]]
       /\ \E p, q \in W : p < q /\ lista[p] = l[j] /\ lista[q] = l[k]

(* A worker with the largest cargaDeTrabajo (WLMax is its load). *)
MasCargado(m) == \A x \in W : carga[x] <= carga[m]

(* The disponibilidad calcularDisponibilidad computes for worker w. *)
Disponibilidad(w, m) == IF algoritmo = "C" THEN Base ELSE Base + carga[m] - carga[w]

(* listaWorkers after a computation: WC sorts it, C leaves it alone. *)
Reordenada(l) == IF algoritmo = "WC" THEN EsOrdenPorCarga(l) ELSE l = lista

(* calcularDisponibilidad over the workers of a list of their own. *)
CalcularDisponibilidad(S) ==
  /\ \E m \in W :
       /\ MasCargado(m)
       /\ disp' = [w \in W |-> IF w \in S THEN Disponibilidad(w, m) ELSE disp[w]]
  /\ \E l \in Ordenes : (IF S = {} THEN l = lista ELSE Reordenada(l)) /\ lista' = l

(* Mutant of Recalcular: nobody is restored. *)
NoRecalcular == UNCHANGED <<disp, lista>>

(* The recalculation for the workers that ran out of availability. *)
Recalcular == CalcularDisponibilidad({w \in W : disp[w] = 0})

(* The workers the first call computes.  WC sorts listaWorkers inside its   *)
(* own list_iterate: the first element was read before the sort, the others *)
(* after it, so the worker that the sort brings to the front is missed      *)
(* unless it was there already.                                             *)
Recorridos(l) ==
  IF algoritmo = "C" THEN W
  ELSE {lista[1]} \cup {l[k] : k \in 2..N}

(* The clock starts on w: among the workers with most disponibilidad and,   *)
(* of those, fewest contTareasRealizadas, w comes first in listaWorkers.    *)
EsElInicio(w, l, d) ==
  \E k \in W :
    /\ l[k] = w
    /\ \A j \in W : LET x == l[j] IN
         /\ d[x] <= d[w]
         /\ d[x] = d[w] => /\ tareas[w] <= tareas[x]
                           /\ tareas[w] = tareas[x] => k <= j

-----------------------------------------------------------------------------
(* Availability of every worker, and the worker the clock starts on. *)
Iniciar ==
  /\ pc = "inicio"
  /\ \E m \in W, l \in Ordenes :
       /\ MasCargado(m)
       /\ Reordenada(l)
       /\ lista' = l
       /\ disp' = [w \in W |-> IF w \in Recorridos(l) THEN Disponibilidad(w, m)
                               ELSE disp[w]]
       /\ \E w \in W : EsElInicio(w, l, disp') /\ clock' = w
  /\ pc' = "bloque"
  /\ UNCHANGED <<algoritmo, bloques, carga, tareas, aux, i, asignados>>

(* Mutant of CargarBloque: the node remembered for the other copy is the one *)
(* that was chosen.                                                          *)
CargarMismaCopia(w, c) ==
  /\ asignados' = Append(asignados, [nodo |-> w, otra |-> bloques[i][c], copia |-> c])
  /\ carga' = [carga EXCEPT ![w] = @ + 1]
  /\ i' = i + 1

(* cargarBloque: record the assignment and charge the worker. *)
CargarBloque(w, c) ==
  /\ asignados' = Append(asignados, [nodo |-> w, otra |-> bloques[i][3 - c],
                                     copia |-> c])
  /\ carga' = [carga EXCEPT ![w] = @ + 1]
  /\ i' = i + 1

(* The clock's worker has the block: assign it and move the clock on; a     *)
(* worker found at zero gets the base back and is skipped.                  *)
AsignarEnClock ==
  /\ pc = "bloque" /\ i <= Len(bloques)
  /\ \E c \in CopiasEn(clock, bloques[i]) : CargarBloque(clock, c)
  /\ LET d == [disp EXCEPT ![clock] = @ - 1]
         s == Avanzar(lista, clock)
     IN IF d[s] = 0
        THEN disp' = [d EXCEPT ![s] = Base] /\ clock' = Avanzar(lista, s)
        ELSE disp' = d /\ clock' = s
  /\ UNCHANGED <<algoritmo, bloques, lista, tareas, aux, pc>>

(* It does not: look from the next available worker on, restoring the ones  *)
(* at zero when no other worker is available.                               *)
BuscarOtro ==
  /\ pc = "bloque" /\ i <= Len(bloques)
  /\ CopiasEn(clock, bloques[i]) = {}
  /\ IF Proximo(lista, disp, clock) # Nulo
     THEN UNCHANGED <<lista, disp>>
     ELSE Recalcular
  /\ aux' = Proximo(lista', disp', clock)
  /\ pc' = IF aux' = Nulo THEN "caida" ELSE "aux"
  /\ UNCHANGED <<algoritmo, bloques, carga, tareas, clock, i, asignados>>

(* A worker of the search has the block: the clock stays where it is. *)
AsignarEnAux ==
  /\ pc = "aux"
  /\ \E c \in CopiasEn(aux, bloques[i]) : CargarBloque(aux, c)
  /\ disp' = [disp EXCEPT ![aux] = @ - 1]
  /\ pc' = "bloque"
  /\ UNCHANGED <<algoritmo, bloques, lista, tareas, clock, aux>>

(* It has not, and another available worker follows. *)
SeguirBuscando ==
  /\ pc = "aux" /\ CopiasEn(aux, bloques[i]) = {}
  /\ LET p == Proximo(lista, disp, aux)
     IN p \notin {Nulo, clock} /\ aux' = p
  /\ UNCHANGED <<algoritmo, bloques, lista, disp, carga, tareas, clock, i, asignados, pc>>

(* The search came back to the clock: restore the workers at zero, retry. *)
VueltaCompleta ==
  /\ pc = "aux" /\ CopiasEn(aux, bloques[i]) = {}
  /\ Proximo(lista, disp, aux) = clock
  /\ Recalcular
  /\ aux' = clock
  /\ pc' = "bloque"
  /\ UNCHANGED <<algoritmo, bloques, carga, tareas, clock, i, asignados>>

(* No other worker is available.  The code restores the ones at zero and   *)
(* asks again for the next of punteroAux, which is NULL by then.           *)
SinProximo ==
  /\ pc = "aux" /\ CopiasEn(aux, bloques[i]) = {}
  /\ Proximo(lista, disp, aux) = Nulo
  /\ Recalcular
  /\ aux' = Nulo
  /\ pc' = "caida"
  /\ UNCHANGED <<algoritmo, bloques, carga, tareas, clock, i, asignados>>

(* Mutant of Enviar: the loop ends one block early. *)
EnviarIncompleto ==
  /\ pc = "bloque" /\ i >= Len(bloques)
  /\ pc' = "enviado"
  /\ UNCHANGED <<algoritmo, bloques, lista, disp, carga, tareas, clock, aux, i, asignados>>

(* EnviarBloquesAMaster, once every block has a worker. *)
Enviar ==
  /\ pc = "bloque" /\ i > Len(bloques)
  /\ pc' = "enviado"
  /\ UNCHANGED <<algoritmo, bloques, lista, disp, carga, tareas, clock, aux, i, asignados>>

Next ==
  \/ Iniciar \/ AsignarEnClock \/ BuscarOtro \/ AsignarEnAux
  \/ SeguirBuscando \/ VueltaCompleta \/ SinProximo \/ Enviar

Spec == Init /\ [][Next]_vars

(* The thread that plans is always runnable: it holds mutex_plani and waits *)
(* for nobody.                                                              *)
FairSpec == Spec /\ WF_vars(Next)
-----------------------------------------------------------------------------
TypeOK ==
  /\ bloques \in Pedidos
  /\ algoritmo \in {"C", "WC"}
  /\ lista \in Ordenes
  /\ disp \in [W -> Nat]
  /\ carga \in [W -> Nat]
  /\ tareas \in [W -> Nat]
  /\ clock \in W \cup {Nulo}
  /\ aux \in W \cup {Nulo}
  /\ i \in 1..(Len(bloques) + 1)
  /\ asignados \in Seq([nodo : W, otra : 1..NNodos, copia : 1..2])
  /\ pc \in {"inicio", "bloque", "aux", "enviado", "caida"}

(* listaDeBloquesAEnviar holds exactly the blocks before i, in file order,   *)
(* each on a worker that has the copy number sent, with the node of the      *)
(* other copy remembered for a replanning (cargarBloque, 299-320); nothing   *)
(* is sent before every block is there.                                      *)
PlanCorrecto ==
  /\ Len(asignados) = i - 1
  /\ \A k \in 1..Len(asignados) :
       LET a == asignados[k]
       IN /\ bloques[k][a.copia] = a.nodo
          /\ bloques[k][3 - a.copia] = a.otra
  /\ pc = "enviado" => i = Len(bloques) + 1

(* While the search runs, punteroAux is a worker other than the clock's and  *)
(* has availability: the test of bloqueAAsignarEsta never stops an           *)
(* assignment there, and the do-while may compare it with punteroClock.      *)
BusquedaSana ==
  /\ pc \in {"bloque", "aux", "enviado"} => clock \in W
  /\ pc = "aux" => aux \in W \ {clock} /\ disp[aux] > 0 /\ i <= Len(bloques)

(* The planner only ever does what Asignacion promises. *)
Promesa == INSTANCE Asignacion
             WITH Workers <- W, plan <- asignados, publicado <- (pc = "enviado")
ImplementaAsignacion == Promesa!Spec

(* Some registered worker holds block k. *)
Registrado(k) == k <= Len(bloques) /\ (bloques[k][1] \in W \/ bloques[k][2] \in W)

(* A search that starts while the clock's own worker still has availability  *)
(* ends with the block assigned: either a holder is met or the lap closes,   *)
(* the exhausted holders are restored and the next lap meets one.  Said of   *)
(* Clock while no Weighted Clock planning has sorted listaWorkers.           *)
VueltaTermina ==
  \A k \in 1..MaxBloques :
    (/\ pc = "aux" /\ i = k /\ Registrado(k) /\ disp[clock] > 0
     /\ algoritmo = "C" /\ lista = [w \in W |-> w]) ~> (i > k)

(* yama.c:376-377: the search loops until it finds the next worker with      *)
(* availability that has the block, or until it has gone round.              *)
BusquedaTermina == (pc = "aux") ~> (pc # "aux" /\ pc # "caida")
=============================================================================
