--------------------------- MODULE MCPlanificador ---------------------------
(***************************************************************************)
(* Instances of Planificador for TLC.  With Clock listaWorkers is in       *)
(* indice order, unless a Weighted Clock planning sorted it before the     *)
(* algorithm was changed; Weighted Clock finds it in any order.  Clock     *)
(* does not look at the loads.                                             *)
(***************************************************************************)
EXTENDS Planificador

OrdenDeLlegada == [k \in W |-> k]
Invertida == [k \in W |-> N + 1 - k]
SinCarga == [w \in W |-> 0]

(* A worker or two have a task already: only differences of load matter. *)
Cargas == {c \in [W -> 0..1] : \E w \in W : c[w] = 0}

ConClock(l, n) == [algoritmo |-> "C", lista |-> l, carga |-> SinCarga, largo |-> n]

SoloClock == {ConClock(OrdenDeLlegada, MaxBloques)}

(* The availability of an aux worker runs out with Clock and four blocks. *)
VariosArranques ==
  {ConClock(OrdenDeLlegada, MaxBloques), ConClock(Invertida, 3)}
    \cup [algoritmo : {"WC"}, lista : Ordenes, carga : Cargas, largo : {3}]
=============================================================================
