----------------------------- MODULE Asignacion -----------------------------
(***************************************************************************)
(* What planning a job promises, whatever the balancing algorithm: the     *)
(* blocks of the file are taken in order, each one is given to exactly one *)
(* registered worker that holds one of its two copies, the plan remembers  *)
(* the node of the other copy, and the plan is published (recorded in      *)
(* tablaDeEstados and sent to the master) only once it is complete.  A     *)
(* planner may die or loop half way: then nothing is ever published.       *)
(***************************************************************************)
EXTENDS Naturals, Sequences

CONSTANTS
  Workers,   \* the workers registered in listaWorkers
  Pedidos    \* the lists of blocks FileSystem may answer: <<node, node>> each

VARIABLES
  bloques,   \* the blocks to plan, in file order
  plan,      \* the assignments made so far, in file order
  publicado  \* TRUE once the plan was sent to the master

vars == <<bloques, plan, publicado>>

(* A block given to the worker of its copy c. *)
Entrega(b, w, c) == [nodo |-> w, otra |-> b[3 - c], copia |-> c]

Init ==
  /\ bloques \in Pedidos
  /\ plan = <<>>
  /\ publicado = FALSE

Asignar ==
  /\ ~publicado
  /\ Len(plan) < Len(bloques)
  /\ \E w \in Workers, c \in 1..2 :
       /\ bloques[Len(plan) + 1][c] = w
       /\ plan' = Append(plan, Entrega(bloques[Len(plan) + 1], w, c))
  /\ UNCHANGED <<bloques, publicado>>

Publicar ==
  /\ ~publicado
  /\ Len(plan) = Len(bloques)
  /\ publicado' = TRUE
  /\ UNCHANGED <<bloques, plan>>

Next == Asignar \/ Publicar

Spec == Init /\ [][Next]_vars
=============================================================================
