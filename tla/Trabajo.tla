------------------------------ MODULE Trabajo ------------------------------
(***************************************************************************)
(* What YAMA promises of a job, whatever the messages, the threads and     *)
(* the records are: every block is planned at once on a node of one of its *)
(* two copies; a block that fails moves to the node of its other copy, if  *)
(* that one has a worker; the reduction of a node is asked for once, with  *)
(* its last block; a global reduction is asked for each time the           *)
(* reductions asked for so far are all done, and each one is stored once   *)
(* at most.                                                                *)
(***************************************************************************)
EXTENDS Naturals

CONSTANTS
  Bloques,      \* the blocks of the file
  Copias,       \* Copias[b]: the two nodes that hold block b
  Registrados   \* the nodes with a worker

VARIABLES
  bloque,       \* bloque[b]: where b is carried out, and how it is; empty at first
  reducciones,  \* the reductions of nodes that were asked for
  globales,     \* global reductions asked for
  almacenados   \* final storages asked for

vars == <<bloque, reducciones, globales, almacenados>>

En(nodo, estado) == [nodo |-> nodo, estado |-> estado]
SinPlan == [b \in {} |-> 0]

Init ==
  /\ bloque = SinPlan
  /\ reducciones = {}
  /\ globales = 0
  /\ almacenados = 0

Planear ==
  /\ bloque = SinPlan
  /\ \E nodo \in [Bloques -> Registrados] :
       /\ \A b \in Bloques : \E c \in 1..2 : nodo[b] = Copias[b][c]
       /\ bloque' = [b \in Bloques |-> En(nodo[b], "ENPROCESO")]
  /\ UNCHANGED <<reducciones, globales, almacenados>>

(* The block runs, and the reduction of its node was not asked for. *)
Corre(b) ==
  /\ b \in DOMAIN bloque /\ bloque[b].estado = "ENPROCESO"
  /\ \A r \in reducciones : r.nodo # bloque[b].nodo

(* The block is done; if it was the last one of its node, the node's        *)
(* reduction is asked for.                                                         *)
TerminarBloque(b) ==
  /\ Corre(b)
  /\ LET n == bloque[b].nodo
     IN /\ bloque' = [bloque EXCEPT ![b] = En(n, "FINALIZADOOK")]
        /\ reducciones' =
             IF \A d \in DOMAIN bloque \ {b} :
                  bloque[d].nodo = n => bloque[d].estado = "FINALIZADOOK"
             THEN reducciones \cup {En(n, "ENPROCESO")} ELSE reducciones
  /\ UNCHANGED <<globales, almacenados>>

(* The block fails: it moves to the node of its other copy, o, or is lost.   *)
FallarBloque(b) ==
  /\ Corre(b)
  /\ \E c \in 1..2 :
       LET o == Copias[b][3 - c]
       IN /\ bloque[b].nodo = Copias[b][c]
          /\ bloque' = [bloque EXCEPT ![b] = IF o \in Registrados
                                             THEN En(o, "ENPROCESO")
                                             ELSE En(bloque[b].nodo, "ERROR")]
  /\ UNCHANGED <<reducciones, globales, almacenados>>

(* The reduction r gets to its end. *)
Pasa(r, estado) ==
  /\ r.estado = "ENPROCESO"
  /\ reducciones' = (reducciones \ {r}) \cup {En(r.nodo, estado)}
  /\ UNCHANGED <<bloque, almacenados>>

TerminarReduccion(r) ==
  /\ Pasa(r, "FINALIZADOOK")
  /\ globales' = IF \A x \in reducciones \ {r} : x.estado = "FINALIZADOOK"
                 THEN globales + 1 ELSE globales

FallarReduccion(r) == Pasa(r, "ERROR") /\ UNCHANGED globales

Almacenar ==
  /\ almacenados < globales
  /\ almacenados' = almacenados + 1
  /\ UNCHANGED <<bloque, reducciones, globales>>

Next ==
  \/ Planear \/ Almacenar
  \/ \E b \in Bloques : TerminarBloque(b) \/ FallarBloque(b)
  \/ \E r \in reducciones : TerminarReduccion(r) \/ FallarReduccion(r)

Spec == Init /\ [][Next]_vars
=============================================================================
