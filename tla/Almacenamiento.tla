--------------------------- MODULE Almacenamiento ---------------------------
(***************************************************************************)
(* What FileSystem promises of the files it stores, whatever its threads,  *)
(* its mutexes and its lists are: each thread stores its files one after   *)
(* another, and their copies go out in order; the next copy of any of them *)
(* waits for the answer of the one before, for ever if that one was lost;  *)
(* each copy is registered once at most, where it was sent; a file is      *)
(* closed when all its copies went out, and given up only if there was no  *)
(* room for it or a node it went to has died.                              *)
(***************************************************************************)
EXTENDS Naturals, Sequences

CONSTANTS
  Hilos,        \* the threads that store
  Nodos,        \* the datanodes
  Numeros,      \* the blocks of a datanode
  Pedidos       \* Pedidos[h]: the files h stores: their name and how many
                \* blocks they may have

VARIABLES
  pendientes,   \* pendientes[h]: the files h has not begun
  curso,        \* curso[h]: the file h is storing, and where its copies went
  vuela,        \* the copy that was sent and not answered, if it was not lost
  espera,       \* a copy was sent and not answered
  registradas,  \* the copies FileSystem knows
  cerrados,     \* the files that were closed
  vivos         \* the datanodes alive

vars == <<pendientes, curso, vuela, espera, registradas, cerrados, vivos>>

(* Copy k of a file, from 0: the first copy of each block, then its second. *)
Envio(nombre, k, n, j) ==
  [nombre |-> nombre, bloque |-> k \div 2, copia |-> k % 2, nodo |-> n, numero |-> j]
EsLaMisma(c, d) == c.nombre = d.nombre /\ c.bloque = d.bloque /\ c.copia = d.copia

Init ==
  /\ pendientes = Pedidos
  /\ curso = [h \in {} |-> 0]
  /\ vuela = {} /\ espera = FALSE
  /\ registradas = {} /\ cerrados = {}
  /\ vivos = Nodos

(* A thread begins its next file; nothing of it is registered. *)
Comenzar(h) ==
  /\ h \notin DOMAIN curso /\ pendientes[h] # <<>>
  /\ LET p == Head(pendientes[h])
     IN /\ \A c \in registradas : c.nombre # p.nombre
        /\ \E nb \in p.bloques :
             curso' = [g \in DOMAIN curso \cup {h} |->
                         IF g = h THEN [nombre |-> p.nombre, bloques |-> nb, destinos |-> <<>>]
                         ELSE curso[g]]
  /\ pendientes' = [pendientes EXCEPT ![h] = Tail(@)]
  /\ UNCHANGED <<vuela, espera, registradas, cerrados, vivos>>

(* Block j of node n is sent the next copy: another node's than the first   *)
(* copy of the block, while all are alive.                                   *)
Enviar(h, n, j) ==
  /\ h \in DOMAIN curso /\ ~espera
  /\ LET d == curso[h].destinos
         k == Len(d)
     IN /\ k < 2 * curso[h].bloques
        /\ k % 2 = 1 /\ vivos = Nodos => n # d[k][1]
        /\ curso' = [curso EXCEPT ![h].destinos = Append(@, <<n, j>>)]
        /\ vuela' = IF n \in vivos THEN {Envio(curso[h].nombre, k, n, j)} ELSE {}
  /\ espera' = TRUE
  /\ UNCHANGED <<pendientes, registradas, cerrados, vivos>>

(* The answer of the copy on its way. *)
Responder(c) == vuela = {c} /\ vuela' = {} /\ espera' = FALSE

Registrar(c) ==
  /\ Responder(c)
  /\ \A d \in registradas : ~EsLaMisma(c, d)
  /\ registradas' = registradas \cup {c}
  /\ UNCHANGED <<pendientes, curso, cerrados, vivos>>

(* The copy was not written, or one of its file was not sent.  It is not    *)
(* looked at when the file was closed.                                       *)
Rechazar(c) ==
  /\ Responder(c)
  /\ c.nombre \notin cerrados
  /\ UNCHANGED <<pendientes, curso, registradas, cerrados, vivos>>

(* A datanode dies, and with it the copy it had not answered. *)
Caer(n) ==
  /\ vivos' = vivos \ {n}
  /\ \/ UNCHANGED vuela
     \/ vuela' = {} /\ \A c \in vuela : c.nodo = n
  /\ UNCHANGED <<pendientes, curso, espera, registradas, cerrados>>

Dejar(h) ==
  /\ h \in DOMAIN curso
  /\ curso' = [g \in DOMAIN curso \ {h} |-> curso[g]]
  /\ UNCHANGED <<pendientes, vuela, espera, registradas, vivos>>

Cerrar(h) ==
  /\ Dejar(h)
  /\ Len(curso[h].destinos) = 2 * curso[h].bloques
  /\ cerrados' = cerrados \cup {curso[h].nombre}

Abandonar(h) ==
  /\ Dejar(h)
  /\ LET d == curso[h].destinos
     IN d = <<>> \/ \E i \in DOMAIN d : d[i][1] \notin vivos
  /\ UNCHANGED cerrados

Next ==
  \/ \E h \in Hilos : Comenzar(h) \/ Cerrar(h) \/ Abandonar(h)
  \/ \E h \in Hilos, n \in Nodos, j \in Numeros : Enviar(h, n, j)
  \/ \E c \in vuela : Registrar(c) \/ Rechazar(c)
  \/ \E n \in vivos : Caer(n)

Spec == Init /\ [][Next]_vars
=============================================================================
