------------------------------- MODULE Worker -------------------------------
(***************************************************************************)
(* The worker in charge of a global reduction (worker.c): every request is *)
(* served by a process forked for it, and the processes meet only in the   *)
(* files.  A mutex of worker.c is copied by fork, so it excludes nobody.   *)
(*                                                                         *)
(* The content of a file is a bag of origins: the blocks of a master       *)
(* transformed here and the local reductions brought from other nodes.  A  *)
(* file that two processes write at once may keep the tail of the longer    *)
(* content behind the shorter one.                                         *)
(* YAMA asks for a master's local reduction when its transformations       *)
(* ended, for its global ones (it may ask twice) when that ended, and for  *)
(* the final storage after each of them.                                   *)
(***************************************************************************)
EXTENDS Integers, FiniteSets

CONSTANTS
  Masters,  \* masters whose jobs use this worker
  Bloques,  \* Bloques[m]: numbers of the blocks m transforms here
  Otros,    \* Otros[m]: the other nodes of m's global reduction
  Rondas    \* Rondas[m]: the global reductions YAMA asks this worker for

ASSUME Partes ==
  /\ Masters # {}
  /\ DOMAIN Bloques = Masters /\ DOMAIN Otros = Masters /\ DOMAIN Rondas = Masters
  /\ \A m, u \in Masters : Bloques[m] # {} /\ Bloques[m] \cap Otros[u] = {}
  /\ \A m \in Masters : IsFiniteSet(Rondas[m]) /\ IsFiniteSet(Bloques[m])

Numeros == UNION {Bloques[m] : m \in Masters}
Nodos == UNION {Otros[m] : m \in Masters}
Origenes ==
  {o \in Masters \X (Numeros \cup Nodos) : o[2] \in Bloques[o[1]] \cup Otros[o[1]]}
Transformaciones == {p \in Masters \X Numeros : p[2] \in Bloques[p[1]]}
Contenidos == [Origenes -> Nat]
Vacio == [o \in Origenes |-> 0]
Solo(o) == [Vacio EXCEPT ![o] = 1]

(* What may be left of a content when another one is written over its start. *)
Restos(viejo) ==
  LET S == {o \in Origenes : viejo[o] > 0}
  IN {f \in [S -> UNION {0..viejo[o] : o \in S}] : \A o \in S : f[o] <= viejo[o]}

(* The file after writing c from its beginning, when viejo was in it: sort -o *)
(* and the shell's > empty the file when they open it, not when they write.   *)
Encima(c, viejo) ==
  IF \A o \in Origenes : viejo[o] <= c[o] THEN {c}
  ELSE {[o \in Origenes |-> IF o \in DOMAIN f THEN c[o] + f[o] ELSE c[o]] : f \in Restos(viejo)}

VARIABLES
  tmp,     \* tmp[b]: temporales/tmpWorkerN<b>
  salida,  \* salida[b]: /tmp/j1n<nodo>b<b>, the output of a transformation
  rl,      \* rl[m]: /tmp/Master<m>-<nodo>, archTempRL of this node
  rg,      \* rg[m]: /tmp/Master<m>-final
  pcT,     \* the process of a transformation <<m, b>>
  memT,    \* what it has read, until it ends
  pcRL,    \* the process of a local reduction m
  memRL,
  pcRG,    \* the process of a global reduction <<m, r>>, and of its final storage
  memRG,
  guardado, \* guardado[<<m, r>>]: what the final storage read and sent to FileSystem
  pcHijo,  \* funcHijo, forked for <<m, r, nodo>>
  memHijo,
  pisados, \* history: the masters of which a block met another master's of its number
  cruces   \* history: the masters of which two processes met in archTempRL or in archRG

archivos == <<tmp, salida, rl, rg>>
procT == <<pcT, memT>>
procRL == <<pcRL, memRL>>
procRG == <<pcRG, memRG, guardado>>
procHijo == <<pcHijo, memHijo>>
historia == <<pisados, cruces>>
vars == <<archivos, procT, procRL, procRG, procHijo, historia>>

Reducciones == {p \in Masters \X UNION {Rondas[m] : m \in Masters} : p[2] \in Rondas[p[1]]}
Hijos == UNION {{<<p[1], p[2], n>> : n \in Otros[p[1]]} : p \in Reducciones}

Init ==
  /\ tmp = [b \in Numeros |-> Vacio]
  /\ salida = [b \in Numeros |-> Vacio]
  /\ rl = [m \in Masters |-> Vacio]
  /\ rg = [m \in Masters |-> Vacio]
  /\ pcT = [p \in Transformaciones |-> "inicio"]
  /\ memT = [p \in Transformaciones |-> Vacio]
  /\ pcRL = [m \in Masters |-> "inicio"]
  /\ memRL = [m \in Masters |-> Vacio]
  /\ pcRG = [p \in Reducciones |-> "inicio"]
  /\ memRG = [p \in Reducciones |-> Vacio]
  /\ guardado = [p \in Reducciones |-> Vacio]
  /\ pcHijo = [h \in Hijos |-> "no"]
  /\ memHijo = [h \in Hijos |-> Vacio]
  /\ pisados = {} /\ cruces = {}

-----------------------------------------------------------------------------
(* m works on its block b while u has its own b half way: u's files are those *)
(* that m writes, until u's local reduction has read them.                  *)
Pisar(m, b) ==
  pisados' = pisados \cup {u \in Masters \ {m} : /\ b \in Bloques[u] /\ pcT[<<u, b>>] # "inicio"
                                               /\ pcRL[u] = "inicio"}

(* Mutant of EscribirTemporal: one file for every block. *)
EscribirTemporalComun(m, b) ==
  /\ pcT[<<m, b>>] = "inicio"
  /\ tmp' = [x \in Numeros |-> Solo(<<m, b>>)]
  /\ pcT' = [pcT EXCEPT ![<<m, b>>] = "escrito"]
  /\ Pisar(m, b)
  /\ UNCHANGED <<salida, rl, rg, memT, procRL, procRG, procHijo, cruces>>

(* realizarTransformacion: the block goes from data.bin to a file named     *)
(* after its number.                                                        *)
EscribirTemporal(m, b) ==
  /\ pcT[<<m, b>>] = "inicio"
  /\ tmp' = [tmp EXCEPT ![b] = Solo(<<m, b>>)]
  /\ pcT' = [pcT EXCEPT ![<<m, b>>] = "escrito"]
  /\ Pisar(m, b)
  /\ UNCHANGED <<salida, rl, rg, memT, procRL, procRG, procHijo, cruces>>

(* cat | program | sort > output: the shell empties the output at once... *)
Transformar(m, b) ==
  /\ pcT[<<m, b>>] = "escrito"
  /\ salida' = [salida EXCEPT ![b] = Vacio]
  /\ memT' = [memT EXCEPT ![<<m, b>>] = tmp[b]]
  /\ pcT' = [pcT EXCEPT ![<<m, b>>] = "leido"]
  /\ Pisar(m, b)
  /\ UNCHANGED <<tmp, rl, rg, procRL, procRG, procHijo, cruces>>

(* ... and sort writes when it has read everything; then the worker replies. *)
FinTransformacion(m, b) ==
  /\ pcT[<<m, b>>] = "leido"
  /\ \E c \in Encima(memT[<<m, b>>], salida[b]) : salida' = [salida EXCEPT ![b] = c]
  /\ memT' = [memT EXCEPT ![<<m, b>>] = Vacio]
  /\ pcT' = [pcT EXCEPT ![<<m, b>>] = "fin"]
  /\ Pisar(m, b)
  /\ UNCHANGED <<tmp, rl, rg, procRL, procRG, procHijo, cruces>>

(* The bag of everything in the outputs of the blocks B. *)
Union(B) ==
  [o \in Origenes |-> Cardinality(UNION {{b} \X (1..salida[b][o]) : b \in B})]

(* realizarReduccionLocal: cat outputs | sort | program > archTempRL. *)
ReducirLocal(m) ==
  /\ pcRL[m] = "inicio" /\ \A b \in Bloques[m] : pcT[<<m, b>>] = "fin"
  /\ rl' = [rl EXCEPT ![m] = Vacio]
  /\ memRL' = [memRL EXCEPT ![m] = Union(Bloques[m])]
  /\ pcRL' = [pcRL EXCEPT ![m] = "leido"]
  /\ UNCHANGED <<tmp, salida, rg, procT, procRG, procHijo, historia>>

FinReduccionLocal(m) ==
  /\ pcRL[m] = "leido"
  /\ rl' = [rl EXCEPT ![m] = memRL[m]]
  /\ memRL' = [memRL EXCEPT ![m] = Vacio]
  /\ pcRL' = [pcRL EXCEPT ![m] = "fin"]
  /\ UNCHANGED <<tmp, salida, rg, procT, procRG, procHijo, historia>>

(* REDGLOBALWORKER: a child is forked for every other node. *)
Bifurcar(m, r) ==
  /\ pcRG[<<m, r>>] = "inicio" /\ pcRL[m] = "fin"
  /\ pcRG' = [pcRG EXCEPT ![<<m, r>>] = "espera"]
  /\ pcHijo' = [h \in Hijos |-> IF h[1] = m /\ h[2] = r THEN "pide" ELSE pcHijo[h]]
  /\ UNCHANGED <<archivos, procT, procRL, memRG, guardado, memHijo, historia>>

(* A process of m is between its own append and the end of its sort... *)
Ordenan(m) == {g \in Hijos : g[1] = m /\ pcHijo[g] \in {"agregado", "ordenando", "truncado"}}
(* ... or is writing archRG anew, or has cat reading archTempRL for that. *)
Reescriben(m) == {p \in Reducciones : p[1] = m /\ pcRG[p] \in {"vaciado", "leido"}}
Leen(m) == {p \in Reducciones : p[1] = m /\ pcRG[p] = "vaciado"}

Cruzar(m, otros) ==
  /\ cruces' = IF otros # {} THEN cruces \cup {m} ELSE cruces
  /\ UNCHANGED pisados

(* Mutant of Agregar: the file is opened for writing, not for appending. *)
AgregarEncima(h) ==
  /\ pcHijo[h] = "pide"
  /\ rl' = [rl EXCEPT ![h[1]] = Solo(<<h[1], h[3]>>)]
  /\ pcHijo' = [pcHijo EXCEPT ![h] = "agregado"]
  /\ Cruzar(h[1], (Ordenan(h[1]) \ {h}) \cup Leen(h[1]))
  /\ UNCHANGED <<tmp, salida, rg, procT, procRL, procRG, memHijo>>

(* funcHijo, ARCHIVOTEMPRL: what the other worker sent is appended to the    *)
(* encargado's own archTempRL...                                             *)
Agregar(h) ==
  /\ pcHijo[h] = "pide"
  /\ rl' = [rl EXCEPT ![h[1]][<<h[1], h[3]>>] = @ + 1]
  /\ pcHijo' = [pcHijo EXCEPT ![h] = "agregado"]
  /\ Cruzar(h[1], (Ordenan(h[1]) \ {h}) \cup Leen(h[1]))
  /\ UNCHANGED <<tmp, salida, rg, procT, procRL, procRG, memHijo>>

(* Mutant of LeerParaOrdenar: what was received is also given to sort, as in  *)
(* the command that is commented out. *)
LeerConEntrada(h) ==
  /\ pcHijo[h] = "agregado"
  /\ memHijo' = [memHijo EXCEPT ![h] = [rl[h[1]] EXCEPT ![<<h[1], h[3]>>] = @ + 1]]
  /\ pcHijo' = [pcHijo EXCEPT ![h] = "ordenando"]
  /\ UNCHANGED <<archivos, procT, procRL, procRG, historia>>

(* ... which sort reads, ... *)
LeerParaOrdenar(h) ==
  /\ pcHijo[h] = "agregado"
  /\ memHijo' = [memHijo EXCEPT ![h] = rl[h[1]]]
  /\ pcHijo' = [pcHijo EXCEPT ![h] = "ordenando"]
  /\ UNCHANGED <<archivos, procT, procRL, procRG, historia>>

(* ... empties and ... *)
Truncar(h) ==
  /\ pcHijo[h] = "ordenando"
  /\ rl' = [rl EXCEPT ![h[1]] = Vacio]
  /\ pcHijo' = [pcHijo EXCEPT ![h] = "truncado"]
  /\ UNCHANGED <<tmp, salida, rg, procT, procRL, procRG, memHijo, historia>>

(* ... writes again from its beginning, over what came in between.  The      *)
(* child exits.                                                              *)
EscribirOrdenado(h) ==
  /\ pcHijo[h] = "truncado"
  /\ \E c \in Encima(memHijo[h], rl[h[1]]) : rl' = [rl EXCEPT ![h[1]] = c]
  /\ pcHijo' = [pcHijo EXCEPT ![h] = "fin"]
  /\ memHijo' = [memHijo EXCEPT ![h] = Vacio]
  /\ UNCHANGED <<tmp, salida, rg, procT, procRL, procRG, historia>>

(* Mutant of TodosTerminaron: if instead of while. *)
AlgunoTermino(m, r) ==
  Otros[m] # {} => \E n \in Otros[m] : pcHijo[<<m, r, n>>] = "fin"

(* wait until there is no child left: those never forked are not waited for. *)
TodosTerminaron(m, r) == \A n \in Otros[m] : pcHijo[<<m, r, n>>] \in {"no", "fin"}

(* realizarReduccionGlobal, cat archTempRL | program > archRG: the shell     *)
(* empties archRG, which may hold the result of an earlier round...          *)
VaciarGlobal(m, r) ==
  /\ pcRG[<<m, r>>] = "espera" /\ TodosTerminaron(m, r)
  /\ rg' = [rg EXCEPT ![m] = Vacio]
  /\ pcRG' = [pcRG EXCEPT ![<<m, r>>] = "vaciado"]
  /\ Cruzar(m, Reescriben(m))
  /\ UNCHANGED <<tmp, salida, rl, procT, procRL, memRG, guardado, procHijo>>

(* Mutant of LeerGlobal: the whole table instead of m's entry. *)
LeerGlobalSinIndice(m, r) ==
  /\ pcRG[<<m, r>>] = "vaciado"
  /\ memRG' = [memRG EXCEPT ![<<m, r>>] = rl]
  /\ pcRG' = [pcRG EXCEPT ![<<m, r>>] = "leido"]
  /\ Cruzar(m, Ordenan(m))
  /\ UNCHANGED <<archivos, procT, procRL, guardado, procHijo>>

(* ... cat reads... *)
LeerGlobal(m, r) ==
  /\ pcRG[<<m, r>>] = "vaciado"
  /\ memRG' = [memRG EXCEPT ![<<m, r>>] = rl[m]]
  /\ pcRG' = [pcRG EXCEPT ![<<m, r>>] = "leido"]
  /\ Cruzar(m, Ordenan(m))
  /\ UNCHANGED <<archivos, procT, procRL, guardado, procHijo>>

(* ... and the program writes; then the worker replies. *)
EscribirGlobal(m, r) ==
  /\ pcRG[<<m, r>>] = "leido"
  /\ \E c \in Encima(memRG[<<m, r>>], rg[m]) : rg' = [rg EXCEPT ![m] = c]
  /\ pcRG' = [pcRG EXCEPT ![<<m, r>>] = "fin"]
  /\ memRG' = [memRG EXCEPT ![<<m, r>>] = Vacio]
  /\ UNCHANGED <<tmp, salida, rl, procT, procRL, guardado, procHijo, historia>>

(* SOLICITUDALMACENADOFINAL: the process of the final storage reads archRG   *)
(* and sends it to FileSystem.                                               *)
Almacenar(m, r) ==
  /\ pcRG[<<m, r>>] = "fin"
  /\ guardado' = [guardado EXCEPT ![<<m, r>>] = rg[m]]
  /\ pcRG' = [pcRG EXCEPT ![<<m, r>>] = "almacenado"]
  /\ Cruzar(m, Reescriben(m))
  /\ UNCHANGED <<archivos, procT, procRL, memRG, procHijo>>

PasoT(m, b) == EscribirTemporal(m, b) \/ Transformar(m, b) \/ FinTransformacion(m, b)
PasoRL(m) == ReducirLocal(m) \/ FinReduccionLocal(m)
PasoHijo(h) == Agregar(h) \/ LeerParaOrdenar(h) \/ Truncar(h) \/ EscribirOrdenado(h)
PasoRG(m, r) ==
  \/ Bifurcar(m, r)
  \/ VaciarGlobal(m, r) \/ LeerGlobal(m, r) \/ EscribirGlobal(m, r)
  \/ Almacenar(m, r)

Next ==
  \/ \E p \in Transformaciones : PasoT(p[1], p[2])
  \/ \E m \in Masters : PasoRL(m)
  \/ \E h \in Hijos : PasoHijo(h)
  \/ \E p \in Reducciones : PasoRG(p[1], p[2])

Spec == Init /\ [][Next]_vars
-----------------------------------------------------------------------------
TypeOK ==
  /\ tmp \in [Numeros -> Contenidos]
  /\ salida \in [Numeros -> Contenidos]
  /\ rl \in [Masters -> Contenidos]
  /\ rg \in [Masters -> Contenidos]
  /\ pcT \in [Transformaciones -> {"inicio", "escrito", "leido", "fin"}]
  /\ memT \in [Transformaciones -> Contenidos]
  /\ pcRL \in [Masters -> {"inicio", "leido", "fin"}]
  /\ memRL \in [Masters -> Contenidos]
  /\ pcRG \in [Reducciones -> {"inicio", "espera", "vaciado", "leido", "fin", "almacenado"}]
  /\ memRG \in [Reducciones -> Contenidos]
  /\ guardado \in [Reducciones -> Contenidos]
  /\ pcHijo \in [Hijos -> {"no", "pide", "agregado", "ordenando", "truncado", "fin"}]
  /\ memHijo \in [Hijos -> Contenidos]
  /\ pisados \subseteq Masters /\ cruces \subseteq Masters

Terminada(m) == \E r \in Rondas[m] : pcRG[<<m, r>>] \in {"fin", "almacenado"}

(* A content with every transformed block and the reduction of every other   *)
(* node.                                                                     *)
Completo(c, m) == \A x \in Bloques[m] \cup Otros[m] : c[<<m, x>>] >= 1

(* A global reduction that was answered well (master.c:631) left a complete   *)
(* result, in every order of the children and of the rounds, except while     *)
(* another round writes it anew: when no two processes of the master met in a *)
(* file (only an append or a read inside another's sort loses data, 391-433)  *)
(* and no other master worked on blocks of the same numbers meanwhile.        *)
CompletoSinCruces ==
  \A m \in Masters : Terminada(m) /\ Reescriben(m) = {} /\ m \notin cruces \cup pisados =>
    Completo(rg[m], m)

(* What the final storage reads (461-477) is the whole result, also when a    *)
(* second round writes archRG before or after: unless it reads while that     *)
(* round has it empty or half written, or two processes met before.           *)
AlmacenadoEntero ==
  \A p \in Reducciones :
    pcRG[p] = "almacenado" /\ p[1] \notin cruces \cup pisados => Completo(guardado[p], p[1])

(* The result holds no block twice, and what another node sent at most once   *)
(* for each global reduction that YAMA asked for, however the children and    *)
(* the rounds follow each other: sort writes back what it read (419-450).     *)
(* Unless two processes met, who may leave the tail of the longer content.    *)
SinDuplicados ==
  \A m \in Masters : m \notin cruces \cup pisados =>
    /\ \A b \in Bloques[m] : rg[m][<<m, b>>] <= 1
    /\ \A n \in Otros[m] :
         rg[m][<<m, n>>] <= Cardinality({r \in Rondas[m] : pcRG[<<m, r>>] # "inicio"})

(* master.c:465: the outputs that the local reduction reads are those of the *)
(* master's own blocks and nothing else, unless another master had a block   *)
(* of the same number half way meanwhile: the files are named after the      *)
(* block (292), and what an earlier master left in them is never kept.       *)
TransformacionPropia ==
  \A m \in Masters : pcRL[m] = "leido" /\ m \notin pisados =>
    memRL[m] = [o \in Origenes |-> IF o[1] = m /\ o[2] \in Bloques[m] THEN 1 ELSE 0]
=============================================================================
