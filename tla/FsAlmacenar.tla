----------------------------- MODULE FsAlmacenar -----------------------------
(***************************************************************************)
(* Storing files in yamafs (filesystem.c): the console (cpfrom) and the    *)
(* threads of the workers (ESDATOS) cut a file in blocks and send every    *)
(* block twice (enviarBloques), the datanodes write and answer, and the    *)
(* thread of each datanode (accion, RESULOPERACION) registers the copies.  *)
(*                                                                         *)
(* mutex_unico_cpfrom and mutex_cpfrom are taken by one thread and         *)
(* released by another, or never; releasing a free one does nothing.  The  *)
(* handler of an answer is one action, so is the send of one copy.         *)
(* dir stands for index_padre.                                             *)
(***************************************************************************)
EXTENDS Integers, Sequences, FiniteSets, SequencesExt

CONSTANTS
  Consola,     \* the thread of the console
  Workers,     \* the threads that serve a worker's final storage
  Nodos,       \* datanodes
  Orden,       \* the list datanodes, in order of arrival
  Total,       \* blocks of a node
  Ocupados,    \* Ocupados[n]: the blocks of n in use at first
  Pedidos,     \* Pedidos[h]: the files thread h stores, in order
  Resultados,  \* what setBloque may return
  MaxFallos    \* bound: nodes that die and writes that fail

Hilos == {Consola} \cup Workers
Nombres == UNION {{Pedidos[h][i].nombre : i \in DOMAIN Pedidos[h]} : h \in Hilos}
Dirs == UNION {{Pedidos[h][i].dir : i \in DOMAIN Pedidos[h]} : h \in Hilos}
Cantidades == UNION {UNION {Pedidos[h][i].bloques : i \in DOMAIN Pedidos[h]} : h \in Hilos}
Pedido == [nombre : Nombres, dir : Dirs, bloques : SUBSET Cantidades]
MaxBloques == CHOOSE b \in Cantidades : \A c \in Cantidades : c <= b
Numeros == 0..Total
Sin == "sin"
Vacio == [nombre |-> Sin]

ASSUME Instancia ==
  /\ Total \in Nat \ {0}
  /\ Orden \in Seq(Nodos) /\ \A n \in Nodos : \E i \in DOMAIN Orden : Orden[i] = n
  /\ Len(Orden) = Cardinality(Nodos)
  /\ Ocupados \in [Nodos -> SUBSET (0..(Total - 1))]
  /\ Pedidos \in [Hilos -> Seq(Pedido)] /\ Sin \notin Dirs
  /\ Cantidades \subseteq Nat \ {0} /\ \E b \in Cantidades : \A c \in Cantidades : c <= b
  /\ Resultados \subseteq {1, -1} /\ 1 \in Resultados
  /\ MaxFallos \in Nat

(* A copy on its way: the file, the block of the file, which copy, and the  *)
(* block of the node it goes to.                                            *)
Copia == [tipo : {"SETBLOQUE"}, nombre : Nombres, dir : Dirs, bloque : 0..MaxBloques,
          copia : {0, 1}, numero : Numeros]
Dato == [nombre : Nombres, dir : Dirs, bloque : 0..MaxBloques]

VARIABLES
  datanodes,  \* the connected datanodes
  libres,     \* info_datanode.bloques_libres
  bitmap,     \* the blocks in use according to <node>.dat
  unico,      \* mutex_unico_cpfrom is locked
  cpfrom,     \* mutex_cpfrom is locked
  actuales,   \* archivos_actuales: actuales[n][nombre] is the index_padre, or Sin
  terminados, \* archivos_terminados
  erroneos,   \* archivos_erroneos
  metadata,   \* the BLOQUEiCOPIAj entries of the files of metadata/archivos
  aNodo,      \* SETBLOQUEs a node has not read
  aFS,        \* RESULOPERACIONs of a node FileSystem has not read
  disco,      \* what the blocks of data.bin hold
  viva,       \* the nodes that did not die
  fs,         \* "vivo" or "muerto"
  cola,       \* files each thread has still to store
  envio,      \* the storing each thread is at
  fallos      \* nodes dead and writes failed

fsDatos == <<libres, bitmap, actuales>>
fsArchivos == <<terminados, erroneos, metadata>>
red == <<aNodo, aFS>>
nodo == <<disco, viva>>
hilo == <<cola, envio>>
vars == <<datanodes, fsDatos, unico, cpfrom, fsArchivos, red, nodo, fs, hilo, fallos>>

(* A thread that stores nothing, and what enviarBloques returned last to it. *)
Libre(r) == [pc |-> "libre", retorno |-> r]

Init ==
  /\ datanodes = Orden
  /\ bitmap = Ocupados
  /\ libres = [n \in Nodos |-> Total - Cardinality(Ocupados[n])]
  /\ unico = FALSE /\ cpfrom = FALSE
  /\ actuales = [n \in Nodos |-> [a \in Nombres |-> Sin]]
  /\ terminados = {} /\ erroneos = {} /\ metadata = {}
  /\ aNodo = [n \in Nodos |-> <<>>]
  /\ aFS = [n \in Nodos |-> <<>>]
  /\ disco = [n \in Nodos |-> [j \in 0..(Total - 1) |-> Vacio]]
  /\ viva = Nodos
  /\ fs = "vivo"
  /\ cola = Pedidos
  /\ envio = [h \in Hilos |-> Libre(0)]
  /\ fallos = 0

-----------------------------------------------------------------------------
(* se_puede_enviar: from index i on, the first node with room, looking at   *)
(* most three nodes further and never beyond the limit of each try.  -1:    *)
(* no room; an index past the list is a NULL that is dereferenced.          *)
Donde(cant, i, topes) ==
  LET probados == {k \in 0..3 : /\ \A j \in 1..k : i + j < topes[j]
                                /\ i + k < Len(cant) => cant[i + k + 1] > 0}
  IN IF probados = {} THEN -1 ELSE i + Min(probados)

(* What is left after a copy for each of the nodes at the indexes I. *)
Gastar(cant, I) == [i \in DOMAIN cant |-> IF i - 1 \in I THEN cant[i] - 1 ELSE cant[i]]

Siguiente(i, n) == IF i + 1 > n - 1 THEN 0 ELSE i + 1

(* The two nodes found for a block can be used. *)
SonPareja(a, b, D) == {a, b} \subseteq 0..(D - 1) /\ a # b

Cuanto == [i \in DOMAIN datanodes |-> libres[datanodes[i]]]

Morir == fs' = "muerto" /\ UNCHANGED <<datanodes, fsDatos, unico, cpfrom, fsArchivos,
                                       red, nodo, hilo, fallos>>

(* cpfrom, ESDATOS: take mutex_unico_cpfrom, cut the file (a worker's is cut *)
(* by an uninitialised size) and copy bloques_libres to distribute it.       *)
Empezar(h) ==
  /\ fs = "vivo" /\ envio[h].pc = "libre" /\ cola[h] # <<>>
  /\ ~unico
  /\ unico' = TRUE
  /\ \E nb \in Head(cola[h]).bloques :
       envio' = [envio EXCEPT ![h] =
                   [pc |-> "reparte", nombre |-> Head(cola[h]).nombre,
                    dir |-> Head(cola[h]).dir, nb |-> nb, idx |-> <<>>, cant |-> Cuanto,
                    enviados |-> <<>>, ok |-> TRUE]]
  /\ cola' = [cola EXCEPT ![h] = Tail(@)]
  /\ UNCHANGED <<datanodes, fsDatos, cpfrom, fsArchivos, red, nodo, fs, fallos>>

(* No room: ESDATOS releases the mutex, cpfrom does not: it tests !(-1). *)
SinLugar(h) ==
  /\ envio' = [envio EXCEPT ![h] = Libre(-1)]
  /\ unico' = (unico /\ h = Consola)

(* A pass of se_puede_enviar: the nodes a and b for the two copies of the    *)
(* next block.  The first limit for a, and the second for b, are the number   *)
(* of blocks instead of the number of nodes.                                  *)
Repartir(h) ==
  LET e == envio[h]
      k == Len(e.idx)
      D == Len(e.cant)
      i == IF k = 0 THEN 0 ELSE Siguiente(e.idx[k], D)
  IN /\ fs = "vivo" /\ e.pc = "reparte"
     /\ \E a \in {IF D = 0 THEN 0 ELSE Donde(e.cant, i, <<e.nb, D, D>>)} :
        \E b \in {IF a \notin 0..(D - 1) THEN a
                  ELSE Donde(Gastar(e.cant, {a}), Siguiente(a, D),
                             <<D, e.nb, D>>)} :
          \/ b >= D /\ Morir
          \/ /\ b < D
             /\ IF SonPareja(a, b, D)
                THEN /\ envio' = [envio EXCEPT
                           ![h].idx = @ \o <<a, b>>,
                           ![h].cant = Gastar(@, {a, b}),
                           ![h].pc = IF k + 2 = 2 * e.nb THEN "envia" ELSE @]
                     /\ UNCHANGED unico
                ELSE SinLugar(h)
             /\ UNCHANGED <<datanodes, fsDatos, cpfrom, fsArchivos, red, nodo, fs, cola, fallos>>

(* The garbage in the size of a worker's file reads beyond the file. *)
CortarBasura(h) ==
  /\ fs = "vivo" /\ h \in Workers
  /\ envio[h].pc = "libre" /\ cola[h] # <<>> /\ ~unico
  /\ Morir

(* enviar_bloque: the first free block of the bitmap, or Total. *)
PrimerLibre(n) == Min(Numeros \ bitmap[n])

(* The bit is set in the loop, if there is a free one. *)
Marcar(n, j) == [bitmap EXCEPT ![n] = @ \cup ({j} \ {Total})]

(* Mutant of IndiceDe: index_lista is not moved between the two copies. *)
IndiceDeLaPrimera(e) == e.idx[Len(e.enviados) - (Len(e.enviados) % 2) + 1]

(* The position in datanodes for the next copy. *)
IndiceDe(e) == e.idx[Len(e.enviados) + 1]

(* actualizar_archivos_actuales: the file is added to the node's list once. *)
Anotar(n, nombre, dir) ==
  actuales' = IF actuales[n][nombre] = Sin
              THEN [actuales EXCEPT ![n][nombre] = dir] ELSE actuales

(* limpiar_bitarrays, for the blocks of the pairs sent before. *)
Limpiados(b, enviados) ==
  [n \in Nodos |-> b[n] \ {enviados[i][2] : i \in {j \in DOMAIN enviados :
                                                     enviados[j][1] = n}}]

(* actualizar_datanodes, called twice for the node of the first copy. *)
Restar(n) ==
  libres' = [libres EXCEPT ![n] = IF \E i \in DOMAIN datanodes : datanodes[i] = n
                                  THEN @ - 2 ELSE @]

(* Mutant of TomarCpfrom: the mutex is not waited for. *)
TomarCpfromSinEsperar == cpfrom' = TRUE

TomarCpfrom == ~cpfrom /\ cpfrom' = TRUE

(* The result of sending to node n: a live one gets it; to a dead one the   *)
(* send works, fails or raises SIGPIPE (EnviarMuere).                       *)
Mandar(n) ==
  IF n \in viva THEN {"va"} ELSE {"perdido", "falla"}

(* enviar_bloque for the next copy, and after a pair what enviarBloques does *)
(* with the two results.                                                     *)
EnviarCopia(h) ==
  LET e == envio[h]
      k == Len(e.enviados)
      i == IndiceDe(e)
  IN /\ fs = "vivo" /\ e.pc = "envia" /\ k < 2 * e.nb
     /\ i < Len(datanodes)
     /\ TomarCpfrom
     /\ \E n \in {datanodes[i + 1]} : \E j \in {PrimerLibre(n)}, r \in Mandar(n) :
          LET bien == e.ok /\ r # "falla"
              f == [e EXCEPT !.enviados = Append(@, <<n, j>>), !.ok = bien]
              b == Marcar(n, j)
          IN /\ Anotar(n, e.nombre, e.dir)
             /\ aNodo' = IF r = "va"
                         THEN [aNodo EXCEPT ![n] =
                                 Append(@, [tipo |-> "SETBLOQUE",
                                            nombre |-> e.nombre, dir |-> e.dir,
                                            bloque |-> k \div 2, copia |-> k % 2,
                                            numero |-> j])]
                         ELSE aNodo
             /\ IF k % 2 = 1 /\ ~bien
                THEN /\ envio' = [envio EXCEPT ![h] = [f EXCEPT !.pc = "cierra"]]
                     /\ bitmap' = Limpiados(b, SubSeq(e.enviados, 1, k - 1))
                     /\ erroneos' = erroneos \cup {e.nombre}
                     /\ UNCHANGED libres
                ELSE /\ envio' = [envio EXCEPT ![h] = f]
                     /\ bitmap' = b
                     /\ IF k % 2 = 1 THEN Restar(e.enviados[k][1]) ELSE UNCHANGED libres
                     /\ UNCHANGED erroneos
     /\ UNCHANGED <<datanodes, unico, terminados, metadata, aFS, nodo, fs, cola, fallos>>

(* The index is past the list since a node left it, or SIGPIPE. *)
EnviarMuere(h) ==
  LET e == envio[h]
      k == Len(e.enviados)
  IN /\ fs = "vivo" /\ e.pc = "envia" /\ k < 2 * e.nb /\ ~cpfrom
     /\ IndiceDe(e) < Len(datanodes) => datanodes[IndiceDe(e) + 1] \notin viva
     /\ Morir

(* The end of enviarBloques: the file is marked as finished, unless a send   *)
(* failed, and bloques_libres is overwritten, index by index, with the copy  *)
(* the distribution was made on.                                             *)
Cerrar(h) ==
  LET e == envio[h]
  IN /\ fs = "vivo"
     /\ e.pc = "cierra" \/ (e.pc = "envia" /\ Len(e.enviados) = 2 * e.nb)
     /\ \/ Len(datanodes) < Len(e.cant) /\ Morir
        \/ /\ Len(datanodes) >= Len(e.cant)
           /\ terminados' = IF e.pc = "envia" THEN terminados \cup {e.nombre} ELSE terminados
           /\ libres' = [n \in Nodos |->
                IF \E i \in DOMAIN e.cant : datanodes[i] = n
                THEN e.cant[CHOOSE i \in DOMAIN e.cant : datanodes[i] = n] ELSE libres[n]]
           /\ envio' = [envio EXCEPT ![h] = Libre(1)]
           /\ UNCHANGED <<datanodes, bitmap, actuales, unico, cpfrom, erroneos, metadata,
                          red, nodo, fs, cola, fallos>>

-----------------------------------------------------------------------------
(* The datanode writes the block (setBloque) and answers. *)
Guardar(n) ==
  /\ n \in viva /\ aNodo[n] # <<>>
  /\ Head(aNodo[n]).tipo = "SETBLOQUE" /\ Head(aNodo[n]).numero < Total
  /\ LET c == Head(aNodo[n])
     IN \E r \in Resultados :
          /\ IF r = 1 THEN UNCHANGED fallos
             ELSE fallos < MaxFallos /\ fallos' = fallos + 1
          /\ disco' = IF r = 1
                      THEN [disco EXCEPT ![n][c.numero] =
                              [nombre |-> c.nombre, dir |-> c.dir, bloque |-> c.bloque]]
                      ELSE disco
          /\ aFS' = [aFS EXCEPT ![n] = Append(@, [tipo |-> "RESULOPERACION", copia |-> c,
                                                 res |-> r])]
  /\ aNodo' = [aNodo EXCEPT ![n] = Tail(@)]
  /\ UNCHANGED <<datanodes, fsDatos, unico, cpfrom, fsArchivos, viva, fs, hilo>>

(* Writing beyond the end of data.bin kills the datanode (SIGBUS). *)
GuardarFuera(n) ==
  /\ n \in viva /\ aNodo[n] # <<>> /\ Head(aNodo[n]).numero = Total
  /\ viva' = viva \ {n}
  /\ aNodo' = [aNodo EXCEPT ![n] = <<>>]
  /\ UNCHANGED <<datanodes, fsDatos, unico, cpfrom, fsArchivos, aFS, disco, fs, hilo, fallos>>

(* The entry of a copy, in the file of the directory archivos_actuales says. *)
EntradaDe(n, c) ==
  [nombre |-> c.nombre, dir |-> actuales[n][c.nombre], bloque |-> c.bloque, copia |-> c.copia,
   nodo |-> n, numero |-> c.numero]

(* Mutant of Poner: the entry is not told by its copy. *)
PonerSinCopia(r, copias) ==
  {r} \cup {x \in copias : ~(x.nombre = r.nombre /\ x.dir = r.dir /\ x.bloque = r.bloque)}

(* The key BLOQUEiCOPIAj of the metadata of a file is set to the entry r. *)
Poner(r, copias) ==
  {r} \cup {x \in copias : ~ /\ x.nombre = r.nombre /\ x.dir = r.dir
                             /\ x.bloque = r.bloque /\ x.copia = r.copia}

(* crear_y_actualizar_archivo: the metadata is read, the entry set and all of *)
(* it saved.  It is one step here because whoever else does it waits for      *)
(* mutex_archivos_actuales; rm and cpblock do not (FsBloques).                *)
Registrar(n, c) == metadata' = Poner(EntradaDe(n, c), metadata)

LeerResultado(n) ==
  /\ fs = "vivo" /\ aFS[n] # <<>> /\ Head(aFS[n]).tipo = "RESULOPERACION"
  /\ aFS' = [aFS EXCEPT ![n] = Tail(@)]
  /\ UNCHANGED <<datanodes, libres, bitmap, terminados, erroneos, aNodo, nodo, hilo, fallos>>

(* RESULOPERACION of a file that is marked as finished: whatever the result, *)
(* the copy is registered and the file leaves the list of the node.          *)
ResultadoFinal(n) ==
  /\ LeerResultado(n)
  /\ LET c == Head(aFS[n]).copia
     IN /\ c.nombre \in terminados
        /\ IF actuales[n][c.nombre] = Sin
           THEN fs' = "muerto" /\ UNCHANGED <<actuales, metadata, cpfrom>>
           ELSE /\ Registrar(n, c)
                /\ actuales' = [actuales EXCEPT ![n][c.nombre] = Sin]
                /\ cpfrom' = FALSE
                /\ UNCHANGED fs
  /\ UNCHANGED unico

(* Mutant of SoltarMutexes: only mutex_cpfrom is released. *)
SoltarCpfrom == cpfrom' = FALSE /\ UNCHANGED unico

SoltarMutexes == unico' = FALSE /\ cpfrom' = FALSE

(* RESULOPERACION of a file that is not: registered if it went well.  Both   *)
(* mutexes are released, the one of the whole storing as well.               *)
ResultadoParcial(n) ==
  /\ LeerResultado(n)
  /\ LET a == Head(aFS[n])
         c == a.copia
     IN /\ c.nombre \notin terminados
        /\ IF actuales[n][c.nombre] = Sin
           THEN fs' = "muerto" /\ UNCHANGED <<metadata, unico, cpfrom>>
           ELSE /\ IF a.res = 1 /\ c.nombre \notin erroneos
                   THEN Registrar(n, c) ELSE UNCHANGED metadata
                /\ SoltarMutexes
                /\ UNCHANGED fs
  /\ UNCHANGED actuales

(* A datanode dies: what it had not read is lost. *)
Caer(n) ==
  /\ n \in viva /\ fallos < MaxFallos
  /\ fallos' = fallos + 1
  /\ viva' = viva \ {n}
  /\ aNodo' = [aNodo EXCEPT ![n] = <<>>]
  /\ UNCHANGED <<datanodes, fsDatos, unico, cpfrom, fsArchivos, aFS, disco, fs, hilo>>

(* Its thread reads the end of the connection: sacar_datanode.  No mutex is  *)
(* released.                                                                 *)
Desconectar(n) ==
  /\ fs = "vivo" /\ n \notin viva /\ aFS[n] = <<>>
  /\ \E i \in DOMAIN datanodes : datanodes[i] = n /\ datanodes' = RemoveAt(datanodes, i)
  /\ UNCHANGED <<fsDatos, unico, cpfrom, fsArchivos, red, nodo, fs, hilo, fallos>>

PasoHilo(h) ==
  \/ Empezar(h) \/ Repartir(h) \/ CortarBasura(h) \/ EnviarCopia(h) \/ EnviarMuere(h)
  \/ Cerrar(h)
PasoNodo(n) ==
  \/ Guardar(n) \/ GuardarFuera(n) \/ ResultadoFinal(n) \/ ResultadoParcial(n)
  \/ Desconectar(n)

Next ==
  \/ \E h \in Hilos : PasoHilo(h)
  \/ \E n \in Nodos : PasoNodo(n) \/ Caer(n)

Spec == Init /\ [][Next]_vars

(* Every thread of FileSystem runs and every live datanode answers.  Weak     *)
(* fairness is enough: a thread that loses a mutex to another waits for a     *)
(* bounded number of files.                                                   *)
FairSpec ==
  /\ Spec
  /\ \A h \in Hilos : WF_vars(PasoHilo(h))
  /\ \A n \in Nodos : WF_vars(PasoNodo(n))

-----------------------------------------------------------------------------
EnCurso ==
  [pc : {"reparte", "envia", "cierra"}, nombre : Nombres, dir : Dirs, nb : Cantidades,
   idx : Seq(0..(Len(Orden) - 1)), cant : Seq(Int), enviados : Seq(Nodos \X Numeros),
   ok : BOOLEAN]
Envio == {Libre(r) : r \in {-1, 0, 1}} \cup EnCurso

TypeOK ==
  /\ datanodes \in Seq(Nodos)
  /\ libres \in [Nodos -> Int]
  /\ bitmap \in [Nodos -> SUBSET (0..(Total - 1))]
  /\ unico \in BOOLEAN /\ cpfrom \in BOOLEAN
  /\ actuales \in [Nodos -> [Nombres -> Dirs \cup {Sin}]]
  /\ terminados \subseteq Nombres /\ erroneos \subseteq Nombres
  /\ metadata \subseteq [nombre : Nombres, dir : Dirs, bloque : 0..MaxBloques,
                         copia : {0, 1}, nodo : Nodos, numero : Numeros]
  /\ aNodo \in [Nodos -> Seq(Copia)]
  /\ aFS \in [Nodos -> Seq([tipo : {"RESULOPERACION"}, copia : Copia, res : Resultados])]
  /\ disco \in [Nodos -> [0..(Total - 1) -> Dato \cup {Vacio}]]
  /\ viva \subseteq Nodos
  /\ fs \in {"vivo", "muerto"}
  /\ cola \in [Hilos -> Seq(Pedido)]
  /\ envio \in [Hilos -> Envio]
  /\ fallos \in 0..MaxFallos

(* However the two threads that share mutex_cpfrom are interleaved, and      *)
(* though another thread releases it, there is one copy at most between a    *)
(* send and its answer, its file is in the list of its node and the mutex is *)
(* taken (4284-4287, 1247): obtener_elemento never returns NULL.             *)
EnVuelo(n) == {aNodo[n][i] : i \in DOMAIN aNodo[n]}
              \cup {aFS[n][i].copia : i \in DOMAIN aFS[n]}
UnaEnVuelo ==
  \A n \in Nodos :
    /\ Len(aNodo[n]) + Len(aFS[n]) <= 1
    /\ \A c \in EnVuelo(n) :
         /\ cpfrom
         /\ actuales[n][c.nombre] # Sin
         /\ \A m \in Nodos \ {n} : EnVuelo(m) = {}

(* The copy that was sent last of its file. *)
EsLaUltima(r) ==
  \E h \in Hilos : \E i \in DOMAIN Pedidos[h] :
    /\ Pedidos[h][i].nombre = r.nombre /\ Pedidos[h][i].dir = r.dir
    /\ r.bloque + 1 \in Pedidos[h][i].bloques /\ r.copia = 1

(* A copy can be read back: the block of the node holds that block of that   *)
(* file.                                                                     *)
Legible(r) ==
  disco[r.nodo][r.numero] = [nombre |-> r.nombre, dir |-> r.dir, bloque |-> r.bloque]

(* While every node is alive, the copies of a block are on different nodes.  *)
CopiasSeparadas ==
  viva = Nodos =>
    \A r, s \in metadata :
      r.nombre = s.nombre /\ r.dir = s.dir /\ r.bloque = s.bloque /\ r.copia # s.copia
        => r.nodo # s.nodo

(* A file that was closed has all its copies registered, but the one whose   *)
(* answer is on its way, unless something failed.                            *)
MetadataCompleta ==
  fallos = 0 /\ viva = Nodos =>
    \A h \in Hilos : \A i \in DOMAIN Pedidos[h] :
      LET p == Pedidos[h][i]
          copias == {r \in metadata : r.nombre = p.nombre /\ r.dir = p.dir}
      IN p.nombre \in terminados =>
           \E nb \in p.bloques :
             \A b \in 0..(nb - 1), c \in {0, 1} :
               \/ \E r \in copias : r.bloque = b /\ r.copia = c
               \/ b = nb - 1 /\ c = 1 /\ \E n \in Nodos : EnVuelo(n) # {}

(* The storings the threads are at, and the copies on their way and those    *)
(* registered, without their directory.                                      *)
Curso(h) == [nombre |-> envio[h].nombre, bloques |-> envio[h].nb, destinos |-> envio[h].enviados]
Cursos == [h \in {g \in Hilos : envio[g].pc # "libre"} |-> Curso(h)]

CopiaEn(x, n) ==
  [nombre |-> x.nombre, bloque |-> x.bloque, copia |-> x.copia, nodo |-> n, numero |-> x.numero]
Vuelan == UNION {{CopiaEn(x, n) : x \in EnVuelo(n)} : n \in Nodos}
Conocidas == {CopiaEn(r, r.nodo) : r \in metadata}

Promesa == INSTANCE Almacenamiento WITH
  pendientes <- cola, curso <- Cursos, vuela <- Vuelan, espera <- cpfrom,
  registradas <- Conocidas, cerrados <- terminados, vivos <- viva

(* Though two storings go on at once and share a mutex that other threads    *)
(* release (1247, 4284), each is what Almacenamiento promises: one copy at a *)
(* time, in order, registered once and where it was sent.                    *)
ImplementaAlmacenamiento == Promesa!Spec

(* Without failures every file asked for is stored or rejected, in spite of  *)
(* the early release of mutex_unico_cpfrom, as long as the console is not    *)
(* told that there is no room.                                               *)
AlmacenaTermina ==
  [](fallos = 0 /\ viva = Nodos /\ envio[Consola] # Libre(-1)) =>
    <>(fs = "muerto" \/ \A h \in Hilos : cola[h] = <<>> /\ envio[h].pc = "libre")
=============================================================================
