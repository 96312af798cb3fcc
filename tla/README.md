# YAMA, verified

TLA+ models of **Yama-Que-Yama**, a small map-reduce system in C: five kinds of
processes over TCP sockets, POSIX threads and forked children. The source has no
tests and no design document, so the specification of what the code should do is
taken from its comments and from what its logs and its console tell the user.

Module and definition names follow the source (Spanish). `src/fs/src/filesystem.c`
is written `fs`, `src/yama/src/yama.c` is `yama.c`, `src/master/src/master.c` is
`master.c`, `src/nodo/worker/src/worker.c` is `worker.c`,
`src/nodo/datanode/src/datanode.c` is `datanode.c` and
`src/Bibliotecas/sockets.c` is `sockets.c`. Numbers in parentheses are line numbers.

- [1. The system](#1-the-system)
- [2. Modules](#2-modules)
- [3. Runs and what they show](#3-runs-and-what-they-show)
- [4. Fairness](#4-fairness)
- [5. Proofs](#5-proofs)
- [6. Where the code and its own words differ](#6-where-the-code-and-its-own-words-differ)
- [7. Not modelled](#7-not-modelled)
- [8. Plan](#8-plan)

## 1. The system

| component | state | operations | talks to |
|---|---|---|---|
| **FileSystem** (`fs`) | `datanodes`, `datanodes_anteriores`, `estable`, `formateado`, `rechazado`, `yama_online`, `nodos.bin`, bitmaps, file metadata, `archivos_actuales/terminados/erroneos`, sixteen mutexes | a thread of `accion` per connection; the console: format, cpfrom, cpto, md5, cat, rm, mv, rename, mkdir, cpblock; the table of directories; the globals of a read (`anterior_md5`, `anterior_cpto`, `ruta_a_guardar`) and of a cpblock | datanodes, YAMA, workers |
| **Datanode** (`datanode.c`) | `data.bin` | get and set a block, one request at a time | FileSystem |
| **YAMA** (`yama.c`) | `tablaDeEstados`, `listaWorkers` (load, availability, tasks done), `listaMasters`, planner pointers | one thread per master, one thread that listens to FileSystem and plans | FileSystem, masters |
| **Master** (`master.c`) | counters, one thread per task | asks for a job, runs each request on a worker, reports the end | YAMA, workers |
| **Worker** (`worker.c`) | temporary files | one forked process per request: transformation, local reduction, global reduction, final storage | masters, other workers, FileSystem |
| **Sockets library** (`sockets.c`) | none of its own | connect, accept, send, receive; closes what it could not read | all |

**How a job runs.** A master shakes hands with YAMA and asks for the transformation
of a file. YAMA asks FileSystem where its blocks are and *plans*: each block goes to a
worker that holds one of its two copies (Clock or Weighted Clock). The master runs one
thread per block and reports each end; when the blocks of a node are done YAMA asks
for that node's local reduction; when all local reductions are done it asks for the
global reduction on an *encargado*; then for the final storage, where the worker sends
the result to FileSystem. A failed transformation is *replanned* on the node of the
other copy; any other failure aborts the job.

**How files are kept.** FileSystem cuts a file in blocks and sends every block to two
datanodes, one copy at a time; the answer to each copy, received by the thread of that
datanode, writes the metadata and lets the next copy go. When FileSystem restarts it
is stable again once every block of every file has a node connected that holds it.

**How files are read and changed.** The console asks the datanodes for the blocks of a
file one at a time, choosing between the copies by how often each node was asked; the
thread of each datanode appends the block that came to the file being assembled, or
prints it (the last block of a file twice), and releases the mutex the console waits for. cpblock brings one block from
a datanode and sends it to another, whose answer adds a copy to the metadata; rm frees
the blocks of the copies a file has. A directory is an entry with an index and the index
of its parent in a table of a hundred, a file a metadata file in the folder of that index.

**What is hard here.** Everything that is shared is shared between threads, and the
locking is partial: `tablaDeEstados`, `nodos.bin`, `estable`, `rechazado` and
`yama_online` have no mutex, others are taken by one thread and released by another,
one is taken and never released on an error path, and one is copied by `fork` and
excludes nobody. Every connection is closed twice, so a descriptor may by then be
another's; a datanode is answered before it is known whether it is rejected. Files are
rewritten in place, metadata between a load and a save that others do not wait for,
results emptied by the shell before anything is written. What one read leaves in a global is found by the next.
A process that writes to a peer that left dies of SIGPIPE. Requests are
attributed by job and block *number*, which masters share. `PROJECT.json` lists each
such place at its line, with the properties that would see it go wrong.

**What makes each component correct.**

- *Planner*: every block is assigned once, in order, to a node that has the copy that
  is sent; nothing is sent before the plan is complete; the search ends.
- *YAMA's jobs*: each end of a task finds the record it belongs to; a finished task
  stays finished; a node is reduced once and only after its own transformations;
  tasks are counted once; a job without failures reaches its final storage.
- *Worker*: the result of a reduction, and what the final storage reads of it, has every
  block and every other node's reduction, each exactly once.
- *FileSystem, storing*: registered copies can be read, are on two nodes, and none is
  missing; every storing ends.
- *FileSystem, reading*: what is summed or copied is the file, what is printed its blocks in
  order; every command ends.
- *FileSystem, block commands*: the block of a registered copy belongs to it alone and
  holds what it says, whatever is stored or removed meanwhile.
- *FileSystem, directories*: a directory is found by its index and nothing else is; every
  file has a directory; creating one changes no other.
- *FileSystem, connections*: only nodes it knows register, each under its own
  descriptor, with its totals in `nodos.bin`; YAMA knows them all; a system whose files
  are all there becomes stable.

## 2. Modules

| module | models | composed from |
|---|---|---|
| `Asignacion` | what planning promises, whatever the algorithm (abstract) | |
| `Planificador` | `planificacionT` and its helpers, for both algorithms | implements `Asignacion` |
| `Trabajo` | what YAMA promises of a job, whatever the messages and the records (abstract) | |
| `Yama` | YAMA's handlers, the masters and their threads, connections | planning as `Asignacion` promises it; with one master implements `Trabajo` |
| `Worker` | one worker's processes and their files | |
| `Almacenamiento` | what FileSystem promises of the files it stores, whatever the threads and mutexes (abstract) | |
| `FsAlmacenar` | cpfrom and ESDATOS, the threads of the datanodes, the datanodes | with distinct names implements `Almacenamiento` |
| `FsLeer` | md5, cat and cpto, the datanodes that answer and the threads that assemble | |
| `FsBloques` | rm and cpblock, interleaved with storing | extends `FsAlmacenar`: its variables and seven more, its actions, with registering taken apart, and those of the two commands |
| `FsDirectorios` | the table of directories and where the files are; console, workers' files, format, restart | |
| `FsNodos` | connections, handshakes, registration, removal, stability, YAMA's list | |
| `Planificador_proof`, `Yama_proof`, `Worker_proof`, `FsAlmacenar_proof`, `FsLeer_proof`, `FsBloques_proof`, `FsDirectorios_proof`, `FsNodos_proof` | theorems | extend the modules they prove about |
| `MC...` | constants of the instances | extend the module they instantiate |

In every module an action is one handler, one loop body, or the part of a handler
between two points where another thread can get in; the comment above it names the
function. A `Mutant of X` definition is a plausible slip in `X`: replacing `X` by it makes
the named property fail, which is how each property is known to have teeth.

**Planificador.** One action per pass of a loop of `planificacionT` (322-427): `Iniciar`
computes availabilities and places the clock, `AsignarEnClock` and `AsignarEnAux` assign
a block (`cargarBloque`, 299-320), `BuscarOtro`, `SeguirBuscando`, `VueltaCompleta` and
`SinProximo` are the four ways the search for another worker goes on, `Enviar` is
`EnviarBloquesAMaster`. With Weighted Clock `calcularDisponibilidad` sorts `listaWorkers`
from inside `list_iterate` over it (88-96), so some worker may be visited twice and
another never: `Recorridos` and `Reordenada` say which visits that allows. `algoritmo` is
what a planning finds in `ALGORITMO_BALANCEO`, which SIGUSR1 may have changed (yama.c:906-915):
`Arranques` pairs it with the order of `listaWorkers` and the loads, so that Clock also meets a list that
Weighted Clock sorted. A worker is its `indice + 1`; NULL is `Nulo`; dereferencing it ends the process (`caida`).

**Yama.** One action per handler of `accion` (730-903) and per message the master's main
loop takes. `Enviar` follows the connection: an open one delivers in order, one that the
master broke may kill YAMA (SIGPIPE), one that YAMA closed drops. Uninitialised fields of
a record (`bloque` of a reduction, `nodo` of a global one) are a choice over `Basuras` and
a distinguished `Ninguno`, whose comparison is fatal. `exito` of a global reduction is
read with three bytes beyond it, so a failure may be taken for a success. A worker is the
outcome of a master's thread (`TerminarHilo`).
`Job` reads `tablaDeEstados` as a job of `Trabajo`: the first records, in the order the blocks
were planned, are its blocks (`BloquesDe`), the records of local reductions its reductions
(`ReduccionesDe`), and those of global reductions and final storages are counted (`Cuantos`).

**Worker.** A file is a bag of *origins* (this block of this master; what this other node
sent); `sort -o f f` is three steps, read, truncate and write, because other processes see
the file in between (`LeerParaOrdenar`, `Truncar`, `EscribirOrdenado`). `cat | ... > f` empties `f`
when the shell opens it and writes when the command is done: for `archRG`, which an earlier round may have
answered for already, these are three steps with the reading between them (`VaciarGlobal`, `LeerGlobal`,
`EscribirGlobal`), and the final storage reads it in one (`Almacenar`). A file is emptied when it is opened, not
when it is written, so two writers at once leave the shorter content with the tail of the longer one behind it: `Encima`
gives every content that may be. The parent waits for the children there are (`TodosTerminaron`).

**FsAlmacenar.** `Repartir` is one pass of `se_puede_enviar` (4148-4270) with its limits as
written, `EnviarCopia` one pass of the sending loop with `enviar_bloque` inside it
(4276-4314, 3922-4013), `Cerrar` the end of `enviarBloques`; `ResultadoParcial` and
`ResultadoFinal` are the two arms of RESULOPERACION (1185-1247), in the datanode's thread.
`unico` and `cpfrom` are the two mutexes; releasing one that is free does nothing.
`Promesa` reads its state as one of `Almacenamiento`: the storings the threads are at (`Cursos`), the
copies in a queue to or from a datanode (`Vuelan`), those in the metadata (`Conocidas`), and
`mutex_cpfrom`, which is taken from a send to its answer (`espera`). The distribution, the
availability of the nodes, the bitmaps, the disks and `archivos_actuales` are not seen there.

**FsLeer.** The console is at a step of `solicitar_bloques` or `solicitar_bloques_cpto`, which
differ in where the mutex is taken: `Elegir` chooses the copy and looks up the socket (`TomarMd5`
there, for md5), `Mandar` sends (`TomarCpto` there, for cat and cpto, when the socket is
known already). A request goes to whoever has the descriptor by then (`quien`): a datanode
that comes back gets the lowest one, as `accept` gives it. `Contestar` is the datanode;
`LeerMd5`, `LeerCpto`, `LeerCat` and `Imprimir` are the threads of the answers; `pantalla` is what was printed
last, with how many times (1046-1055). When no copy is
connected the fields of the request are not set: `Posibles` lists what the block that was
just freed leaves in them. The path of a cpto is a global that is freed when the command ends,
so a late answer is written at the old path or elsewhere (`Destinos`).

**FsBloques.** Extends `FsAlmacenar` with the console's `Rm`, `Recontar`, `Quitar` (the three
points of rm between which the threads of the datanodes run) and `Cpblock`, `Copiar` (before and
after its wait for `orden_cpblock`), the two messages of the datanodes (`ResponderGet`,
`GuardarCopia`), and takes the registering of a copy apart. Whoever registers one loads the metadata of the
file, sets an entry and saves all of it several times: `crear_y_actualizar_archivo` (596-658) with
`mutex_archivos_actuales` and `crear_copia` (882-928) without it, while rm takes none. `CargarRegistro` and `CargarCopia`
load, `GrabarMetadata` is the first save, `Terminar` the last one with the rest of the handler: rm may free the
blocks of the file and remove it between any two of them, and then the save brings the file back. `Regrabar` and
`Releer` are the second
registration of a file cut in one block (`unico_bloque`, 1220-1224). A save is one step: who reads a file that is
being written finds fewer copies in it.

**FsDirectorios.** `tabla` is `directorios.dat`. `crear` works on a copy of it and gives out
indexes one name at a time (`CrearUno`), and saves it at the end (`Guardar`); meanwhile the
thread of a worker may look an index up in the old table (`RecibirArchivo`) and register the
file later. `Registrar` is the answer of any copy: it creates the folder and the file when they are not there
(578-595), also when they were and rm and `rm -d` took them away, until the last answer of the file. Free
entries keep what `malloc` returned or what `rm -d` left, and
the searches by index look at them too (`EsElPrimeroCon`). Where a path has a name that is not
there, `obtener_index_directorio` ends without a value (1513-1521): `Indices` is then any
garbage or what the last name has anywhere in the table. The path "/" has no names: `existe_ruta` takes it for one
that exists (1558-1594) and `index_ultimo_directorio` returns an index that nobody set (90), so mkdir does nothing,
and a cpfrom, `rm -d`, rename or mv of "/" works on whatever that index finds.

**FsNodos.** A thread is at a place of `accion` with its descriptor. `Conectar` gives the
lowest free descriptor, `FinDeConexion` and `Cerrar` are its two closes, `Sacar` and
`Eliminar` are `sacar_datanode` with the load and the save of `nodos.bin` inside
`eliminar_ea_nodos`; `Identificacion`, `GuardarNodosBin`, `AgregarDatanode`, `Verificar` are the four parts of
IDENTIFICACIONDATANODE between which other threads run. Before them comes the handshake: `HandshakeNodo` answers it
as it is read (sockets.c:366), so that the datanode identifies itself (datanode.c:172-188), and only `Comparar`
looks whether
it is known (1258-1281), and closes the descriptor if not; of two threads that read one descriptor the other one
may take the
identification in between. The console's format loads and saves `nodos.bin` once for each bitmap, next to the threads
(`Formatear`, `FormatearCarga`, `FormatearGuarda`, `FormatearTermina`). `workers` and `indiceWorker`
are YAMA's side (429-473). The variables called *history* are read by no action: they say
that a race really happened, so that a property can say what holds otherwise, and no more
is excused than that race.

## 3. Runs and what they show

Twelve runs; the nine that pass explore the whole state space of their instance, three of them within a
CONSTRAINT that is named below (`CHECK_DEADLOCK FALSE`
because jobs, storings, commands and reductions end, and processes die).

| run | instance | distinct states | shows |
|---|---|---|---|
| `planificador` | both algorithms, 3 workers and a node without one; Clock with the list in order and files of up to 4 blocks, or reversed and up to 3; Weighted Clock with every order, loads 0 and 1 and up to 3 blocks | 651 248 | the plan is right (`PlanCorrecto`), the search is sane (`BusquedaSana`), the planner implements `Asignacion`, a search that starts with the clock's worker available ends with the block assigned (`VueltaTermina`) |
| `planificador_busqueda` | Clock, 3 workers | finds a violation | the search may go round for ever or end in NULL |
| `yama_un_master` | one job of 3 blocks over 2 workers and a node without one, 2 failures | 62 586 | the table goes through what `Trabajo` promises of a job (`ImplementaTrabajo`), ends of global reductions find their record (`FinRGConRegistro`), tasks are counted once (`TareasContadas`), a node is reduced once and after its transformations, the job gets to its final storage |
| `yama_dos_masters` | two jobs with the same number and block number, 1 failure | 142 861 | news may be attributed to the other master, but each one finds a record and nothing finished is replanned |
| `yama_replan` | one master, one block, one failure | finds a violation | the replanned transformation is not run |
| `yama_af` | one master, one block | finds a violation | the final storage is never confirmed |
| `worker_reduccion` | two masters with a block of the same number; one reduction with two other nodes, one asked for twice | 1 931 825 | results complete and without duplicates outside the races that are named, own blocks, what the final storage reads |
| `fs_almacenar` | console: files of 2 blocks and 1; a worker: a file of 1 or 2; 3 nodes of 3 blocks; one node or write that fails | 182 386 | storing is what `Almacenamiento` promises (`ImplementaAlmacenamiento`), one copy in flight, separated copies, nothing missing, every storing ends |
| `fs_leer` | 2 datanodes, 2 deaths and their return, files of one and two blocks with two copies, a third or one; 3 commands | 768 553 | sums and the first copy are right and blocks are printed in order, the last one of a file twice, unless one of four named things went wrong; commands end |
| `fs_bloques` | console and worker store a file of 1 block each on 3 nodes of 2 blocks, 2 rm or cpblock, one node or write that fails | 685 190 | the blocks of registered copies are marked and hold what they should until a send fails or a removed copy is saved again; commands end |
| `fs_directorios` | a table of 3 entries with garbage 0 or 1 in the free ones, 4 paths, "/" among them, 2 files, 4 commands, formats, restarts and files of workers | 970 671 | directories are found by index, files have a directory, creating adds only |
| `fs_nodos` | 2 datanodes and YAMA, 3 connections, 1 process that ends, four kinds of earlier run, formats of the console | 2 316 659 | only known nodes but by a second thread, own sockets, totals, YAMA's list, the return to stability |

The runs of `Yama`, `FsAlmacenar` and `FsBloques` do not list the type invariant: `TiposYama` and
`TiposAlmacenar` prove it for every instance, and `FsBloques` widens what it says of messages.

**Why the bounds are enough.**

- *Planner.* Three workers are the fewest for which the search's lap has a worker that is
  neither the clock nor the first one met; four blocks exhaust an availability of
  `Base` 1 more than once, so that restoring it (376-381) happens in every search, and leave the search without a next
  worker (`SinProximo`, 394-401); a
  node without a worker makes blocks with one holder, or none. The theorems cover every
  other size.
- *YAMA.* Three blocks on three nodes give a node several blocks, jobs several groups, and
  a replanning that joins a group already waiting. Two failures allow a failed replanning.
  Two masters with one block each are what it takes to attribute news to the wrong one.
- *Worker.* Crossing needs two processes at the file; both ways to have them are there
  (two nodes of one reduction, two rounds of another), and so are a block number shared by two
  masters and a master with two blocks. `UnoCruza`: a state in which both masters' processes met says nothing
  of either and is not continued. The two nodes of one reduction and the two rounds of the other are
  interchangeable (`Iguales`); no liveness is checked there.
- *Storing.* Three nodes give every distribution a third node to move to; three blocks per
  node make nodes fill up; two files in a row and a worker's in parallel reach every
  sharing of the mutexes; one failure at any point.
- *Reading.* Two blocks on two nodes are the fewest for which answers of one file come from
  two threads; three commands allow a read, one whose answers are late, and a third that
  finds their globals; two deaths allow no copy to be connected. A node that dies and comes
  back while the other is gone gets the other's descriptor.
- *Block commands.* With two blocks per node and two files the nodes fill up, and a freed
  block is taken again; two commands are an rm or a cpblock during another cpblock. The
  third node is where the copy goes. `DosCosas`: of the two commands and the failure at most two
  happen in a behaviour.
- *Directories.* With the root and two entries the table fills up with the second directory;
  paths of no, one and two names make a full table meet the middle of a path. Four commands are
  enough to create, remove, restart and create again under a used index.
- *Connections.* A descriptor has to be closed by one thread, given to a second connection
  and closed again by the first: that takes two connections and a third to be
  alive meanwhile, and one process that ends; rejections close more.
  `MaxHilos` 3 and `MaxBajas` 1 reach every race a history variable names, and a node let in by a second
  thread (`colados`). `PocasCosas`: of the four races `carrera`, `choque`, `comparte` and `basura` at most two
  happened, and the console formats
  while one thread at most is in the middle of a handler. `PorFormatear`: a system that is formatted, stable and
  empty is not
  formatted again.

**Histories.** `SocketPropio` holds unless a descriptor was given away while a thread still
meant to use it (`comparte`); `TotalesCompletos` unless two threads overwrote each other's
`nodos.bin`, or a thread and the console, or a node is twice in the list (`choque`); `SoloConocidos` but for the
nodes whose identification a second thread
of their descriptor read before the first one had looked (`colados`), which takes `comparte`; `YamaAlDia` while
no connection has been closed and no
datanode registered during YAMA's handshake (`carrera`); `EstableLlega` unless the
uninitialised `rv` happened to be -1 (`basura`); the properties of the worker unless two processes of a master
met in a file or another master worked on its block numbers (`cruces`, `pisados`), where a final storage that
reads while another
round writes is such a meeting;
`Md5Correcto`, `PrimerCpto` and `CatEnOrden` unless a request was sent with unset fields or
to another datanode, a block went to a freed path, or a cpto set an md5 back (`raro`);
`BitsDeCopias` and `CopiasLegibles`, for the files that are not being removed, as long as no send
failed and no removed copy was saved again, by `crear_copia` or by a registration that rm overtook (`SinDudas`,
`revividos`); `ArchivosConDirectorio` but for the files whose path led nowhere
or whose directory went while copies of them were not answered (`perdidos`). In each
case TLC does find the property broken when the history is left out; two of them take an instance larger than that
of the run: `pisados` in `SinDuplicados` a third master with the same block number, a failed send in `BitsDeCopias` a
file of two blocks.

## 4. Fairness

Weak fairness only, and only on what the code schedules by itself.

- `Planificador`: `WF(Next)`. One thread, which waits for nobody while it plans.
- `Yama`: each thread of YAMA, the answer of FileSystem, each master's main loop, and, for
  each master, *some* of its threads that wait for workers. No fairness for failures,
  kills or the final storage's end.
- `Worker`: none; nothing is said of what must happen there.
- `FsAlmacenar`: each thread of FileSystem and each live datanode. A mutex that is taken
  again and again by others does not starve a thread for ever because the
  files to store are finite. Deaths are not fair.
- `FsLeer`, `FsBloques`: each thread of FileSystem and each live datanode. Nobody has to type a
  command (`Comenzar` and `EmpezarOrden` are not fair), and no death or return is fair.
- `FsNodos`: each thread of `accion`, and that datanodes are started. Nothing makes YAMA
  start, the console format, or a process end.

`EstableLlega`, `JobTermina`, `AlmacenaTermina`, `LecturaTermina` and `BloquesTermina` have a
premise (`[]` nothing failed):
the code recovers from none of those failures, and the runs that find violations show what happens.

## 5. Proofs

Checked with TLAPS; `tlapm` needs about half an hour for all the modules. Each
section names the assumption on the constants it starts from. A theorem speaks of every
value of them, also of the bounds on failures and commands.

**`Planificador_proof`** (from `Tamanios` and `ListasSonOrdenes`: at least one worker, nodes
at least as many, a positive base, `Arranques` an algorithm, an order and loads of the workers each). For any
number of workers,
nodes and blocks, either algorithm, any loads and any order of `listaWorkers`:

| theorem | states |
|---|---|
| `TiposCorrectos` | `Spec => []TypeOK`; in particular the unsigned `disponibilidad` is never decremented at zero |
| `SiemprePlanCorrecto` | `Spec => []PlanCorrecto` |
| `SiempreBusquedaSana` | `Spec => []BusquedaSana` |
| `CumplePromesa` | `Spec => ImplementaAsignacion`: the refinement mapping of `Planificador` takes every step to an assignment, the publication or a stutter |

The inductive invariant is `TypeOK /\ PlanCorrecto /\ BusquedaSana`. None of the three is
inductive alone: `TypeOK` needs `BusquedaSana` to know that the worker being decremented
has availability, `BusquedaSana` needs the types and that `Proximo` never returns the
worker it starts from or one without availability (lemma `ProximoDisponible`, which rests on a
nonempty set of positions having a first one, `HayPrimero`), and the refinement needs
`PlanCorrecto` to know that the next assignment is of the next block.

**`FsNodos_proof`** (from `Previas`: an earlier run left bitmaps of datanodes, none with
`--clean`; and, for the last theorem only, `Distintos`: finitely many datanodes and threads, and YAMA is
not a datanode). For any datanodes, connections, ends of processes and earlier runs:

| theorem | states |
|---|---|
| `TiposNodosSiempre` | `Spec => []TypeOK` |
| `SiempreConocidos` | `Spec => []SoloConocidos`: a formatted system registers no node it did not know but through a second thread of the node's descriptor |

`SoloConocidos` speaks of the list, but the node that enters it comes from the descriptor
of whatever thread read the identification, which after a double close need not be the
thread that shook hands, and a node identifies itself before that thread has looked for it. The inductive
invariant `IInv` therefore follows the datanode along its way: an identification to be read is of a known node, or
some thread of that descriptor is about to look for the node (`IdentificaConocidos`): it will close the
descriptor, and what was
not read goes with it, or a second thread reads it first and the node is in `colados`; only known nodes or those
of `colados` are being registered (`RegistraConocidos`), a
system with earlier bitmaps stays formatted (`FormateadoAntes`, without which the third
reason to reject would let anyone in), and a thread that has not ended has a descriptor
(`HilosConSocket`). There is one lemma per action, and `...Quietas` lemmas for what an
action leaves alone.

Two more theorems rest on a second invariant, on top of `IInv`:

| theorem | states |
|---|---|
| `SiempreTotales` | `Spec => []TotalesCompletos`: nodos.bin has the Total of every registered node, unless `choque` |
| `SiempreSocketPropio` | `Spec => []SocketPropio`: the socket of a registered node leads to nobody else, unless `comparte` |

The console's format writes `nodos.bin` too: what it saves is what it read, or `choque` says otherwise.
`Totales` adds that a thread about to add a node has saved its Total (`PorAgregar`). `Propios`
adds that some thread still holds the descriptor of each registered node (`ConHilo`), so that
`accept` giving that descriptor to another is a race `comparte` sees; that a thread that
registers a node holds that node's own (`RegistraPropio`), and that one that was not started holds none.

A third invariant, `Avisada`, speaks of the time before any connection is closed:

| theorem | states |
|---|---|
| `SiempreAlDia` | `Spec => []YamaAlDia`: the list of YAMA has every registered node once, at the position its indice says, unless `Cierre` or `carrera` |

A node is announced to YAMA before it enters the list of FileSystem, and YAMA that comes later is sent the
list as it is: so `EnLinea` says that what YAMA was told is the registered nodes and those that a thread
is about to add, together. That each node is announced once needs that it is registered once: until somebody
leaves, every thread is at the connection of a process of its own and reads, in order, the handshake and the
identification it was sent (`Atendidos`). And a process that has ended unnoticed would break all of it:
`Aceptados` counts that as many threads were started as processes run, so that nobody is accepted a second
time while no connection was closed.

**`FsDirectorios_proof`** (from `Instancia`: a table of at least one entry, paths of names, "/" included,
garbage that is not the number `rm -d` writes). For any table, names, paths, garbage and any
sequence of commands, formats, restarts and files of workers:

| theorem | states |
|---|---|
| `TiposDirectoriosSiempre` | `Spec => []TypeOK` |
| `SiempreEncontrado` | `Spec => []EncontradoPorIndice` |
| `SiempreConDirectorio` | `Spec => []ArchivosConDirectorio` |
| `SiempreSoloAgrega` | `Spec => CrearSoloAgrega`: creating a path leads no other path elsewhere, and creates it unless the table is full |

Free entries hold any number, so an index that is given out may be in one already. `IInv` says
why that does no harm: no directory has the index of another, nor of anything *before* it in the
table (`Unicos`), for `crear` takes the first free entry and the next index, so that what
has the same number can only be after it. The copy that `crear` works on is as sane as the
table, its indexes are below `siguiente`, and it has every directory the table has (`CreaSano`,
without which `Guardar` could lose the directory of a file that was stored meanwhile), and both
`archivos` and `pendientes` have a directory or are named in `perdidos` (`ConDirectorio`): a file stays in `pendientes`
until its last answer, for any answer may create it again. All of it only
while index 0 is of the root alone (`CeroEsLaRaiz`, `Sano`): `rm -d` with an undefined index may remove the root, and
`rename` of "/" may name a free entry that has a 0. There is one lemma per action, and
lemmas about what each change does to a sane table (`RenombrarBien` and its neighbours).

`SiempreSoloAgrega` has an invariant of its own, `CreaAgrega`, that needs no root: the copy of `crear` is
the table with entries added in free places, each the only one of its name and parent (`Extiende`, for `crear`
adds a directory when its search found none), and the names passed are there up to `padre` unless there was no
room (`Hasta`). Such an entry is the first of its name and parent nowhere else, so what a path goes through
stays what it was (`HastaSigue`); and two ways along a path would part at a first entry, which both are
the first of one name and parent (`CaminoUnico`), so `Indices` gives the same before and after.

**`Yama_proof`** (from `Parametros`: finitely many masters and nodes, at least one block, the
two copies of a block on different nodes). For any masters, files, failures and garbage:

| theorem | states |
|---|---|
| `TiposYama` | `Spec => []TypeOK`; in particular no load is decremented at zero |
| `TransformacionOkFinal` | `Spec => TransformacionOkEsFinal`: no record is lost or changes its job, and a transformation that ended well is never touched again |
| `SiempreFinRG` | `Spec => []FinRGConRegistro` |
| `SiempreFinT` | `Spec => []FinTConRegistro` |
| `SiempreRL` | `UnMasterSolo => (Spec => RLTrasTransformaciones)` |
| `SiempreContadas` | `UnMasterSolo => (Spec => []TareasContadas)`: the count that planning places the clock by has each finished task once |
| `CumpleTrabajo` | `UnMasterSolo => (Spec => ImplementaTrabajo)`: each handler is a step of the job or a stutter |

News are attributed by job and block number, which masters share, so neither `SiempreFinRG` nor `SiempreFinT`
can follow a task to *its* record: they count. For global reductions the inductive fact is that
the final storages asked for and the reductions asked for, running or ended and unread are together never more than
the records of global reductions: each handler that takes a record out of reach takes a message
too. For transformations the count is per block number; it needs that only transformations have a second node
(`SinOtra`, or a replanning could put something else back in process), that a message asks for one
transformation of a block at most (`UnaPorBloque`) and that those asked for and not yet read have a record
as well (`PedidasConRegistro`).

With one master a task can be followed to its record, and `SiempreRL` does. Two masters share job and block
numbers and each asks for reductions of the same nodes, so of two the property is not true. `UnMasterSolo` is
true of `yama_un_master`, which checks the
property. The only job is planned once and its records come first, in the order of the blocks (`Planificada`),
so the first record in process with
the number of the block is the task's, although records of reductions hold any number there; every
task on its way has its record in process on its node, and no local reduction of that node
was requested (`Debidas`). When the end of a task is read, `PedidasConRegistro` says that no other task of that
block is on its way (`NadieMas`), so nobody loses a record; and a task on its way keeps its
node's group from being done, so the reduction is not requested yet.

`SiempreContadas` and `CumpleTrabajo` build on those two facts. A counter is incremented when a message is
read, and the records it stands for change in the same handler, so the count is right only if the message
finds a record that had not ended: `Contadas` adds to `TareasContadas` that there is one local reduction of a
node at most (`UnaRL`)
and that one on its way has a record in process (`RLConRegistro`). For the job, `DelJob` says that every record is of
the one job, so that the group `realizarReduccionLocal` looks at is all the node's and the one
`realizarReduccionGlobal` looks at is all of them, and that a transformation is on a node of one of its block's
copies and its
other node is the other's. With `Planificada` and `Debidas` the end of a transformation
changes the block it speaks of and no other, a failure moves it to the node of its other copy or leaves it in error,
and a global reduction is asked for with the last local one; that it is stored once at most for each time it was
asked for is
the count of `SiempreFinRG`. Of two masters it would not be true: news of one go to the other's block.

**`Worker_proof`** (from `Partes`: nonempty disjoint blocks and nodes, finitely many rounds for each
master). For any masters, blocks, nodes and rounds:

| theorem | states |
|---|---|
| `TiposWorker` | `Spec => []TypeOK` |
| `NuncaDuplica` | `Spec => []SinDuplicados` |
| `SiemprePropia` | `Spec => []TransformacionPropia` |
| `SiempreCompleto` | `Spec => []CompletoSinCruces` |
| `SiempreEntero` | `Spec => []AlmacenadoEntero` |

`IInv` is the types and the order of the phases (`Fases`: children come after the local reduction, the result
after the children).
`IInv2` follows the contents while `cruces` and `pisados` do not name the master; when they do nothing can be said, for an
overlap may leave the tail of a longer content anywhere. Until the local reduction the files lead from the
block to its output (`BloquesSeguros`). After it at most one child orders at a time (`EnOrden`): what it read,
and the file unless that
child emptied it, covers everything that was brought (`Cubre`) and holds each block once and what a node sent
once for each child
that brought it (`SinRepetir`). And at most one round writes `archRG` anew (`Resulta`), from a complete content;
meanwhile the result
is empty, otherwise it is whole once a round was answered, and so is what each final storage read.

**`FsAlmacenar_proof`** (from `Instancia`: nodes in a list without repetitions, positive sizes of files,
`write` results 1 or -1). For any threads, nodes, files, deaths and failed writes:

| theorem | states |
|---|---|
| `TiposAlmacenar` | `Spec => []TypeOK` |
| `SiempreUna` | `Spec => []UnaEnVuelo` |
| `SiempreSeparadas` | `NombresDistintos => (Spec => []CopiasSeparadas)` |
| `SiempreCompleta` | `NombresDistintos => (Spec => []MetadataCompleta)` |
| `CumplePromesaDeAlmacenar` | `NombresDistintos => (Spec => ImplementaAlmacenamiento)`: the refinement mapping `Promesa` takes every step to a step of a storing or a stutter |

`UnaEnVuelo` is nearly inductive: what it lacks is how long the lists of a distribution are
(`Repartos`). `NombresDistintos` says that no two storings are of one name: two of them share an entry of
`archivos_actuales`, and then a copy may be registered under the other one. It is true of
the run's instance, where both properties are also checked. `IInv2` follows the
copies of a file from its distribution (the two indexes of a block differ, `Parejas`) to where they
were sent (`DondeDijo`), and says that nothing of a file is anywhere before its storing (`Nuevos`). `IInv3` says
that every
copy sent is registered but the last one, under the directory asked for (`Enviadas`, `Directorios`), and remains so after
the file is closed (`Completas`).

The refinement rests on a fourth, `IInv4`, which unlike the third says something also after nodes died or writes failed.
What there is of the file being stored, sent, answered or registered, is below the number of copies sent (`Antes`), so a
send is of a copy nobody has seen. The copy on its way is not registered (`Unicas`), so no answer registers a copy twice.
And a send fails only to a node that died, while until then the copies go where the distribution says (`Llegadas`), so a
file is given up for a death or for want of room and for nothing else. The promise is also the account of what a death
does: a copy that dies with its node leaves `espera` set, and since only an answer releases `mutex_cpfrom`, from then on
nothing is sent, of either file.

**`FsLeer_proof`** (from `Instancia`: finitely many nodes and files, every file has a block, no place
holds copies of two blocks, which is what `FsAlmacenar` and `FsBloques` are about). For any files, commands,
deaths and returns:

| theorem | states |
|---|---|
| `TiposLeer` | `Spec => []TypeOK` |
| `SiempreMd5` | `Spec => []Md5Correcto` |
| `SiemprePrimerCpto` | `Spec => []PrimerCpto` |
| `SiempreCatEnOrden` | `Spec => CatEnOrden` |

The heart of `IInv` is `Fichas`: a mutex is a token, taken by the console and given back by the thread of the
answer, so at most one request of each mutex is on its way, and none when it is free.
`mutex_cpto` serves cat and cpto, and the thread that prints gives it back *before* it prints: the answers
that count are therefore those that have not begun (`porLeer`), and a block being printed is in order with
the one on the screen and the one on its way (`TurnoCat`), and comes twice exactly when it is the last one
asked for, which is the last of the file. `TurnoMd5` and `TurnoCpto` say how far the file being
assembled is and that the request on its way is of the next block; `Verdad`, that while nothing
in `raro` happened a request names a place that holds its block. `CuentaJusta` and `SinPasarse` bound the counts
of requests
and `anterior_cpto`, which is never set back.

**`FsBloques_proof`** (from `Instancia` of `FsAlmacenar`, and `OrdenesPosibles`: no node has the name that is
not sent). For any threads, nodes, files, commands, deaths and failed writes:

| theorem | states |
|---|---|
| `CopiasMarcadas` | `SpecBloques => []BitsDeCopias` |
| `CopiasSeLeen` | `SpecBloques => []CopiasLegibles` |

Both properties used to except only the files that had a failed send or were saved again, and the run
passed. It is not so: looking for the inductive invariant, TLC found on larger instances that one such file
ends the promise for all. `limpiar_bitarrays` frees the blocks of the copies it sent before, also when rm had
freed them already and another file has them by now (a file of two blocks and one rm); and an rm of a file
that was brought back frees blocks of whoever got them since (three commands). Hence `SinDudas`. A registration
that loaded the file before rm and saves it after is one of the two ways to bring it back. Of what a save writes only the
entry it sets is new, or `revividos` says otherwise; that entry is of the answer that is still the next to be
read when it is
saved for the first time (`Cargadas`), and so of a block that is marked and of nobody else.

`InvBits` is about owners: every block that a message is to write or wrote is marked and of that message
alone (`EnCamino`), and so is that of every registered copy, which no message and no other file has
(`Registrados`); `UnaOrden` says that the console waits for one block, for the node it named or for one
without name, so that the block `Copiar` marks is of the node it sends to. `InvDatos` follows the contents: a
block read for a cpblock is still what its copy was when the answer is written elsewhere, because nobody
is to write it (`PideBien`, `TraeBien`, `EnLaConsola`, `CopiaDicha`), and what an answer says was written is
on the disk (`Escrita`, `CopiaEscrita`). A copy that is registered without having been written can only be the last one:
`Reciente` says that the copy on its way is the one its thread sent last, and that a finished file has only its
last on its way, for `mutex_cpfrom` waits for each answer (`UnaCopia`). That takes a name that is stored once
(`PedidaUnaVez`), which is now part of `CopiasLegibles`: under a name that is in `archivos_terminados` already a
failed copy is registered whichever it is (3903). `UnPaso` and `Efectos` say what a step may do to the messages and to the
rest, so that each part of `InvDatos` has one lemma instead of one for each action. The types and distributions of
`FsAlmacenar_proof` are reused: they are stated there (`Base`) apart from those of the messages and the
metadata, which `FsBloques` widens.

**Only model-checked.** Liveness (`VueltaTermina`, `JobTermina`, `AlmacenaTermina`,
`LecturaTermina`, `BloquesTermina`, `EstableLlega`): TLAPS does not reason about fairness or ENABLED. Every
invariant, action property and refinement of the runs that pass has a theorem. `TareasContadas` and the
counts of the proofs are `Cardinality` of sets, because a fold's value for every input would need an induction the
provers cannot do.

## 6. Where the code and its own words differ

Each of these is a run (section 3) whose counterexample is the evidence.

- `planificador_busqueda`: the comment at yama.c:376-377 says that the search stops at the next
  worker that has the block or after one lap. The loop leaves only when `punteroAux` meets
  `punteroClock`, but `proximoWorkerDisponible` skips workers without availability, the clock
  included: the lap never closes, with `mutex_plani` held. With a single available worker the
  next one is NULL and is dereferenced.
- `yama_replan`: yama.c:798-799 promises a replanning on the other copy's node. The message starts with
  `nroBloqueCopia` where the master expects a number of blocks (master.c:663): nothing
  runs, or threads with garbage.
- `yama_af`: worker.c:486 waits for an answer of FileSystem that fs:1397-1424 never sends, so
  "Mando conf a Master" (worker.c:504) is not reached while both live.

Seen while modelling, part of the models, and without a run of their own:

- *Planner.* `list_sort` inside `list_iterate` of the same list; `avanzarPuntero` uses `indice`
  as a position after the sort (133-135). The theorems say that neither makes a plan wrong.
- *YAMA.* The global reduction is asked for while transformations are missing (828): a late
  node makes YAMA ask again. The end of a transformation may mark another master's record
  (772-775). The encargado is the least loaded of all workers, also of those outside the job
  (647), and then the master dies. A failed local reduction aborts (842), where
  master.c:529 expects a replanning. A failed global reduction may be taken for a success (859).
- *Worker.* Children that append and sort one file in place lose each other's data, for the
  mutex around it is private to each process (419), and the master logs a success (master.c:631).
  Two sorts that overlap leave the tail of the longer content behind the shorter one, so lines come
  twice. A second global reduction appends to the same file again (411), and its shell empties a result that was already
  answered as good (32): a final storage that reads it then (461-477) sends FileSystem an empty or half-written file.
  Two masters share temporary files of the same block number (292).
- *Storing.* The search for room compares a node's index with the number of blocks
  (4164), and may say there is none (4268) with two empty nodes. The result of the last copy is not looked at
  (1218-1228). Without room cpfrom keeps
  `mutex_unico_cpfrom` for ever (3192). The size of a worker's file is not initialised when it
  is cut (`CortarBasura`).
- *Reading.* cat prints the last block of every file twice (1051-1055), so what it prints is never the file. A
  second cpto writes from where the first one ended (799), beyond the end of a file
  that is not longer. The path is freed while answers are on their way (3237): the file may
  go elsewhere, or `fclose(NULL)` ends FileSystem. A datanode that dies before it answers
  leaves the console waiting. Without a connected copy the request is what memory holds.
- *Block commands.* cpblock says there is no room when the last block is the free one, which it
  marks, and writes beyond `data.bin` when there is none (3452-3462). The name of the target
  is not sent when COPIA0 is missing (3364-3400), and what the datanode reads instead is
  looked for. Two copies of a block may end on one node, when COPIA1 of a cpfrom is on its
  way (3336), and a fourth copy overwrites COPIA2 (912). rm of a file that does not exist dereferences NULL, and so does
  rm of one of more than ten blocks, for `BLOQUE10BYTES` is as long as the key of a copy. rm takes no mutex: a
  registration
  (596-658) or a copy that loaded the metadata before brings the removed file back, with blocks that are free.
- *Directories.* mv of a file onto its own directory loses it (2960-2962). `rm -d` leaves the
  directories below in the table, which a later directory may adopt; it does not ask whether its
  path exists. rename and mv allow two directories of a name, and mv a cycle.
  The path of a worker's file is looked up with the name of the file as a directory (834). "/" is a path that
  exists with an index that nobody set (1558-1594, 90). The answer of a copy creates its file again after rm, in
  a directory that
  `rm -d` may have taken out of the table (578-595).
- *Connections.* A datanode is answered before it is looked for (sockets.c:366), and nobody looks again when it
  identifies itself: with two threads
  on one descriptor a node that was never known may register. format loads and saves `nodos.bin` next to the
  threads that do. `rv` of `verificar_estado` is not initialised (384). The path of a directory's second
  file is appended to the first one's (403): a directory with two files ends the restart.
  With `--clean` the first handshake reads a NULL list (1258). A node that did connect in this
  session is rejected, as if it never had, after a format (1274-1275). The first end of a connection of
  something that is not a registered datanode reads a NULL name (1434). NODODESCONECTADO
  is ignored by YAMA (474-494).

## 7. Not modelled

| part | reason |
|---|---|
| rm -b | copies a string over an integer (fs:2611) and cannot get further |
| a `fork` that fails (worker.c:442), deaths of the worker's processes, the sending of the result to FileSystem | the worker's answer is the outcome of a thread of the master in `Yama`; `Worker` is about the files |
| what a reader finds in a metadata file that is half saved, rmdir of rm between the `stat` and the `fopen` of a registration, `closedir` of a string in mv | a save is one step; the other two end FileSystem at once or fail as the next line of code says |
| what `printf("%s")` prints after a block that has no terminator (1046) | `pantalla` says which block is printed and how often |
| ls, info, names longer than their buffers | read the table only; overruns have no set of outcomes to enumerate |
| accept loops, the `&new_fd` race (sockets.c:74), forks of the worker server | plan (`Servidores`) |
| other list races (`list_add` without a lock, `idsMaster++`) | handlers of `Yama` are atomic; splitting the ones that can be told apart is in the plan |
| signal handlers, metrics, formatting, configuration files, logs | no property of the system depends on them, or reading freed memory has no set of outcomes to enumerate |
| layout of packets (de/serialisation) | abstracted to the fields; where a layout is wrong (replanning, `exito`) the model has the effect |

`Planificador` keeps the loads fixed during a planning although other threads add to them;
`FsLeer` keeps the files unchanged while they are read;
`Yama` keeps the list of workers fixed; `FsAlmacenar` lets nodes leave but not join;
`FsNodos` leaves each thread its own descriptor at start.

## 8. Plan

Done: `Asignacion`, `Planificador`, `Trabajo`, `Yama`, `Worker`, `Almacenamiento`, `FsAlmacenar`,
`FsNodos`, `FsLeer`, `FsBloques`, `FsDirectorios`, and the proofs of section 5. In this order next:

1. `Servidores`: accept loops; each connection is served by exactly one thread, the premise of
   `FsNodos` and `Yama`.
2. Splitting the handlers of `Yama` (send before record, handshake), the registration of
   workers during a job, and composing `Planificador` with the loads that jobs change.
3. A second storing of the same name in `FsAlmacenar`, and reading while rm and cpblock change
   the copies.

The modules to be proved about declare no RECURSIVE operator, and their constants'
assumptions are named and evaluated by TLC in the runs.
