------------------------------- MODULE FsNodos -------------------------------
(***************************************************************************)
(* Who is connected to yamafs (filesystem.c): one thread of accion for     *)
(* every connection, the registration of the datanodes, the files of an    *)
(* earlier run that make the system stable again, and what YAMA is told    *)
(* (RecibirPaqueteFilesystem, yama.c).                                     *)
(*                                                                         *)
(* A thread knows its connection by its descriptor, which the system gives *)
(* again to the next connection as soon as it is closed, and is closed     *)
(* twice.  A datanode is answered before it is known whether it is         *)
(* rejected.  estable, rechazado, yama_online, nodo_desconectado and       *)
(* nodos.bin are read and written without a mutex, by the threads and by   *)
(* the format of the console.  Of nodos.bin only the <node>Total keys are  *)
(* kept.                                                                   *)
(***************************************************************************)
EXTENDS Integers, Sequences, SequencesExt, FiniteSets, FiniteSetsExt

CONSTANTS
  Nodos,     \* datanodes
  Yama,      \* the process of YAMA
  Previos,   \* what FileSystem may find when it starts
  MaxHilos,  \* bound: connections accepted
  MaxBajas   \* bound: processes that end on their own

Procesos == Nodos \cup {Yama}
Hilos == 1..MaxHilos
Sockets == 1..Cardinality(Procesos)
Nadie == "nadie"
Nulo == "nulo"

(* limpio: started with --clean.  archivos: for every directory of          *)
(* metadata/archivos, the nodes that hold each block of its first file, and *)
(* whether it has more files.                                               *)
ASSUME Previas ==
  /\ Previos \subseteq [limpio : BOOLEAN, bitmaps : SUBSET Nodos,
                        archivos : Seq([bloques : SUBSET SUBSET Nodos, mas : BOOLEAN])]
  /\ \A p \in Previos : p.limpio => p.bitmaps = {} /\ p.archivos = <<>>

(* YAMA is not a datanode, and nobody is a process. *)
ASSUME Distintos ==
  /\ IsFiniteSet(Nodos) /\ Yama \notin Nodos /\ Nadie \notin Procesos
  /\ MaxHilos \in Nat

Mensaje == {"HANDSHAKE", "IDENTIFICACION", "FIN"}

(* A thread: where it is in accion, its descriptor, the node it checks or    *)
(* registers and nodos.bin as it read it.                                    *)
Hilo == [pc : {"no", "lee", "compara", "lista", "guarda", "agrega", "verifica", "cierra",
               "quita", "saca", "fin"},
         s : {0} \cup Sockets, nodo : Nodos \cup {Nulo}, foto : SUBSET Nodos]

(* The console's format: the bitmaps it has not come to, and nodos.bin as it *)
(* read it.                                                                  *)
Consola == [pc : {"libre", "carga", "guarda"}, faltan : SUBSET Nodos, foto : SUBSET Nodos]

VARIABLES
  fs,          \* "vivo" or "muerto"
  formateado, estable, rechazado, sin_datanodes, yama_online,
  anteriores,  \* datanodes_anteriores, or Nulo
  socketYAMA,  \* 0 at first
  desconectado,\* nodo_desconectado is not NULL
  datanodes,   \* the list of info_datanode
  mutex,       \* mutex_datanodes is taken
  bitmaps,     \* the nodes with a file in metadata/bitmaps
  totales,     \* the nodes with a Total in nodos.bin
  archivos,    \* metadata/archivos
  consola,     \* the thread of main
  hilo,        \* the threads of accion
  proc,        \* descriptor of each process; 0: not running
  dueno,       \* dueno[s]: the process at the other end of descriptor s
  entra,       \* entra[s]: what it sent and was not read
  bajas,       \* how many ended on their own
  workers,     \* listaWorkers of YAMA
  indiceWorker,
  carrera,     \* history: a datanode was registering while YAMA shook hands
  choque,      \* history: nodos.bin was written over, or a node twice in the list
  comparte,    \* history: a thread went on with a descriptor that was another's by then
  basura,      \* history: the -1 that was in rv kept the system from being stable
  colados      \* history: nodes that a second thread of their descriptor let in

marcas == <<formateado, estable, rechazado, sin_datanodes, yama_online, anteriores>>
nodos == <<datanodes, mutex, bitmaps, totales>>
conexiones == <<proc, dueno, entra, bajas>>
yama == <<workers, indiceWorker>>
metadata == <<archivos, consola>>
historia == <<carrera, choque, comparte, basura, colados>>
vars == <<fs, marcas, socketYAMA, desconectado, nodos, metadata, hilo, conexiones, yama,
          historia>>

SinOrden == [pc |-> "libre", faltan |-> {}, foto |-> {}]
Libre == [pc |-> "no", s |-> 0, nodo |-> Nulo, foto |-> {}]

(* main: with bitmaps of an earlier run the system is formatted, not stable. *)
Init ==
  /\ fs = "vivo"
  /\ \E p \in Previos :
       /\ anteriores = IF p.limpio THEN {Nulo} ELSE p.bitmaps
       /\ formateado = (p.bitmaps # {})
       /\ bitmaps = p.bitmaps
       /\ archivos = p.archivos
  /\ estable = FALSE /\ rechazado = FALSE /\ sin_datanodes = TRUE /\ yama_online = FALSE
  /\ socketYAMA = 0 /\ desconectado = FALSE
  /\ datanodes = <<>> /\ mutex = FALSE /\ totales = {}
  /\ hilo = [t \in Hilos |-> Libre]
  /\ proc = [p \in Procesos |-> 0]
  /\ dueno = [s \in Sockets |-> Nadie]
  /\ entra = [s \in Sockets |-> <<>>]
  /\ workers = <<>> /\ indiceWorker = 0
  /\ carrera = FALSE /\ choque = FALSE /\ bajas = 0 /\ comparte = FALSE
  /\ basura = FALSE /\ colados = {} /\ consola = SinOrden

-----------------------------------------------------------------------------
(* What YAMA knew ends with its process. *)
Olvidar == workers' = <<>> /\ indiceWorker' = 0

(* The descriptor is closed; the process at its other end reads that and     *)
(* ends (YAMA with SIGKILL).                                                 *)
Cortar(s) ==
  /\ dueno' = [dueno EXCEPT ![s] = Nadie]
  /\ entra' = [entra EXCEPT ![s] = <<>>]
  /\ proc' = [p \in Procesos |-> IF proc[p] = s THEN 0 ELSE proc[p]]
  /\ IF proc[Yama] = s THEN Olvidar ELSE UNCHANGED yama
  /\ UNCHANGED bajas

Ir(t, pc) == hilo' = [hilo EXCEPT ![t].pc = pc]
Paso(t, pc) == fs = "vivo" /\ hilo[t].pc = pc

(* The process ends, with everything but its files. *)
Morir ==
  /\ fs' = "muerto"
  /\ datanodes' = <<>> /\ mutex' = FALSE /\ socketYAMA' = 0 /\ desconectado' = FALSE
  /\ hilo' = [t \in Hilos |-> Libre]
  /\ proc' = [p \in Procesos |-> 0]
  /\ dueno' = [s \in Sockets |-> Nadie]
  /\ entra' = [s \in Sockets |-> <<>>]
  /\ consola' = SinOrden
  /\ Olvidar
  /\ UNCHANGED <<marcas, bitmaps, totales, archivos, bajas, historia>>

(* Mutants of IndiceTrasLista: indiceWorker is not set; it is the last index. *)
IndiceTrasListaIgual(n) == indiceWorker
IndiceTrasListaUltimo(n) == n - 1

IndiceTrasLista(n) == n

(* yama.c, NUEVOWORKER and LISTAWORKERS. *)
NuevoWorker(n) ==
  /\ workers' = Append(workers, [nodo |-> n, indice |-> indiceWorker])
  /\ indiceWorker' = indiceWorker + 1
ListaWorkers ==
  /\ workers' = workers \o [i \in DOMAIN datanodes |->
                             [nodo |-> datanodes[i].nodo, indice |-> i - 1]]
  /\ indiceWorker' = IndiceTrasLista(Len(datanodes))

(* Sending over socketYAMA; YAMA receives in order.  Once it is gone, it may *)
(* be fatal, and whoever got the descriptor since ignores the message.       *)
SePuedeEnviar == socketYAMA # 0 /\ dueno[socketYAMA] = Yama
YamaSeFue == SePuedeEnviar /\ entra[socketYAMA] # <<>> /\ Last(entra[socketYAMA]) = "FIN"
Enviar(recibir) == IF SePuedeEnviar /\ ~YamaSeFue THEN recibir ELSE UNCHANGED yama

Registrando(t) == hilo[t].pc \in {"guarda", "agrega"}
Sacando(t) == hilo[t].pc \in {"quita", "saca"}
YamaSaluda == \E t \in Hilos : hilo[t].pc = "lista"

(* accept: a new thread, on the lowest descriptor that is free.  An end of   *)
(* the connection of an earlier process may not have been read yet.          *)
Conectar(p) ==
  /\ fs = "vivo" /\ proc[p] = 0
  /\ \E s \in Sockets, t \in Hilos :
       /\ dueno[s] = Nadie /\ \A x \in Sockets : dueno[x] = Nadie => s <= x
       /\ hilo[t].pc = "no" /\ \A u \in Hilos : hilo[u].pc = "no" => t <= u
       /\ dueno' = [dueno EXCEPT ![s] = p]
       /\ entra' = [entra EXCEPT ![s] = <<"HANDSHAKE">>]
       /\ proc' = [proc EXCEPT ![p] = s]
       /\ hilo' = [hilo EXCEPT ![t] = [Libre EXCEPT !.pc = "lee", !.s = s]]
       /\ comparte' = (comparte \/ \E u \in Hilos : hilo[u].s = s /\ ~Sacando(u))
  /\ UNCHANGED <<fs, marcas, socketYAMA, desconectado, nodos, metadata, bajas, yama, carrera,
                 choque, basura, colados>>

(* The process ends; a datanode may not have come to identify itself.        *)
Terminar(p) ==
  /\ fs = "vivo" /\ proc[p] > 0 /\ bajas < MaxBajas
  /\ bajas' = bajas + 1
  /\ \/ entra' = [entra EXCEPT ![proc[p]] = Append(@, "FIN")]
     \/ /\ entra[proc[p]] = <<"IDENTIFICACION">>
        /\ entra' = [entra EXCEPT ![proc[p]] = <<"FIN">>]
  /\ proc' = [proc EXCEPT ![p] = 0]
  /\ IF p = Yama THEN Olvidar ELSE UNCHANGED yama
  /\ UNCHANGED <<fs, marcas, socketYAMA, desconectado, nodos, metadata, hilo, dueno, historia>>

-----------------------------------------------------------------------------
Leer(t, m) ==
  /\ Paso(t, "lee")
  /\ entra[hilo[t].s] # <<>> /\ Head(entra[hilo[t].s]) = m

(* Mutant of SeRechaza: a formatted system only rejects while not stable. *)
SeRechazaInestable(n) ==
  IF anteriores = {} THEN formateado ELSE ~estable /\ n \notin anteriores

(* The three reasons to reject a datanode. *)
SeRechaza(n) ==
  IF anteriores = {} THEN formateado ELSE (formateado \/ ~estable) /\ n \notin anteriores

(* ESHANDSHAKE of a datanode: it is answered as soon as it is read, and the  *)
(* datanode identifies itself at once, if it is still there...               *)
HandshakeNodo(t) ==
  /\ Leer(t, "HANDSHAKE")
  /\ LET s == hilo[t].s
     IN /\ dueno[s] \in Nodos
        /\ entra' = [entra EXCEPT ![s] = IF Tail(@) = <<>> THEN <<"IDENTIFICACION">>
                                         ELSE Tail(@)]
        /\ hilo' = [hilo EXCEPT ![t].pc = "compara", ![t].nodo = dueno[s]]
  /\ UNCHANGED <<fs, marcas, socketYAMA, desconectado, nodos, metadata, proc, dueno, bajas,
                 yama, historia>>

(* ... and then looked for.  After --clean datanodes_anteriores is NULL.     *)
(* The descriptor is closed on who is rejected, but the thread goes on       *)
(* reading it.                                                               *)
Comparar(t) ==
  /\ Paso(t, "compara")
  /\ LET sigue == hilo' = [hilo EXCEPT ![t].pc = "lee", ![t].nodo = Nulo]
     IN \/ anteriores = {Nulo} /\ Morir
        \/ /\ anteriores # {Nulo} /\ SeRechaza(hilo[t].nodo)
           /\ rechazado' = TRUE
           /\ Cortar(hilo[t].s)
           /\ sigue
           /\ UNCHANGED <<fs, formateado, estable, sin_datanodes, yama_online, anteriores,
                          socketYAMA, desconectado, nodos, metadata, historia>>
        \/ /\ anteriores # {Nulo} /\ ~SeRechaza(hilo[t].nodo)
           /\ rechazado' = FALSE
           /\ sigue
           /\ UNCHANGED <<fs, formateado, estable, sin_datanodes, yama_online, anteriores,
                          socketYAMA, desconectado, nodos, metadata, conexiones, yama,
                          historia>>

(* YAMA: rejected while the system is not stable, and the thread leaves its  *)
(* loop; else the list of workers is sent in a second step.                  *)
HandshakeYama(t) ==
  /\ Leer(t, "HANDSHAKE")
  /\ LET s == hilo[t].s
     IN /\ dueno[s] = Yama
        /\ socketYAMA' = s
        /\ IF estable
           THEN /\ yama_online' = TRUE
                /\ entra' = [entra EXCEPT ![s] = Tail(@)]
                /\ Ir(t, "lista")
                /\ carrera' = (carrera \/ \E u \in Hilos : Registrando(u))
                /\ UNCHANGED <<rechazado, proc, dueno, bajas, yama>>
           ELSE /\ rechazado' = TRUE
                /\ Cortar(s)
                /\ Ir(t, "cierra")
                /\ UNCHANGED <<yama_online, carrera>>
  /\ UNCHANGED <<fs, formateado, estable, sin_datanodes, anteriores, desconectado, nodos,
                 metadata, choque, comparte, basura, colados>>

(* LISTAWORKERS, under mutex_datanodes. *)
EnviarLista(t) ==
  /\ Paso(t, "lista") /\ ~mutex
  /\ \/ YamaSeFue /\ Morir
     \/ /\ Enviar(ListaWorkers)
        /\ Ir(t, "lee")
        /\ UNCHANGED <<fs, marcas, socketYAMA, desconectado, nodos, metadata, conexiones,
                       historia>>

(* Another thread of this descriptor answered the node and did not look for  *)
(* it yet.                                                                   *)
OtroCompara(t) ==
  \E u \in Hilos : /\ hilo[u].pc = "compara" /\ hilo[u].s = hilo[t].s
                   /\ hilo[u].nodo = dueno[hilo[t].s]

(* IDENTIFICACIONDATANODE: YAMA is told first, if it ever shook hands; then   *)
(* the bitmap is there, and actualizar_nodos_bin loads nodos.bin...  Nothing *)
(* is looked up: who sent it is taken for a node that was not rejected.      *)
Identificacion(t) ==
  /\ Leer(t, "IDENTIFICACION")
  /\ LET s == hilo[t].s
     IN \/ yama_online /\ YamaSeFue /\ Morir
        \/ /\ IF yama_online THEN Enviar(NuevoWorker(dueno[s])) ELSE UNCHANGED yama
           /\ entra' = [entra EXCEPT ![s] = Tail(@)]
           /\ bitmaps' = bitmaps \cup {dueno[s]}
           /\ sin_datanodes' = FALSE
           /\ hilo' = [hilo EXCEPT ![t].pc = "guarda", ![t].nodo = dueno[s],
                                   ![t].foto = totales]
           /\ carrera' = (carrera \/ YamaSaluda)
           /\ colados' = IF OtroCompara(t) THEN colados \cup {dueno[s]} ELSE colados
           /\ UNCHANGED <<fs, formateado, estable, rechazado, yama_online, anteriores,
                          socketYAMA, desconectado, datanodes, mutex, totales, metadata,
                          proc, dueno, bajas, choque, comparte, basura>>

(* Mutant of ConTotal: the file is written anew. *)
ConTotalNuevo(foto, n) == {n}

ConTotal(foto, n) == foto \cup {n}

(* ... and saves it with the keys of the node. *)
GuardarNodosBin(t) ==
  /\ Paso(t, "guarda")
  /\ totales' = ConTotal(hilo[t].foto, hilo[t].nodo)
  /\ choque' = (choque \/ totales # hilo[t].foto)
  /\ Ir(t, "agrega")
  /\ UNCHANGED <<fs, marcas, socketYAMA, desconectado, datanodes, mutex, bitmaps, metadata,
                 conexiones, yama, carrera, comparte, basura, colados>>

(* Mutant of ListAdd: the mutex is not released. *)
ListAddSinSoltar(d) == datanodes' = Append(datanodes, d) /\ mutex' = TRUE

ListAdd(d) == datanodes' = Append(datanodes, d) /\ UNCHANGED mutex

(* list_add, under mutex_datanodes. *)
AgregarDatanode(t) ==
  /\ Paso(t, "agrega") /\ ~mutex
  /\ ListAdd([nodo |-> hilo[t].nodo, socket |-> hilo[t].s])
  /\ choque' = (choque \/ \E i \in DOMAIN datanodes : datanodes[i].nodo = hilo[t].nodo)
  /\ hilo' = [hilo EXCEPT ![t].pc = "verifica", ![t].nodo = Nulo, ![t].foto = {}]
  /\ UNCHANGED <<fs, marcas, socketYAMA, desconectado, bitmaps, totales, metadata, conexiones,
                 yama, carrera, comparte, basura, colados>>

Conectados == {datanodes[i].nodo : i \in DOMAIN datanodes}

(* Some node connected holds a copy of each block. *)
Disponible(dir) == \A copias \in dir.bloques : copias \cap Conectados # {}

(* verificar_estado: a directory at a time, until a file without a block is  *)
(* found.  The path of the second file of a directory is appended to that of *)
(* the first one: it does not exist and is dereferenced.  Without earlier    *)
(* nodes what it returns is the 0 of list_size.                              *)
Detiene(i) == ~Disponible(archivos[i]) \/ archivos[i].mas
VerificarEstado ==
  LET D == {i \in DOMAIN archivos : Detiene(i)}
  IN IF anteriores = {} THEN "0"
     ELSE IF D = {} THEN "1"
     ELSE IF Disponible(archivos[Min(D)]) THEN "muere" ELSE "-1"

(* In every directory the blocks are there: the system becomes stable.  rv   *)
(* is not initialised and may start at -1, which stops at the first one.     *)
Verificar(t) ==
  /\ Paso(t, "verifica")
  /\ \/ VerificarEstado = "muere" /\ Morir
     \/ /\ VerificarEstado # "muere"
        /\ estable' = (estable \/ VerificarEstado = "1")
        /\ rechazado' = (rechazado /\ (estable \/ VerificarEstado # "1"))
        /\ Ir(t, "lee")
        /\ UNCHANGED <<fs, formateado, sin_datanodes, yama_online, anteriores, socketYAMA,
                       desconectado, nodos, metadata, conexiones, yama, historia>>
VerificarBasura(t) ==
  /\ Paso(t, "verifica") /\ anteriores # {}
  /\ Ir(t, "lee")
  /\ basura' = (basura \/ ~estable)
  /\ UNCHANGED <<fs, marcas, socketYAMA, desconectado, nodos, metadata, conexiones, yama,
                 carrera, choque, comparte, colados>>

-----------------------------------------------------------------------------
(* recv fails or returns 0: RecibirDatos closes the descriptor. *)
FinDeConexion(t) ==
  /\ Paso(t, "lee")
  /\ LET s == hilo[t].s
     IN /\ dueno[s] = Nadie \/ (entra[s] # <<>> /\ Head(entra[s]) = "FIN")
        /\ Cortar(s)
  /\ Ir(t, "cierra")
  /\ UNCHANGED <<fs, marcas, socketYAMA, desconectado, nodos, metadata, historia>>

ConSocket(s) == {i \in DOMAIN datanodes : datanodes[i].socket = s}

(* accion closes it again, whoever has it by now... *)
Cerrar(t) ==
  /\ Paso(t, "cierra")
  /\ Cortar(hilo[t].s)
  /\ Ir(t, "quita")
  /\ UNCHANGED <<fs, marcas, socketYAMA, desconectado, nodos, metadata, historia>>

(* ... and sacar_datanode looks for the nodes with that socket, under        *)
(* mutex_datanodes: eliminar_ea_nodos loads nodos.bin...                     *)
Sacar(t) ==
  /\ Paso(t, "quita") /\ ~mutex
  /\ mutex' = TRUE
  /\ hilo' = [hilo EXCEPT ![t].pc = "saca", ![t].foto = totales]
  /\ UNCHANGED <<fs, marcas, socketYAMA, desconectado, datanodes, bitmaps, totales, metadata,
                 conexiones, yama, historia>>

(* The elements of datanodes at the positions I, in their order. *)
Quedan(I) ==
  \E f \in [1..Cardinality(I) -> I] :
    /\ \A i, j \in DOMAIN f : i < j => f[i] < f[j]
    /\ datanodes' = [i \in DOMAIN f |-> datanodes[f[i]]]

(* Mutant of SinSocket: the filter is the other way round. *)
ConEseSocket(s) == Quedan(ConSocket(s))

SinSocket(s) == Quedan(DOMAIN datanodes \ ConSocket(s))

(* The nodes at I leave nodos.bin, where others are being written or remain. *)
Choca(t, I) ==
  /\ I # {}
  /\ \/ totales # hilo[t].foto
     \/ \E i \in I :
          \/ \E j \in DOMAIN datanodes \ I : datanodes[j].nodo = datanodes[i].nodo
          \/ \E u \in Hilos : Registrando(u) /\ hilo[u].nodo = datanodes[i].nodo

(* ... and saves it without them.  Then YAMA is sent NODODESCONECTADO, which  *)
(* it ignores, unless rechazado says otherwise: nodo_desconectado is NULL    *)
(* until some datanode leaves, and strlen reads it.                          *)
Eliminar(t) ==
  LET I == ConSocket(hilo[t].s)
      hay == desconectado \/ I # {}
  IN /\ Paso(t, "saca")
     /\ \/ ~rechazado /\ (~hay \/ YamaSeFue) /\ Morir
        \/ /\ rechazado \/ hay
           /\ SinSocket(hilo[t].s)
           /\ desconectado' = hay
           /\ totales' = IF I = {} THEN totales
                         ELSE hilo[t].foto \ {datanodes[i].nodo : i \in I}
           /\ choque' = (choque \/ Choca(t, I))
           /\ mutex' = FALSE
           /\ hilo' = [hilo EXCEPT ![t] = [Libre EXCEPT !.pc = "fin"]]
           /\ UNCHANGED <<fs, marcas, socketYAMA, bitmaps, metadata, conexiones, yama,
                          carrera, comparte, basura, colados>>

(* Bound: what is formatted, stable and empty is not formatted again.        *)
PorFormatear == ~(formateado /\ estable /\ archivos = <<>>)

(* The console's format: the files go first, and if some datanode ever came  *)
(* it goes over the bitmaps...                                               *)
Formatear ==
  /\ fs = "vivo" /\ consola.pc = "libre" /\ PorFormatear
  /\ archivos' = <<>>
  /\ consola' = [SinOrden EXCEPT !.pc = "carga", !.faltan = IF sin_datanodes THEN {} ELSE bitmaps]
  /\ UNCHANGED <<fs, marcas, socketYAMA, desconectado, nodos, hilo, conexiones, yama, historia>>

(* ... for each one nodos.bin is loaded, without a mutex; a Total that is    *)
(* not there is dereferenced...                                              *)
FormatearCarga ==
  /\ fs = "vivo" /\ consola.pc = "carga"
  /\ \E n \in consola.faltan :
       \/ n \notin totales /\ Morir
       \/ /\ n \in totales
          /\ consola' = [pc |-> "guarda", faltan |-> consola.faltan \ {n}, foto |-> totales]
          /\ UNCHANGED <<fs, marcas, socketYAMA, desconectado, nodos, archivos, hilo,
                         conexiones, yama, historia>>

(* ... and saved, with what the Total was...                                 *)
FormatearGuarda ==
  /\ fs = "vivo" /\ consola.pc = "guarda"
  /\ totales' = consola.foto
  /\ choque' = (choque \/ totales # consola.foto)
  /\ consola' = [consola EXCEPT !.pc = "carga", !.foto = {}]
  /\ UNCHANGED <<fs, marcas, socketYAMA, desconectado, datanodes, mutex, bitmaps, archivos,
                 hilo, conexiones, yama, carrera, comparte, basura, colados>>

(* ... and in the end the system is formatted and stable.                    *)
FormatearTermina ==
  /\ fs = "vivo" /\ consola.pc = "carga" /\ consola.faltan = {}
  /\ consola' = SinOrden
  /\ formateado' = TRUE /\ estable' = TRUE
  /\ UNCHANGED <<fs, rechazado, sin_datanodes, yama_online, anteriores, socketYAMA,
                 desconectado, nodos, archivos, hilo, conexiones, yama, historia>>

-----------------------------------------------------------------------------
PasoHilo(t) ==
  \/ HandshakeNodo(t) \/ Comparar(t) \/ HandshakeYama(t) \/ EnviarLista(t)
  \/ Identificacion(t) \/ GuardarNodosBin(t) \/ AgregarDatanode(t)
  \/ Verificar(t) \/ VerificarBasura(t)
  \/ FinDeConexion(t) \/ Cerrar(t) \/ Sacar(t) \/ Eliminar(t)

PasoConsola == Formatear \/ FormatearCarga \/ FormatearGuarda \/ FormatearTermina

Next ==
  \/ \E t \in Hilos : PasoHilo(t)
  \/ \E p \in Procesos : Conectar(p) \/ Terminar(p)
  \/ PasoConsola

Spec == Init /\ [][Next]_vars

(* The datanodes are started, and every thread of FileSystem runs. *)
FairSpec ==
  /\ Spec
  /\ \A n \in Nodos : WF_vars(Conectar(n))
  /\ \A t \in Hilos : WF_vars(PasoHilo(t))

-----------------------------------------------------------------------------
TiposMarcas ==
  /\ fs \in {"vivo", "muerto"}
  /\ formateado \in BOOLEAN /\ estable \in BOOLEAN /\ rechazado \in BOOLEAN
  /\ sin_datanodes \in BOOLEAN /\ yama_online \in BOOLEAN
  /\ anteriores \subseteq Nodos \cup {Nulo}
  /\ socketYAMA \in {0} \cup Sockets
  /\ desconectado \in BOOLEAN
TiposNodos ==
  /\ datanodes \in Seq([nodo : Nodos, socket : Sockets])
  /\ mutex \in BOOLEAN
  /\ bitmaps \subseteq Nodos /\ totales \subseteq Nodos
  /\ consola \in Consola
TiposConexiones ==
  /\ hilo \in [Hilos -> Hilo]
  /\ proc \in [Procesos -> {0} \cup Sockets]
  /\ dueno \in [Sockets -> Procesos \cup {Nadie}]
  /\ entra \in [Sockets -> Seq(Mensaje)]
TiposYama ==
  workers \in Seq([nodo : Nodos, indice : Nat]) /\ indiceWorker \in Nat

TypeOK == TiposMarcas /\ TiposNodos /\ TiposConexiones /\ TiposYama

(* Some connection was closed: there were more of them than there are. *)
Cierre == Cardinality({t \in Hilos : hilo[t].pc # "no"})
            > Cardinality({p \in Procesos : proc[p] > 0})

(* A system that was formatted in an earlier run never has a node of which   *)
(* there was no bitmap (1258-1281), though a rejected datanode was answered  *)
(* and identified itself before it was looked for, and its thread goes on    *)
(* reading a descriptor that may be another's.  The only way in is that      *)
(* other thread: it takes the identification before the one that answered    *)
(* has looked for the node, and nobody looks for it then.                    *)
SoloConocidos ==
  /\ \A i \in DOMAIN datanodes : anteriores # {} => datanodes[i].nodo \in anteriores \cup colados
  /\ colados # {} => comparte

(* Unless a descriptor was given to a new connection while the thread of an  *)
(* earlier one was still going to read or close it, the socket of a          *)
(* registered node leads to that node or is closed; it leads to another one  *)
(* only until the thread that closed it removes the node (1430-1431).        *)
SocketPropio ==
  ~comparte => \A i \in DOMAIN datanodes :
    LET d == datanodes[i]
    IN \/ dueno[d.socket] \in {d.nodo, Nadie}
       \/ \E t \in Hilos : hilo[t].s = d.socket /\ Sacando(t)

(* Every registered node has its Total in nodos.bin, where enviar_bloque and *)
(* format look for it, unless two threads wrote the file at once or a node   *)
(* came back before its old connection was removed.                          *)
TotalesCompletos == fs = "vivo" /\ ~choque => Conectados \subseteq totales

(* While nobody leaves and no datanode registers during YAMA's handshake,    *)
(* listaWorkers ends up with every registered node, once, at the position    *)
(* its indice says: what the planner takes for granted (yama.c 429-473).     *)
YamaAlDia ==
  ~Cierre /\ ~carrera /\ yama_online /\ ~YamaSaluda =>
    /\ \A i \in DOMAIN workers : workers[i].indice = i - 1
    /\ \A i, j \in DOMAIN workers : workers[i].nodo = workers[j].nodo => i = j
    /\ Conectados \subseteq {workers[i].nodo : i \in DOMAIN workers}

(* When every node holds on, a system with files of an earlier run becomes   *)
(* stable without the console, or dies of a directory with two files, as     *)
(* long as rv does not start at -1: the last node that registers looks at    *)
(* all of them, in whatever order they came.                                 *)
EstableLlega ==
  anteriores # {} /\ anteriores # {Nulo} =>
    ([](~Cierre /\ ~basura) => <>(estable \/ fs = "muerto"))
=============================================================================
