-------------------------------- MODULE Yama --------------------------------
(***************************************************************************)
(* YAMA's jobs: the threads that serve the masters (accion, yama.c), the   *)
(* thread that listens to FileSystem, the shared tablaDeEstados, and the   *)
(* master processes with one thread per request (master.c).  A worker is   *)
(* the outcome of those threads; planning is what Asignacion promises.     *)
(*                                                                         *)
(* A handler of YAMA is one action.  Connections deliver in order.  A      *)
(* fatal signal (a NULL dereference, SIGPIPE) ends the process it hits.    *)
(* Threads that will never do anything again (a connection retried for     *)
(* ever to a garbage address) are not represented.                         *)
(***************************************************************************)
EXTENDS Integers, Sequences, FiniteSets

CONSTANTS
  Masters,    \* master processes; each one asks for one job
  Nodos,      \* nodes, as numbers
  Caidos,     \* the nodes without a worker in listaWorkers
  NBloques,   \* blocks of a file
  Archivo,    \* Archivo[m][b]: the two nodes that hold block b of m's file
  NrosCopia,  \* the values of nroBloqueCopia, up to 2 (2 stands for more)
  Basuras,    \* what an uninitialised registroEstado.bloque may hold
  MaxFallos   \* bound: tasks dropped by workers and masters killed

Bloques == 0..(NBloques - 1)
Registrados == Nodos \ Caidos
Ninguno == 0          \* an uninitialised nodo; no node is 0
SinBloque == -1       \* an uninitialised bloque that is no block's number
SinJob == 0           \* an uninitialised idJob that is no job's number
Jobs == 0..1          \* contJobs: every master's only job is its job 1

ASSUME Parametros ==
  /\ Masters # {} /\ IsFiniteSet(Masters)
  /\ Nodos \subseteq Nat \ {0} /\ IsFiniteSet(Nodos)
  /\ Caidos \subseteq Nodos
  /\ NBloques \in Nat \ {0}
  /\ Archivo \in [Masters -> [Bloques -> (Nodos \X Nodos)]]
  /\ \A m \in Masters, b \in Bloques : Archivo[m][b][1] # Archivo[m][b][2]
  /\ NrosCopia \subseteq 0..2
  /\ Basuras \subseteq Bloques \cup {SinBloque}
  /\ MaxFallos \in Nat

Registro == [master : Masters, job : Jobs,
             etapa : {"T", "RL", "RG", "AF"},
             nodo : Nodos \cup {Ninguno}, otra : Nodos \cup {Ninguno},
             bloque : Bloques \cup {SinBloque},
             estado : {"ENPROCESO", "ERROR", "FINALIZADOOK"}]

(* What a thread of a master runs on a worker. *)
TareaT == [etapa : {"T"}, nodo : Nodos, job : Jobs, bloque : Bloques]
Tarea == TareaT \cup [etapa : {"RL", "RG"}, nodo : Nodos, job : Jobs]

(* Messages of a master to YAMA, and of YAMA to a master. *)
Aviso == [tipo : {"HANDSHAKE", "SOLICITUDT"}] \cup
         [tipo : {"FIN"}, tarea : Tarea, exito : BOOLEAN]
Solicitud ==
  [tipo : {"T"}, tareas : SUBSET TareaT] \cup
  [tipo : {"REPLAN"}, nro : NrosCopia, bloque : Bloques \cup {SinBloque}] \cup
  [tipo : {"RL"}, nodo : Nodos, job : Jobs] \cup
  [tipo : {"RG"}, encargado : Nodos, nodos : SUBSET (Nodos \cup {Ninguno}), job : Jobs] \cup
  [tipo : {"AF"}]

VARIABLES
  tabla,        \* tablaDeEstados
  carga,        \* datosWorker.cargaDeTrabajo
  tareas,       \* datosWorker.contTareasRealizadas
  contJobs,     \* master.contJobs
  listaMasters, \* the masters that shook hands
  pedidos,      \* requests forwarded to FileSystem and not answered yet
  yama,         \* "vivo" or "muerto"
  aYama,        \* aYama[m]: messages of m YAMA has not read
  bandeja,      \* bandeja[m]: messages of YAMA that m has not read
  conexion,     \* "no", "abierta", "rota" (m died) or "cerrada" (by YAMA)
  master,       \* "nuevo", "activo" or "muerto"
  hilos,        \* hilos[m][t]: threads of m running task t
  enAF,         \* the masters whose main waits for the worker of the final storage
  fallos        \* tasks dropped and masters killed so far

datosYama == <<tabla, carga, tareas>>
colaFS == <<contJobs, listaMasters, pedidos>>
procesos == <<master, hilos, enAF, fallos>>
vars == <<datosYama, colaFS, yama, aYama, bandeja, conexion, procesos>>

SinHilos == [t \in Tarea |-> 0]

Init ==
  /\ tabla = <<>>
  /\ carga = [n \in Nodos |-> 0]
  /\ tareas = [n \in Nodos |-> 0]
  /\ contJobs = [m \in Masters |-> 0]
  /\ listaMasters = {}
  /\ pedidos = <<>>
  /\ yama = "vivo"
  /\ aYama = [m \in Masters |-> <<>>]
  /\ bandeja = [m \in Masters |-> <<>>]
  /\ conexion = [m \in Masters |-> "no"]
  /\ master = [m \in Masters |-> "nuevo"]
  /\ hilos = [m \in Masters |-> SinHilos]
  /\ enAF = {}
  /\ fallos = 0

-----------------------------------------------------------------------------
(* list_find on tablaDeEstados: the first position of S. *)
Primera(S) == CHOOSE k \in S : \A j \in S : k <= j

(* EnviarDatosTipo to a master: over a connection the master broke the     *)
(* send may raise SIGPIPE, over one YAMA closed it fails unnoticed.        *)
Enviar(m, msg) ==
  /\ bandeja' = IF conexion[m] = "abierta"
                THEN [bandeja EXCEPT ![m] = Append(@, msg)] ELSE bandeja
  /\ yama' \in IF conexion[m] = "rota" THEN {"vivo", "muerto"} ELSE {"vivo"}

SinEnviar == UNCHANGED <<bandeja, yama>>

(* YAMA dereferences a pointer that is not one. *)
Morir == yama' = "muerto" /\ UNCHANGED <<datosYama, bandeja>>

(* The thread of m takes the next message. *)
Recibe(m, tipo) ==
  /\ yama = "vivo" /\ conexion[m] \in {"abierta", "rota"}
  /\ aYama[m] # <<>> /\ Head(aYama[m]).tipo = tipo
  /\ aYama' = [aYama EXCEPT ![m] = Tail(@)]

(* It is the end of a task of an etapa; nothing else of the system moves. *)
RecibeFin(m, etapa) ==
  /\ Recibe(m, "FIN")
  /\ Head(aYama[m]).tarea.etapa = etapa
  /\ UNCHANGED <<colaFS, procesos>>

(* A new record of a reduction or of the final storage: its bloque, and     *)
(* the nodo where it is not given, are left uninitialised.                  *)
Registrar(t, m, job, etapa, nodo) ==
  \E b \in Basuras :
    tabla' = Append(t, [master |-> m, job |-> job, etapa |-> etapa, nodo |-> nodo,
                        otra |-> Ninguno, bloque |-> b, estado |-> "ENPROCESO"])

(* Mutant of Marcada: every record of the block and the etapa is marked. *)
MarcadaPorBloque(k, e) ==
  [j \in DOMAIN tabla |->
     IF tabla[j].bloque = tabla[k].bloque /\ tabla[j].etapa = tabla[k].etapa
     THEN [tabla[j] EXCEPT !.estado = e] ELSE tabla[j]]

Marcada(k, e) == [tabla EXCEPT ![k].estado = e]

-----------------------------------------------------------------------------
(* A master process starts: handshake, then its request (master main). *)
Conectar(m) ==
  /\ yama = "vivo" /\ master[m] = "nuevo"
  /\ master' = [master EXCEPT ![m] = "activo"]
  /\ conexion' = [conexion EXCEPT ![m] = "abierta"]
  /\ aYama' = [aYama EXCEPT ![m] = <<[tipo |-> "HANDSHAKE"], [tipo |-> "SOLICITUDT"]>>]
  /\ UNCHANGED <<datosYama, colaFS, yama, bandeja, hilos, enAF, fallos>>

(* ESHANDSHAKE: the master enters listaMasters. *)
Handshake(m) ==
  /\ Recibe(m, "HANDSHAKE")
  /\ listaMasters' = listaMasters \cup {m}
  /\ SinEnviar
  /\ UNCHANGED <<datosYama, contJobs, pedidos, conexion, procesos>>

(* SOLICITUDTRANSFORMACION: the request goes to FileSystem with the socket. *)
SolicitudTransformacion(m) ==
  /\ Recibe(m, "SOLICITUDT")
  /\ pedidos' = Append(pedidos, m)
  /\ SinEnviar
  /\ UNCHANGED <<datosYama, contJobs, listaMasters, conexion, procesos>>

(* SOLICITUDBLOQUESYAMA: FileSystem answers with the blocks; the job is     *)
(* planned and EnviarBloquesAMaster records and sends every block at once.  *)
RecibirBloques ==
  /\ yama = "vivo" /\ pedidos # <<>>
  /\ LET m == Head(pedidos)
         job == contJobs[m] + 1
     IN \E copia \in [Bloques -> 1..2] :
          LET nodo == [b \in Bloques |-> Archivo[m][b][copia[b]]]
              otra == [b \in Bloques |-> Archivo[m][b][3 - copia[b]]]
          IN /\ m \in listaMasters /\ job \in Jobs
             /\ \A b \in Bloques : nodo[b] \in Registrados
             /\ contJobs' = [contJobs EXCEPT ![m] = job]
             /\ tabla' = tabla \o
                  [k \in 1..NBloques |->
                     [master |-> m, job |-> job, etapa |-> "T", nodo |-> nodo[k - 1],
                      otra |-> otra[k - 1], bloque |-> k - 1, estado |-> "ENPROCESO"]]
             /\ carga' = [n \in Nodos |->
                            carga[n] + Cardinality({b \in Bloques : nodo[b] = n})]
             /\ Enviar(m, [tipo |-> "T",
                           tareas |-> {[etapa |-> "T", nodo |-> nodo[b], job |-> job,
                                        bloque |-> b] : b \in Bloques}])
  /\ pedidos' = Tail(pedidos)
  /\ UNCHANGED <<tareas, listaMasters, aYama, conexion, procesos>>

(* The records FINTRANSFORMACION looks for: of any master and any etapa,    *)
(* for the code compares estado with TRANSFORMACION, which is ENPROCESO.    *)
EnProceso(b, job) ==
  {k \in DOMAIN tabla : /\ tabla[k].bloque = b
                        /\ tabla[k].estado = "ENPROCESO"
                        /\ tabla[k].job = job}

(* Mutant of DelNodo: what is still in process is filtered out. *)
DelNodoSinProceso(n, job) ==
  {k \in DOMAIN tabla : /\ tabla[k].nodo = n /\ tabla[k].etapa = "T"
                        /\ tabla[k].job = job /\ tabla[k].estado # "ENPROCESO"}

(* The transformations of a job on a node, of any master. *)
DelNodo(n, job) ==
  {k \in DOMAIN tabla : tabla[k].nodo = n /\ tabla[k].etapa = "T" /\ tabla[k].job = job}

(* Mutant of TodasOk: asked before the record is marked. *)
TodasOkAntes(t, grupo) == \A j \in grupo : tabla[j].estado = "FINALIZADOOK"

(* list_all_satisfy over a group of the records t. *)
TodasOk(t, grupo) == \A j \in grupo : t[j].estado = "FINALIZADOOK"

(* Records whose nodo is uninitialised: comparing it may be fatal. *)
SinNodo(S) == \E k \in S : tabla[k].nodo = Ninguno

-----------------------------------------------------------------------------
(* realizarRL: the reduction of a group of files on w's node is requested   *)
(* from the master that sent the news, and recorded for master r.master.    *)
RealizarRL(t, m, r, grupo) ==
  /\ Enviar(m, [tipo |-> "RL", nodo |-> r.nodo,
                job |-> IF grupo = {} THEN SinJob ELSE r.job])
  /\ Registrar(t, r.master, r.job, "RL", r.nodo)

(* FINTRANSFORMACION with success: the node's local reduction is requested   *)
(* when every transformation of its group is done.                           *)
FinTransformacionOk(m) ==
  /\ RecibeFin(m, "T") /\ Head(aYama[m]).exito
  /\ LET t == Head(aYama[m]).tarea
         S == EnProceso(t.bloque, t.job)
         k == Primera(S)
         r == tabla[k]
         grupo == DelNodo(t.nodo, t.job)
         hecha == Marcada(k, "FINALIZADOOK")
     IN \/ /\ S = {} \/ SinNodo(DOMAIN tabla)
           /\ Morir
        \/ /\ S # {} /\ r.nodo # Ninguno
           /\ tareas' = [tareas EXCEPT ![r.nodo] = @ + 1]
           /\ IF TodasOk(hecha, grupo)
              THEN RealizarRL(hecha, m, r, grupo)
              ELSE tabla' = hecha /\ SinEnviar
           /\ UNCHANGED carga
  /\ UNCHANGED conexion

(* FINTRANSFORMACION with failure, RealizarReplanificacion: the record goes  *)
(* to the node of the other copy, if that one has a worker.                  *)
FinTransformacionMal(m) ==
  /\ RecibeFin(m, "T") /\ ~Head(aYama[m]).exito
  /\ LET t == Head(aYama[m]).tarea
         S == EnProceso(t.bloque, t.job)
         k == Primera(S)
         r == tabla[k]
     IN \/ /\ \A j \in S : tabla[Primera(S)].otra = Ninguno
           /\ Morir
        \/ /\ S # {} /\ r.otra \in Registrados
           /\ \E nro \in NrosCopia :
                Enviar(m, [tipo |-> "REPLAN", nro |-> nro, bloque |-> r.bloque])
           /\ tabla' = [tabla EXCEPT ![k].etapa = "T", ![k].nodo = r.otra,
                                     ![k].otra = r.nodo]
           /\ carga' = [carga EXCEPT ![r.otra] = @ + 1]
           /\ UNCHANGED tareas
        \/ /\ S # {} /\ r.otra \notin Registrados
           /\ tabla' = Marcada(k, "ERROR")
           /\ SinEnviar
           /\ UNCHANGED <<carga, tareas>>
  /\ UNCHANGED conexion

(* Mutant of RLDe: the etapa is not compared. *)
RLDeCualquiera(n, job) ==
  {k \in DOMAIN tabla : tabla[k].nodo = n /\ tabla[k].job = job}

(* The local reductions FINREDUCCIONLOCAL looks for, of any master. *)
RLDe(n, job) ==
  {k \in DOMAIN tabla : tabla[k].nodo = n /\ tabla[k].etapa = "RL" /\ tabla[k].job = job}

(* The search passes over every record before the one it finds. *)
RLMortal(S) ==
  \A k \in S : \E j \in DOMAIN tabla : j < k /\ tabla[j].nodo = Ninguno

(* divideAndRoundUp(n, 2): the load of a global reduction of n nodes. *)
CargaDeRG(n) == (n - 1) \div 2 + 1

(* Mutant of RealizarRG: the reduction is not recorded. *)
RealizarRGSinRegistro(t, r, grupo) ==
  \E encargado \in Registrados :
    /\ \A n \in Registrados : carga[encargado] <= carga[n]
    /\ carga' = [carga EXCEPT ![encargado] = @ + CargaDeRG(Cardinality(grupo))]
    /\ Enviar(r.master, [tipo |-> "RG", encargado |-> encargado, job |-> r.job,
                         nodos |-> {t[k].nodo : k \in grupo}])
    /\ tabla' = t

(* realizarRG: on the worker with least cargaDeTrabajo of all (ties are in   *)
(* the order of listaWorkers); it is sent to the master the record names.    *)
RealizarRG(t, r, grupo) ==
  \E encargado \in Registrados :
    /\ \A n \in Registrados : carga[encargado] <= carga[n]
    /\ carga' = [carga EXCEPT ![encargado] = @ + CargaDeRG(Cardinality(grupo))]
    /\ Enviar(r.master, [tipo |-> "RG", encargado |-> encargado, job |-> r.job,
                         nodos |-> {t[k].nodo : k \in grupo}])
    /\ Registrar(t, r.master, r.job, "RG", Ninguno)

(* FINREDUCCIONLOCAL with success: the global reduction is requested when   *)
(* every local reduction requested so far is done.                          *)
FinReduccionLocalOk(m) ==
  /\ RecibeFin(m, "RL") /\ Head(aYama[m]).exito
  /\ LET t == Head(aYama[m]).tarea
         S == RLDe(t.nodo, t.job)
         k == Primera(S)
         hecha == Marcada(k, "FINALIZADOOK")
         grupo == {j \in DOMAIN tabla : tabla[j].etapa = "RL" /\ tabla[j].job = t.job}
     IN \/ RLMortal(S) /\ Morir
        \/ /\ S # {}
           /\ tareas' = [tareas EXCEPT ![t.nodo] = @ + 1]
           /\ IF TodasOk(hecha, grupo)
              THEN RealizarRG(hecha, tabla[k], grupo)
              ELSE tabla' = hecha /\ SinEnviar /\ UNCHANGED carga
  /\ UNCHANGED conexion

(* FINREDUCCIONLOCAL with failure: the job is aborted, the socket closed. *)
FinReduccionLocalMal(m) ==
  /\ RecibeFin(m, "RL") /\ ~Head(aYama[m]).exito
  /\ LET t == Head(aYama[m]).tarea
         S == RLDe(t.nodo, t.job)
     IN \/ RLMortal(S) /\ Morir /\ UNCHANGED conexion
        \/ /\ S # {}
           /\ tabla' = Marcada(Primera(S), "ERROR")
           /\ conexion' = [conexion EXCEPT ![m] = "cerrada"]
           /\ SinEnviar
           /\ UNCHANGED <<carga, tareas>>

RGDe(job) == {k \in DOMAIN tabla : tabla[k].etapa = "RG" /\ tabla[k].job = job}

(* FINREDUCCIONGLOBAL taken for a success, realizarAF: the final storage is  *)
(* requested.  exito is read with three bytes that follow it: a failure may  *)
(* be taken for a success.                                                   *)
FinReduccionGlobalOk(m) ==
  /\ RecibeFin(m, "RG")
  /\ LET t == Head(aYama[m]).tarea
         S == RGDe(t.job)
         k == Primera(S)
     IN \/ S = {} /\ Morir
        \/ /\ S # {}
           /\ tareas' = [tareas EXCEPT ![t.nodo] = @ + 1]
           /\ Enviar(tabla[k].master, [tipo |-> "AF"])
           /\ Registrar(Marcada(k, "FINALIZADOOK"), tabla[k].master, t.job, "AF", Ninguno)
           /\ UNCHANGED carga
  /\ UNCHANGED conexion

(* FINREDUCCIONGLOBAL taken for a failure: the job is aborted. *)
FinReduccionGlobalMal(m) ==
  /\ RecibeFin(m, "RG") /\ ~Head(aYama[m]).exito
  /\ LET S == RGDe(Head(aYama[m]).tarea.job)
     IN \/ S = {} /\ Morir /\ UNCHANGED conexion
        \/ /\ S # {}
           /\ tabla' = Marcada(Primera(S), "ERROR")
           /\ conexion' = [conexion EXCEPT ![m] = "cerrada"]
           /\ SinEnviar
           /\ UNCHANGED <<carga, tareas>>

(* The thread of a dead master reads the end of the connection. *)
CerrarRota(m) ==
  /\ yama = "vivo" /\ conexion[m] = "rota" /\ aYama[m] = <<>>
  /\ conexion' = [conexion EXCEPT ![m] = "cerrada"]
  /\ UNCHANGED <<datosYama, colaFS, yama, aYama, bandeja, procesos>>

-----------------------------------------------------------------------------
(* The process of m ends; what it had not read is lost. *)
Terminar(m) ==
  /\ master' = [master EXCEPT ![m] = "muerto"]
  /\ hilos' = [hilos EXCEPT ![m] = SinHilos]
  /\ bandeja' = [bandeja EXCEPT ![m] = <<>>]
  /\ conexion' = [conexion EXCEPT ![m] = IF @ = "abierta" THEN "rota" ELSE @]

MasterRecibe(m, tipo) ==
  /\ master[m] = "activo" /\ m \notin enAF
  /\ bandeja[m] # <<>> /\ Head(bandeja[m]).tipo = tipo
  /\ UNCHANGED <<datosYama, colaFS, yama, aYama>>

(* The message is handled and the loop of main goes on. *)
Atendido(m) ==
  /\ bandeja' = [bandeja EXCEPT ![m] = Tail(@)]
  /\ UNCHANGED <<master, conexion>>

NuevosHilos(m, T) ==
  hilos' = [hilos EXCEPT ![m] = [t \in Tarea |-> @[t] + IF t \in T THEN 1 ELSE 0]]

(* realizarTransformacion: a thread per block. *)
RecibirT(m) ==
  /\ MasterRecibe(m, "T")
  /\ NuevosHilos(m, Head(bandeja[m]).tareas)
  /\ Atendido(m)
  /\ UNCHANGED <<enAF, fallos>>

(* realizarTransformacion of a replanning, which carries no number of        *)
(* blocks: nroBloqueCopia is taken for it.  0 starts nothing, 1 a thread     *)
(* that retries a garbage address for ever, more reads past the message.     *)
RecibirReplan(m) ==
  /\ MasterRecibe(m, "REPLAN")
  /\ \/ Atendido(m) /\ UNCHANGED hilos
     \/ Head(bandeja[m]).nro > 1 /\ Terminar(m)
  /\ UNCHANGED <<enAF, fallos>>

(* realizarReduccionLocal: idJob is read off the first file and left         *)
(* uninitialised when there is none.                                         *)
RecibirRL(m) ==
  /\ MasterRecibe(m, "RL")
  /\ LET s == Head(bandeja[m])
     IN \E job \in IF s.job = SinJob THEN Jobs ELSE {s.job} :
          NuevosHilos(m, {[etapa |-> "RL", nodo |-> s.nodo, job |-> job]})
  /\ Atendido(m)
  /\ UNCHANGED <<enAF, fallos>>

(* realizarReduccionGlobal: it dies when the worker in charge is not one of   *)
(* the nodes to be reduced.                                                   *)
RecibirRG(m) ==
  /\ MasterRecibe(m, "RG")
  /\ LET s == Head(bandeja[m])
     IN IF s.encargado \in s.nodos
        THEN /\ NuevosHilos(m, {[etapa |-> "RG", nodo |-> s.encargado, job |-> s.job]})
             /\ Atendido(m)
        ELSE Terminar(m)
  /\ UNCHANGED <<enAF, fallos>>

(* realizarAlmacenamientoFinal, in main: the worker is asked and main waits  *)
(* for its answer.                                                           *)
RecibirAF(m) ==
  /\ MasterRecibe(m, "AF")
  /\ enAF' = enAF \cup {m}
  /\ Atendido(m)
  /\ UNCHANGED <<hilos, fallos>>

(* The worker sends the file to FileSystem and waits for an answer, which    *)
(* ESDATOS does not give: it answers the master only when its connection     *)
(* with FileSystem, or the master's with it, breaks.  Success is logged in   *)
(* either case and YAMA is not told.                                         *)
TerminarAF(m) ==
  /\ master[m] = "activo" /\ m \in enAF
  /\ fallos < MaxFallos /\ fallos' = fallos + 1
  /\ enAF' = enAF \ {m}
  /\ UNCHANGED <<datosYama, colaFS, yama, aYama, bandeja, conexion, master, hilos>>

(* accionHilo: the worker answers, or drops the connection, and YAMA is told. *)
(* Over a connection YAMA closed the send may be fatal.                       *)
TerminarHilo(m, t, exito) ==
  /\ master[m] = "activo" /\ hilos[m][t] > 0
  /\ IF exito THEN UNCHANGED fallos ELSE fallos < MaxFallos /\ fallos' = fallos + 1
  /\ IF conexion[m] = "abierta" /\ yama = "vivo"
     THEN /\ aYama' = [aYama EXCEPT ![m] = Append(@, [tipo |-> "FIN", tarea |-> t,
                                                      exito |-> exito])]
          /\ hilos' = [hilos EXCEPT ![m][t] = @ - 1]
          /\ UNCHANGED <<bandeja, conexion, master>>
     ELSE /\ \/ Terminar(m)
             \/ /\ hilos' = [hilos EXCEPT ![m][t] = @ - 1]
                /\ UNCHANGED <<bandeja, conexion, master>>
          /\ UNCHANGED aYama
  /\ UNCHANGED <<datosYama, colaFS, yama, enAF>>

(* The main loop of the master finds the connection closed and exits. *)
VerCierre(m) ==
  /\ master[m] = "activo" /\ m \notin enAF /\ bandeja[m] = <<>>
  /\ yama = "muerto" \/ conexion[m] = "cerrada"
  /\ Terminar(m)
  /\ UNCHANGED <<datosYama, colaFS, yama, aYama, enAF, fallos>>

(* The user kills a master. *)
Matar(m) ==
  /\ master[m] = "activo" /\ fallos < MaxFallos
  /\ fallos' = fallos + 1
  /\ Terminar(m)
  /\ UNCHANGED <<datosYama, colaFS, yama, aYama, enAF>>

PasoYama(m) ==
  \/ Handshake(m) \/ SolicitudTransformacion(m)
  \/ FinTransformacionOk(m) \/ FinTransformacionMal(m)
  \/ FinReduccionLocalOk(m) \/ FinReduccionLocalMal(m)
  \/ FinReduccionGlobalOk(m) \/ FinReduccionGlobalMal(m)
  \/ CerrarRota(m)

PasoMaster(m) ==
  \/ RecibirT(m) \/ RecibirReplan(m) \/ RecibirRL(m) \/ RecibirRG(m) \/ RecibirAF(m)
  \/ VerCierre(m)

Next ==
  \/ RecibirBloques
  \/ \E m \in Masters :
       \/ Conectar(m) \/ PasoYama(m) \/ PasoMaster(m) \/ TerminarAF(m) \/ Matar(m)
       \/ \E t \in Tarea, exito \in BOOLEAN : TerminarHilo(m, t, exito)

Spec == Init /\ [][Next]_vars

(* Every thread of YAMA runs, FileSystem answers, planning ends (Planificador *)
(* shows when it does), and of the threads of a master that wait for their    *)
(* workers some one gets to its end.                                          *)
FairSpec ==
  /\ Spec
  /\ WF_vars(RecibirBloques)
  /\ \A m \in Masters :
       /\ WF_vars(Conectar(m)) /\ WF_vars(PasoYama(m)) /\ WF_vars(PasoMaster(m))
       /\ WF_vars(\E t \in Tarea, exito \in BOOLEAN : TerminarHilo(m, t, exito))

-----------------------------------------------------------------------------
TypeOK ==
  /\ tabla \in Seq(Registro)
  /\ carga \in [Nodos -> Nat]
  /\ tareas \in [Nodos -> Nat]
  /\ contJobs \in [Masters -> Jobs]
  /\ listaMasters \subseteq Masters
  /\ pedidos \in Seq(Masters)
  /\ yama \in {"vivo", "muerto"}
  /\ aYama \in [Masters -> Seq(Aviso)]
  /\ bandeja \in [Masters -> Seq(Solicitud)]
  /\ conexion \in [Masters -> {"no", "abierta", "rota", "cerrada"}]
  /\ master \in [Masters -> {"nuevo", "activo", "muerto"}]
  /\ hilos \in [Masters -> [Tarea -> Nat]]
  /\ enAF \subseteq Masters
  /\ fallos \in 0..MaxFallos

(* A record is never removed nor given to another job, and a transformation *)
(* that finished well is never touched again, however its news are          *)
(* attributed (FINTRANSFORMACION, 772-802): nothing finished is replanned.  *)
TransformacionOkEsFinal ==
  [][\A k \in DOMAIN tabla :
       /\ k \in DOMAIN tabla' /\ tabla'[k].master = tabla[k].master
       /\ tabla'[k].job = tabla[k].job
       /\ tabla[k].etapa = "T" /\ tabla[k].estado = "FINALIZADOOK"
            => tabla'[k] = tabla[k]]_vars

(* The messages of E in the queues q of the masters, and the threads h that  *)
(* run a task of E.                                                          *)
Mensajes(q, E) == UNION {{m} \X {i \in DOMAIN q[m] : q[m][i] \in E} : m \in Masters}
Corriendo(h, E) == UNION {{<<m, t>>} \X (1..h[m][t]) : m \in Masters, t \in E}

(* News of the tasks of E. *)
Noticias(E) == [tipo : {"FIN"}, tarea : E, exito : BOOLEAN]

(* Threads running tasks of E and news of them not read yet, over every      *)
(* master.                                                                   *)
Pendientes(E) ==
  Cardinality(Mensajes(aYama, Noticias(E))) + Cardinality(Corriendo(hilos, E))

(* The positions in the table t of the records of R. *)
Posiciones(t, R) == {k \in DOMAIN t : t[k] \in R}

DeEtapa(etapa) == {r \in Registro : r.etapa = etapa}
TareasRG == [etapa : {"RG"}, nodo : Nodos, job : Jobs]
PedidosRG == [tipo : {"RG"}, encargado : Nodos, nodos : SUBSET (Nodos \cup {Ninguno}), job : Jobs]

TareasDe(b) == [etapa : {"T"}, nodo : Nodos, job : Jobs, bloque : {b}]
EnCurso(b) == {r \in Registro : r.etapa = "T" /\ r.bloque = b /\ r.estado = "ENPROCESO"}

(* Every transformation that is running, or whose end is not read yet, has   *)
(* a record of its block in process of its own: the list_find of 772 never   *)
(* returns NULL, whichever record each end is attributed to.                 *)
FinTConRegistro ==
  \A b \in Bloques : Pendientes(TareasDe(b)) <= Cardinality(Posiciones(tabla, EnCurso(b)))

(* Every global reduction requested ends in at most one final storage, and   *)
(* its end always finds a record (864, 699-728).                             *)
FinRGConRegistro ==
  Cardinality(Posiciones(tabla, DeEtapa("AF"))) + Cardinality(Mensajes(bandeja, PedidosRG))
    + Pendientes(TareasRG) <= Cardinality(Posiciones(tabla, DeEtapa("RG")))

(* What contTareasRealizadas counts, one by one: the tasks of each node.     *)
Realizadas(c) == UNION {{n} \X (1..c[n]) : n \in Nodos}

(* The transformations and local reductions that ended well. *)
BienHechas == {r \in DeEtapa("T") \cup DeEtapa("RL") : r.estado = "FINALIZADOOK"}

(* contTareasRealizadas, which decides where the clock starts, counts every  *)
(* task once: the transformations and local reductions that ended well and   *)
(* the final storages requested.  With one master.                           *)
TareasContadas ==
  Cardinality(Realizadas(tareas)) =
    Cardinality(Posiciones(tabla, BienHechas)) + Cardinality(Posiciones(tabla, DeEtapa("AF")))

(* With one master, the local reduction of a node is requested once, when it *)
(* has transformations and all of them have ended well, replanned ones       *)
(* included (782-788).                                                       *)
RLTrasTransformaciones ==
  [][\A k \in DOMAIN tabla' \ DOMAIN tabla :
       tabla'[k].etapa = "RL" =>
         LET DelMismo(etapa) == {j \in DOMAIN tabla' \ {k} :
                                   tabla'[j].etapa = etapa /\ tabla'[j].nodo = tabla'[k].nodo}
         IN /\ DelMismo("RL") = {} /\ DelMismo("T") # {}
            /\ \A j \in DelMismo("T") : tabla'[j].estado = "FINALIZADOOK"]_vars

(* The job as the records of t tell it: the blocks, in the order they were   *)
(* planned, the local reductions, and how many records of an etapa there are. *)
BloquesDe(t) ==
  [b \in IF t = <<>> THEN {} ELSE Bloques |-> [nodo |-> t[b + 1].nodo, estado |-> t[b + 1].estado]]
ReduccionesDe(t) ==
  {[nodo |-> t[k].nodo, estado |-> t[k].estado] : k \in Posiciones(t, DeEtapa("RL"))}
Cuantos(t, etapa) == Cardinality(Posiciones(t, DeEtapa(etapa)))

Unico == CHOOSE m \in Masters : TRUE

(* With one master, whatever the messages, the attributions and the failures *)
(* are, the table only ever goes through what Trabajo promises of a job      *)
(* (684-878): a block is carried out on one of its two nodes and its failure *)
(* is attributed to it, a node is reduced once and after its last block, and *)
(* a global reduction follows the last of the local ones and is stored once. *)
Job == INSTANCE Trabajo
         WITH Copias <- Archivo[Unico], bloque <- BloquesDe(tabla),
              reducciones <- ReduccionesDe(tabla), globales <- Cuantos(tabla, "RG"),
              almacenados <- Cuantos(tabla, "AF")
ImplementaTrabajo == Job!Spec

(* Without failures every master gets to ask for its final storage, unless   *)
(* its process dies on the way, of an encargado that is none of its nodes or *)
(* of an uninitialised field (realizarReduccionGlobal).                      *)
JobTermina ==
  [](fallos = 0) => \A m \in Masters : <>(m \in enAF \/ master[m] = "muerto")

(* worker.c:503-504: the validation of FileSystem is handled and the master  *)
(* gets a confirmation of the final storage.                                 *)
AFSeConfirma ==
  \A m \in Masters : m \in enAF ~> (m \notin enAF \/ master[m] = "muerto")

(* yama.c:798-799: a failed transformation is carried out again on the node  *)
(* of the other copy.                                                        *)
ReplanSeEjecuta ==
  \A m \in Masters, b \in Bloques :
    (bandeja[m] # <<>> /\ Head(bandeja[m]).tipo = "REPLAN" /\ Head(bandeja[m]).bloque = b)
      ~> (\/ master[m] = "muerto"
          \/ \E t \in Tarea : t.etapa = "T" /\ t.bloque = b /\ hilos[m][t] > 0)
=============================================================================
