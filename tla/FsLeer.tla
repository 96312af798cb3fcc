-------------------------------- MODULE FsLeer --------------------------------
(***************************************************************************)
(* Reading files of yamafs (filesystem.c): the commands md5, cat and cpto  *)
(* ask the datanodes for the blocks of a file one at a time                *)
(* (solicitar_bloques, solicitar_bloques_cpto), and the thread of each     *)
(* datanode handles the answer (RESPUESTASOLICITUD, ...CPTO).              *)
(*                                                                         *)
(* The console takes mutex_md5 or mutex_cpto before it asks for a block    *)
(* and the thread that handles the answer releases it.  Only md5 waits for *)
(* the last answer.  Files do not change here (FsBloques does that); an    *)
(* offset is counted in blocks.                                            *)
(***************************************************************************)
EXTENDS Integers, Sequences, FiniteSets, FiniteSetsExt

CONSTANTS
  Nodos,        \* datanodes
  Total,        \* blocks of a data.bin
  Archivos,     \* files
  Copias,       \* Copias[a][i][k]: copy k of block i of a, <<node, number>> or Sin
  Rutas,        \* destinations of cpto
  Otra,         \* a path nobody asked for, read from memory that was freed
  Comandos,     \* what may be typed: [op, a, ruta]
  MaxComandos,  \* bound: commands of the console
  MaxFallos     \* bound: deaths of datanodes

Ops == {"md5", "cat", "cpto"}
Sin == <<>>
Nada == Sin
Nadie == "nadie"
Cantidad(a) == Cardinality(DOMAIN Copias[a])
MaxBloques == Max({Cantidad(a) : a \in Archivos})
Fds == 1..Cardinality(Nodos)
Lugares == (Nodos \X (0..(Total - 1))) \cup {Sin}

(* What a file of metadata says: the copies of different blocks are in       *)
(* different places (FsAlmacenar, FsBloques).                                *)
ASSUME Instancia ==
  /\ IsFiniteSet(Nodos) /\ Nadie \notin Nodos
  /\ IsFiniteSet(Archivos)
  /\ Total \in Nat \ {0} /\ MaxComandos \in Nat /\ MaxFallos \in Nat
  /\ Archivos # {} /\ Otra \notin Rutas
  /\ Comandos \subseteq [op : Ops, a : Archivos, ruta : Rutas \cup {Otra}]
  /\ \A a \in Archivos :
       /\ Cantidad(a) \in Nat \ {0}
       /\ Copias[a] \in [0..(Cantidad(a) - 1) -> [0..2 -> Lugares]]
  /\ \A a, b \in Archivos : \A i \in DOMAIN Copias[a], j \in DOMAIN Copias[b] : \A k, l \in 0..2 :
       Copias[a][i][k] = Copias[b][j][l] /\ Copias[a][i][k] # Sin => a = b /\ i = j

VARIABLES
  consola,     \* the command the console is at
  hechos,      \* commands started
  foto,        \* disponibilidad_datanodes: the nodes connected at the start
  cuenta,      \* their cantidad: blocks asked of each in this command
  mutexMd5,    \* mutex_md5 is locked
  mutexCpto,   \* mutex_cpto is locked
  ordenMd5,    \* mutex_orden_md5 is free
  imprime,     \* the sockets whose thread prints with mutex_respuesta_solicitud_cpto
  temporal,    \* the file temporal_md5, or Nada
  anterior,    \* anterior_md5 and anterior_cpto
  ruta,        \* ruta_a_guardar, and whether it was freed
  destino,     \* the files at the destinations, or Nada
  socket,      \* info_datanode.socket of the nodes in datanodes, or 0
  quien,       \* the node at the other end of each socket, or Nadie
  viva,        \* the sockets whose other end is up
  aNodo,       \* requests a datanode has not read
  aFS,         \* answers FileSystem has not read
  fs,          \* "vivo" or "muerto"
  fallos,      \* deaths of datanodes
  suma,        \* history: the file of the last md5 and what was summed
  pantalla,    \* history: the last block printed by cat, and how many times
  cptos,       \* history: the copies asked for, <<destination, file>>
  raro         \* history: what went wrong and was not noticed

mutexes == <<mutexMd5, mutexCpto, ordenMd5, imprime>>
archivos == <<temporal, anterior, destino>>
red == <<socket, quien, viva, aNodo, aFS>>
historia == <<suma, pantalla, cptos, raro>>
vars == <<consola, hechos, foto, cuenta, mutexes, archivos, ruta, red, fs, fallos, historia>>

Bloques(a) == [i \in 0..(Cantidad(a) - 1) |-> <<a, i>>]
Libre == [pc |-> "libre"]
SinContar == [n \in Nodos |-> 0]

Init ==
  /\ consola = Libre /\ hechos = 0 /\ foto = {} /\ cuenta = SinContar
  /\ mutexMd5 = FALSE /\ mutexCpto = FALSE /\ ordenMd5 = FALSE /\ imprime = {}
  /\ temporal = Nada /\ anterior = [md5 |-> 0, cpto |-> 0]
  /\ ruta = [a |-> Otra, liberada |-> TRUE]
  /\ destino = [r \in Rutas \cup {Otra} |-> [a \in Archivos |-> Nada]]
  /\ quien = CHOOSE q \in [Fds -> Nodos] : \A n \in Nodos : \E f \in Fds : q[f] = n
  /\ socket = [n \in Nodos |-> CHOOSE f \in Fds : quien[f] = n]
  /\ viva = Fds
  /\ aNodo = [f \in Fds |-> <<>>] /\ aFS = [f \in Fds |-> <<>>]
  /\ fs = "vivo" /\ fallos = 0
  /\ suma = Nada /\ pantalla = [a |-> Nada, orden |-> 0, i |-> 0, falta |-> 1, dato |-> Nada, veces |-> 0]
  /\ cptos = <<>> /\ raro = {}

-----------------------------------------------------------------------------
(* What the blocks of data.bin hold: the block whose copy is there. *)
EsCopia(n, j, a, i) == \E k \in 0..2 : Copias[a][i][k] = <<n, j>>
Contenido(n, j) ==
  IF \E a \in Archivos : \E i \in DOMAIN Copias[a] : EsCopia(n, j, a, i)
  THEN CHOOSE d \in UNION {{<<a, i>> : i \in DOMAIN Copias[a]} : a \in Archivos} :
         EsCopia(n, j, d[1], d[2])
  ELSE Nada

Conectados == {n \in Nodos : socket[n] # 0}
Morir == fs' = "muerto" /\ UNCHANGED <<consola, hechos, foto, cuenta, mutexes, archivos, ruta,
                                       red, fallos, historia>>

(* Mutant of Contados: the counts of the last command are kept. *)
ContadosDeAntes == cuenta

(* inicializar_lista: a count of zero for each connected node. *)
Contados == SinContar

(* The console reads md5, cat or cpto of a file that exists. *)
Comenzar ==
  /\ fs = "vivo" /\ consola.pc = "libre" /\ hechos < MaxComandos
  /\ hechos' = hechos + 1
  /\ \E c \in Comandos :
       /\ consola' = [pc |-> "elige", op |-> c.op, a |-> c.a, i |-> 0, flag |-> FALSE,
                      lugar |-> Sin, fd |-> 0]
       /\ IF c.op = "cpto"
          THEN ruta' = [a |-> c.ruta, liberada |-> FALSE] /\ cptos' = Append(cptos, <<c.ruta, c.a>>)
          ELSE UNCHANGED <<ruta, cptos>>
  /\ foto' = Conectados /\ cuenta' = Contados
  /\ UNCHANGED <<mutexes, archivos, red, fs, fallos, suma, pantalla, raro>>

(* Block 0 is asked of the first copy. *)
Menos(n, m) == consola.i = 0 \/ cuenta[n] <= cuenta[m]

(* The copy asked for: of the first two those whose node was connected, the  *)
(* node with fewer requests when both are; the third when there is none, if  *)
(* any block up to this one has a third.  Basura: the fields of the request  *)
(* are not set.                                                              *)
Eleccion(c, conTercera) ==
  LET Hay(k) == c[k] # Sin
      En(k) == Hay(k) /\ c[k][1] \in foto
      ambas == Hay(0) /\ Hay(1)
  IN CASE En(0) /\ En(1) -> IF Menos(c[0][1], c[1][1]) THEN c[0] ELSE c[1]
       [] En(0) /\ ~En(1) -> c[0]
       [] En(1) /\ ~En(0) -> c[1]
       [] OTHER -> IF ~conTercera \/ (consola.i = 0 /\ ambas /\ ~En(2)) THEN <<"basura">>
                   ELSE IF Hay(2) THEN c[2] ELSE <<"muere">>

(* A request with unset fields is the one before it, freed: the same node,   *)
(* and 0 or nonsense for the number.  Without one before it, a wild pointer. *)
Posibles(l) ==
  IF l # <<"basura">> THEN {l}
  ELSE IF consola.i = 0 THEN {<<"muere">>}
  ELSE {<<"muere">>, <<consola.lugar[1], 0>>, <<consola.lugar[1], Total>>}

(* Mutant of TomarMd5: mutex_md5 is not waited for. *)
TomarMd5SinEsperar == IF consola.op = "md5" THEN mutexMd5' = TRUE ELSE UNCHANGED mutexMd5

(* md5 takes mutex_md5 before it chooses, cat and cpto do not. *)
TomarMd5 == IF consola.op = "md5" THEN ~mutexMd5 /\ mutexMd5' = TRUE ELSE UNCHANGED mutexMd5

(* solicitar_bloques: choose the copy of the next block and look up the      *)
(* socket of its node; a node that left is a NULL that is dereferenced.      *)
Elegir ==
  /\ fs = "vivo" /\ consola.pc = "elige"
  /\ LET c == Copias[consola.a][consola.i]
         flag == consola.flag \/ c[2] # Sin
         l0 == Eleccion(c, flag)
     IN \E l \in Posibles(l0) :
          IF l = <<"muere">> \/ (l # <<"muere">> /\ socket[l[1]] = 0)
          THEN ~(consola.op = "md5" /\ mutexMd5) /\ Morir
          ELSE /\ TomarMd5
               /\ consola' = [consola EXCEPT !.pc = "manda", !.flag = flag, !.lugar = l,
                                             !.fd = socket[l[1]]]
               /\ cuenta' = IF l0 # <<"basura">> /\ l[1] \in foto
                            THEN [cuenta EXCEPT ![l[1]] = @ + 1] ELSE cuenta
               /\ raro' = IF l0 = <<"basura">> THEN raro \cup {"basura"} ELSE raro
               /\ UNCHANGED <<hechos, foto, mutexCpto, ordenMd5, imprime, archivos, ruta, red,
                              fs, fallos, suma, pantalla, cptos>>

(* Mutant of TomarCpto: mutex_cpto is not waited for. *)
TomarCptoSinEsperar == IF consola.op # "md5" THEN mutexCpto' = TRUE ELSE UNCHANGED mutexCpto

(* cat and cpto take mutex_cpto when they have the socket already. *)
TomarCpto == IF consola.op # "md5" THEN ~mutexCpto /\ mutexCpto' = TRUE ELSE UNCHANGED mutexCpto

(* What comes after the last request: cat is over, md5 waits for the answer, *)
(* cpto says that it is done.                                                *)
Despues(op) == CASE op = "md5" -> "suma" [] op = "cpto" -> "avisa" [] op = "cat" -> "libre"

(* SOLICITUDBLOQUE and SOLICITUDBLOQUECPTO: the request goes to whoever is   *)
(* at the other end of the socket now.  bloques_totales counts down.         *)
Mandar ==
  /\ fs = "vivo" /\ consola.pc = "manda"
  /\ TomarCpto
  /\ LET k == consola
         falta == Cantidad(k.a) - k.i
     IN /\ aNodo' = IF k.fd \in viva
                    THEN [aNodo EXCEPT ![k.fd] =
                            Append(@, [op |-> k.op, a |-> k.a, i |-> k.i, num |-> k.lugar[2],
                                       falta |-> falta,
                                       orden |-> IF k.op = "cpto" THEN Len(cptos) ELSE hechos])]
                    ELSE aNodo
        /\ consola' = IF falta > 1
                      THEN [k EXCEPT !.pc = "elige", !.i = @ + 1]
                      ELSE IF Despues(k.op) = "libre" THEN Libre
                      ELSE [k EXCEPT !.pc = Despues(k.op)]
        /\ raro' = IF k.fd \in viva /\ quien[k.fd] # k.lugar[1]
                   THEN raro \cup {"ajeno"} ELSE raro
  /\ UNCHANGED <<hechos, foto, cuenta, mutexMd5, ordenMd5, imprime, archivos, ruta, socket,
                 quien, viva, aFS, fs, fallos, suma, pantalla, cptos>>

(* SIGPIPE: the other end of the socket is dead and not closed yet. *)
MandarMuere ==
  /\ fs = "vivo" /\ consola.pc = "manda"
  /\ consola.op # "md5" => ~mutexCpto
  /\ consola.fd \notin viva /\ quien[consola.fd] # Nadie
  /\ Morir

(* md5: with mutex_orden_md5, sum temporal_md5 and remove it. *)
Sumar ==
  /\ fs = "vivo" /\ consola.pc = "suma" /\ ordenMd5
  /\ ordenMd5' = FALSE
  /\ suma' = [a |-> consola.a, datos |-> temporal]
  /\ temporal' = Nada
  /\ consola' = Libre
  /\ UNCHANGED <<hechos, foto, cuenta, mutexMd5, mutexCpto, imprime, anterior, destino, ruta,
                 red, fs, fallos, pantalla, cptos, raro>>

(* cpto: "Archivo creado satisfactoriamente", and free(ruta_a_guardar). *)
Avisar ==
  /\ fs = "vivo" /\ consola.pc = "avisa"
  /\ ruta' = [ruta EXCEPT !.liberada = TRUE]
  /\ consola' = Libre
  /\ UNCHANGED <<hechos, foto, cuenta, mutexes, archivos, red, fs, fallos, historia>>

-----------------------------------------------------------------------------
(* The datanode reads the block (getBloque) and answers. *)
Contestar(f) ==
  /\ f \in viva /\ aNodo[f] # <<>> /\ Head(aNodo[f]).num < Total
  /\ LET p == Head(aNodo[f])
     IN aFS' = [aFS EXCEPT ![f] = Append(@, [op |-> p.op, a |-> p.a, i |-> p.i,
                                            falta |-> p.falta, orden |-> p.orden,
                                            dato |-> Contenido(quien[f], p.num)])]
  /\ aNodo' = [aNodo EXCEPT ![f] = Tail(@)]
  /\ UNCHANGED <<consola, hechos, foto, cuenta, mutexes, archivos, ruta, socket, quien, viva,
                 fs, fallos, historia>>

(* Reading beyond the end of data.bin kills the datanode (SIGBUS). *)
ContestarFuera(f) ==
  /\ f \in viva /\ aNodo[f] # <<>> /\ Head(aNodo[f]).num = Total
  /\ viva' = viva \ {f}
  /\ aNodo' = [aNodo EXCEPT ![f] = <<>>]
  /\ UNCHANGED <<consola, hechos, foto, cuenta, mutexes, archivos, ruta, socket, quien, aFS,
                 fs, fallos, historia>>

(* A file that is created has its size from the start. *)
Abierto(x, n) == IF x = Nada THEN [i \in 0..(n - 1) |-> Nada] ELSE x

(* escribir_archivo_temporal, escribir_archivo_cpto: both set anterior_md5   *)
(* to 0 for a file that is new.                                              *)
Desde(x, v) == IF x = Nada THEN 0 ELSE v

Leer(f) ==
  /\ fs = "vivo" /\ aFS[f] # <<>>
  /\ aFS' = [aFS EXCEPT ![f] = Tail(@)]
  /\ UNCHANGED <<consola, hechos, foto, cuenta, ruta, socket, quien, viva, aNodo, fallos,
                 suma, cptos>>

(* Mutant of EsUltimo: the last block is the one that leaves none to ask. *)
EsUltimoSiQuedanCero(r) == r.falta = 0

(* bloques_totales counts the block of the answer. *)
EsUltimo(r) == r.falta = 1

(* RESPUESTASOLICITUD: the block is written after the one before, mutex_md5  *)
(* is released, and after the last one mutex_orden_md5.                      *)
LeerMd5(f) ==
  /\ Leer(f)
  /\ LET r == Head(aFS[f])
         v == Desde(temporal, anterior.md5)
     IN /\ r.op = "md5"
        /\ temporal' = [Abierto(temporal, Cantidad(r.a)) EXCEPT ![v] = r.dato]
        /\ anterior' = [anterior EXCEPT !.md5 = IF EsUltimo(r) THEN 0 ELSE v + 1]
        /\ ordenMd5' = (ordenMd5 \/ EsUltimo(r))
  /\ mutexMd5' = FALSE
  /\ UNCHANGED <<mutexCpto, imprime, destino, fs, pantalla, raro>>

(* Where the block of a cpto is written: the path of the last cpto, also if  *)
(* the answer is for an earlier one, or whatever is in its freed memory.     *)
Destinos == IF ruta.liberada THEN {ruta.a, Otra} ELSE {ruta.a}

(* escribir_archivo_cpto of the block r at the path d: at anterior_cpto,     *)
(* which is never set back; a block beyond the end goes to other memory.     *)
Escribir(r, d) ==
  LET x == destino[d][r.a]
      v == anterior.cpto
  IN /\ destino' = IF v < Cantidad(r.a)
                   THEN [destino EXCEPT ![d][r.a] =
                           [Abierto(x, Cantidad(r.a)) EXCEPT ![v] = r.dato]]
                   ELSE [destino EXCEPT ![d][r.a] = Abierto(x, Cantidad(r.a))]
     /\ anterior' = [md5 |-> Desde(x, anterior.md5), cpto |-> v + 1]
     /\ raro' = raro \cup (IF d # cptos[r.orden][1] THEN {"ruta"} ELSE {})
                     \cup (IF x = Nada /\ anterior.md5 > 0 THEN {"md5"} ELSE {})

(* RESPUESTASOLICITUDCPTO of a cpto. *)
LeerCpto(f) ==
  /\ Leer(f)
  /\ imprime = {} /\ Head(aFS[f]).op = "cpto"
  /\ \E d \in Destinos : Escribir(Head(aFS[f]), d)
  /\ mutexCpto' = FALSE
  /\ UNCHANGED <<mutexMd5, ordenMd5, imprime, temporal, fs, pantalla>>

(* Death of FileSystem in RESPUESTASOLICITUDCPTO: the freed path cannot be   *)
(* opened (fclose(NULL)), or the block is written beyond the file.           *)
LeerCptoMuere(f) ==
  /\ fs = "vivo" /\ aFS[f] # <<>> /\ imprime = {} /\ Head(aFS[f]).op = "cpto"
  /\ ruta.liberada \/ anterior.cpto >= Cantidad(Head(aFS[f]).a)
  /\ Morir

(* Mutant of EmpezarImpresion: mutex_respuesta_solicitud_cpto is not waited  *)
(* for.                                                                      *)
EmpezarImpresionSinEsperar(f) == imprime' = imprime \cup {f}

EmpezarImpresion(f) == imprime = {} /\ imprime' = {f}

(* RESPUESTASOLICITUDCPTO of a cat: mutex_cpto is released first, and the    *)
(* block is printed holding the other mutex.                                 *)
LeerCat(f) ==
  /\ fs = "vivo" /\ aFS[f] # <<>> /\ Head(aFS[f]).op = "cat" /\ f \notin imprime
  /\ EmpezarImpresion(f)
  /\ mutexCpto' = FALSE
  /\ UNCHANGED <<consola, hechos, foto, cuenta, mutexMd5, ordenMd5, archivos, ruta, red, fs,
                 fallos, historia>>

(* The block is printed, and when it is the last one of its file printed     *)
(* again, with an end of line, before the mutex of the printing is released. *)
Imprimir(f) ==
  /\ Leer(f)
  /\ f \in imprime
  /\ imprime' = imprime \ {f}
  /\ pantalla' = LET r == Head(aFS[f])
                 IN [a |-> r.a, orden |-> r.orden, i |-> r.i, falta |-> r.falta, dato |-> r.dato,
                     veces |-> IF EsUltimo(r) THEN 2 ELSE 1]
  /\ UNCHANGED <<mutexMd5, mutexCpto, ordenMd5, archivos, fs, raro>>

(* A datanode dies: what it had not read is lost. *)
Caer(f) ==
  /\ f \in viva /\ fallos < MaxFallos
  /\ fallos' = fallos + 1
  /\ viva' = viva \ {f}
  /\ aNodo' = [aNodo EXCEPT ![f] = <<>>]
  /\ UNCHANGED <<consola, hechos, foto, cuenta, mutexes, archivos, ruta, socket, quien, aFS, fs,
                 historia>>

(* Its thread reads the end of the connection: close(socketFD) and           *)
(* sacar_datanode.  No mutex is released.                                    *)
Desconectar(f) ==
  /\ fs = "vivo" /\ f \notin viva /\ quien[f] # Nadie /\ aFS[f] = <<>>
  /\ quien' = [quien EXCEPT ![f] = Nadie]
  /\ socket' = [n \in Nodos |-> IF socket[n] = f THEN 0 ELSE socket[n]]
  /\ UNCHANGED <<consola, hechos, foto, cuenta, mutexes, archivos, ruta, viva, aNodo, aFS, fs,
                 fallos, historia>>

(* A datanode that died is started again: accept takes the lowest descriptor *)
(* and IDENTIFICACIONDATANODE adds it to datanodes.                          *)
Volver(n) ==
  /\ fs = "vivo" /\ \A f \in Fds : quien[f] # n
  /\ LET f == Min({g \in Fds : quien[g] = Nadie})
     IN /\ quien' = [quien EXCEPT ![f] = n]
        /\ viva' = viva \cup {f}
        /\ socket' = [socket EXCEPT ![n] = f]
  /\ UNCHANGED <<consola, hechos, foto, cuenta, mutexes, archivos, ruta, aNodo, aFS, fs,
                 fallos, historia>>

PasoConsola ==
  Comenzar \/ Elegir \/ Mandar \/ MandarMuere \/ Sumar \/ Avisar
PasoHilo(f) ==
  LeerMd5(f) \/ LeerCpto(f) \/ LeerCptoMuere(f) \/ LeerCat(f) \/ Imprimir(f) \/ Desconectar(f)
PasoNodo(f) == Contestar(f) \/ ContestarFuera(f)

Next ==
  \/ PasoConsola
  \/ \E f \in Fds : PasoHilo(f) \/ PasoNodo(f) \/ Caer(f)
  \/ \E n \in Nodos : Volver(n)

Spec == Init /\ [][Next]_vars

(* The threads of FileSystem run and a live datanode answers.  The console   *)
(* is a thread too, but nobody has to type a command: Comenzar is not fair.  *)
FairSpec ==
  /\ Spec
  /\ WF_vars(Elegir \/ Mandar \/ MandarMuere \/ Sumar \/ Avisar)
  /\ \A f \in Fds : WF_vars(PasoHilo(f)) /\ WF_vars(PasoNodo(f))

-----------------------------------------------------------------------------
Pedido == [op : Ops, a : Archivos, i : 0..MaxBloques, num : 0..Total, falta : 1..MaxBloques,
           orden : 0..MaxComandos]
Datos == {Nada} \cup UNION {{<<a, i>> : i \in DOMAIN Copias[a]} : a \in Archivos}
Respuesta == [op : Ops, a : Archivos, i : 0..MaxBloques, falta : 1..MaxBloques,
              orden : 0..MaxComandos, dato : Datos]
Contenidos == {Nada} \cup UNION {[0..(Cantidad(a) - 1) -> Datos] : a \in Archivos}

TypeOK ==
  /\ consola.pc \in {"libre", "elige", "manda", "suma", "avisa"}
  /\ hechos \in 0..MaxComandos
  /\ foto \subseteq Nodos
  /\ cuenta \in [Nodos -> 0..MaxBloques]
  /\ mutexMd5 \in BOOLEAN /\ mutexCpto \in BOOLEAN /\ ordenMd5 \in BOOLEAN
  /\ imprime \subseteq Fds
  /\ temporal \in Contenidos
  /\ anterior.md5 \in 0..MaxBloques /\ anterior.cpto \in 0..(MaxComandos * MaxBloques)
  /\ \A d \in Rutas \cup {Otra} : \A a \in Archivos : destino[d][a] \in Contenidos
  /\ ruta.a \in Rutas \cup {Otra} /\ ruta.liberada \in BOOLEAN
  /\ socket \in [Nodos -> 0..Cardinality(Nodos)]
  /\ quien \in [Fds -> Nodos \cup {Nadie}] /\ viva \subseteq Fds
  /\ \A f \in Fds : aNodo[f] \in Seq(Pedido) /\ aFS[f] \in Seq(Respuesta)
  /\ fs \in {"vivo", "muerto"} /\ fallos \in 0..MaxFallos
  /\ raro \subseteq {"basura", "ajeno", "ruta", "md5"}

(* A sum that is printed is that of the file, whatever datanodes die or come  *)
(* back: one request at a time is on its way (1862, 1012), so that the blocks *)
(* of temporal_md5 come in order from the threads of several datanodes.       *)
(* Three things that nobody notices are excepted: a request with unset        *)
(* fields, one that reached another datanode by a recycled socket, and        *)
(* anterior_md5 set to 0 by the answer of a cpto (778).                       *)
Md5Correcto == suma # Nada /\ raro = {} => suma.datos = Bloques(suma.a)

(* cat prints the blocks of a file in order, and a file after the other,      *)
(* though mutex_cpto is released before a block is printed (1047), also when  *)
(* datanodes die.  What it prints is not the file: the last block comes twice *)
(* (1051), and no other does.                                                 *)
CatEnOrden ==
  [][pantalla' # pantalla =>
       LET p == pantalla
           q == pantalla'
       IN /\ IF q.orden = p.orden THEN q.i = p.i + 1
             ELSE q.i = 0 /\ q.orden > p.orden /\ p.falta = 1
          /\ q.veces = IF q.i + 1 = Cantidad(q.a) THEN 2 ELSE 1
          /\ raro = {} => q.dato = <<q.a, q.i>>]_vars

(* The first cpto puts every block it wrote where it belongs, as long as the  *)
(* path of a freed ruta_a_guardar was still there (3237).                     *)
PrimerCpto ==
  Len(cptos) = 1 /\ raro = {} =>
    LET d == cptos[1][1]
        a == cptos[1][2]
    IN \A i \in 0..(anterior.cpto - 1) : destino[d][a] # Nada /\ destino[d][a][i] = <<a, i>>

(* While all the datanodes are up, a command of the console ends.             *)
LecturaTermina ==
  [](viva = Fds) => [](consola.pc # "libre" => <>(consola.pc = "libre" \/ fs = "muerto"))
=============================================================================
