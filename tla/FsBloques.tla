------------------------------- MODULE FsBloques -------------------------------
(***************************************************************************)
(* The commands on the blocks of a stored file (filesystem.c), next to the *)
(* storing of FsAlmacenar: rm frees the blocks of a file and removes its    *)
(* metadata; cpblock reads a block of one datanode and writes it to         *)
(* another, whose answer adds a copy to the metadata (crear_copia).         *)
(*                                                                         *)
(* The console types these between two cpfrom; the workers go on storing,  *)
(* and what the console does not wait for may come later: the last answer  *)
(* of a cpfrom, and the answer of a cpblock.  rm -b is left out: it copies *)
(* a string over an integer and never gets further (2611).                 *)
(*                                                                         *)
(* Whoever registers a copy reads the metadata of the file, changes it and *)
(* saves it several times.  mutex_archivos_actuales keeps the answers of   *)
(* two cpfrom apart, but rm and crear_copia do not take it: the first and  *)
(* the last save are steps of their own, and rm may come in between.  A    *)
(* save is one step: who reads a file that is being written finds fewer    *)
(* copies in it than there are, never others.                              *)
(***************************************************************************)
EXTENDS FsAlmacenar

CONSTANT MaxOrdenes  \* bound: rm and cpblock commands

VARIABLES
  orden,      \* the rm or cpblock the console is at
  ordenes,    \* how many were typed
  cpblock,    \* the global cpblock: what GETBLOQUE brought, and for which node
  ordenCp,    \* orden_cpblock is free
  cargada,    \* what the thread of each node has read of a metadata and saves
  revividos,  \* history: files with removed copies that were saved again
  unicoBloque \* unico_bloque: a file of one block was cut and none closed since

bloqueVars == <<orden, ordenes, cpblock, ordenCp, cargada, revividos>>
todo == <<vars, bloqueVars, unicoBloque>>

Parado == [pc |-> "libre"]
SinCargar == [pc |-> "no"]
SinNombre == "?"

ASSUME OrdenesPosibles == MaxOrdenes \in Nat /\ SinNombre \notin Nodos

InitBloques ==
  /\ Init
  /\ orden = Parado /\ ordenes = 0
  /\ cpblock = [dato |-> Vacio, para |-> SinNombre]
  /\ ordenCp = FALSE
  /\ cargada = [n \in Nodos |-> SinCargar]
  /\ revividos = {} /\ unicoBloque = FALSE

DeArchivo(a, d) == {r \in metadata : r.nombre = a /\ r.dir = d}
Conectados == {datanodes[i] : i \in DOMAIN datanodes}

(* The console is at its prompt. *)
Ordenar ==
  /\ fs = "vivo" /\ envio[Consola].pc = "libre" /\ orden.pc = "libre"
  /\ ordenes < MaxOrdenes
  /\ ordenes' = ordenes + 1

MorirOrden == Morir /\ UNCHANGED <<orden, cpblock, ordenCp, cargada, revividos, unicoBloque>>

-----------------------------------------------------------------------------
(* Mutant of SinBits: the number is cleaned in the bitmap of every node. *)
SinBitsDeNadie(copias) ==
  [n \in Nodos |-> bitmap[n] \ {r.numero : r \in copias}]

(* limpiar_directorio_original: clean the bits of the copies. *)
SinBits(copias) ==
  [n \in Nodos |-> bitmap[n] \ {r.numero : r \in {q \in copias : q.nodo = n}}]

(* rm: the metadata is read, without asking if it exists (a NULL that is     *)
(* dereferenced), and the blocks of the copies it has now are freed.  Keys   *)
(* are told by their length: BLOQUE10BYTES is taken for a copy and has no     *)
(* comma.                                                                    *)
Rm(a, d) ==
  /\ Ordenar
  /\ IF DeArchivo(a, d) = {} \/ \E r \in DeArchivo(a, d) : r.bloque > 9 THEN MorirOrden
     ELSE /\ orden' = [pc |-> "recuenta", nombre |-> a, dir |-> d]
          /\ bitmap' = SinBits(DeArchivo(a, d))
          /\ UNCHANGED <<datanodes, libres, actuales, unico, cpfrom, fsArchivos, red, nodo, fs,
                         hilo, fallos, cpblock, ordenCp, cargada, revividos, unicoBloque>>

(* actualizar_datanodes_y_nodos_bin: bloques_libres of the connected nodes   *)
(* is counted again, with copies on their way or not.                        *)
Recontar ==
  /\ fs = "vivo" /\ orden.pc = "recuenta"
  /\ libres' = [n \in Nodos |-> IF n \in Conectados THEN Total - Cardinality(bitmap[n])
                                ELSE libres[n]]
  /\ orden' = [orden EXCEPT !.pc = "quita"]
  /\ UNCHANGED <<datanodes, bitmap, actuales, unico, cpfrom, fsArchivos, red, nodo, fs, hilo,
                 fallos, ordenes, cpblock, ordenCp, cargada, revividos, unicoBloque>>

(* remove(ruta_archivo_yamafs), with all the copies it has by now. *)
Quitar ==
  /\ fs = "vivo" /\ orden.pc = "quita"
  /\ metadata' = metadata \ DeArchivo(orden.nombre, orden.dir)
  /\ orden' = Parado
  /\ UNCHANGED <<datanodes, fsDatos, unico, cpfrom, terminados, erroneos, red, nodo, fs, hilo,
                 fallos, ordenes, cpblock, ordenCp, cargada, revividos, unicoBloque>>

-----------------------------------------------------------------------------
(* A registration of the block has been saved once. *)
SinTamanio(a, d, b) ==
  \E m \in Nodos : /\ cargada[m].pc = "graba" /\ cargada[m].de # "copia"
                   /\ cargada[m].nueva.nombre = a /\ cargada[m].nueva.dir = d
                   /\ cargada[m].nueva.bloque = b

(* cpblock: ask the node of the first copy there is for the block, if node n *)
(* is connected and has no copy of it.  The name of n is not sent when it is *)
(* not COPIA0 that is read.  The size of a block is not there before the     *)
(* second save of its first copy: a NULL is converted.                       *)
Cpblock(a, d, b, n) ==
  LET copias == {r \in DeArchivo(a, d) : r.bloque = b}
      r == CHOOSE x \in copias : \A y \in copias : x.copia <= y.copia
  IN /\ Ordenar
     /\ copias # {} /\ n \in Conectados /\ \A x \in copias : x.nodo # n
     /\ \/ /\ r.nodo \notin Conectados \/ r.nodo \notin viva \/ SinTamanio(a, d, b)
           /\ MorirOrden
        \/ /\ r.nodo \in Conectados
           /\ \E x \in Mandar(r.nodo) :
                aNodo' = IF x # "va" THEN aNodo
                         ELSE [aNodo EXCEPT ![r.nodo] =
                                 Append(@, [tipo |-> "GETBLOQUE", numero |-> r.numero,
                                            para |-> IF r.copia = 0 THEN n ELSE SinNombre])]
           /\ orden' = [pc |-> "espera", nombre |-> a, dir |-> d, bloque |-> b, nodo |-> n]
           /\ UNCHANGED <<datanodes, fsDatos, unico, cpfrom, fsArchivos, aFS, nodo, fs, hilo,
                          fallos, cpblock, ordenCp, cargada, revividos, unicoBloque>>

(* GETBLOQUE in the datanode. *)
ResponderGet(n) ==
  /\ n \in viva /\ aNodo[n] # <<>> /\ Head(aNodo[n]).tipo = "GETBLOQUE"
  /\ aFS' = [aFS EXCEPT ![n] = Append(@, [tipo |-> "RESPUESTAGETBLOQUE",
                                          dato |-> disco[n][Head(aNodo[n]).numero],
                                          para |-> Head(aNodo[n]).para])]
  /\ aNodo' = [aNodo EXCEPT ![n] = Tail(@)]
  /\ UNCHANGED <<datanodes, fsDatos, unico, cpfrom, fsArchivos, nodo, fs, hilo, fallos,
                 bloqueVars, unicoBloque>>

(* The thread of node n reads its next answer. *)
Atiende(n, tipo) ==
  fs = "vivo" /\ cargada[n] = SinCargar /\ aFS[n] # <<>> /\ Head(aFS[n]).tipo = tipo

(* Mutant of SoltarOrdenCp: orden_cpblock is not released. *)
SoltarOrdenCpNunca == UNCHANGED ordenCp

SoltarOrdenCp == ordenCp' = TRUE

(* RESPUESTAGETBLOQUE: the block is left in the global for the console. *)
LeerGet(n) ==
  /\ Atiende(n, "RESPUESTAGETBLOQUE")
  /\ cpblock' = [dato |-> Head(aFS[n]).dato, para |-> Head(aFS[n]).para]
  /\ SoltarOrdenCp
  /\ aFS' = [aFS EXCEPT ![n] = Tail(@)]
  /\ UNCHANGED <<datanodes, fsDatos, unico, cpfrom, fsArchivos, aNodo, nodo, fs, hilo, fallos,
                 orden, ordenes, cargada, revividos, unicoBloque>>

(* Mutant of Apartar: the bit is not set. *)
ApartarSinMarcar(n, j) == bitmap

(* The first free bit of the target is set, if there is one. *)
Apartar(n, j) == Marcar(n, j)

(* cpblock with orden_cpblock: find a block of the target and send it.  The  *)
(* last block of the node counts as no room though it was found free, and no *)
(* room at all as a block beyond the end.                                    *)
Copiar ==
  /\ fs = "vivo" /\ orden.pc = "espera" /\ ordenCp
  /\ ordenCp' = FALSE
  /\ \E j \in {PrimerLibre(orden.nodo)} :
       \/ /\ j # Total - 1
          /\ cpblock.para \notin Conectados \/ cpblock.para \notin viva
          /\ fs' = "muerto" /\ UNCHANGED <<bitmap, aNodo, orden>>
       \/ /\ j # Total - 1 => cpblock.para \in Conectados
          /\ bitmap' = Apartar(orden.nodo, j)
          /\ orden' = Parado
          /\ IF j = Total - 1 THEN UNCHANGED aNodo
             ELSE \E x \in Mandar(cpblock.para) :
                    aNodo' = IF x # "va" THEN aNodo
                             ELSE [aNodo EXCEPT ![cpblock.para] =
                                     Append(@, [tipo |-> "SETBLOQUECPTO", nombre |-> orden.nombre,
                                                dir |-> orden.dir, bloque |-> orden.bloque,
                                                numero |-> j, dato |-> cpblock.dato])]
          /\ UNCHANGED fs
  /\ UNCHANGED <<datanodes, libres, actuales, unico, cpfrom, fsArchivos, aFS, nodo, hilo, fallos,
                 ordenes, cpblock, cargada, revividos, unicoBloque>>

(* SETBLOQUECPTO in the datanode; beyond the end it is GuardarFuera. *)
GuardarCopia(n) ==
  /\ n \in viva /\ aNodo[n] # <<>>
  /\ Head(aNodo[n]).tipo = "SETBLOQUECPTO" /\ Head(aNodo[n]).numero < Total
  /\ LET c == Head(aNodo[n])
     IN \E r \in Resultados :
          /\ IF r = 1 THEN UNCHANGED fallos
             ELSE fallos < MaxFallos /\ fallos' = fallos + 1
          /\ disco' = IF r = 1 THEN [disco EXCEPT ![n][c.numero] = c.dato] ELSE disco
          /\ aFS' = [aFS EXCEPT ![n] =
                       Append(@, [tipo |-> "RESPUESTASETBLOQUECPTO", nombre |-> c.nombre,
                                  dir |-> c.dir, bloque |-> c.bloque, numero |-> c.numero,
                                  res |-> r])]
  /\ aNodo' = [aNodo EXCEPT ![n] = Tail(@)]
  /\ UNCHANGED <<datanodes, fsDatos, unico, cpfrom, fsArchivos, viva, fs, hilo, bloqueVars,
                 unicoBloque>>

-----------------------------------------------------------------------------
(* RESPUESTASETBLOQUECPTO: a copy that could not be written is only reported. *)
CopiaFallida(n) ==
  /\ Atiende(n, "RESPUESTASETBLOQUECPTO") /\ Head(aFS[n]).res # 1
  /\ aFS' = [aFS EXCEPT ![n] = Tail(@)]
  /\ UNCHANGED <<datanodes, fsDatos, unico, cpfrom, fsArchivos, aNodo, nodo, fs, hilo, fallos,
                 bloqueVars, unicoBloque>>

(* RESULOPERACION of a copy that is not registered. *)
SeRegistra(a) == a.copia.nombre \in terminados \/ (a.res = 1 /\ a.copia.nombre \notin erroneos)
ResultadoFallido(n) ==
  /\ cargada[n] = SinCargar /\ ResultadoParcial(n) /\ ~SeRegistra(Head(aFS[n]))
  /\ UNCHANGED <<bloqueVars, unicoBloque>>

(* The metadata is read and the entry set.  doble: a file of one block is     *)
(* closed, which is registered twice.                                         *)
Leida(de, doble, r) ==
  [pc |-> "lee", de |-> de, doble |-> doble, nueva |-> r,
   copias |-> Poner(r, DeArchivo(r.nombre, r.dir))]

(* RESULOPERACION: crear_y_actualizar_archivo reads the metadata, with        *)
(* mutex_archivos_actuales; a file that is not in the list of the node is a   *)
(* NULL that is dereferenced.                                                 *)
CargarRegistro(n) ==
  /\ Atiende(n, "RESULOPERACION") /\ SeRegistra(Head(aFS[n]))
  /\ \A m \in Nodos : cargada[m].pc # "no" => cargada[m].de = "copia"
  /\ LET c == Head(aFS[n]).copia
         final == c.nombre \in terminados
     IN IF actuales[n][c.nombre] = Sin THEN MorirOrden /\ UNCHANGED ordenes
        ELSE /\ cargada' = [cargada EXCEPT ![n] =
                   Leida(IF final THEN "final" ELSE "parcial", final /\ unicoBloque,
                         EntradaDe(n, c))]
             /\ UNCHANGED <<vars, orden, ordenes, cpblock, ordenCp, revividos, unicoBloque>>

(* The number of a new copy: 0 or 1 if it is missing, otherwise 2, also when *)
(* there is a copy 2 already.                                                *)
CopiaQueFalta(copias) ==
  IF \A x \in copias : x.copia # 0 THEN 0
  ELSE IF \A x \in copias : x.copia # 1 THEN 1 ELSE 2

(* RESPUESTASETBLOQUECPTO: crear_copia reads the metadata, a NULL that is     *)
(* dereferenced if the file was removed.                                      *)
CargarCopia(n) ==
  /\ Atiende(n, "RESPUESTASETBLOQUECPTO") /\ Head(aFS[n]).res = 1
  /\ LET a == Head(aFS[n])
         f == DeArchivo(a.nombre, a.dir)
     IN IF f = {} THEN MorirOrden /\ UNCHANGED ordenes
        ELSE /\ cargada' = [cargada EXCEPT ![n] =
                   Leida("copia", FALSE,
                         [nombre |-> a.nombre, dir |-> a.dir, bloque |-> a.bloque,
                          copia |-> CopiaQueFalta({x \in f : x.bloque = a.bloque}),
                          nodo |-> n, numero |-> a.numero])]
             /\ UNCHANGED <<vars, orden, ordenes, cpblock, ordenCp, revividos, unicoBloque>>

(* What the thread read is saved: a copy registered in between is lost, one   *)
(* that was removed in between is back.  Only nuevas may be new.              *)
Salvar(n, nuevas) ==
  LET k == cargada[n]
  IN /\ metadata' = (metadata \ DeArchivo(k.nueva.nombre, k.nueva.dir)) \cup k.copias
     /\ revividos' = IF k.copias \ nuevas \subseteq metadata THEN revividos
                     ELSE revividos \cup {k.nueva.nombre}

(* The first config_save; the answer is done with. *)
GrabarMetadata(n) ==
  /\ fs = "vivo" /\ cargada[n].pc = "lee"
  /\ Salvar(n, {cargada[n].nueva})
  /\ cargada' = [cargada EXCEPT ![n].pc = "graba"]
  /\ aFS' = [aFS EXCEPT ![n] = Tail(@)]
  /\ UNCHANGED <<datanodes, fsDatos, unico, cpfrom, terminados, erroneos, aNodo, nodo, fs, hilo,
                 fallos, orden, ordenes, cpblock, ordenCp, unicoBloque>>

(* unico_bloque: what a file of one block registered is saved again, read     *)
(* again to set the entry again, and saved.                                   *)
Regrabar(n) ==
  /\ fs = "vivo"
  /\ cargada[n].pc = "relee" \/ (cargada[n].pc = "graba" /\ cargada[n].doble)
  /\ Salvar(n, {})
  /\ cargada' = [cargada EXCEPT ![n].pc = IF @ = "relee" THEN "graba" ELSE "otra"]
  /\ UNCHANGED <<datanodes, fsDatos, unico, cpfrom, terminados, erroneos, red, nodo, fs, hilo,
                 fallos, orden, ordenes, cpblock, ordenCp, unicoBloque>>

Releer(n) ==
  /\ fs = "vivo" /\ cargada[n].pc = "otra"
  /\ unicoBloque' = FALSE
  /\ LET r == cargada[n].nueva
     IN cargada' = [cargada EXCEPT ![n].pc = "relee", ![n].doble = FALSE,
                                   ![n].copias = Poner(r, DeArchivo(r.nombre, r.dir))]
  /\ UNCHANGED <<vars, orden, ordenes, cpblock, ordenCp, revividos>>

(* The last save and the rest of the handler: a file that was closed leaves  *)
(* the list of the node, and mutexes are released.                           *)
Terminar(n) ==
  /\ fs = "vivo" /\ cargada[n].pc = "graba" /\ ~cargada[n].doble
  /\ Salvar(n, {})
  /\ cargada' = [cargada EXCEPT ![n] = SinCargar]
  /\ \/ /\ cargada[n].de = "final"
        /\ actuales' = [actuales EXCEPT ![n][cargada[n].nueva.nombre] = Sin]
        /\ cpfrom' = FALSE /\ UNCHANGED unico
     \/ cargada[n].de = "parcial" /\ SoltarMutexes /\ UNCHANGED actuales
     \/ cargada[n].de = "copia" /\ UNCHANGED <<actuales, unico, cpfrom>>
  /\ UNCHANGED <<datanodes, libres, bitmap, terminados, erroneos, red, nodo, fs, hilo, fallos,
                 orden, ordenes, cpblock, ordenCp, unicoBloque>>

-----------------------------------------------------------------------------
EmpezarOrden ==
  \E a \in Nombres, d \in Dirs :
    \/ Rm(a, d)
    \/ \E b \in 0..MaxBloques, n \in Nodos : Cpblock(a, d, b, n)

(* A step of a thread that stores files; one cut in one block is noted. *)
Almacenar(h) ==
  /\ PasoHilo(h)
  /\ unicoBloque' = (unicoBloque \/ /\ envio[h].pc = "libre" /\ envio'[h].pc = "reparte"
                                    /\ envio'[h].nb = 1)
  /\ UNCHANGED bloqueVars

PasoConsola ==
  \/ Recontar \/ Quitar \/ Copiar
  \/ orden.pc = "libre" /\ Almacenar(Consola)

(* Steps of FsAlmacenar that do not register anything. *)
PasoDeAntes(n) ==
  /\ Guardar(n) \/ GuardarFuera(n) \/ (Desconectar(n) /\ cargada[n] = SinCargar)
  /\ UNCHANGED <<bloqueVars, unicoBloque>>

PasoNodoBloques(n) ==
  \/ PasoDeAntes(n) \/ ResultadoFallido(n) \/ CargarRegistro(n)
  \/ ResponderGet(n) \/ LeerGet(n) \/ GuardarCopia(n) \/ CopiaFallida(n) \/ CargarCopia(n)
  \/ GrabarMetadata(n) \/ Regrabar(n) \/ Releer(n) \/ Terminar(n)

NextBloques ==
  \/ EmpezarOrden \/ PasoConsola
  \/ \E w \in Workers : Almacenar(w)
  \/ \E n \in Nodos : PasoNodoBloques(n) \/ (Caer(n) /\ UNCHANGED <<bloqueVars, unicoBloque>>)

SpecBloques == InitBloques /\ [][NextBloques]_todo

(* The threads of FileSystem and the live datanodes run; nobody has to type  *)
(* rm or cpblock.                                                            *)
FairSpecBloques ==
  /\ SpecBloques
  /\ WF_todo(PasoConsola)
  /\ \A w \in Workers : WF_todo(Almacenar(w))
  /\ \A n \in Nodos : WF_todo(PasoNodoBloques(n))

-----------------------------------------------------------------------------
(* The file that is being removed. *)
Borrandose(r) == orden.pc \in {"recuenta", "quita"} /\ orden.nombre = r.nombre /\ orden.dir = r.dir

(* No send failed (limpiar_bitarrays) and no removed copy was saved again, by *)
(* crear_copia or by a registration that rm overtook.  After either a file   *)
(* lists blocks that are free, and its removal, or the cleaning of a later   *)
(* send, frees them again when another file has them.                        *)
SinDudas == erroneos = {} /\ revividos = {}

(* The block of every registered copy is marked in the bitmap of its node,   *)
(* while files are removed, copied and stored at once: nobody else gets it   *)
(* (1757, 3452, 3959).                                                       *)
BitsDeCopias ==
  SinDudas => \A r \in metadata : Borrandose(r) \/ r.numero \in bitmap[r.nodo]

(* Only one of the files to store has this name. *)
PedidaUnaVez(a) ==
  \A g, h \in Hilos : \A i \in DOMAIN Pedidos[g], j \in DOMAIN Pedidos[h] :
    Pedidos[g][i].nombre = a /\ Pedidos[h][j].nombre = a => g = h /\ i = j

(* Every registered copy, also one made by cpblock, holds the block it says: *)
(* freed blocks are not handed out while somebody still points to them.      *)
(* Excepted are the last copy of a cpfrom and the files stored under a name  *)
(* that was stored before: their results are not looked at.                  *)
CopiasLegibles ==
  SinDudas => \A r \in metadata :
    Borrandose(r) \/ ~PedidaUnaVez(r.nombre) \/ EsLaUltima(r) \/ Legible(r)

(* While all the datanodes are up, rm and cpblock end.                       *)
BloquesTermina ==
  [](viva = Nodos) =>
    [](orden.pc # "libre" => <>(orden.pc = "libre" \/ fs = "muerto"))
=============================================================================
