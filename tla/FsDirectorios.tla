----------------------------- MODULE FsDirectorios -----------------------------
(***************************************************************************)
(* The directories of yamafs (filesystem.c): the table of directorios.dat,  *)
(* in which a directory is an index and the index of its parent, and the    *)
(* files of metadata/archivos/<index>.                                      *)
(*                                                                         *)
(* Only the console changes the table; crear works on a copy of it, one     *)
(* component of the path at a time, which is saved at the end.  The threads *)
(* of the workers look indexes up meanwhile.  A file is registered by the   *)
(* answers of its copies, in the directory that was looked up when it was   *)
(* stored, whatever happened since.  A path is a sequence of names; "/" is  *)
(* the empty one.                                                           *)
(***************************************************************************)
EXTENDS Integers, Sequences, FiniteSets

CONSTANTS
  Lugares,      \* entries of the table (100)
  Nombres,      \* names of directories and files
  Rutas,        \* the paths of directories that are typed
  Archivos,     \* names of the files
  Basuras,      \* what memory nobody wrote may hold
  MaxComandos   \* bound: commands, formats, restarts and files of workers

Raiz == "root"
NoHay == "/0"
Borrado == -4518
SinArchivo == "ninguno"

ASSUME Instancia ==
  /\ Lugares \in Nat \ {0}
  /\ {Raiz, NoHay, SinArchivo} \cap Nombres = {}
  /\ Rutas \subseteq Seq(Nombres)
  /\ Archivos \subseteq Nombres
  /\ Basuras \subseteq Int /\ Basuras # {} /\ Borrado \notin Basuras
  /\ MaxComandos \in Nat

Posiciones == 0..(Lugares - 1)

VARIABLES
  tabla,       \* directorios.dat; format leaves garbage where parents are free
  siguiente,   \* index_directorio
  archivos,    \* the files: name and index of their directory
  consola,     \* what the console is at
  pendientes,  \* files with copies that were not answered yet
  perdidos,    \* history: files that were not stored where their path leads
  hechos,      \* commands, formats, restarts and files of workers
  fs           \* "vivo" or "muerto"

vars == <<tabla, siguiente, archivos, consola, pendientes, perdidos, hechos, fs>>

Parada == [pc |-> "libre"]
Libre(x) == [nombre |-> NoHay, index |-> x, padre |-> 0]
Entrada(n, x, p) == [nombre |-> n, index |-> x, padre |-> p]

(* A table that was formatted: the indexes of the free entries are garbage. *)
Formateadas ==
  {[k \in Posiciones |-> IF k = 0 THEN Entrada(Raiz, 0, -1) ELSE Libre(b[k])] :
     b \in [Posiciones -> Basuras]}

Init ==
  /\ tabla \in Formateadas
  /\ siguiente = 1
  /\ archivos = {} /\ pendientes = {} /\ perdidos = {}
  /\ consola = Parada
  /\ hechos = 0 /\ fs = "vivo"

-----------------------------------------------------------------------------
Ocupada(t, k) == t[k].nombre # NoHay
Vivos(t) == {t[k].index : k \in {j \in Posiciones : Ocupada(t, j)}}

EsHijo(t, k, n, p) == t[k].nombre = n /\ t[k].padre = p

(* obtener_index_directorio: the first entry of that name and parent. *)
EsElHijo(t, k, n, p) ==
  EsHijo(t, k, n, p) /\ \A j \in Posiciones : EsHijo(t, j, n, p) => k <= j

(* existe *)
Existe(t, n, p) == \E k \in Posiciones : EsHijo(t, k, n, p)

(* The entries a path goes through, if they are all there. *)
Caminos(t, r) ==
  {c \in [DOMAIN r -> Posiciones] :
     \A i \in DOMAIN r : EsElHijo(t, c[i], r[i], IF i = 1 THEN 0 ELSE t[c[i - 1]].index)}

ExisteRuta(t, r) == Caminos(t, r) # {}

(* A path that exists, as existe_ruta has it, and leads to a directory of the *)
(* table: "/" exists (1565-1594) and leads nowhere.                           *)
LlevaA(t, r) == r # <<>> /\ ExisteRuta(t, r)

(* index_ultimo_directorio: the index a path leads to.  Where an entry is     *)
(* missing obtener_index_directorio returns nothing and what is in its place  *)
(* is used, as the answer or as the parent of the next name; for "/" nobody   *)
(* sets index_actual (90).                                                    *)
Indices(t, r) ==
  IF LlevaA(t, r) THEN {t[c[Len(r)]].index : c \in Caminos(t, r)}
  ELSE Basuras \cup {t[k].index : k \in {j \in Posiciones :
                                           Len(r) > 1 /\ t[j].nombre = r[Len(r)]}}

(* The same of the directory of a file: that of "/" is 0. *)
IndicesPadre(t, r) == IF r = <<>> THEN {0} ELSE Indices(t, r)

(* The first entry, free or not, from a position on with an index. *)
EsElPrimeroCon(t, k, x, desde) ==
  /\ k >= desde /\ t[k].index = x
  /\ \A j \in Posiciones : j >= desde /\ t[j].index = x => k <= j
NingunoCon(t, x, desde) == \A k \in Posiciones : k >= desde => t[k].index # x

(* Mutant of EsPrimerLibre: directorios_ocupados is not computed again. *)
EsPrimerLibreDeAntes(t, k) ==
  ~Ocupada(tabla, k) /\ \A j \in Posiciones : ~Ocupada(tabla, j) => k <= j

(* primer_index_libre, once directorios_ocupados was computed again. *)
EsPrimerLibre(t, k) ==
  ~Ocupada(t, k) /\ \A j \in Posiciones : ~Ocupada(t, j) => k <= j
Llena(t) == \A k \in Posiciones : Ocupada(t, k)

(* Mutant of EsElSiguiente: the counter is not computed again. *)
EsElDeAntes(t, x, m) == m = x

(* actualizar_index_directorios: x or one more than every index in use. *)
EsElSiguiente(t, x, m) ==
  LET S == {x} \cup {y + 1 : y \in Vivos(t)}
  IN m \in S /\ \A y \in S : y <= m

-----------------------------------------------------------------------------
Contar == fs = "vivo" /\ hechos < MaxComandos /\ hechos' = hechos + 1
Ordenar == Contar /\ consola.pc = "libre"
Morir == fs' = "muerto" /\ UNCHANGED <<tabla, siguiente, archivos, consola, pendientes, perdidos>>

(* crear_y_actualizar_ocupados, up to the loop of crear. *)
EmpezarACrear(r, f) ==
  /\ \E m \in {siguiente} \cup {y + 1 : y \in Vivos(tabla)} :
       EsElSiguiente(tabla, siguiente, m) /\ siguiente' = m
  /\ consola' = [pc |-> "crea", ruta |-> r, archivo |-> f, aux |-> tabla, i |-> 1, padre |-> 0]

Mkdir(r) ==
  /\ Ordenar
  /\ ~ExisteRuta(tabla, r)
  /\ EmpezarACrear(r, SinArchivo)
  /\ UNCHANGED <<tabla, archivos, pendientes, perdidos, fs>>

(* cpfrom: the directory is created if it does not exist. *)
Cpfrom(f, r) ==
  /\ Ordenar
  /\ IF ExisteRuta(tabla, r)
     THEN consola' = [pc |-> "almacena", ruta |-> r, archivo |-> f] /\ UNCHANGED siguiente
     ELSE EmpezarACrear(r, f)
  /\ UNCHANGED <<tabla, archivos, pendientes, perdidos, fs>>

(* A pass of the loop of crear: the component exists, or takes the first     *)
(* free entry and the next index, or there is none and the loop ends.        *)
CrearUno ==
  /\ fs = "vivo" /\ consola.pc = "crea" /\ consola.i <= Len(consola.ruta)
  /\ LET t == consola.aux
         n == consola.ruta[consola.i]
         p == consola.padre
     IN \/ /\ Existe(t, n, p)
           /\ \E k \in Posiciones :
                EsElHijo(t, k, n, p) /\ consola' = [consola EXCEPT !.i = @ + 1, !.padre = t[k].index]
           /\ UNCHANGED siguiente
        \/ /\ ~Existe(t, n, p)
           /\ \E k \in Posiciones :
                /\ EsPrimerLibre(t, k)
                /\ consola' = [consola EXCEPT !.i = @ + 1, !.padre = siguiente,
                                              !.aux = [@ EXCEPT ![k] = Entrada(n, siguiente, p)]]
           /\ siguiente' = siguiente + 1
        \/ /\ ~Existe(t, n, p) /\ Llena(t)
           /\ consola' = [consola EXCEPT !.i = Len(consola.ruta) + 1]
           /\ UNCHANGED siguiente
  /\ UNCHANGED <<tabla, archivos, pendientes, perdidos, hechos, fs>>

(* guardar_directorios. *)
Guardar ==
  /\ fs = "vivo" /\ consola.pc = "crea" /\ consola.i > Len(consola.ruta)
  /\ tabla' = consola.aux
  /\ consola' = IF consola.archivo = SinArchivo THEN Parada
                ELSE [pc |-> "almacena", ruta |-> consola.ruta, archivo |-> consola.archivo]
  /\ UNCHANGED <<siguiente, archivos, pendientes, perdidos, hechos, fs>>

(* Where a file is put, and whether its path leads there. *)
Ubicar(f, r, x) == perdidos' = IF LlevaA(tabla, r) THEN perdidos ELSE perdidos \cup {<<f, x>>}

(* The rest of cpfrom: the index of the directory, which is undefined when   *)
(* the table was full, and the copies, if the file could be stored.          *)
Almacenar ==
  /\ fs = "vivo" /\ consola.pc = "almacena"
  /\ \/ /\ \E x \in Indices(tabla, consola.ruta) :
             /\ pendientes' = pendientes \cup {<<consola.archivo, x>>}
             /\ Ubicar(consola.archivo, consola.ruta, x)
     \/ UNCHANGED <<pendientes, perdidos>>
  /\ consola' = Parada
  /\ UNCHANGED <<tabla, siguiente, archivos, hechos, fs>>

(* ESDATOS of a worker (cortar_bloques): the index is looked up for the      *)
(* whole path, with the name of the file as if it were a directory.          *)
RecibirArchivo(f, r) ==
  /\ Contar
  /\ \E x \in Indices(tabla, Append(r, f)) :
       pendientes' = pendientes \cup {<<f, x>>} /\ Ubicar(f, Append(r, f), x)
  /\ UNCHANGED <<tabla, siguiente, archivos, consola, fs>>

(* A copy was answered: metadata/archivos/<index> and the file in it are     *)
(* created if they are not there, for the first time or again.  After the    *)
(* last copy the file is of archivos_actuales no more.                       *)
Registrar ==
  /\ fs = "vivo"
  /\ \E a \in pendientes :
       /\ archivos' = archivos \cup {a}
       /\ pendientes' \in {pendientes, pendientes \ {a}}
  /\ UNCHANGED <<tabla, siguiente, consola, perdidos, hechos, fs>>

(* Mutant of EstaVacio: rm -d does not look for files. *)
EstaVacioSiempre(x) == TRUE

(* rm -d only looks for files: directories below stay in the table. *)
EstaVacio(x) == \A a \in archivos : a[2] # x

(* Mutant of Liberada: the entry is left with an empty name. *)
LiberadaSinNombre == Entrada("", Borrado, 0)

Liberada == Libre(Borrado)

(* rm -d, which does not ask whether the directory exists.  A file that will *)
(* be registered there, for the first time or again after it was removed,    *)
(* will be in a directory that is not in the table.                          *)
RmDirectorio(r) ==
  /\ Ordenar
  /\ \E x \in Indices(tabla, r) :
       IF ~EstaVacio(x) THEN UNCHANGED <<tabla, perdidos>>
       ELSE /\ \/ \E k \in Posiciones :
                    EsElPrimeroCon(tabla, k, x, 0) /\ tabla' = [tabla EXCEPT ![k] = Liberada]
               \/ NingunoCon(tabla, x, 0) /\ UNCHANGED tabla
            /\ perdidos' = perdidos \cup {a \in pendientes : a[2] = x}
  /\ UNCHANGED <<siguiente, archivos, consola, pendientes, fs>>

(* rename of a directory; the first entry of the table is not looked at, nor *)
(* whether there is one of that name.  "/" is whatever its undefined index   *)
(* finds: a free entry becomes a directory with the parent it happens to     *)
(* have.                                                                     *)
RenombrarDirectorio(r, n) ==
  /\ Ordenar
  /\ ExisteRuta(tabla, r)
  /\ \E x \in Indices(tabla, r) :
       \/ \E k \in Posiciones :
            /\ EsElPrimeroCon(tabla, k, x, 1)
            /\ \E p \in {tabla[k].padre} \cup (IF Ocupada(tabla, k) THEN {} ELSE Basuras) :
                 tabla' = [tabla EXCEPT ![k] = Entrada(n, x, p)]
       \/ NingunoCon(tabla, x, 1) /\ UNCHANGED tabla
  /\ UNCHANGED <<siguiente, archivos, consola, pendientes, perdidos, fs>>

(* mv of a directory: neither path has to exist, and the destination may be  *)
(* below the directory.                                                      *)
MoverDirectorio(r, d) ==
  /\ Ordenar
  /\ \E x \in Indices(tabla, r), y \in Indices(tabla, d) :
       \/ \E k \in Posiciones :
            /\ EsElPrimeroCon(tabla, k, x, 0)
            /\ tabla' = [tabla EXCEPT ![k].padre = y]
       \/ NingunoCon(tabla, x, 0) /\ UNCHANGED tabla
  /\ UNCHANGED <<siguiente, archivos, consola, pendientes, perdidos, fs>>

(* rm of a file: the metadata of one that does not exist is a NULL that is   *)
(* dereferenced.                                                             *)
RmArchivo(f, r) ==
  /\ Ordenar
  /\ \E x \in IndicesPadre(tabla, r) :
       \/ <<f, x>> \notin archivos /\ Morir
       \/ /\ <<f, x>> \in archivos
          /\ archivos' = archivos \ {<<f, x>>}
          /\ UNCHANGED <<tabla, siguiente, consola, pendientes, perdidos, fs>>

(* rename of a file, over another one if there is one of that name. *)
RenombrarArchivo(f, r, n) ==
  /\ Ordenar
  /\ \E x \in IndicesPadre(tabla, r) :
       /\ archivos' = IF <<f, x>> \in archivos THEN (archivos \ {<<f, x>>}) \cup {<<n, x>>}
                      ELSE archivos
       /\ perdidos' = IF <<f, x>> \in archivos \cap perdidos THEN perdidos \cup {<<n, x>>}
                      ELSE perdidos
  /\ UNCHANGED <<tabla, siguiente, consola, pendientes, fs>>

(* mv of a file: it is saved in the destination, which for "/" is anywhere,  *)
(* and then removed from where it was, also when that is the same place.     *)
MoverArchivo(f, r, d) ==
  /\ Ordenar
  /\ ExisteRuta(tabla, d)
  /\ \E x \in IndicesPadre(tabla, r), y \in Indices(tabla, d) :
       IF <<f, x>> \in archivos
       THEN archivos' = (archivos \cup {<<f, y>>}) \ {<<f, x>>} /\ Ubicar(f, d, y)
       ELSE UNCHANGED <<archivos, perdidos>>
  /\ UNCHANGED <<tabla, siguiente, consola, pendientes, fs>>

(* format: a new table with whatever malloc returned in it, and no files. *)
Formatear ==
  /\ Ordenar
  /\ tabla' \in Formateadas
  /\ siguiente' = 1
  /\ archivos' = {}
  /\ perdidos' = pendientes
  /\ UNCHANGED <<consola, pendientes, fs>>

(* FileSystem ends and starts again: the table and the files are there. *)
Reiniciar ==
  /\ Contar
  /\ siguiente' = 1
  /\ consola' = Parada
  /\ pendientes' = {}
  /\ UNCHANGED <<tabla, archivos, perdidos, fs>>

Comando ==
  \/ \E r \in Rutas : Mkdir(r) \/ RmDirectorio(r)
  \/ \E r \in Rutas, n \in Nombres : RenombrarDirectorio(r, n)
  \/ \E r, d \in Rutas : MoverDirectorio(r, d)
  \/ \E f \in Archivos, r \in Rutas :
       Cpfrom(f, r) \/ RmArchivo(f, r) \/ RecibirArchivo(f, r)
  \/ \E f, n \in Archivos, r \in Rutas : RenombrarArchivo(f, r, n)
  \/ \E f \in Archivos, r, d \in Rutas : MoverArchivo(f, r, d)

Next ==
  \/ Comando \/ CrearUno \/ Guardar \/ Almacenar \/ Registrar \/ Formatear \/ Reiniciar

Spec == Init /\ [][Next]_vars

-----------------------------------------------------------------------------
Directorio == [nombre : Nombres \cup {Raiz, NoHay}, index : Int, padre : Int]
Creando == [pc : {"crea"}, ruta : Rutas, archivo : Archivos \cup {SinArchivo},
            aux : [Posiciones -> Directorio], i : Nat, padre : Int]
Almacenando == [pc : {"almacena"}, ruta : Rutas, archivo : Archivos]

TypeOK ==
  /\ tabla \in [Posiciones -> Directorio]
  /\ siguiente \in Nat \ {0}
  /\ archivos \subseteq Archivos \X Int
  /\ pendientes \subseteq Archivos \X Int
  /\ perdidos \subseteq Archivos \X Int
  /\ hechos \in 0..MaxComandos
  /\ fs \in {"vivo", "muerto"}
  /\ consola \in {Parada} \cup Creando \cup Almacenando
  /\ consola \in Creando => consola.i \in 1..(Len(consola.ruta) + 1)

(* Index 0 is of the root alone: rm -d with an undefined index (2538) can     *)
(* remove it, and rename of "/" (2834) can give a name to an entry that has   *)
(* a 0 in it.                                                                 *)
CeroEsLaRaiz(t) ==
  t[0].index = 0 /\ \A k \in Posiciones \ {0} : Ocupada(t, k) => t[k].index # 0

(* rm -d, rename and mv change the first entry that has the index of the     *)
(* directory (2575, 2867, 3006), free ones included: it is the directory and *)
(* no other one has its index, after any commands, formats and restarts, as  *)
(* long as index 0 is of the root alone.                                     *)
EncontradoPorIndice ==
  CeroEsLaRaiz(tabla) =>
    \A k \in Posiciones : Ocupada(tabla, k) =>
      /\ EsElPrimeroCon(tabla, k, tabla[k].index, 0)
      /\ \A j \in Posiciones \ {k} : Ocupada(tabla, j) => tabla[j].index # tabla[k].index

(* The directory of every file is in the table (2551-2566), unless its path  *)
(* led nowhere when it was stored (834, 1501, 3115) or moved (2911), or its  *)
(* directory was removed, or all of them, while copies of the file were not  *)
(* answered: they create the file there again (578-595).                     *)
ArchivosConDirectorio == \A a \in archivos : a[2] \in Vivos(tabla) \/ a \in perdidos

(* Creating directories (1469-1503) never changes where another path leads,  *)
(* and their path exists afterwards unless the table is full.                *)
CrearSoloAgrega ==
  [][consola.pc = "crea" /\ tabla' # tabla =>
       /\ \A r \in Rutas : ExisteRuta(tabla, r) => Indices(tabla', r) = Indices(tabla, r)
       /\ ExisteRuta(tabla', consola.ruta) \/ Llena(tabla')]_vars
=============================================================================
