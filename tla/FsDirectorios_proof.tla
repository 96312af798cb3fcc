-------------------------- MODULE FsDirectorios_proof --------------------------
(***************************************************************************)
(* FsDirectorios keeps its types, finds every directory by its index, and   *)
(* keeps every file in a directory of the table, and crear only adds to it, *)
(* leading no path elsewhere, for any number of entries,                    *)
(* names, paths, commands, formats and restarts, and for anything that      *)
(* memory nobody wrote may hold.                                            *)
(***************************************************************************)
EXTENDS FsDirectorios, WellFoundedInduction, TLAPS

(* No directory has the index of another one, or of anything before it: what *)
(* rm -d leaves and what malloc left are of no directory.                    *)
Unicos(t) ==
  \A k \in Posiciones : Ocupada(t, k) =>
    /\ t[k].index # Borrado
    /\ \A j \in Posiciones \ {k} : j < k \/ Ocupada(t, j) => t[j].index # t[k].index

(* As long as index 0 is of the root alone, which is where format put it. *)
Sano(t) == CeroEsLaRaiz(t) => t[0].nombre = Raiz /\ Unicos(t)

(* The copy crear works on is sane too, every index in it was given out      *)
(* already, and nothing that is in the table is missing in it.               *)
CreaSano ==
  consola \in Creando =>
    /\ Sano(consola.aux)
    /\ \A k \in Posiciones : Ocupada(consola.aux, k) => consola.aux[k].index < siguiente
    /\ Vivos(tabla) \subseteq Vivos(consola.aux)

(* The files whose copies were not answered yet have a directory too. *)
ConDirectorio(S) == \A a \in S : a[2] \in Vivos(tabla) \/ a \in perdidos

IInv == TypeOK /\ Sano(tabla) /\ CreaSano /\ ConDirectorio(archivos) /\ ConDirectorio(pendientes)

-----------------------------------------------------------------------------
(* The paths that are looked up: those typed, and those with a file at the   *)
(* end.                                                                      *)
LEMMA RutasConArchivo ==
  ASSUME NEW r \in Rutas
  PROVE  /\ r \in Seq(Nombres)
         /\ \A f \in Archivos : Append(r, f) \in Seq(Nombres) \ {<<>>}
<1>1. r \in Seq(Nombres)
  BY Instancia
<1>2. ASSUME NEW f \in Archivos PROVE Append(r, f) \in Seq(Nombres) \ {<<>>}
  <2>1. f \in Nombres
    BY Instancia
  <2>2. Append(r, f) \in Seq(Nombres) /\ Len(Append(r, f)) = Len(r) + 1 /\ Len(r) \in Nat
    BY <1>1, <2>1
  <2>3. Append(r, f) # <<>>
    <3>1. Len(Append(r, f)) # 0 /\ Len(<<>>) = 0
      BY <2>2
    <3>2. QED
      BY <3>1
  <2>4. QED
    BY <2>2, <2>3
<1>3. QED
  BY <1>1, <1>2

(* index_ultimo_directorio (84-118) returns a number, and that of a directory *)
(* of the table other than the root if the path leads to one; without the     *)
(* path it is garbage or the index of a directory.                            *)
LEMMA IndicesDeRuta ==
  ASSUME NEW t \in [Posiciones -> Directorio], NEW r \in Seq(Nombres), NEW x \in Indices(t, r)
  PROVE  /\ x \in Int
         /\ LlevaA(t, r) =>
              \E k \in Posiciones : t[k].index = x /\ t[k].nombre \in Nombres
         /\ \/ x \in Basuras
            \/ \E k \in Posiciones : t[k].index = x /\ t[k].nombre \in Nombres
<1>1. CASE LlevaA(t, r)
  <2>1. PICK c \in Caminos(t, r) : x = t[c[Len(r)]].index
    BY <1>1 DEF Indices
  <2>2. Len(r) \in DOMAIN r /\ r[Len(r)] \in Nombres
    BY <1>1 DEF LlevaA
  <2>3. c[Len(r)] \in Posiciones /\ t[c[Len(r)]].nombre = r[Len(r)]
    BY <2>2 DEF Caminos, EsElHijo, EsHijo
  <2>4. t[c[Len(r)]].index \in Int
    BY <2>3 DEF Directorio
  <2>5. QED
    BY <2>1, <2>2, <2>3, <2>4
<1>2. CASE ~LlevaA(t, r)
  <2>1. x \in Basuras \/ \E k \in Posiciones : x = t[k].index /\ Len(r) > 1 /\ t[k].nombre = r[Len(r)]
    BY <1>2 DEF Indices
  <2>2. Len(r) > 1 => r[Len(r)] \in Nombres
    OBVIOUS
  <2>3. x \in Basuras \/ \E k \in Posiciones : t[k].index = x /\ t[k].nombre \in Nombres
    BY <2>1, <2>2
  <2>4. x \in Int
    BY <2>3, Instancia DEF Directorio
  <2>5. QED
    BY <1>2, <2>3, <2>4
<1>3. QED
  BY <1>1, <1>2

(* The position of a directory of the table is one of the entries in use. *)
LEMMA NombresOcupan ==
  ASSUME NEW t, NEW k \in Posiciones, t[k].nombre \in Nombres
  PROVE  Ocupada(t, k) /\ t[k].nombre # Raiz /\ t[k].index \in Vivos(t)
<1>1. Ocupada(t, k) /\ t[k].nombre # Raiz
  BY Instancia DEF Ocupada
<1>2. QED
  BY <1>1 DEF Vivos

(* What an existing path leads to is in the table. *)
LEMMA RutaViva ==
  ASSUME NEW t \in [Posiciones -> Directorio], NEW r \in Seq(Nombres),
         NEW x \in Indices(t, r), LlevaA(t, r)
  PROVE  x \in Vivos(t)
<1>1. PICK k \in Posiciones : t[k].index = x /\ t[k].nombre \in Nombres
  BY IndicesDeRuta
<1>2. QED
  BY <1>1, NombresOcupan

(* A table that was formatted (4343-4372) has the root and nothing else. *)
LEMMA FormateadaSana ==
  ASSUME NEW t \in Formateadas
  PROVE  t \in [Posiciones -> Directorio] /\ Sano(t)
<1>1. PICK b \in [Posiciones -> Basuras] :
        t = [k \in Posiciones |-> IF k = 0 THEN Entrada(Raiz, 0, -1) ELSE Libre(b[k])]
  BY DEF Formateadas
<1>2. 0 \in Posiciones
  BY Instancia DEF Posiciones
<1>3. ASSUME NEW k \in Posiciones
      PROVE  /\ t[k] \in Directorio
             /\ k = 0 => t[k].nombre = Raiz /\ t[k].index = 0
             /\ k # 0 => t[k].nombre = NoHay
  <2>1. b[k] \in Int
    BY Instancia
  <2>2. QED
    BY <1>1, <2>1 DEF Entrada, Libre, Directorio
<1>4. t \in [Posiciones -> Directorio]
  BY <1>1, <1>3
<1>5. Unicos(t)
  <2>1. \A k \in Posiciones : Ocupada(t, k) => k = 0
    BY <1>3 DEF Ocupada
  <2>2. \A j \in Posiciones : ~(j < 0)
    BY DEF Posiciones
  <2>3. QED
    BY <1>2, <1>3, <2>1, <2>2 DEF Unicos, Borrado
<1>6. QED
  BY <1>2, <1>3, <1>4, <1>5 DEF Sano
-----------------------------------------------------------------------------
(* Steps that change neither the table nor what crear works on. *)
LEMMA TablaQuieta ==
  ASSUME Sano(tabla), CreaSano, UNCHANGED <<tabla, siguiente>>,
         consola' = consola \/ consola' \notin Creando
  PROVE  Sano(tabla)' /\ CreaSano'
<1>1. Sano(tabla)'
  BY DEF Sano, CeroEsLaRaiz, Unicos, Ocupada
<1>2. CASE consola' = consola
  BY <1>2 DEF CreaSano, Sano, CeroEsLaRaiz, Unicos, Ocupada, Vivos
<1>3. CASE consola' \notin Creando
  BY <1>3 DEF CreaSano
<1>4. QED
  BY <1>1, <1>2, <1>3

(* A table in which no directory was lost keeps the files where they are. *)
LEMMA SiguenConDirectorio ==
  ASSUME NEW S, ConDirectorio(S), Vivos(tabla) \subseteq Vivos(tabla'),
         perdidos \subseteq perdidos'
  PROVE  ConDirectorio(S)'
  BY DEF ConDirectorio

LEMMA Inicial == Init => IInv
<1> SUFFICES ASSUME Init PROVE IInv
  OBVIOUS
<1>1. tabla \in [Posiciones -> Directorio] /\ Sano(tabla)
  BY FormateadaSana DEF Init
<1>2. consola \notin Creando
  BY DEF Init, Parada, Creando
<1>3. TypeOK
  BY <1>1, <1>2, Instancia DEF Init, TypeOK
<1>4. CreaSano
  BY <1>2 DEF CreaSano
<1>5. QED
  BY <1>1, <1>3, <1>4 DEF Init, IInv, ConDirectorio

(* actualizar_index_directorios (1460-1468) leaves the counter above every   *)
(* index in use, and crear starts from a copy of the table.                  *)
LEMMA EmpezarBien ==
  ASSUME IInv, NEW r \in Rutas, NEW f \in Archivos \cup {SinArchivo},
         EmpezarACrear(r, f), UNCHANGED tabla
  PROVE  /\ siguiente' \in Nat \ {0}
         /\ consola' \in Creando /\ consola'.i \in 1..(Len(consola'.ruta) + 1)
         /\ Sano(tabla)' /\ CreaSano'
<1> DEFINE m == siguiente'
<1> USE DEF IInv
<1>1. /\ m \in {siguiente} \cup {y + 1 : y \in Vivos(tabla)}
      /\ EsElSiguiente(tabla, siguiente, m)
      /\ consola' = [pc |-> "crea", ruta |-> r, archivo |-> f, aux |-> tabla, i |-> 1,
                     padre |-> 0]
  BY DEF EmpezarACrear
<1>2. ASSUME NEW k \in Posiciones, Ocupada(tabla, k)
      PROVE  tabla[k].index + 1 <= m
  BY <1>1, <1>2 DEF EsElSiguiente, Vivos
<1>3. m \in Nat \ {0}
  <2>1. \A y \in Vivos(tabla) : y \in Int
    BY DEF TypeOK, Vivos, Directorio
  <2>2. m \in Int /\ siguiente <= m
    BY <1>1, <2>1 DEF EsElSiguiente, TypeOK
  <2>3. QED
    BY <2>2 DEF TypeOK
<1>4. consola' \in Creando
  BY <1>1 DEF Creando, TypeOK
<1>5. consola'.i \in 1..(Len(consola'.ruta) + 1)
  BY <1>1, RutasConArchivo
<1>6. Sano(tabla)'
  BY DEF Sano, CeroEsLaRaiz, Unicos, Ocupada
<1>7. CreaSano'
  <2>1. consola'.aux = tabla /\ tabla' = tabla
    BY <1>1
  <2>2. \A k \in Posiciones : Ocupada(tabla, k) => tabla[k].index < m
    BY <1>2, <1>3 DEF TypeOK, Directorio
  <2>3. QED
    BY <1>6, <2>1, <2>2 DEF CreaSano, Sano, CeroEsLaRaiz, Unicos, Ocupada, Vivos
<1>8. QED
  BY <1>3, <1>4, <1>5, <1>6, <1>7

LEMMA PasoMkdir ==
  ASSUME IInv, NEW r \in Rutas, Mkdir(r)
  PROVE  IInv'
<1> USE DEF IInv
<1>1. /\ EmpezarACrear(r, SinArchivo) /\ hechos' = hechos + 1 /\ hechos < MaxComandos
      /\ UNCHANGED <<tabla, archivos, pendientes, perdidos, fs>>
  BY DEF Mkdir, Ordenar, Contar
<1>2. TypeOK'
  BY <1>1, EmpezarBien, Instancia DEF TypeOK
<1>3. Sano(tabla)' /\ CreaSano'
  BY <1>1, EmpezarBien
<1>4. ConDirectorio(archivos)' /\ ConDirectorio(pendientes)'
  BY <1>1 DEF ConDirectorio
<1>5. QED
  BY <1>2, <1>3, <1>4

LEMMA PasoCpfrom ==
  ASSUME IInv, NEW f \in Archivos, NEW r \in Rutas, Cpfrom(f, r)
  PROVE  IInv'
<1> USE DEF IInv
<1>1. /\ hechos' = hechos + 1 /\ hechos < MaxComandos
      /\ UNCHANGED <<tabla, archivos, pendientes, perdidos, fs>>
  BY DEF Cpfrom, Ordenar, Contar
<1>2. /\ consola' \in {Parada} \cup Creando \cup Almacenando
      /\ consola' \in Creando => consola'.i \in 1..(Len(consola'.ruta) + 1)
      /\ siguiente' \in Nat \ {0}
      /\ Sano(tabla)' /\ CreaSano'
  <2>1. CASE ExisteRuta(tabla, r)
    <3>1. /\ consola' = [pc |-> "almacena", ruta |-> r, archivo |-> f]
          /\ UNCHANGED siguiente
      BY <2>1 DEF Cpfrom
    <3>2. consola' \in Almacenando /\ consola' \notin Creando
      BY <3>1 DEF Almacenando, Creando
    <3>3. QED
      BY <1>1, <3>1, <3>2, TablaQuieta DEF TypeOK
  <2>2. CASE ~ExisteRuta(tabla, r)
    <3>1. EmpezarACrear(r, f)
      BY <2>2 DEF Cpfrom
    <3>2. QED
      BY <1>1, <3>1, EmpezarBien
  <2>3. QED
    BY <2>1, <2>2
<1>3. TypeOK'
  BY <1>1, <1>2, Instancia DEF TypeOK
<1>4. ConDirectorio(archivos)' /\ ConDirectorio(pendientes)'
  BY <1>1 DEF ConDirectorio
<1>5. QED
  BY <1>2, <1>3, <1>4

(* A new directory takes the first free entry and an index nobody has. *)
Agregada(t, k, n, s, p) == [t EXCEPT ![k] = Entrada(n, s, p)]

LEMMA EntradaNueva ==
  ASSUME NEW t \in [Posiciones -> Directorio], Sano(t), NEW s \in Nat \ {0},
         \A k \in Posiciones : Ocupada(t, k) => t[k].index < s,
         NEW k \in Posiciones, EsPrimerLibre(t, k), NEW n \in Nombres, NEW p \in Int
  PROVE  LET u == Agregada(t, k, n, s, p)
         IN  /\ u \in [Posiciones -> Directorio]
             /\ Sano(u)
             /\ \A j \in Posiciones : Ocupada(u, j) => u[j].index < s + 1
             /\ Vivos(t) \subseteq Vivos(u)
<1> DEFINE u == Agregada(t, k, n, s, p)
<1>1. 0 \in Posiciones
  BY Instancia DEF Posiciones
<1>2. /\ Entrada(n, s, p) \in Directorio
      /\ u[k].nombre = n /\ u[k].index = s
      /\ \A j \in Posiciones \ {k} : u[j] = t[j]
  BY DEF Entrada, Directorio, Agregada
<1>3. u \in [Posiciones -> Directorio]
  BY <1>2 DEF Agregada
<1> HIDE DEF u
<1>4. /\ Ocupada(u, k) /\ ~Ocupada(t, k)
      /\ \A j \in Posiciones \ {k} : Ocupada(u, j) <=> Ocupada(t, j)
      /\ \A j \in Posiciones : j < k => Ocupada(t, j)
  BY <1>2, Instancia DEF Ocupada, EsPrimerLibre, Posiciones
<1>5. \A j \in Posiciones : t[j].index \in Int /\ u[j].index \in Int
  BY <1>3 DEF Directorio
<1>6. Vivos(t) \subseteq Vivos(u)
  BY <1>2, <1>4 DEF Vivos
<1>7. \A j \in Posiciones : Ocupada(u, j) => u[j].index < s + 1
  <2>1. ASSUME NEW j \in Posiciones, Ocupada(u, j) PROVE u[j].index < s + 1
    <3>1. CASE j = k
      BY <1>2, <3>1
    <3>2. CASE j # k
      <4>1. t[j].index < s /\ u[j] = t[j]
        BY <1>2, <1>4, <2>1, <3>2
      <4>2. QED
        BY <1>5, <4>1
    <3>3. QED
      BY <3>1, <3>2
  <2>2. QED
    BY <2>1
<1>8. ASSUME CeroEsLaRaiz(u)
      PROVE  u[0].nombre = Raiz /\ Unicos(u)
  <2>1. k # 0 /\ t[0].index = 0 /\ u[0] = t[0]
    BY <1>1, <1>2, <1>8 DEF CeroEsLaRaiz
  <2>2. t[0].nombre = Raiz /\ Unicos(t)
    <3>1. \A j \in Posiciones \ {0} : Ocupada(t, j) => t[j].index # 0
      BY <1>2, <1>4, <1>8 DEF CeroEsLaRaiz
    <3>2. QED
      BY <2>1, <3>1 DEF Sano, CeroEsLaRaiz
  <2>3. ASSUME NEW j \in Posiciones, Ocupada(u, j)
        PROVE  /\ u[j].index # Borrado
               /\ \A l \in Posiciones \ {j} : l < j \/ Ocupada(u, l) => u[l].index # u[j].index
    <3>1. CASE j = k
      <4>1. ASSUME NEW l \in Posiciones \ {j}, l < j \/ Ocupada(u, l)
            PROVE  u[l].index # u[j].index
        <5>1. Ocupada(t, l) /\ u[l] = t[l]
          BY <1>2, <1>4, <3>1, <4>1
        <5>2. t[l].index < s
          BY <5>1
        <5>3. QED
          BY <1>2, <1>5, <3>1, <5>1, <5>2
      <4>2. u[j].index # Borrado
        BY <1>2, <3>1 DEF Borrado
      <4>3. QED
        BY <4>1, <4>2, Zenon
    <3>2. CASE j # k
      <4>1. Ocupada(t, j) /\ u[j] = t[j]
        BY <1>2, <1>4, <2>3, <3>2
      <4>2. /\ t[j].index # Borrado /\ t[j].index < s
            /\ \A l \in Posiciones \ {j} : l < j \/ Ocupada(t, l) => t[l].index # t[j].index
        BY <2>2, <4>1 DEF Unicos
      <4>3. ASSUME NEW l \in Posiciones \ {j}, l < j \/ Ocupada(u, l)
            PROVE  u[l].index # u[j].index
        <5>1. CASE l = k
          BY <1>2, <1>5, <4>1, <4>2, <5>1
        <5>2. CASE l # k
          BY <1>2, <1>4, <4>1, <4>2, <4>3, <5>2
        <5>3. QED
          BY <5>1, <5>2
      <4>4. u[j].index # Borrado
        BY <4>1, <4>2
      <4>5. QED
        BY <4>3, <4>4, Zenon
    <3>3. QED
      BY <3>1, <3>2
  <2>4. Unicos(u)
    BY <2>3 DEF Unicos
  <2>5. QED
    BY <2>1, <2>2, <2>4
<1>9. Sano(u)
  BY <1>8 DEF Sano
<1>10. QED
  BY <1>3, <1>6, <1>7, <1>9 DEF u

(* A pass of the loop of crear (1477-1499). *)
LEMMA PasoCrearUno ==
  ASSUME IInv, CrearUno
  PROVE  IInv'
<1> USE DEF IInv
<1>1. /\ consola \in Creando /\ consola.i \in 1..(Len(consola.ruta) + 1)
      /\ consola.i <= Len(consola.ruta)
      /\ UNCHANGED <<tabla, archivos, pendientes, perdidos, hechos, fs>>
  <2>1. /\ consola.pc = "crea" /\ consola.i <= Len(consola.ruta)
        /\ UNCHANGED <<tabla, archivos, pendientes, perdidos, hechos, fs>>
    BY DEF CrearUno
  <2>2. consola \in {Parada} \cup Creando \cup Almacenando
    BY DEF TypeOK
  <2>3. consola \in Creando
    BY <2>1, <2>2 DEF Parada, Almacenando
  <2>4. QED
    BY <2>1, <2>3 DEF TypeOK
<1>2. /\ consola.ruta \in Seq(Nombres)
      /\ consola.aux \in [Posiciones -> Directorio]
      /\ consola.ruta[consola.i] \in Nombres
      /\ Len(consola.ruta) \in Nat
  BY <1>1, RutasConArchivo DEF Creando
<1> DEFINE t == consola.aux
           n == consola.ruta[consola.i]
           p == consola.padre
<1>3. /\ siguiente' \in Nat \ {0} /\ siguiente' >= siguiente
      /\ consola' \in Creando
      /\ consola'.i \in 1..(Len(consola'.ruta) + 1)
      /\ Sano(consola'.aux)
      /\ \A k \in Posiciones : Ocupada(consola'.aux, k) => consola'.aux[k].index < siguiente'
      /\ Vivos(tabla) \subseteq Vivos(consola'.aux)
  <2>1. CASE Existe(t, n, p)
    <3>1. PICK k \in Posiciones : consola' = [consola EXCEPT !.i = @ + 1, !.padre = t[k].index]
      BY <2>1, Zenon DEF CrearUno
    <3>2. UNCHANGED siguiente
      BY <2>1, Zenon DEF CrearUno
    <3>3. t[k].index \in Int
      BY <1>2 DEF Directorio
    <3>4. consola' = [pc |-> "crea", ruta |-> consola.ruta, archivo |-> consola.archivo,
                      aux |-> t, i |-> consola.i + 1, padre |-> t[k].index]
      BY <1>1, <3>1 DEF Creando
    <3>5. /\ consola' \in Creando /\ consola'.aux = t
          /\ consola'.i = consola.i + 1 /\ consola'.ruta = consola.ruta
      BY <1>1, <3>3, <3>4 DEF Creando
    <3>6. QED
      BY <1>1, <1>2, <3>2, <3>5 DEF CreaSano, TypeOK
  <2>2. CASE ~Existe(t, n, p) /\ \E k \in Posiciones : EsPrimerLibre(t, k)
    <3>1. /\ siguiente' = siguiente + 1
          /\ \E k \in Posiciones :
               /\ EsPrimerLibre(t, k)
               /\ consola' = [consola EXCEPT !.i = @ + 1, !.padre = siguiente,
                                             !.aux = [@ EXCEPT ![k] = Entrada(n, siguiente, p)]]
      <4>1. ~Llena(t)
        BY <2>2 DEF Llena, EsPrimerLibre
      <4>2. QED
        BY <2>2, <4>1, Zenon DEF CrearUno
    <3>2. PICK k \in Posiciones :
               /\ EsPrimerLibre(t, k)
               /\ consola' = [consola EXCEPT !.i = @ + 1, !.padre = siguiente,
                                             !.aux = [@ EXCEPT ![k] = Entrada(n, siguiente, p)]]
      BY <3>1
    <3>3. siguiente \in Nat \ {0} /\ p \in Int
      BY <1>1 DEF TypeOK, Creando
    <3>4. /\ consola'.aux = [t EXCEPT ![k] = Entrada(n, siguiente, p)]
          /\ consola'.i = consola.i + 1 /\ consola'.ruta = consola.ruta
          /\ consola'.pc = "crea" /\ consola'.archivo = consola.archivo
          /\ consola'.padre = siguiente
          /\ consola' = [pc |-> "crea", ruta |-> consola.ruta, archivo |-> consola.archivo,
                         aux |-> consola'.aux, i |-> consola.i + 1, padre |-> siguiente]
      BY <1>1, <3>2 DEF Creando
    <3>5. Sano(t) /\ \A j \in Posiciones : Ocupada(t, j) => t[j].index < siguiente
      BY <1>1 DEF CreaSano
    <3>6. /\ consola'.aux \in [Posiciones -> Directorio]
          /\ Sano(consola'.aux)
          /\ \A j \in Posiciones : Ocupada(consola'.aux, j) =>
               consola'.aux[j].index < siguiente + 1
          /\ Vivos(t) \subseteq Vivos(consola'.aux)
      <4> DEFINE u == Agregada(t, k, n, siguiente, p)
      <4>1. consola'.aux = u
        BY <3>4 DEF Agregada
      <4>2. EsPrimerLibre(t, k) /\ n \in Nombres /\ t \in [Posiciones -> Directorio]
        BY <1>2, <3>2
      <4> HIDE DEF t, n, p
      <4>3. /\ u \in [Posiciones -> Directorio]
            /\ Sano(u)
            /\ \A j \in Posiciones : Ocupada(u, j) => u[j].index < siguiente + 1
            /\ Vivos(t) \subseteq Vivos(u)
        BY <3>3, <3>5, <4>2, EntradaNueva
      <4> HIDE DEF u
      <4>4. QED
        BY <4>1, <4>3
    <3>7. consola' \in Creando
      BY <1>1, <3>3, <3>4, <3>6 DEF Creando
    <3>8. consola'.i \in 1..(Len(consola'.ruta) + 1)
      BY <1>1, <1>2, <3>4
    <3>9. Vivos(tabla) \subseteq Vivos(consola'.aux)
      BY <1>1, <3>6 DEF CreaSano
    <3>10. siguiente' \in Nat \ {0} /\ siguiente' >= siguiente
      BY <3>1, <3>3
    <3>11. QED
      BY <3>1, <3>6, <3>7, <3>8, <3>9, <3>10, Zenon
  <2>3. CASE ~Existe(t, n, p) /\ ~\E k \in Posiciones : EsPrimerLibre(t, k)
    <3>1. consola' = [consola EXCEPT !.i = Len(consola.ruta) + 1] /\ UNCHANGED siguiente
      BY <2>3, Zenon DEF CrearUno
    <3>2. /\ consola' \in Creando /\ consola'.aux = t
          /\ consola'.i = Len(consola.ruta) + 1 /\ consola'.ruta = consola.ruta
      BY <1>1, <1>2, <3>1 DEF Creando
    <3>3. QED
      BY <1>1, <1>2, <3>1, <3>2 DEF CreaSano, TypeOK
  <2>4. QED
    BY <2>1, <2>2, <2>3
<1>4. TypeOK'
  BY <1>1, <1>3 DEF TypeOK
<1>5. Sano(tabla)' /\ CreaSano'
  BY <1>1, <1>3 DEF Sano, CreaSano, CeroEsLaRaiz, Unicos, Ocupada, Vivos
<1>6. ConDirectorio(archivos)' /\ ConDirectorio(pendientes)'
  BY <1>1 DEF ConDirectorio
<1>7. QED
  BY <1>4, <1>5, <1>6

(* guardar_directorios (339-362): the copy becomes the table. *)
LEMMA PasoGuardar ==
  ASSUME IInv, Guardar
  PROVE  IInv'
<1> USE DEF IInv
<1>1. /\ consola \in Creando /\ tabla' = consola.aux
      /\ UNCHANGED <<siguiente, archivos, pendientes, perdidos, hechos, fs>>
  BY DEF Guardar, TypeOK, Parada, Almacenando
<1>2. consola' \in {Parada} \cup Almacenando /\ consola' \notin Creando
  <2>1. CASE consola.archivo = SinArchivo
    BY <2>1 DEF Guardar, Parada, Creando
  <2>2. CASE consola.archivo # SinArchivo
    BY <1>1, <2>2 DEF Guardar, Almacenando, Creando
  <2>3. QED
    BY <2>1, <2>2
<1>3. tabla' \in [Posiciones -> Directorio]
  BY <1>1 DEF Creando
<1>4. TypeOK'
  BY <1>1, <1>2, <1>3 DEF TypeOK
<1>5. Sano(tabla') /\ Vivos(tabla) \subseteq Vivos(tabla')
  BY <1>1 DEF CreaSano
<1>6. Sano(tabla)' /\ CreaSano'
  BY <1>2, <1>5 DEF CreaSano, Sano, CeroEsLaRaiz, Unicos, Ocupada
<1>7. ConDirectorio(archivos)' /\ ConDirectorio(pendientes)'
  BY <1>1, <1>5 DEF ConDirectorio
<1>8. QED
  BY <1>4, <1>6, <1>7

(* A file goes where its path leads, or into perdidos. *)
LEMMA UbicarBien ==
  ASSUME IInv, NEW f \in Archivos, NEW r \in Seq(Nombres),
         NEW x \in Indices(tabla, r), Ubicar(f, r, x), UNCHANGED tabla
  PROVE  /\ <<f, x>> \in Archivos \X Int
         /\ perdidos' \subseteq Archivos \X Int /\ perdidos \subseteq perdidos'
         /\ x \in Vivos(tabla') \/ <<f, x>> \in perdidos'
<1>1. tabla \in [Posiciones -> Directorio] /\ perdidos \subseteq Archivos \X Int
  BY DEF IInv, TypeOK
<1>2. x \in Int
  BY <1>1, IndicesDeRuta
<1>3. LlevaA(tabla, r) => x \in Vivos(tabla)
  BY <1>1, RutaViva
<1>4. QED
  BY <1>1, <1>2, <1>3 DEF Ubicar

LEMMA PasoAlmacenar ==
  ASSUME IInv, Almacenar
  PROVE  IInv'
<1> USE DEF IInv
<1>1. /\ consola \in Almacenando /\ consola' = Parada
      /\ UNCHANGED <<tabla, siguiente, archivos, hechos, fs>>
  BY DEF Almacenar, TypeOK, Parada, Creando
<1>2. /\ consola.archivo \in Archivos /\ consola.ruta \in Rutas
      /\ consola.ruta \in Seq(Nombres)
  BY <1>1, RutasConArchivo DEF Almacenando
<1>3. Sano(tabla)' /\ CreaSano'
  BY <1>1, TablaQuieta DEF Parada, Creando
<1>4. /\ pendientes' \subseteq Archivos \X Int /\ perdidos' \subseteq Archivos \X Int
      /\ perdidos \subseteq perdidos'
      /\ ConDirectorio(pendientes)'
  <2>1. CASE UNCHANGED <<pendientes, perdidos>>
    BY <1>1, <2>1 DEF TypeOK, ConDirectorio
  <2>2. CASE \E x \in Indices(tabla, consola.ruta) :
               /\ pendientes' = pendientes \cup {<<consola.archivo, x>>}
               /\ Ubicar(consola.archivo, consola.ruta, x)
    <3>1. PICK x \in Indices(tabla, consola.ruta) :
               /\ pendientes' = pendientes \cup {<<consola.archivo, x>>}
               /\ Ubicar(consola.archivo, consola.ruta, x)
      BY <2>2
    <3>2. /\ <<consola.archivo, x>> \in Archivos \X Int
          /\ perdidos' \subseteq Archivos \X Int /\ perdidos \subseteq perdidos'
          /\ x \in Vivos(tabla') \/ <<consola.archivo, x>> \in perdidos'
      BY <1>1, <1>2, <3>1, UbicarBien
    <3>3. QED
      BY <1>1, <3>1, <3>2 DEF TypeOK, ConDirectorio
  <2>3. QED
    BY <2>1, <2>2 DEF Almacenar
<1>5. TypeOK'
  BY <1>1, <1>4 DEF TypeOK, Parada, Creando
<1>6. ConDirectorio(archivos)'
  BY <1>1, <1>4 DEF ConDirectorio
<1>7. QED
  BY <1>3, <1>4, <1>5, <1>6

LEMMA PasoRecibirArchivo ==
  ASSUME IInv, NEW f \in Archivos, NEW r \in Rutas, RecibirArchivo(f, r)
  PROVE  IInv'
<1> USE DEF IInv
<1>1. /\ hechos' = hechos + 1 /\ hechos < MaxComandos
      /\ UNCHANGED <<tabla, siguiente, archivos, consola, fs>>
  BY DEF RecibirArchivo, Contar
<1>2. PICK x \in Indices(tabla, Append(r, f)) :
        pendientes' = pendientes \cup {<<f, x>>} /\ Ubicar(f, Append(r, f), x)
  BY DEF RecibirArchivo
<1>3. Append(r, f) \in Seq(Nombres) \ {<<>>}
  BY RutasConArchivo
<1>4. /\ <<f, x>> \in Archivos \X Int
      /\ perdidos' \subseteq Archivos \X Int /\ perdidos \subseteq perdidos'
      /\ x \in Vivos(tabla') \/ <<f, x>> \in perdidos'
  BY <1>1, <1>2, <1>3, UbicarBien
<1>5. TypeOK'
  BY <1>1, <1>2, <1>4, Instancia DEF TypeOK
<1>6. Sano(tabla)' /\ CreaSano'
  BY <1>1, TablaQuieta
<1>7. ConDirectorio(archivos)' /\ ConDirectorio(pendientes)'
  BY <1>1, <1>2, <1>4 DEF ConDirectorio
<1>8. QED
  BY <1>5, <1>6, <1>7

LEMMA PasoRegistrar ==
  ASSUME IInv, Registrar
  PROVE  IInv'
<1> USE DEF IInv
<1>1. UNCHANGED <<tabla, siguiente, consola, perdidos, hechos, fs>>
  BY DEF Registrar
<1>2. PICK a \in pendientes :
        archivos' = archivos \cup {a} /\ pendientes' \in {pendientes, pendientes \ {a}}
  BY DEF Registrar
<1>3. TypeOK'
  BY <1>1, <1>2 DEF TypeOK
<1>4. Sano(tabla)' /\ CreaSano'
  BY <1>1, TablaQuieta
<1>5. ConDirectorio(archivos)' /\ ConDirectorio(pendientes)'
  BY <1>1, <1>2 DEF ConDirectorio
<1>6. QED
  BY <1>3, <1>4, <1>5

(* An entry that rm -d frees (2575-2577) has an index no directory can have. *)
LEMMA LiberarBien ==
  ASSUME NEW t \in [Posiciones -> Directorio], Sano(t), NEW k \in Posiciones,
         NEW x, EsElPrimeroCon(t, k, x, 0)
  PROVE  LET u == [t EXCEPT ![k] = Liberada]
         IN  /\ u \in [Posiciones -> Directorio]
             /\ Sano(u)
             /\ Vivos(t) \ {x} \subseteq Vivos(u)
<1> DEFINE u == [t EXCEPT ![k] = Liberada]
<1>1. /\ Liberada \in Directorio
      /\ u[k] = Liberada /\ ~Ocupada(u, k) /\ u[k].index = Borrado
      /\ \A j \in Posiciones \ {k} : u[j] = t[j] /\ (Ocupada(u, j) <=> Ocupada(t, j))
  BY DEF Liberada, Libre, Directorio, Ocupada, Borrado
<1>2. u \in [Posiciones -> Directorio]
  BY <1>1
<1>3. ASSUME CeroEsLaRaiz(u) PROVE u[0].nombre = Raiz /\ Unicos(u)
  <2>1. 0 \in Posiciones /\ k \in Nat /\ 0 >= 0
    BY Instancia DEF Posiciones
  <2>2. k # 0 /\ u[0] = t[0] /\ t[0].index = 0
    BY <1>1, <1>3, <2>1 DEF Borrado, CeroEsLaRaiz
  <2>3. t[0].nombre = Raiz /\ Unicos(t)
    <3>1. t[k].index # 0
      BY <2>1, <2>2 DEF EsElPrimeroCon
    <3>2. \A j \in Posiciones \ {0} : Ocupada(t, j) => t[j].index # 0
      BY <1>1, <1>3, <3>1 DEF CeroEsLaRaiz
    <3>3. QED
      BY <2>2, <3>2 DEF Sano, CeroEsLaRaiz
  <2>4. ASSUME NEW j \in Posiciones, Ocupada(u, j)
        PROVE  /\ u[j].index # Borrado
               /\ \A l \in Posiciones \ {j} : l < j \/ Ocupada(u, l) => u[l].index # u[j].index
    <3>1. j # k /\ Ocupada(t, j) /\ u[j] = t[j]
      BY <1>1, <2>4
    <3>2. /\ t[j].index # Borrado
          /\ \A l \in Posiciones \ {j} : l < j \/ Ocupada(t, l) => t[l].index # t[j].index
      BY <2>3, <3>1 DEF Unicos
    <3>3. ASSUME NEW l \in Posiciones \ {j}, l < j \/ Ocupada(u, l)
          PROVE  u[l].index # u[j].index
      <4>1. CASE l = k
        BY <1>1, <3>1, <3>2, <4>1
      <4>2. CASE l # k
        BY <1>1, <3>1, <3>2, <3>3, <4>2
      <4>3. QED
        BY <4>1, <4>2
    <3>4. QED
      BY <3>1, <3>2, <3>3
  <2>5. QED
    BY <2>2, <2>3, <2>4 DEF Unicos
<1>4. Vivos(t) \ {x} \subseteq Vivos(u)
  <2>1. t[k].index = x
    BY DEF EsElPrimeroCon
  <2>2. QED
    BY <1>1, <2>1 DEF Vivos
<1>5. QED
  BY <1>2, <1>3, <1>4 DEF Sano

LEMMA PasoRmDirectorio ==
  ASSUME IInv, NEW r \in Rutas, RmDirectorio(r)
  PROVE  IInv'
<1> USE DEF IInv
<1>1. /\ hechos' = hechos + 1 /\ hechos < MaxComandos /\ consola.pc = "libre"
      /\ UNCHANGED <<siguiente, archivos, consola, pendientes, fs>>
  BY DEF RmDirectorio, Ordenar, Contar
<1>2. consola' \notin Creando
  BY <1>1 DEF Creando
<1>3. PICK x \in Indices(tabla, r) :
       IF ~EstaVacio(x) THEN UNCHANGED <<tabla, perdidos>>
       ELSE /\ \/ \E k \in Posiciones :
                    EsElPrimeroCon(tabla, k, x, 0) /\ tabla' = [tabla EXCEPT ![k] = Liberada]
               \/ NingunoCon(tabla, x, 0) /\ UNCHANGED tabla
            /\ perdidos' = perdidos \cup {a \in pendientes : a[2] = x}
  BY DEF RmDirectorio
<1>4. /\ tabla' \in [Posiciones -> Directorio] /\ Sano(tabla')
      /\ perdidos' \subseteq Archivos \X Int
      /\ ConDirectorio(archivos)' /\ ConDirectorio(pendientes)'
  <2>1. CASE tabla' = tabla
    <3>1. perdidos \subseteq perdidos' /\ perdidos' \subseteq Archivos \X Int
      BY <1>3 DEF TypeOK
    <3>2. QED
      BY <1>1, <2>1, <3>1 DEF TypeOK, ConDirectorio
  <2>2. CASE tabla' # tabla
    <3>1. EstaVacio(x) /\ perdidos' = perdidos \cup {a \in pendientes : a[2] = x}
      BY <1>3, <2>2
    <3>2. PICK k \in Posiciones :
            EsElPrimeroCon(tabla, k, x, 0) /\ tabla' = [tabla EXCEPT ![k] = Liberada]
      BY <1>3, <2>2
    <3>4. /\ tabla' \in [Posiciones -> Directorio] /\ Sano(tabla')
          /\ Vivos(tabla) \ {x} \subseteq Vivos(tabla')
      BY <3>2, LiberarBien DEF TypeOK
    <3>5. perdidos' \subseteq Archivos \X Int
      BY <3>1 DEF TypeOK
    <3>6. ConDirectorio(archivos)'
      BY <1>1, <3>1, <3>4 DEF EstaVacio, ConDirectorio
    <3>7. ConDirectorio(pendientes)'
      BY <1>1, <3>1, <3>4 DEF ConDirectorio
    <3>8. QED
      BY <3>4, <3>5, <3>6, <3>7
  <2>3. QED
    BY <2>1, <2>2
<1>5. TypeOK'
  BY <1>1, <1>4, Instancia DEF TypeOK
<1>6. Sano(tabla)' /\ CreaSano'
  BY <1>2, <1>4 DEF Sano, CeroEsLaRaiz, Unicos, Ocupada, CreaSano
<1>7. QED
  BY <1>4, <1>5, <1>6

(* rename finds the directory itself, or for "/" the first entry that has     *)
(* the index nobody set: what gets a name there has no index of a directory   *)
(* but that of the root, which is not looked at (2866-2871).                  *)
LEMMA RenombrarBien ==
  ASSUME NEW t \in [Posiciones -> Directorio], Sano(t), NEW x \in Int,
         x \in Basuras \/ \E q \in Posiciones : t[q].index = x /\ t[q].nombre \in Nombres,
         NEW k \in Posiciones, EsElPrimeroCon(t, k, x, 1), NEW n \in Nombres, NEW p \in Int
  PROVE  LET u == [t EXCEPT ![k] = Entrada(n, x, p)]
         IN  /\ u \in [Posiciones -> Directorio]
             /\ Sano(u)
             /\ Vivos(t) \subseteq Vivos(u)
<1> DEFINE u == [t EXCEPT ![k] = Entrada(n, x, p)]
<1>1. /\ k >= 1 /\ k \in Nat /\ t[k].index = x
      /\ \A j \in Posiciones : j >= 1 /\ t[j].index = x => k <= j
  BY DEF EsElPrimeroCon, Posiciones
<1>2. /\ Entrada(n, x, p) \in Directorio
      /\ u[k].nombre = n /\ u[k].index = x
      /\ \A j \in Posiciones \ {k} : u[j] = t[j]
  BY DEF Entrada, Directorio
<1>3. u \in [Posiciones -> Directorio]
  BY <1>2
<1> HIDE DEF u
<1>4. /\ Ocupada(u, k)
      /\ \A j \in Posiciones : u[j].index = t[j].index
      /\ \A j \in Posiciones \ {k} : Ocupada(u, j) <=> Ocupada(t, j)
  BY <1>1, <1>2, Instancia DEF Ocupada
<1>5. Vivos(t) \subseteq Vivos(u)
  <2>1. \A j \in Posiciones : Ocupada(t, j) => Ocupada(u, j)
    BY <1>4
  <2>2. QED
    BY <1>4, <2>1 DEF Vivos
<1>6. ASSUME CeroEsLaRaiz(u) PROVE u[0].nombre = Raiz /\ Unicos(u)
  <2>1. 0 \in Posiciones /\ k # 0 /\ u[0] = t[0]
    BY <1>1, <1>2, Instancia DEF Posiciones
  <2>2. x # 0 /\ t[0].index = 0
    BY <1>2, <1>4, <1>6, <2>1 DEF CeroEsLaRaiz
  <2>3. CeroEsLaRaiz(t)
    <3>1. \A j \in Posiciones \ {0} : Ocupada(t, j) => t[j].index # 0
      BY <1>1, <1>4, <1>6, <2>2 DEF CeroEsLaRaiz
    <3>2. QED
      BY <2>2, <3>1 DEF CeroEsLaRaiz
  <2>4. t[0].nombre = Raiz /\ Unicos(t)
    BY <2>3 DEF Sano
  <2>5. x # Borrado
    <3>1. CASE x \in Basuras
      BY <3>1, Instancia
    <3>2. CASE \E q \in Posiciones : t[q].index = x /\ t[q].nombre \in Nombres
      <4>1. PICK q \in Posiciones : t[q].index = x /\ t[q].nombre \in Nombres
        BY <3>2
      <4>2. Ocupada(t, q)
        BY <4>1, NombresOcupan
      <4>3. QED
        BY <2>4, <4>1, <4>2 DEF Unicos
    <3>3. QED
      BY <3>1, <3>2
  <2>6. ASSUME NEW j \in Posiciones, Ocupada(u, j)
        PROVE  /\ u[j].index # Borrado
               /\ \A l \in Posiciones \ {j} : l < j \/ Ocupada(u, l) => u[l].index # u[j].index
    <3>1. CASE j = k
      <4>1. ASSUME NEW l \in Posiciones \ {k}, l < k \/ Ocupada(u, l)
            PROVE  t[l].index # x
        <5>1. CASE l = 0
          BY <2>1, <2>2, <5>1
        <5>2. CASE l # 0 /\ l < k
          BY <1>1, <5>2 DEF Posiciones
        <5>3. CASE l # 0 /\ ~(l < k)
          <6>1. Ocupada(t, l) /\ k < l
            BY <1>1, <1>4, <4>1, <5>3 DEF Posiciones
          <6>2. \A m \in Posiciones \ {l} : m < l \/ Ocupada(t, m) => t[m].index # t[l].index
            BY <2>4, <6>1 DEF Unicos
          <6>3. t[k].index # t[l].index
            BY <6>1, <6>2
          <6>4. QED
            BY <1>1, <6>3
        <5>4. QED
          BY <5>1, <5>2, <5>3
      <4>2. QED
        BY <1>1, <1>4, <2>5, <3>1, <4>1
    <3>2. CASE j # k
      <4>1. Ocupada(t, j) /\ j \in Posiciones
        BY <1>4, <2>6, <3>2
      <4>2. /\ t[j].index # Borrado
            /\ \A l \in Posiciones \ {j} : l < j \/ Ocupada(t, l) => t[l].index # t[j].index
        BY <2>4, <4>1 DEF Unicos
      <4>3. t[j].index # x
        <5>1. CASE j = 0
          BY <2>2, <5>1
        <5>2. CASE j # 0 /\ j < k
          BY <1>1, <5>2 DEF Posiciones
        <5>3. CASE ~(j < k)
          <6>1. k < j
            BY <1>1, <3>2, <5>3 DEF Posiciones
          <6>2. t[k].index # t[j].index
            BY <3>2, <4>2, <6>1
          <6>3. QED
            BY <1>1, <6>2
        <5>4. QED
          BY <5>1, <5>2, <5>3
      <4>4. ASSUME NEW l \in Posiciones \ {j}, l < j \/ Ocupada(u, l)
            PROVE  t[l].index # t[j].index
        <5>1. CASE l = k
          BY <1>1, <4>3, <5>1
        <5>2. CASE l # k
          BY <1>4, <4>2, <4>4, <5>2
        <5>3. QED
          BY <5>1, <5>2
      <4>5. QED
        BY <1>4, <4>2, <4>4
    <3>3. QED
      BY <3>1, <3>2
  <2>7. Unicos(u)
    BY <2>6 DEF Unicos
  <2>8. QED
    BY <2>1, <2>4, <2>7
<1>7. Sano(u)
  BY <1>6 DEF Sano
<1>8. QED
  BY <1>3, <1>5, <1>7 DEF u

LEMMA PasoRenombrarDirectorio ==
  ASSUME IInv, NEW r \in Rutas, NEW n \in Nombres, RenombrarDirectorio(r, n)
  PROVE  IInv'
<1> USE DEF IInv
<1>1. /\ hechos' = hechos + 1 /\ hechos < MaxComandos /\ consola.pc = "libre"
      /\ UNCHANGED <<siguiente, archivos, consola, pendientes, perdidos, fs>>
  BY DEF RenombrarDirectorio, Ordenar, Contar
<1>2. consola' \notin Creando
  BY <1>1 DEF Creando
<1>3. /\ tabla' \in [Posiciones -> Directorio] /\ Sano(tabla')
      /\ Vivos(tabla) \subseteq Vivos(tabla')
  <2>1. CASE tabla' = tabla
    BY <2>1 DEF TypeOK
  <2>2. CASE tabla' # tabla
    <3>1. PICK x \in Indices(tabla, r) : \E k \in Posiciones :
            /\ EsElPrimeroCon(tabla, k, x, 1)
            /\ \E p \in {tabla[k].padre} \cup (IF Ocupada(tabla, k) THEN {} ELSE Basuras) :
                 tabla' = [tabla EXCEPT ![k] = Entrada(n, x, p)]
      BY <2>2 DEF RenombrarDirectorio
    <3>2. PICK k \in Posiciones :
            /\ EsElPrimeroCon(tabla, k, x, 1)
            /\ \E p \in {tabla[k].padre} \cup (IF Ocupada(tabla, k) THEN {} ELSE Basuras) :
                 tabla' = [tabla EXCEPT ![k] = Entrada(n, x, p)]
      BY <3>1
    <3>3. r \in Seq(Nombres) /\ tabla \in [Posiciones -> Directorio]
      BY RutasConArchivo DEF TypeOK
    <3>4. PICK p \in Int : tabla' = [tabla EXCEPT ![k] = Entrada(n, x, p)]
      <4>1. tabla[k].padre \in Int /\ Basuras \subseteq Int
        BY <3>3, Instancia DEF Directorio
      <4>2. QED
        BY <3>2, <4>1
    <3>5. /\ x \in Int
          /\ x \in Basuras \/ \E q \in Posiciones : tabla[q].index = x /\ tabla[q].nombre \in Nombres
      BY <3>3, IndicesDeRuta
    <3>6. QED
      BY <3>2, <3>3, <3>4, <3>5, RenombrarBien
  <2>3. QED
    BY <2>1, <2>2
<1>4. TypeOK'
  BY <1>1, <1>3, Instancia DEF TypeOK
<1>5. Sano(tabla)' /\ CreaSano'
  BY <1>2, <1>3 DEF Sano, CeroEsLaRaiz, Unicos, Ocupada, CreaSano
<1>6. ConDirectorio(archivos)' /\ ConDirectorio(pendientes)'
  BY <1>1, <1>3 DEF ConDirectorio
<1>7. QED
  BY <1>4, <1>5, <1>6

(* mv changes the parent of a directory and nothing of any index. *)
LEMMA PasoMoverDirectorio ==
  ASSUME IInv, NEW r \in Rutas, NEW d \in Rutas, MoverDirectorio(r, d)
  PROVE  IInv'
<1> USE DEF IInv
<1>1. /\ hechos' = hechos + 1 /\ hechos < MaxComandos /\ consola.pc = "libre"
      /\ UNCHANGED <<siguiente, archivos, consola, pendientes, perdidos, fs>>
  BY DEF MoverDirectorio, Ordenar, Contar
<1>2. consola' \notin Creando
  BY <1>1 DEF Creando
<1>3. /\ tabla' \in [Posiciones -> Directorio]
      /\ \A j \in Posiciones : tabla'[j].nombre = tabla[j].nombre
                               /\ tabla'[j].index = tabla[j].index
  <2>1. CASE tabla' = tabla
    BY <2>1 DEF TypeOK
  <2>2. CASE tabla' # tabla
    <3>1. PICK y \in Indices(tabla, d), k \in Posiciones : tabla' = [tabla EXCEPT ![k].padre = y]
      BY <2>2 DEF MoverDirectorio
    <3>2. y \in Int
      BY RutasConArchivo, IndicesDeRuta DEF TypeOK
    <3>3. tabla \in [Posiciones -> Directorio]
      BY DEF TypeOK
    <3>4. QED
      BY <3>1, <3>2, <3>3 DEF Directorio
  <2>3. QED
    BY <2>1, <2>2
<1>4. Sano(tabla') /\ Vivos(tabla') = Vivos(tabla)
  <2>1. 0 \in Posiciones
    BY Instancia DEF Posiciones
  <2>2. \A j \in Posiciones : Ocupada(tabla', j) <=> Ocupada(tabla, j)
    BY <1>3 DEF Ocupada
  <2>3. Unicos(tabla) => Unicos(tabla')
    BY <1>3, <2>2 DEF Unicos
  <2>4. Sano(tabla')
    BY <1>3, <2>1, <2>2, <2>3 DEF Sano, CeroEsLaRaiz
  <2>5. Vivos(tabla') = Vivos(tabla)
    BY <1>3, <2>2 DEF Vivos
  <2>6. QED
    BY <2>4, <2>5
<1>5. TypeOK'
  BY <1>1, <1>3, Instancia DEF TypeOK
<1>6. Sano(tabla)' /\ CreaSano'
  BY <1>2, <1>4 DEF Sano, CeroEsLaRaiz, Unicos, Ocupada, CreaSano
<1>7. ConDirectorio(archivos)' /\ ConDirectorio(pendientes)'
  BY <1>1, <1>4 DEF ConDirectorio
<1>8. QED
  BY <1>5, <1>6, <1>7

(* The directory of a file: what its path leads to, or the root. *)
LEMMA PadreEntero ==
  ASSUME IInv, NEW r \in Rutas, NEW x \in IndicesPadre(tabla, r)
  PROVE  x \in Int
  BY RutasConArchivo, IndicesDeRuta DEF IndicesPadre, IInv, TypeOK

LEMMA PasoRmArchivo ==
  ASSUME IInv, NEW f \in Archivos, NEW r \in Rutas, RmArchivo(f, r)
  PROVE  IInv'
<1> USE DEF IInv
<1>1. /\ hechos' = hechos + 1 /\ hechos < MaxComandos
      /\ UNCHANGED <<tabla, siguiente, consola, pendientes, perdidos>>
      /\ archivos' \subseteq archivos /\ fs' \in {"vivo", "muerto"}
  BY DEF RmArchivo, Ordenar, Contar, Morir, TypeOK
<1>2. TypeOK'
  BY <1>1, Instancia DEF TypeOK
<1>3. Sano(tabla)' /\ CreaSano'
  BY <1>1, TablaQuieta
<1>4. ConDirectorio(archivos)' /\ ConDirectorio(pendientes)'
  BY <1>1 DEF ConDirectorio
<1>5. QED
  BY <1>2, <1>3, <1>4

LEMMA PasoRenombrarArchivo ==
  ASSUME IInv, NEW f \in Archivos, NEW n \in Archivos, NEW r \in Rutas, RenombrarArchivo(f, r, n)
  PROVE  IInv'
<1> USE DEF IInv
<1>1. /\ hechos' = hechos + 1 /\ hechos < MaxComandos
      /\ UNCHANGED <<tabla, siguiente, consola, pendientes, fs>>
  BY DEF RenombrarArchivo, Ordenar, Contar
<1>2. PICK x \in IndicesPadre(tabla, r) :
       /\ archivos' = IF <<f, x>> \in archivos THEN (archivos \ {<<f, x>>}) \cup {<<n, x>>}
                      ELSE archivos
       /\ perdidos' = IF <<f, x>> \in archivos \cap perdidos THEN perdidos \cup {<<n, x>>}
                      ELSE perdidos
  BY DEF RenombrarArchivo
<1>3. x \in Int
  BY PadreEntero
<1>4. TypeOK'
  BY <1>1, <1>2, <1>3, Instancia DEF TypeOK
<1>5. Sano(tabla)' /\ CreaSano'
  BY <1>1, TablaQuieta
<1>6. ConDirectorio(archivos)' /\ ConDirectorio(pendientes)'
  <2>1. perdidos \subseteq perdidos'
    BY <1>2
  <2>2. <<f, x>> \in archivos => x \in Vivos(tabla) \/ <<n, x>> \in perdidos'
    BY <1>2 DEF ConDirectorio
  <2>3. \A a \in archivos' : a \in archivos \/ (<<f, x>> \in archivos /\ a = <<n, x>>)
    BY <1>2
  <2>4. QED
    BY <1>1, <2>1, <2>2, <2>3 DEF ConDirectorio
<1>7. QED
  BY <1>4, <1>5, <1>6

LEMMA PasoMoverArchivo ==
  ASSUME IInv, NEW f \in Archivos, NEW r \in Rutas, NEW d \in Rutas, MoverArchivo(f, r, d)
  PROVE  IInv'
<1> USE DEF IInv
<1>1. /\ hechos' = hechos + 1 /\ hechos < MaxComandos
      /\ UNCHANGED <<tabla, siguiente, consola, pendientes, fs>>
  BY DEF MoverArchivo, Ordenar, Contar
<1>2. /\ archivos' \subseteq Archivos \X Int /\ perdidos' \subseteq Archivos \X Int
      /\ perdidos \subseteq perdidos'
      /\ ConDirectorio(archivos)'
  <2>1. CASE UNCHANGED <<archivos, perdidos>>
    BY <1>1, <2>1 DEF TypeOK, ConDirectorio
  <2>2. CASE ~UNCHANGED <<archivos, perdidos>>
    <3>1. PICK x \in IndicesPadre(tabla, r), y \in Indices(tabla, d) :
            IF <<f, x>> \in archivos
            THEN archivos' = (archivos \cup {<<f, y>>}) \ {<<f, x>>} /\ Ubicar(f, d, y)
            ELSE UNCHANGED <<archivos, perdidos>>
      BY DEF MoverArchivo
    <3>2. archivos' \subseteq archivos \cup {<<f, y>>} /\ Ubicar(f, d, y)
      BY <2>2, <3>1
    <3>3. /\ <<f, y>> \in Archivos \X Int
          /\ perdidos' \subseteq Archivos \X Int /\ perdidos \subseteq perdidos'
          /\ y \in Vivos(tabla') \/ <<f, y>> \in perdidos'
      BY <1>1, <3>2, RutasConArchivo, UbicarBien
    <3>4. QED
      BY <1>1, <3>2, <3>3 DEF TypeOK, ConDirectorio
  <2>3. QED
    BY <2>1, <2>2
<1>3. TypeOK'
  BY <1>1, <1>2, Instancia DEF TypeOK
<1>4. Sano(tabla)' /\ CreaSano'
  BY <1>1, TablaQuieta
<1>5. ConDirectorio(pendientes)'
  BY <1>1, <1>2 DEF ConDirectorio
<1>6. QED
  BY <1>2, <1>3, <1>4, <1>5

LEMMA PasoFormatear ==
  ASSUME IInv, Formatear
  PROVE  IInv'
<1> USE DEF IInv
<1>1. /\ hechos' = hechos + 1 /\ hechos < MaxComandos /\ consola.pc = "libre"
      /\ tabla' \in Formateadas /\ siguiente' = 1 /\ archivos' = {} /\ perdidos' = pendientes
      /\ UNCHANGED <<consola, pendientes, fs>>
  BY DEF Formatear, Ordenar, Contar
<1>2. consola' \notin Creando
  BY <1>1 DEF Creando
<1>3. tabla' \in [Posiciones -> Directorio] /\ Sano(tabla')
  BY <1>1, FormateadaSana
<1>4. TypeOK'
  BY <1>1, <1>3, Instancia DEF TypeOK
<1>5. Sano(tabla)' /\ CreaSano'
  BY <1>2, <1>3 DEF Sano, CeroEsLaRaiz, Unicos, Ocupada, CreaSano
<1>6. ConDirectorio(archivos)' /\ ConDirectorio(pendientes)'
  BY <1>1 DEF ConDirectorio
<1>7. QED
  BY <1>4, <1>5, <1>6

(* FileSystem starts again in the middle of anything: what crear was working *)
(* on is lost, and the counter, and the table is what it was.                *)
LEMMA PasoReiniciar ==
  ASSUME IInv, Reiniciar
  PROVE  IInv'
<1> USE DEF IInv
<1>1. /\ hechos' = hechos + 1 /\ hechos < MaxComandos
      /\ siguiente' = 1 /\ consola' = Parada /\ pendientes' = {}
      /\ UNCHANGED <<tabla, archivos, perdidos, fs>>
  BY DEF Reiniciar, Contar
<1>2. consola' \notin Creando
  BY <1>1 DEF Parada, Creando
<1>3. TypeOK'
  BY <1>1, <1>2, Instancia DEF TypeOK
<1>4. Sano(tabla)' /\ CreaSano'
  BY <1>1, <1>2 DEF Sano, CeroEsLaRaiz, Unicos, Ocupada, CreaSano
<1>5. ConDirectorio(archivos)' /\ ConDirectorio(pendientes)'
  BY <1>1 DEF ConDirectorio
<1>6. QED
  BY <1>3, <1>4, <1>5

LEMMA Paso == IInv /\ [Next]_vars => IInv'
<1> SUFFICES ASSUME IInv, [Next]_vars PROVE IInv'
  OBVIOUS
<1>1. CASE Comando
  <2>1. ASSUME NEW r \in Rutas, Mkdir(r) \/ RmDirectorio(r) PROVE IInv'
    BY <2>1, PasoMkdir, PasoRmDirectorio
  <2>2. ASSUME NEW r \in Rutas, NEW n \in Nombres, RenombrarDirectorio(r, n) PROVE IInv'
    BY <2>2, PasoRenombrarDirectorio
  <2>3. ASSUME NEW r \in Rutas, NEW d \in Rutas, MoverDirectorio(r, d) PROVE IInv'
    BY <2>3, PasoMoverDirectorio
  <2>4. ASSUME NEW f \in Archivos, NEW r \in Rutas,
               Cpfrom(f, r) \/ RmArchivo(f, r) \/ RecibirArchivo(f, r)
        PROVE  IInv'
    BY <2>4, PasoCpfrom, PasoRmArchivo, PasoRecibirArchivo
  <2>5. ASSUME NEW f \in Archivos, NEW n \in Archivos, NEW r \in Rutas,
               RenombrarArchivo(f, r, n)
        PROVE  IInv'
    BY <2>5, PasoRenombrarArchivo
  <2>6. ASSUME NEW f \in Archivos, NEW r \in Rutas, NEW d \in Rutas, MoverArchivo(f, r, d)
        PROVE  IInv'
    BY <2>6, PasoMoverArchivo
  <2>7. QED
    BY <1>1, <2>1, <2>2, <2>3, <2>4, <2>5, <2>6 DEF Comando
<1>2. CASE CrearUno
  BY <1>2, PasoCrearUno
<1>3. CASE Guardar
  BY <1>3, PasoGuardar
<1>4. CASE Almacenar
  BY <1>4, PasoAlmacenar
<1>5. CASE Registrar
  BY <1>5, PasoRegistrar
<1>6. CASE Formatear
  BY <1>6, PasoFormatear
<1>7. CASE Reiniciar
  BY <1>7, PasoReiniciar
<1>8. CASE UNCHANGED vars
  <2>1. UNCHANGED <<tabla, siguiente, archivos, consola, pendientes, perdidos, hechos, fs>>
    BY <1>8 DEF vars
  <2>2. Sano(tabla)' /\ CreaSano'
    BY <2>1, TablaQuieta DEF IInv
  <2>3. QED
    BY <2>1, <2>2 DEF IInv, TypeOK, ConDirectorio
<1>9. QED
  BY <1>1, <1>2, <1>3, <1>4, <1>5, <1>6, <1>7, <1>8 DEF Next

-----------------------------------------------------------------------------
(* The table of directorios.dat, the copy crear works on and the files keep  *)
(* their types, also when an index nobody set is used (1513-1521).           *)
THEOREM TiposDirectoriosSiempre == Spec => []TypeOK
<1>1. IInv => TypeOK
  BY DEF IInv
<1>2. QED
  BY Inicial, Paso, <1>1, PTL DEF Spec

(* While index 0 is of the root alone, searching the table for the index of  *)
(* a directory finds that directory (2575, 2867, 3006): never another one,   *)
(* nor a free entry with the same number in it.                              *)
THEOREM SiempreEncontrado == Spec => []EncontradoPorIndice
<1>1. IInv => EncontradoPorIndice
  <2> SUFFICES ASSUME IInv, CeroEsLaRaiz(tabla), NEW k \in Posiciones, Ocupada(tabla, k)
               PROVE  /\ EsElPrimeroCon(tabla, k, tabla[k].index, 0)
                      /\ \A j \in Posiciones \ {k} :
                           Ocupada(tabla, j) => tabla[j].index # tabla[k].index
    BY DEF EncontradoPorIndice
  <2>1. \A j \in Posiciones \ {k} :
          j < k \/ Ocupada(tabla, j) => tabla[j].index # tabla[k].index
    BY DEF IInv, Sano, Unicos
  <2>2. k >= 0 /\ \A j \in Posiciones : ~(j < k) => k <= j
    BY DEF Posiciones
  <2>3. EsElPrimeroCon(tabla, k, tabla[k].index, 0)
    <3>1. \A j \in Posiciones : tabla[j].index = tabla[k].index => k <= j
      <4>1. ASSUME NEW j \in Posiciones, tabla[j].index = tabla[k].index
            PROVE  k <= j
        <5>1. CASE j = k
          BY <5>1 DEF Posiciones
        <5>2. CASE j # k
          BY <2>1, <2>2, <4>1, <5>2
        <5>3. QED
          BY <5>1, <5>2
      <4>2. QED
        BY <4>1
    <3>2. QED
      BY <2>2, <3>1 DEF EsElPrimeroCon
  <2>4. QED
    BY <2>1, <2>3
<1>2. QED
  BY Inicial, Paso, <1>1, PTL DEF Spec

(* No file is left in a directory that is not in the table, but those whose  *)
(* path led nowhere, "/" as well, and those whose directory went while       *)
(* copies of them were to be answered.                                       *)
THEOREM SiempreConDirectorio == Spec => []ArchivosConDirectorio
<1>1. IInv => ArchivosConDirectorio
  BY DEF IInv, ConDirectorio, ArchivosConDirectorio
<1>2. QED
  BY Inicial, Paso, <1>1, PTL DEF Spec
-----------------------------------------------------------------------------
(* What crear keeps: u is t with entries added where t has none, each the    *)
(* only one of its name and parent.                                          *)
Extiende(t, u) ==
  \A k \in Posiciones :
    IF Ocupada(t, k) THEN u[k] = t[k]
    ELSE Ocupada(u, k) => \A j \in Posiciones \ {k} : ~EsHijo(u, j, u[k].nombre, u[k].padre)

(* The entries the first i - 1 names of a path go through, up to p. *)
Hasta(t, r, i, p, c) ==
  /\ \A j \in 1..(i - 1) : EsElHijo(t, c[j], r[j], IF j = 1 THEN 0 ELSE t[c[j - 1]].index)
  /\ p = IF i = 1 THEN 0 ELSE t[c[i - 1]].index

(* crear added to the table and nothing else, and what it passed of its path *)
(* is there, unless it found no room.                                        *)
CreaAgrega ==
  consola \in Creando =>
    /\ Extiende(tabla, consola.aux)
    /\ \/ Llena(consola.aux)
       \/ \E c \in [1..(consola.i - 1) -> Posiciones] :
            Hasta(consola.aux, consola.ruta, consola.i, consola.padre, c)

(* A directory that was there is still found, where it was. *)
LEMMA HijoSigue ==
  ASSUME NEW t, NEW u, Extiende(t, u),
         NEW k \in Posiciones, NEW n \in Nombres, NEW p, EsElHijo(t, k, n, p)
  PROVE  EsElHijo(u, k, n, p) /\ u[k] = t[k]
<1>1. EsHijo(t, k, n, p) /\ \A j \in Posiciones : EsHijo(t, j, n, p) => k <= j
  BY DEF EsElHijo
<1>2. Ocupada(t, k)
  BY <1>1, Instancia DEF EsHijo, Ocupada
<1>3. u[k] = t[k]
  BY <1>2 DEF Extiende
<1>4. EsHijo(u, k, n, p)
  BY <1>1, <1>3 DEF EsHijo
<1>5. ASSUME NEW j \in Posiciones, EsHijo(u, j, n, p) PROVE k <= j
  <2>1. CASE Ocupada(t, j)
    <3>1. u[j] = t[j]
      BY <2>1 DEF Extiende
    <3>2. EsHijo(t, j, n, p)
      BY <1>5, <3>1 DEF EsHijo
    <3>3. QED
      BY <1>1, <3>2
  <2>2. CASE ~Ocupada(t, j)
    <3>1. Ocupada(u, j)
      BY <1>5, Instancia DEF EsHijo, Ocupada
    <3>2. \A q \in Posiciones \ {j} : ~EsHijo(u, q, n, p)
      BY <1>5, <2>2, <3>1 DEF Extiende, EsHijo
    <3>3. k \in Posiciones \ {j}
      BY <1>2, <2>2
    <3>4. QED
      BY <1>4, <3>2, <3>3
  <2>3. QED
    BY <2>1, <2>2
<1>6. QED
  BY <1>3, <1>4, <1>5 DEF EsElHijo

(* The first names of a path lead where they led. *)
LEMMA HastaSigue ==
  ASSUME NEW t, NEW u, Extiende(t, u), NEW r \in Seq(Nombres), NEW i \in 1..(Len(r) + 1),
         NEW p, NEW c \in [1..(i - 1) -> Posiciones], Hasta(t, r, i, p, c)
  PROVE  Hasta(u, r, i, p, c) /\ \A j \in 1..(i - 1) : u[c[j]] = t[c[j]]
<1>1. ASSUME NEW j \in 1..(i - 1)
      PROVE  /\ EsElHijo(u, c[j], r[j], IF j = 1 THEN 0 ELSE t[c[j - 1]].index)
             /\ u[c[j]] = t[c[j]]
  <2>1. PICK p0 : p0 = IF j = 1 THEN 0 ELSE t[c[j - 1]].index
    OBVIOUS
  <2>2. c[j] \in Posiciones
    BY <1>1
  <2>3. r[j] \in Nombres
    <3>1. j \in 1..Len(r)
      BY <1>1
    <3>2. QED
      BY <3>1
  <2>4. EsElHijo(t, c[j], r[j], p0)
    BY <1>1, <2>1 DEF Hasta
  <2>5. QED
    BY <2>1, <2>2, <2>3, <2>4, HijoSigue
<1>2. ASSUME NEW j \in 1..(i - 1)
      PROVE  EsElHijo(u, c[j], r[j], IF j = 1 THEN 0 ELSE u[c[j - 1]].index)
  <2>1. CASE j = 1
    BY <1>1, <2>1
  <2>2. CASE j # 1
    <3>1. j - 1 \in 1..(i - 1)
      BY <1>2, <2>2
    <3>2. u[c[j - 1]] = t[c[j - 1]]
      BY <1>1, <3>1
    <3>3. QED
      BY <1>1, <2>2, <3>2
  <2>3. QED
    BY <2>1, <2>2
<1>3. p = IF i = 1 THEN 0 ELSE u[c[i - 1]].index
  <2>1. CASE i = 1
    BY <2>1 DEF Hasta
  <2>2. CASE i # 1
    <3>1. i - 1 \in 1..(i - 1)
      BY <2>2
    <3>2. QED
      BY <1>1, <2>2, <3>1 DEF Hasta
  <2>3. QED
    BY <2>1, <2>2
<1>4. QED
  BY <1>1, <1>2, <1>3 DEF Hasta

(* The entries of a path are those up to its end. *)
LEMMA CaminoHasta ==
  ASSUME NEW t, NEW r \in Seq(Nombres) \ {<<>>}, NEW c
  PROVE  /\ Len(r) \in Nat \ {0} /\ DOMAIN r = 1..Len(r)
         /\ c \in Caminos(t, r) <=>
              c \in [1..Len(r) -> Posiciones] /\ Hasta(t, r, Len(r) + 1, t[c[Len(r)]].index, c)
<1>1. Len(r) \in Nat \ {0} /\ DOMAIN r = 1..Len(r)
  OBVIOUS
<1>2. PICK l : l = Len(r) /\ l \in Nat \ {0}
  BY <1>1
<1>3. (l + 1) - 1 = l /\ l + 1 # 1
  BY <1>2
<1>4. Hasta(t, r, l + 1, t[c[l]].index, c)
        <=> \A j \in 1..l : EsElHijo(t, c[j], r[j], IF j = 1 THEN 0 ELSE t[c[j - 1]].index)
  BY <1>3 DEF Hasta
<1>5. QED
  BY <1>1, <1>2, <1>4 DEF Caminos

(* Numbers have a first one. *)
LEMMA HayPrimero ==
  ASSUME NEW S \in SUBSET Nat, S # {}
  PROVE  \E k \in S : \A j \in S : ~(j < k)
<1> DEFINE R == OpToRel(<, Nat)
<1>1. \A j, k \in Nat : j < k => <<j, k>> \in R
  BY DEF OpToRel
<1>2. IsWellFoundedOn(R, Nat)
  BY NatLessThanWellFounded
<1> HIDE DEF R
<1>3. \E k \in S : \A j \in S : ~ (<<j, k>> \in R)
  BY <1>2, WFMin
<1>4. QED
  BY <1>1, <1>3

(* A path goes one way: the first entry where two would part is the same. *)
LEMMA CaminoUnico ==
  ASSUME NEW t, NEW r \in Seq(Nombres) \ {<<>>}, NEW c \in Caminos(t, r), NEW d \in Caminos(t, r)
  PROVE  c = d
<1> DEFINE S == {j \in DOMAIN r : c[j] # d[j]}
<1>1. c \in [DOMAIN r -> Posiciones] /\ d \in [DOMAIN r -> Posiciones]
  BY DEF Caminos
<1>2. CASE S = {}
  BY <1>1, <1>2
<1>3. CASE S # {}
  <2>1. S \in SUBSET Nat
    OBVIOUS
  <2> HIDE DEF S
  <2>2. PICK k \in S : \A j \in S : ~(j < k)
    BY <1>3, <2>1, HayPrimero
  <2> USE DEF S
  <2>3. \A j \in DOMAIN r : j < k => c[j] = d[j]
    BY <2>2
  <2>4. k \in 1..Len(r)
    OBVIOUS
  <2>5. k # 1 => k - 1 \in 1..Len(r) /\ k - 1 < k
    BY <2>4
  <2>6. k # 1 => c[k - 1] = d[k - 1]
    BY <2>3, <2>5
  <2> DEFINE p == IF k = 1 THEN 0 ELSE t[c[k - 1]].index
  <2>7. EsElHijo(t, c[k], r[k], p)
    BY <2>4 DEF Caminos
  <2>8. EsElHijo(t, d[k], r[k], p)
    BY <2>4, <2>6 DEF Caminos
  <2>9. c[k] \in Posiciones /\ d[k] \in Posiciones
    BY <1>1, <2>4
  <2> HIDE DEF p
  <2>10. c[k] <= d[k] /\ d[k] <= c[k]
    BY <2>7, <2>8, <2>9 DEF EsElHijo
  <2>11. c[k] = d[k]
    BY <2>9, <2>10 DEF Posiciones
  <2>12. QED
    BY <2>11
<1>4. QED
  BY <1>2, <1>3

(* A path that exists leads to the same index in a table with more entries. *)
LEMMA MismosIndices ==
  ASSUME NEW t, NEW u, Extiende(t, u), NEW r \in Seq(Nombres) \ {<<>>}, ExisteRuta(t, r)
  PROVE  Indices(u, r) = Indices(t, r)
<1>0. r # <<>>
  OBVIOUS
<1>1. PICK l : l = Len(r) /\ l \in Nat \ {0}
  OBVIOUS
<1>2. PICK c : c \in Caminos(t, r)
  BY DEF ExisteRuta
<1>3. c \in [1..l -> Posiciones] /\ Hasta(t, r, l + 1, t[c[l]].index, c)
  BY <1>1, <1>2, CaminoHasta
<1>4. (l + 1) - 1 = l /\ l + 1 \in 1..(Len(r) + 1) /\ l \in 1..l
  BY <1>1
<1>5. Hasta(u, r, l + 1, t[c[l]].index, c) /\ u[c[l]] = t[c[l]]
  BY <1>3, <1>4, HastaSigue
<1>6. c \in Caminos(u, r)
  BY <1>1, <1>3, <1>5, CaminoHasta
<1>7. Caminos(t, r) = {c} /\ Caminos(u, r) = {c}
  BY <1>2, <1>6, CaminoUnico
<1>8. QED
  BY <1>0, <1>1, <1>5, <1>7 DEF Indices, LlevaA, ExisteRuta

(* "/" exists in any table and its index is not of the table. *)
LEMMA RutaDeLaRaiz ==
  ASSUME NEW t
  PROVE  ExisteRuta(t, <<>>) /\ Indices(t, <<>>) = Basuras
<1>1. [i \in {} |-> 0] \in Caminos(t, <<>>)
  BY DEF Caminos
<1>2. Indices(t, <<>>) = Basuras
  BY DEF Indices, LlevaA
<1>3. QED
  BY <1>1, <1>2 DEF ExisteRuta

(* A new directory in a free place does not hide another one. *)
LEMMA NuevaExtiende ==
  ASSUME NEW t, NEW u \in [Posiciones -> Directorio], Extiende(t, u), NEW k \in Posiciones,
         ~Ocupada(u, k), NEW n \in Nombres, NEW s \in Int, NEW p \in Int, ~Existe(u, n, p),
         NEW v, v = Agregada(u, k, n, s, p)
  PROVE  Extiende(t, v) /\ Extiende(u, v) /\ EsElHijo(v, k, n, p) /\ v[k].index = s
<1>1. /\ v[k] = Entrada(n, s, p)
      /\ \A j \in Posiciones \ {k} : v[j] = u[j]
  BY DEF Agregada
<1>2. v[k].nombre = n /\ v[k].padre = p /\ v[k].index = s
  BY <1>1 DEF Entrada
<1>3. \A j \in Posiciones \ {k} : \A m, q : EsHijo(v, j, m, q) <=> EsHijo(u, j, m, q)
  BY <1>1 DEF EsHijo
<1>4. \A j \in Posiciones : ~EsHijo(u, j, n, p)
  BY DEF Existe
<1>5. \A j \in Posiciones \ {k} : ~EsHijo(v, j, n, p)
  BY <1>3, <1>4
<1>6. EsHijo(v, k, n, p) /\ \A m, q : EsHijo(v, k, m, q) => m = n /\ q = p
  BY <1>2 DEF EsHijo
<1>7. EsElHijo(v, k, n, p)
  <2>1. k <= k
    BY DEF Posiciones
  <2>2. QED
    BY <1>5, <1>6, <2>1 DEF EsElHijo
<1>8. Extiende(u, v)
  BY <1>1, <1>2, <1>5 DEF Extiende, Ocupada
<1>9. ASSUME NEW j \in Posiciones
      PROVE  IF Ocupada(t, j) THEN v[j] = t[j]
             ELSE Ocupada(v, j) =>
                    \A q \in Posiciones \ {j} : ~EsHijo(v, q, v[j].nombre, v[j].padre)
  <2>1. CASE Ocupada(t, j)
    <3>1. u[j] = t[j]
      BY <2>1 DEF Extiende
    <3>2. Ocupada(u, j)
      BY <2>1, <3>1 DEF Ocupada
    <3>3. QED
      BY <1>1, <2>1, <3>1, <3>2
  <2>2. CASE ~Ocupada(t, j) /\ j = k
    BY <1>2, <1>5, <2>2
  <2>3. CASE ~Ocupada(t, j) /\ j # k
    <3>1. v[j] = u[j]
      BY <1>1, <2>3
    <3>2. SUFFICES ASSUME Ocupada(u, j), NEW q \in Posiciones \ {j}
                   PROVE  ~EsHijo(v, q, u[j].nombre, u[j].padre)
      BY <2>3, <3>1 DEF Ocupada
    <3>3. ~EsHijo(u, q, u[j].nombre, u[j].padre)
      BY <2>3, <3>2 DEF Extiende
    <3>4. CASE q # k
      BY <1>3, <3>3, <3>4
    <3>5. CASE q = k
      <4>1. EsHijo(u, j, u[j].nombre, u[j].padre)
        BY DEF EsHijo
      <4>2. ~(u[j].nombre = n /\ u[j].padre = p)
        BY <1>4, <4>1
      <4>3. QED
        BY <1>6, <3>5, <4>2
    <3>6. QED
      BY <3>4, <3>5
  <2>4. QED
    BY <2>1, <2>2, <2>3
<1>10. QED
  BY <1>2, <1>7, <1>8, <1>9 DEF Extiende

(* One more name of the path. *)
LEMMA HastaMas ==
  ASSUME NEW t, NEW r \in Seq(Nombres), NEW i \in 1..Len(r), NEW p,
         NEW c \in [1..(i - 1) -> Posiciones], Hasta(t, r, i, p, c),
         NEW k \in Posiciones, EsElHijo(t, k, r[i], p)
  PROVE  \E d \in [1..i -> Posiciones] : Hasta(t, r, i + 1, t[k].index, d)
<1>1. PICK d : d = [j \in 1..i |-> IF j = i THEN k ELSE c[j]]
  OBVIOUS
<1>2. \A j \in 1..i : j # i => j \in 1..(i - 1)
  OBVIOUS
<1>3. i \in 1..i /\ d[i] = k /\ \A j \in 1..(i - 1) : d[j] = c[j] /\ j \in 1..i
  BY <1>1
<1>4. d \in [1..i -> Posiciones]
  BY <1>1, <1>2
<1>5. ASSUME NEW j \in 1..i
      PROVE  EsElHijo(t, d[j], r[j], IF j = 1 THEN 0 ELSE t[d[j - 1]].index)
  <2>1. j # 1 => j - 1 \in 1..(i - 1)
    BY <1>5
  <2>2. j # 1 => d[j - 1] = c[j - 1]
    BY <1>3, <2>1
  <2>3. CASE j = i
    <3>1. p = IF j = 1 THEN 0 ELSE t[d[j - 1]].index
      BY <2>2, <2>3 DEF Hasta
    <3>2. QED
      BY <1>3, <2>3, <3>1
  <2>4. CASE j # i
    <3>1. j \in 1..(i - 1)
      BY <1>2, <2>4
    <3>2. EsElHijo(t, c[j], r[j], IF j = 1 THEN 0 ELSE t[c[j - 1]].index)
      BY <3>1 DEF Hasta
    <3>3. QED
      BY <1>3, <2>2, <3>1, <3>2
  <2>5. QED
    BY <2>3, <2>4
<1>6. (i + 1) - 1 = i /\ i + 1 # 1
  OBVIOUS
<1>7. Hasta(t, r, i + 1, t[k].index, d)
  BY <1>3, <1>5, <1>6 DEF Hasta
<1>8. QED
  BY <1>4, <1>7

(* crear (1472-1498) adds to its copy what its path lacks, or stops when     *)
(* there is no room.                                                         *)
LEMMA CrearAgrega ==
  ASSUME TypeOK, CreaAgrega, CrearUno
  PROVE  CreaAgrega'
<1>1. consola \in Creando /\ consola.i \in 1..Len(consola.ruta) /\ tabla' = tabla
  <2>1. consola.pc = "crea" /\ consola.i <= Len(consola.ruta) /\ tabla' = tabla
    BY DEF CrearUno
  <2>2. consola \in Creando
    BY <2>1 DEF TypeOK, Parada, Almacenando
  <2>3. consola.i \in 1..(Len(consola.ruta) + 1) /\ Len(consola.ruta) \in Nat
    BY <2>2, RutasConArchivo DEF TypeOK, Creando
  <2>4. QED
    BY <2>1, <2>2, <2>3
<1>2. PICK t, r, i, p, n :
        t = consola.aux /\ r = consola.ruta /\ i = consola.i /\ p = consola.padre /\ n = r[i]
  OBVIOUS
<1>3. /\ t \in [Posiciones -> Directorio] /\ p \in Int
      /\ r \in Seq(Nombres) /\ i \in 1..Len(r) /\ i \in Nat /\ Len(r) \in Nat
  BY <1>1, <1>2, RutasConArchivo DEF Creando
<1>4. n \in Nombres /\ i + 1 \in 1..(Len(r) + 1) /\ (i + 1) - 1 = i /\ i \in 1..(Len(r) + 1)
  BY <1>2, <1>3
<1>5. /\ Extiende(tabla, t)
      /\ Llena(t) \/ \E c \in [1..(i - 1) -> Posiciones] : Hasta(t, r, i, p, c)
  BY <1>1, <1>2 DEF CreaAgrega
<1> DEFINE Bien(u, j, q) ==
             /\ Extiende(tabla, u)
             /\ Llena(u) \/ \E c \in [1..(j - 1) -> Posiciones] : Hasta(u, r, j, q, c)
<1>6. SUFFICES Bien(consola'.aux, consola'.i, consola'.padre) /\ consola'.ruta = r
  BY <1>1 DEF CreaAgrega
<1>7. CASE Existe(t, n, p)
  <2>1. PICK k \in Posiciones :
          /\ EsElHijo(t, k, n, p)
          /\ consola' = [consola EXCEPT !.i = @ + 1, !.padre = t[k].index]
    BY <1>2, <1>7, Zenon DEF CrearUno
  <2>2. /\ consola'.aux = t /\ consola'.ruta = r /\ consola'.i = i + 1
        /\ consola'.padre = t[k].index
    BY <1>1, <1>2, <2>1 DEF Creando
  <2>3. Llena(t) \/ \E c \in [1..i -> Posiciones] : Hasta(t, r, i + 1, t[k].index, c)
    <3>1. CASE Llena(t)
      BY <3>1
    <3>2. CASE ~Llena(t)
      <4>1. PICK c \in [1..(i - 1) -> Posiciones] : Hasta(t, r, i, p, c)
        BY <1>5, <3>2
      <4>2. EsElHijo(t, k, r[i], p)
        BY <1>2, <2>1
      <4>3. QED
        BY <1>3, <4>1, <4>2, HastaMas
    <3>3. QED
      BY <3>1, <3>2
  <2>4. Bien(t, i + 1, t[k].index)
    BY <1>4, <1>5, <2>3
  <2> HIDE DEF Bien
  <2>5. QED
    BY <2>2, <2>4
<1>8. CASE ~Existe(t, n, p) /\ ~Llena(t)
  <2>1. PICK k \in Posiciones :
          /\ EsPrimerLibre(t, k)
          /\ consola' = [consola EXCEPT !.i = @ + 1, !.padre = siguiente,
                                        !.aux = [@ EXCEPT ![k] = Entrada(n, siguiente, p)]]
    BY <1>2, <1>8, Zenon DEF CrearUno
  <2>2. PICK v : v = Agregada(t, k, n, siguiente, p)
    OBVIOUS
  <2>3. /\ consola'.aux = v /\ consola'.ruta = r /\ consola'.i = i + 1
        /\ consola'.padre = siguiente
    BY <1>1, <1>2, <2>1, <2>2 DEF Creando, Agregada
  <2>4. ~Ocupada(t, k) /\ siguiente \in Int
    BY <2>1 DEF EsPrimerLibre, TypeOK
  <2>5. Extiende(tabla, v) /\ Extiende(t, v) /\ EsElHijo(v, k, n, p) /\ v[k].index = siguiente
    BY <1>3, <1>4, <1>5, <1>8, <2>2, <2>4, NuevaExtiende
  <2>6. PICK c \in [1..(i - 1) -> Posiciones] : Hasta(t, r, i, p, c)
    BY <1>5, <1>8
  <2>7. Hasta(v, r, i, p, c)
    BY <1>3, <1>4, <2>5, <2>6, HastaSigue
  <2>8. EsElHijo(v, k, r[i], p)
    BY <1>2, <2>5
  <2>9. \E d \in [1..i -> Posiciones] : Hasta(v, r, i + 1, v[k].index, d)
    BY <1>3, <2>7, <2>8, HastaMas
  <2>10. Bien(v, i + 1, siguiente)
    BY <1>4, <2>5, <2>9
  <2> HIDE DEF Bien
  <2>11. QED
    BY <2>3, <2>10
<1>9. CASE ~Existe(t, n, p) /\ Llena(t)
  <2>1. ~\E k \in Posiciones : EsPrimerLibre(t, k)
    BY <1>9 DEF EsPrimerLibre, Llena
  <2>2. consola' = [consola EXCEPT !.i = Len(consola.ruta) + 1]
    BY <1>2, <1>9, <2>1, Zenon DEF CrearUno
  <2>3. consola'.aux = t /\ consola'.ruta = r
    BY <1>1, <1>2, <2>2 DEF Creando
  <2>4. QED
    BY <1>5, <1>9, <2>3
<1>10. QED
  BY <1>7, <1>8, <1>9

(* What a command changes, it changes when crear is not running. *)
LEMMA ComandoQuieto ==
  ASSUME TypeOK, Comando \/ Formatear
  PROVE  \/ consola' = consola /\ consola.pc = "libre"
         \/ consola' = consola /\ tabla' = tabla
         \/ consola' \notin Creando
         \/ \E r \in Rutas, f \in Archivos \cup {SinArchivo} :
              EmpezarACrear(r, f) /\ tabla' = tabla
<1>1. ASSUME NEW r \in Rutas, Mkdir(r)
      PROVE  EmpezarACrear(r, SinArchivo) /\ tabla' = tabla
  BY <1>1 DEF Mkdir
<1>2. ASSUME NEW r \in Rutas, NEW f \in Archivos, Cpfrom(f, r)
      PROVE  consola' \notin Creando \/ (EmpezarACrear(r, f) /\ tabla' = tabla)
  <2>1. CASE ExisteRuta(tabla, r)
    BY <1>2, <2>1 DEF Cpfrom, Creando
  <2>2. CASE ~ExisteRuta(tabla, r)
    BY <1>2, <2>2 DEF Cpfrom
  <2>3. QED
    BY <2>1, <2>2
<1>3. ASSUME NEW r \in Rutas, RmDirectorio(r) PROVE consola' = consola /\ consola.pc = "libre"
  BY <1>3 DEF RmDirectorio, Ordenar
<1>4. ASSUME NEW r \in Rutas, NEW n \in Nombres, RenombrarDirectorio(r, n)
      PROVE  consola' = consola /\ consola.pc = "libre"
  BY <1>4 DEF RenombrarDirectorio, Ordenar
<1>5. ASSUME NEW r \in Rutas, NEW d \in Rutas, MoverDirectorio(r, d)
      PROVE  consola' = consola /\ consola.pc = "libre"
  BY <1>5 DEF MoverDirectorio, Ordenar
<1>6. ASSUME NEW r \in Rutas, NEW f \in Archivos, RmArchivo(f, r)
      PROVE  consola' = consola /\ consola.pc = "libre"
  BY <1>6 DEF RmArchivo, Ordenar, Morir
<1>7. ASSUME NEW r \in Rutas, NEW f \in Archivos, RecibirArchivo(f, r)
      PROVE  consola' = consola /\ tabla' = tabla
  BY <1>7 DEF RecibirArchivo
<1>8. ASSUME NEW r \in Rutas, NEW f \in Archivos, NEW n \in Archivos, RenombrarArchivo(f, r, n)
      PROVE  consola' = consola /\ consola.pc = "libre"
  BY <1>8 DEF RenombrarArchivo, Ordenar
<1>9. ASSUME NEW r \in Rutas, NEW d \in Rutas, NEW f \in Archivos, MoverArchivo(f, r, d)
      PROVE  consola' = consola /\ consola.pc = "libre"
  BY <1>9 DEF MoverArchivo, Ordenar
<1>10. CASE Formatear
  BY <1>10 DEF Formatear, Ordenar
<1>11. CASE Comando
  <2>1. ASSUME NEW r \in Rutas, Mkdir(r) \/ RmDirectorio(r)
        PROVE  \/ consola' = consola /\ consola.pc = "libre"
               \/ EmpezarACrear(r, SinArchivo) /\ tabla' = tabla
    BY <2>1, <1>1, <1>3
  <2>2. QED
    BY <1>1, <1>2, <1>3, <1>4, <1>5, <1>6, <1>7, <1>8, <1>9, <1>11 DEF Comando
<1>12. QED
  BY <1>10, <1>11

LEMMA AgregaQuieta ==
  ASSUME CreaAgrega,
         \/ consola' = consola /\ tabla' = tabla
         \/ consola' \notin Creando
         \/ \E r \in Rutas, f \in Archivos \cup {SinArchivo} :
              EmpezarACrear(r, f) /\ tabla' = tabla
  PROVE  CreaAgrega'
<1>1. CASE consola' = consola /\ tabla' = tabla
  BY <1>1 DEF CreaAgrega
<1>2. CASE consola' \notin Creando
  BY <1>2 DEF CreaAgrega
<1>3. ASSUME NEW r \in Rutas, NEW f \in Archivos \cup {SinArchivo}, EmpezarACrear(r, f), tabla' = tabla
      PROVE  CreaAgrega'
  <2>1. consola'.aux = tabla /\ consola'.ruta = r /\ consola'.i = 1 /\ consola'.padre = 0
    BY <1>3 DEF EmpezarACrear
  <2>2. Extiende(tabla, tabla)
    BY DEF Extiende
  <2>3. PICK c : c = [j \in 1..(1 - 1) |-> 0]
    OBVIOUS
  <2>4. c \in [1..(1 - 1) -> Posiciones] /\ Hasta(tabla, r, 1, 0, c)
    BY <2>3 DEF Hasta
  <2>5. QED
    BY <1>3, <2>1, <2>2, <2>4 DEF CreaAgrega
<1>4. QED
  BY <1>1, <1>2, <1>3

LEMMA AgregaSiempre == TypeOK /\ CreaAgrega /\ [Next]_vars => CreaAgrega'
<1> SUFFICES ASSUME TypeOK, CreaAgrega, [Next]_vars PROVE CreaAgrega'
  OBVIOUS
<1>1. CASE Comando \/ Formatear
  <2>1. consola.pc = "libre" => consola \notin Creando
    BY DEF Creando
  <2>2. QED
    BY <1>1, <2>1, ComandoQuieto, AgregaQuieta
<1>2. CASE CrearUno
  BY <1>2, CrearAgrega
<1>3. CASE Guardar \/ Almacenar \/ Reiniciar
  <2>1. Parada \notin Creando /\ \A r, f : [pc |-> "almacena", ruta |-> r, archivo |-> f] \notin Creando
    BY DEF Parada, Creando
  <2>2. consola' \notin Creando
    BY <1>3, <2>1 DEF Guardar, Almacenar, Reiniciar
  <2>3. QED
    BY <2>2, AgregaQuieta
<1>4. CASE Registrar
  BY <1>4, AgregaQuieta DEF Registrar
<1>5. CASE UNCHANGED vars
  BY <1>5, AgregaQuieta DEF vars
<1>6. QED
  BY <1>1, <1>2, <1>3, <1>4, <1>5 DEF Next

(* Only guardar_directorios writes a table crear was working on. *)
LEMMA SoloGuardar ==
  ASSUME TypeOK, [Next]_vars, consola.pc = "crea", tabla' # tabla
  PROVE  Guardar /\ consola \in Creando
<1>1. consola \in Creando
  BY DEF TypeOK, Parada, Almacenando
<1>2. CASE Comando \/ Formatear
  <2>1. tabla' = tabla
    BY <1>2 DEF Comando, Mkdir, Cpfrom, RmDirectorio, RenombrarDirectorio, MoverDirectorio, RmArchivo,
                RenombrarArchivo, MoverArchivo, RecibirArchivo, Formatear, Ordenar
  <2>2. QED
    BY <2>1
<1>3. CASE CrearUno \/ Almacenar \/ Registrar \/ Reiniciar
  BY <1>3 DEF CrearUno, Almacenar, Registrar, Reiniciar
<1>4. QED
  BY <1>1, <1>2, <1>3 DEF Next, vars

LEMMA ConTipos == IInv => TypeOK
  BY DEF IInv

(* Creating directories (1469-1503) takes no path that exists elsewhere, and *)
(* the path they were created for exists then unless the table is full, for  *)
(* any table, also one from which the root was removed.                      *)
THEOREM SiempreSoloAgrega == Spec => CrearSoloAgrega
<1> DEFINE P == consola.pc = "crea" /\ tabla' # tabla =>
                  /\ \A r \in Rutas : ExisteRuta(tabla, r) => Indices(tabla', r) = Indices(tabla, r)
                  /\ ExisteRuta(tabla', consola.ruta) \/ Llena(tabla')
<1>1. Init => CreaAgrega
  BY DEF Init, CreaAgrega, Creando, Parada
<1>2. TypeOK /\ CreaAgrega /\ [Next]_vars => [P]_vars
  <2> SUFFICES ASSUME TypeOK, CreaAgrega, [Next]_vars, consola.pc = "crea", tabla' # tabla
               PROVE  /\ \A r \in Rutas : ExisteRuta(tabla, r) =>
                                            Indices(tabla', r) = Indices(tabla, r)
                      /\ ExisteRuta(tabla', consola.ruta) \/ Llena(tabla')
    OBVIOUS
  <2>1. consola \in Creando /\ tabla' = consola.aux /\ consola.i > Len(consola.ruta)
    BY SoloGuardar DEF Guardar
  <2>2. Extiende(tabla, tabla')
    BY <2>1 DEF CreaAgrega
  <2>3. \A r \in Rutas : ExisteRuta(tabla, r) => Indices(tabla', r) = Indices(tabla, r)
    <3>1. ASSUME NEW r \in Rutas, ExisteRuta(tabla, r)
          PROVE  Indices(tabla', r) = Indices(tabla, r)
      <4>1. CASE r = <<>>
        BY <4>1, RutaDeLaRaiz
      <4>2. CASE r # <<>>
        BY <2>2, <3>1, <4>2, RutasConArchivo, MismosIndices
      <4>3. QED
        BY <4>1, <4>2
    <3>2. QED
      BY <3>1
  <2>4. PICK r, l : r = consola.ruta /\ l = Len(r)
    OBVIOUS
  <2>5. r \in Seq(Nombres) /\ l \in Nat /\ consola.i = l + 1 /\ (l + 1) - 1 = l
    <3>1. r \in Rutas /\ consola.i \in 1..(l + 1) /\ consola.i > l
      BY <2>1, <2>4 DEF Creando, TypeOK
    <3>2. r \in Seq(Nombres)
      BY <3>1, RutasConArchivo
    <3>3. l \in Nat
      BY <2>4, <3>2
    <3>4. QED
      BY <3>1, <3>2, <3>3
  <2>6. ASSUME ~Llena(tabla'), r # <<>> PROVE ExisteRuta(tabla', r)
    <3>1. PICK c \in [1..l -> Posiciones] : Hasta(tabla', r, l + 1, consola.padre, c)
      BY <2>1, <2>4, <2>5, <2>6 DEF CreaAgrega
    <3>2. l + 1 # 1
      BY <2>4, <2>5, <2>6, CaminoHasta
    <3>3. Hasta(tabla', r, l + 1, tabla'[c[l]].index, c)
      BY <2>5, <3>1, <3>2 DEF Hasta
    <3>4. c \in Caminos(tabla', r)
      BY <2>4, <2>5, <2>6, <3>1, <3>3, CaminoHasta
    <3>5. QED
      BY <3>4 DEF ExisteRuta
  <2>7. QED
    BY <2>3, <2>4, <2>6, RutaDeLaRaiz
<1>3. QED
  BY <1>1, <1>2, Inicial, Paso, AgregaSiempre, ConTipos, PTL DEF Spec, CrearSoloAgrega
=============================================================================
