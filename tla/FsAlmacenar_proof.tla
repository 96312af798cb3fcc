------------------------- MODULE FsAlmacenar_proof -------------------------
(***************************************************************************)
(* The storing of files of FsAlmacenar, for any number of workers, nodes,  *)
(* blocks and files, and any failures: the types; one copy at most between *)
(* a send and its answer; and, for files of different names, the copies of *)
(* a block on different nodes, none missing from a file that is closed,    *)
(* and every storing as Almacenamiento promises it.                        *)
(***************************************************************************)
EXTENDS FsAlmacenar, FiniteSetTheorems, WellFoundedInduction, TLAPS

(* The list of nodes only loses nodes; the copy of bloques_libres of each    *)
(* storing is as long as it was, and its sends start with the distribution   *)
(* made.                                                                     *)
Repartos ==
  /\ Len(datanodes) <= Len(Orden)
  /\ \A h \in Hilos : envio[h].pc # "libre" =>
       /\ Len(envio[h].cant) <= Len(Orden)
       /\ envio[h].pc # "reparte" => Len(envio[h].idx) = 2 * envio[h].nb

(* The types of what is not on its way nor registered nor on a disk. *)
Base ==
  /\ datanodes \in Seq(Nodos)
  /\ libres \in [Nodos -> Int]
  /\ bitmap \in [Nodos -> SUBSET (0..(Total - 1))]
  /\ unico \in BOOLEAN /\ cpfrom \in BOOLEAN
  /\ actuales \in [Nodos -> [Nombres -> Dirs \cup {Sin}]]
  /\ terminados \subseteq Nombres /\ erroneos \subseteq Nombres
  /\ viva \subseteq Nodos
  /\ fs \in {"vivo", "muerto"}
  /\ cola \in [Hilos -> Seq(Pedido)]
  /\ envio \in [Hilos -> Envio]
  /\ fallos \in 0..MaxFallos

(* The types of the rest. *)
TiposDatos ==
  /\ metadata \subseteq [nombre : Nombres, dir : Dirs, bloque : 0..MaxBloques,
                         copia : {0, 1}, nodo : Nodos, numero : Numeros]
  /\ aNodo \in [Nodos -> Seq(Copia)]
  /\ aFS \in [Nodos -> Seq([tipo : {"RESULOPERACION"}, copia : Copia, res : Resultados])]
  /\ disco \in [Nodos -> [0..(Total - 1) -> Dato \cup {Vacio}]]

(* The first invariant. *)
IInv == TypeOK /\ Repartos /\ UnaEnVuelo

-----------------------------------------------------------------------------
LEMMA EnTipos ==
  /\ TypeOK <=> Base /\ TiposDatos
  /\ TypeOK' <=> Base' /\ TiposDatos'
BY DEF TypeOK, Base, TiposDatos

(* The smallest of some numbers is one of them. *)
LEMMA Minimo ==
  ASSUME NEW S \in SUBSET Nat, S # {}
  PROVE  Min(S) \in S /\ \A y \in S : Min(S) <= y
<1> DEFINE Bajo(x) == {y \in S : y < x}
           F == {Bajo(x) : x \in S}
<1>1. F \subseteq FiniteSubsetsOf(Nat) /\ F # {}
  <2>1. ASSUME NEW x \in S PROVE IsFiniteSet(Bajo(x))
    <3>1. x \in Int /\ 0 \in Int /\ \A y \in S : y < x => y \in 0..x
      OBVIOUS
    <3>2. IsFiniteSet(0..x)
      BY <3>1, FS_Interval
    <3>3. QED
      <4>1. Bajo(x) \in SUBSET (0..x)
        BY <3>1
      <4>2. QED
        BY <3>2, <4>1, FS_Subset
  <2>2. QED
    BY <2>1 DEF FiniteSubsetsOf
<1>2. PICK T \in F : \A U \in F : ~(<<U, T>> \in StrictSubsetOrdering(Nat))
  BY <1>1, FS_StrictSubsetOrderingWellFounded, WFMin
<1>3. PICK x \in S : T = Bajo(x)
  BY <1>2
<1>4. \A y \in S : x <= y
  <2> SUFFICES ASSUME NEW y \in S, y < x PROVE FALSE
    OBVIOUS
  <2>1. Bajo(y) \in F /\ Bajo(y) \subseteq Bajo(x) /\ Bajo(y) # Bajo(x)
    <3>1. \A z \in S : z < y => z < x
      OBVIOUS
    <3>2. y \in Bajo(x) /\ y \notin Bajo(y)
      OBVIOUS
    <3>3. QED
      BY <3>1, <3>2
  <2>2. <<Bajo(y), Bajo(x)>> \in StrictSubsetOrdering(Nat)
    BY <2>1 DEF StrictSubsetOrdering
  <2>3. QED
    BY <1>2, <1>3, <2>1, <2>2
<1>5. QED
  BY <1>4 DEF Min

LEMMA Largo ==
  /\ MaxBloques \in Nat \ {0} /\ \A c \in Cantidades : c \in Nat \ {0} /\ c <= MaxBloques
  /\ Len(Orden) \in Nat
<1>1. PICK b \in Cantidades : \A c \in Cantidades : c <= b
  BY Instancia
<1>2. MaxBloques \in Cantidades /\ \A c \in Cantidades : c <= MaxBloques
  BY <1>1 DEF MaxBloques
<1>3. QED
  BY <1>2, Instancia

(* There is a free block, or Total. *)
LEMMA BaseLibre ==
  ASSUME Base, NEW n \in Nodos
  PROVE  PrimerLibre(n) \in Numeros /\ PrimerLibre(n) \notin bitmap[n]
<1>1. Total \in Numeros \ bitmap[n] /\ Numeros \ bitmap[n] \in SUBSET Nat
  BY Instancia DEF Base, Numeros
<1>2. QED
  BY <1>1, Minimo DEF PrimerLibre

LEMMA HayLibre ==
  ASSUME TypeOK, NEW n \in Nodos
  PROVE  PrimerLibre(n) \in Numeros /\ PrimerLibre(n) \notin bitmap[n]
BY BaseLibre, EnTipos

(* A thread that stores has the record of a storing. *)
LEMMA BaseAlmacena ==
  ASSUME Base, NEW h \in Hilos, envio[h].pc # "libre"
  PROVE  envio[h] \in EnCurso
BY DEF Base, Envio, Libre

LEMMA Almacena ==
  ASSUME TypeOK, NEW h \in Hilos, envio[h].pc # "libre"
  PROVE  envio[h] \in EnCurso
BY BaseAlmacena, EnTipos

(* Two lists, one after the other. *)
LEMMA Concatenadas ==
  ASSUME NEW S, NEW q \in Seq(S), NEW r \in Seq(S)
  PROVE  q \o r \in Seq(S) /\ Len(q \o r) = Len(q) + Len(r)
  OBVIOUS

(* Counting two copies leaves a count for every node. *)
LEMMA Gastado ==
  ASSUME NEW q \in Seq(Int), NEW I
  PROVE  Gastar(q, I) \in Seq(Int) /\ Len(Gastar(q, I)) = Len(q)
<1> DEFINE g == Gastar(q, I)
<1>1. g \in [1..Len(q) -> Int] /\ Len(q) \in Nat
  BY DEF Gastar
<1> HIDE DEF g
<1>2. g \in Seq(Int) /\ Len(g) = Len(q)
  BY <1>1
<1>3. QED
  BY <1>2 DEF g

(* A list with one more element. *)
LEMMA Agregada ==
  ASSUME NEW S, NEW q \in Seq(S), NEW x \in S
  PROVE  /\ Append(q, x) \in Seq(S) /\ Len(Append(q, x)) = Len(q) + 1
         /\ Append(q, x)[Len(q) + 1] = x
         /\ \A i \in 1..Len(q) : Append(q, x)[i] = q[i]
  OBVIOUS

(* A node leaves the list. *)
LEMMA Quitado ==
  ASSUME NEW S, NEW q \in Seq(S), NEW i \in DOMAIN q
  PROVE  RemoveAt(q, i) \in Seq(S) /\ Len(RemoveAt(q, i)) = Len(q) - 1
<1> DEFINE A == SubSeq(q, 1, i - 1)
           B == SubSeq(q, i + 1, Len(q))
<1>1. i \in 1..Len(q)
  OBVIOUS
<1>2. A \in Seq(S) /\ Len(A) = i - 1
  BY <1>1
<1>3. B \in Seq(S) /\ Len(B) = Len(q) - i
  BY <1>1
<1> HIDE DEF A, B
<1>4. A \o B \in Seq(S) /\ Len(A \o B) = Len(q) - 1
  BY <1>1, <1>2, <1>3
<1>5. QED
  BY <1>4 DEF RemoveAt, A, B

-----------------------------------------------------------------------------
(* Types and distributions, action by action. *)
LEMMA BaseMorir ==
  ASSUME Base, Repartos, Morir
  PROVE  Base' /\ Repartos'
BY DEF Morir, Base, Repartos, fsDatos, fsArchivos, red, nodo, hilo

LEMMA TiposMorir ==
  ASSUME TypeOK, Repartos, Morir
  PROVE  TypeOK' /\ Repartos'
BY BaseMorir, EnTipos DEF Morir, TiposDatos, fsArchivos, red, nodo

LEMMA BaseEmpezar ==
  ASSUME Base, Repartos, NEW h \in Hilos, Empezar(h)
  PROVE  Base' /\ Repartos'
<1>1. PICK nb \in Head(cola[h]).bloques :
        envio' = [envio EXCEPT ![h] =
                    [pc |-> "reparte", nombre |-> Head(cola[h]).nombre,
                     dir |-> Head(cola[h]).dir, nb |-> nb, idx |-> <<>>, cant |-> Cuanto,
                     enviados |-> <<>>, ok |-> TRUE]]
  BY DEF Empezar
<1>2. /\ cola[h] # <<>> /\ cola' = [cola EXCEPT ![h] = Tail(@)] /\ unico' = TRUE
      /\ UNCHANGED <<datanodes, libres, bitmap, actuales, cpfrom, terminados, erroneos, metadata,
                     aNodo, aFS, disco, viva, fs, fallos>>
  BY DEF Empezar, fsDatos, fsArchivos, red, nodo
<1>3. Head(cola[h]) \in Pedido /\ Tail(cola[h]) \in Seq(Pedido)
  BY <1>2 DEF Base
<1>4. Cuanto \in Seq(Int) /\ Len(Cuanto) = Len(datanodes)
  BY DEF Cuanto, Base
<1>5. [pc |-> "reparte", nombre |-> Head(cola[h]).nombre, dir |-> Head(cola[h]).dir,
       nb |-> nb, idx |-> <<>>, cant |-> Cuanto, enviados |-> <<>>, ok |-> TRUE] \in EnCurso
  BY <1>3, <1>4 DEF Pedido, EnCurso
<1>6. Base'
  BY <1>1, <1>2, <1>3, <1>5 DEF Base, Envio
<1>7. Repartos'
  BY <1>1, <1>2, <1>4 DEF Repartos, Base
<1>8. QED
  BY <1>6, <1>7

LEMMA TiposEmpezar ==
  ASSUME TypeOK, Repartos, NEW h \in Hilos, Empezar(h)
  PROVE  TypeOK' /\ Repartos'
<1>1. UNCHANGED <<metadata, aNodo, aFS, disco>>
  BY DEF Empezar, SinLugar, Morir, fsArchivos, red, nodo
<1>2. QED
  BY <1>1, BaseEmpezar, EnTipos DEF TiposDatos

LEMMA BaseRepartir ==
  ASSUME Base, Repartos, NEW h \in Hilos, Repartir(h)
  PROVE  Base' /\ Repartos'
<1> DEFINE e == envio[h]
           D == Len(e.cant)
<1>1. e.pc = "reparte" /\ e \in EnCurso
  BY BaseAlmacena DEF Repartir
<1>2. CASE Morir
  BY <1>2, BaseMorir
<1>3. CASE /\ \E a, b : /\ SonPareja(a, b, D)
                        /\ envio' = [envio EXCEPT
                             ![h].idx = @ \o <<a, b>>,
                             ![h].cant = Gastar(@, {a, b}),
                             ![h].pc = IF Len(e.idx) + 2 = 2 * e.nb THEN "envia" ELSE @]
           /\ UNCHANGED <<datanodes, libres, bitmap, actuales, unico, cpfrom, terminados,
                          erroneos, metadata, aNodo, aFS, disco, viva, fs, cola, fallos>>
  <2>1. PICK a, b : /\ SonPareja(a, b, D)
                    /\ envio' = [envio EXCEPT
                         ![h].idx = @ \o <<a, b>>,
                         ![h].cant = Gastar(@, {a, b}),
                         ![h].pc = IF Len(e.idx) + 2 = 2 * e.nb THEN "envia" ELSE @]
    BY <1>3
  <2> DEFINE f == envio'[h]
  <2>2. envio \in [Hilos -> Envio]
    BY DEF Base
  <2>3. f = [e EXCEPT !.idx = @ \o <<a, b>>,
                      !.cant = Gastar(@, {a, b}),
                      !.pc = IF Len(e.idx) + 2 = 2 * e.nb THEN "envia" ELSE @]
        /\ \A g \in Hilos \ {h} : envio'[g] = envio[g]
    BY <2>1, <2>2
  <2>4. D \in Nat /\ D <= Len(Orden) /\ e.idx \in Seq(0..(Len(Orden) - 1)) /\ e.cant \in Seq(Int)
    BY <1>1 DEF Repartos, EnCurso
  <2>5. a \in 0..(Len(Orden) - 1) /\ b \in 0..(Len(Orden) - 1)
    BY <2>1, <2>4, Largo DEF SonPareja
  <2>6. f.idx \in Seq(0..(Len(Orden) - 1)) /\ Len(f.idx) = Len(e.idx) + 2
    <3>1. f.idx = e.idx \o <<a, b>>
      BY <1>1, <2>3 DEF EnCurso
    <3>2. <<a, b>> \in Seq(0..(Len(Orden) - 1)) /\ Len(<<a, b>>) = 2
      BY <2>5
    <3>3. QED
      BY <2>4, <3>1, <3>2, Concatenadas
  <2>7. f.cant \in Seq(Int) /\ Len(f.cant) = D
    <3>1. f.cant = Gastar(e.cant, {a, b})
      BY <1>1, <2>3 DEF EnCurso
    <3>2. QED
      BY <2>4, <3>1, Gastado
  <2>8. f.pc \in {"reparte", "envia"} /\ (f.pc = "envia" => Len(e.idx) + 2 = 2 * e.nb)
        /\ f.nb = e.nb
    BY <1>1, <2>3 DEF EnCurso
  <2>9. f \in EnCurso
    BY <1>1, <2>3, <2>6, <2>7, <2>8 DEF EnCurso
  <2>10. envio' \in [Hilos -> Envio]
    BY <2>1, <2>2, <2>3, <2>9 DEF Envio
  <2>11. Base'
    BY <1>3, <2>10 DEF Base
  <2>12. Repartos'
    BY <1>3, <2>3, <2>4, <2>6, <2>7, <2>8 DEF Repartos
  <2>13. QED
    BY <2>11, <2>12
<1>4. CASE /\ SinLugar(h)
           /\ UNCHANGED <<datanodes, libres, bitmap, actuales, cpfrom, terminados,
                          erroneos, metadata, aNodo, aFS, disco, viva, fs, cola, fallos>>
  BY <1>4 DEF SinLugar, Base, Repartos, Envio, Libre
<1>5. \E a, b :
        \/ Morir
        \/ /\ IF SonPareja(a, b, D)
              THEN /\ envio' = [envio EXCEPT
                           ![h].idx = @ \o <<a, b>>,
                           ![h].cant = Gastar(@, {a, b}),
                           ![h].pc = IF Len(e.idx) + 2 = 2 * e.nb THEN "envia" ELSE @]
                   /\ UNCHANGED unico
              ELSE SinLugar(h)
           /\ UNCHANGED <<datanodes, fsDatos, cpfrom, fsArchivos, red, nodo, fs, cola, fallos>>
  BY DEF Repartir
<1>6. QED
  BY <1>2, <1>3, <1>4, <1>5 DEF fsDatos, fsArchivos, red, nodo

LEMMA TiposRepartir ==
  ASSUME TypeOK, Repartos, NEW h \in Hilos, Repartir(h)
  PROVE  TypeOK' /\ Repartos'
<1>1. UNCHANGED <<metadata, aNodo, aFS, disco>>
  BY DEF Repartir, SinLugar, Morir, fsArchivos, red, nodo
<1>2. QED
  BY <1>1, BaseRepartir, EnTipos DEF TiposDatos

(* The next copy of a storing has its index, its block and its number. *)
LEMMA Proxima ==
  ASSUME NEW e \in EnCurso, Len(e.enviados) < 2 * e.nb, Len(e.idx) = 2 * e.nb
  PROVE  /\ Len(e.enviados) \in Nat
         /\ IndiceDe(e) = e.idx[Len(e.enviados) + 1] /\ IndiceDe(e) \in 0..(Len(Orden) - 1)
         /\ Len(e.enviados) \div 2 \in 0..MaxBloques /\ Len(e.enviados) % 2 \in {0, 1}
         /\ e.nombre \in Nombres /\ e.dir \in Dirs
<1>1. /\ e.enviados \in Seq(Nodos \X Numeros) /\ e.idx \in Seq(0..(Len(Orden) - 1))
      /\ e.nb \in Cantidades /\ e.nombre \in Nombres /\ e.dir \in Dirs
  BY DEF EnCurso
<1>2. e.nb \in Nat /\ e.nb <= MaxBloques /\ MaxBloques \in Nat
  BY <1>1, Largo
<1>3. Len(e.enviados) \in Nat
  BY <1>1
<1>4. Len(e.enviados) + 1 \in 1..Len(e.idx)
  BY <1>2, <1>3
<1>5. e.idx[Len(e.enviados) + 1] \in 0..(Len(Orden) - 1)
  BY <1>1, <1>4
<1>6. \A k \in Nat : k < 2 * e.nb => k \div 2 \in 0..MaxBloques /\ k % 2 \in {0, 1}
  BY <1>2
<1>7. QED
  BY <1>1, <1>3, <1>5, <1>6 DEF IndiceDe

(* The node, the block and the record of the copy that h sends. *)
LEMMA BaseAlEnviar ==
  ASSUME Base, Repartos, NEW h \in Hilos, EnviarCopia(h)
  PROVE  LET e == envio[h]
             k == Len(e.enviados)
             n == datanodes[IndiceDe(e) + 1]
             j == PrimerLibre(n)
         IN /\ e \in EnCurso /\ k \in Nat /\ k < 2 * e.nb /\ Len(e.idx) = 2 * e.nb
            /\ IndiceDe(e) = e.idx[k + 1] /\ IndiceDe(e) + 1 \in DOMAIN datanodes
            /\ n \in Nodos /\ j \in Numeros
            /\ [tipo |-> "SETBLOQUE", nombre |-> e.nombre, dir |-> e.dir, bloque |-> k \div 2,
                copia |-> k % 2, numero |-> j] \in Copia
            /\ Marcar(n, j) \in [Nodos -> SUBSET (0..(Total - 1))]
<1> DEFINE e == envio[h]
           n == datanodes[IndiceDe(e) + 1]
           j == PrimerLibre(n)
<1>1. e.pc = "envia" /\ Len(e.enviados) < 2 * e.nb /\ IndiceDe(e) < Len(datanodes)
  BY DEF EnviarCopia
<1>2. e \in EnCurso /\ Len(e.idx) = 2 * e.nb
  BY <1>1, BaseAlmacena DEF Repartos
<1>3. /\ Len(e.enviados) \in Nat
      /\ IndiceDe(e) = e.idx[Len(e.enviados) + 1] /\ IndiceDe(e) \in 0..(Len(Orden) - 1)
      /\ Len(e.enviados) \div 2 \in 0..MaxBloques /\ Len(e.enviados) % 2 \in {0, 1}
      /\ e.nombre \in Nombres /\ e.dir \in Dirs
  BY <1>1, <1>2, Proxima
<1>4. IndiceDe(e) + 1 \in DOMAIN datanodes /\ datanodes \in Seq(Nodos)
  <2>1. datanodes \in Seq(Nodos)
    BY DEF Base
  <2>2. IndiceDe(e) \in Nat
    BY <1>3, Largo
  <2>3. QED
    BY <1>1, <2>1, <2>2
<1>5. n \in Nodos
  BY <1>4
<1>6. j \in Numeros
  BY <1>5, BaseLibre
<1>7. [tipo |-> "SETBLOQUE", nombre |-> e.nombre, dir |-> e.dir,
       bloque |-> Len(e.enviados) \div 2, copia |-> Len(e.enviados) % 2, numero |-> j] \in Copia
  BY <1>3, <1>6 DEF Copia
<1>8. Marcar(n, j) \in [Nodos -> SUBSET (0..(Total - 1))]
  <2>1. {j} \ {Total} \subseteq 0..(Total - 1)
    BY <1>6, Instancia DEF Numeros
  <2>2. bitmap \in [Nodos -> SUBSET (0..(Total - 1))]
    BY DEF Base
  <2>3. QED
    BY <2>1, <2>2 DEF Marcar
<1>9. QED
  BY <1>1, <1>2, <1>3, <1>4, <1>5, <1>6, <1>7, <1>8

(* The node, the block and the record of the copy that h sends. *)
LEMMA AlEnviar ==
  ASSUME TypeOK, Repartos, NEW h \in Hilos, EnviarCopia(h)
  PROVE  LET e == envio[h]
             k == Len(e.enviados)
             n == datanodes[IndiceDe(e) + 1]
             j == PrimerLibre(n)
         IN /\ e \in EnCurso /\ k \in Nat /\ k < 2 * e.nb /\ Len(e.idx) = 2 * e.nb
            /\ IndiceDe(e) = e.idx[k + 1] /\ IndiceDe(e) + 1 \in DOMAIN datanodes
            /\ n \in Nodos /\ j \in Numeros
            /\ [tipo |-> "SETBLOQUE", nombre |-> e.nombre, dir |-> e.dir, bloque |-> k \div 2,
                copia |-> k % 2, numero |-> j] \in Copia
            /\ Marcar(n, j) \in [Nodos -> SUBSET (0..(Total - 1))]
BY BaseAlEnviar, EnTipos

(* The record of a storing, changed by a send. *)
LEMMA BaseEnviada ==
  ASSUME Base, Repartos, NEW h \in Hilos, EnviarCopia(h)
  PROVE  LET e == envio[h]
             n == datanodes[IndiceDe(e) + 1]
         IN \E g \in EnCurso :
              /\ envio' = [envio EXCEPT ![h] = g]
              /\ g.cant = e.cant /\ g.idx = e.idx /\ g.nb = e.nb
              /\ g.enviados = Append(e.enviados, <<n, PrimerLibre(n)>>)
              /\ g.nombre = e.nombre /\ g.dir = e.dir
              /\ g.pc \in {"envia", "cierra"} /\ (g.pc = "cierra" => ~g.ok)
              /\ n \in viva => g.ok = e.ok
<1> DEFINE e == envio[h]
           n == datanodes[IndiceDe(e) + 1]
           j == PrimerLibre(n)
           q == Append(e.enviados, <<n, j>>)
<1>1. e \in EnCurso /\ e.pc = "envia" /\ n \in Nodos /\ j \in Numeros
  BY BaseAlEnviar DEF EnviarCopia
<1>2. PICK r \in Mandar(n) :
        LET f == [e EXCEPT !.enviados = q, !.ok = e.ok /\ r # "falla"]
        IN \/ /\ envio' = [envio EXCEPT ![h] = [f EXCEPT !.pc = "cierra"]]
              /\ ~(e.ok /\ r # "falla")
           \/ envio' = [envio EXCEPT ![h] = f]
  BY DEF EnviarCopia
<1> DEFINE ok == e.ok /\ r # "falla"
           f == [e EXCEPT !.enviados = q, !.ok = ok]
           g == [f EXCEPT !.pc = "cierra"]
<1>3. ok \in BOOLEAN /\ (n \in viva => ok = e.ok)
  BY <1>1 DEF Mandar, EnCurso
<1>4. envio' = [envio EXCEPT ![h] = f] \/ (envio' = [envio EXCEPT ![h] = g] /\ ~ok)
  BY <1>2
<1>5. q \in Seq(Nodos \X Numeros)
  BY <1>1, Agregada DEF EnCurso
<1> HIDE DEF q, n, j, e, ok
<1>6. /\ f \in EnCurso /\ f.cant = e.cant /\ f.idx = e.idx /\ f.nb = e.nb /\ f.enviados = q
      /\ f.ok = ok /\ f.nombre = e.nombre /\ f.dir = e.dir /\ f.pc = "envia"
  BY <1>1, <1>3, <1>5 DEF EnCurso
<1> HIDE DEF f
<1>7. /\ g \in EnCurso /\ g.cant = f.cant /\ g.idx = f.idx /\ g.nb = f.nb
      /\ g.enviados = f.enviados /\ g.ok = f.ok /\ g.nombre = f.nombre /\ g.dir = f.dir
      /\ g.pc = "cierra"
  BY <1>6 DEF EnCurso
<1> HIDE DEF g
<1>8. PICK z \in {f, g} : envio' = [envio EXCEPT ![h] = z] /\ (z = g => ~ok)
  BY <1>4, <1>6, <1>7
<1>9. /\ z \in EnCurso /\ z.cant = e.cant /\ z.idx = e.idx /\ z.nb = e.nb
      /\ z.enviados = q /\ z.ok = ok /\ z.nombre = e.nombre
      /\ z.dir = e.dir /\ z.pc \in {"envia", "cierra"} /\ (z.pc = "cierra" => ~z.ok)
  BY <1>6, <1>7, <1>8
<1>10. QED
  BY <1>3, <1>8, <1>9 DEF q, n, j, e

(* The record of a storing, changed by a send. *)
LEMMA Enviada ==
  ASSUME TypeOK, Repartos, NEW h \in Hilos, EnviarCopia(h)
  PROVE  LET e == envio[h]
             n == datanodes[IndiceDe(e) + 1]
         IN \E g \in EnCurso :
              /\ envio' = [envio EXCEPT ![h] = g]
              /\ g.cant = e.cant /\ g.idx = e.idx /\ g.nb = e.nb
              /\ g.enviados = Append(e.enviados, <<n, PrimerLibre(n)>>)
              /\ g.nombre = e.nombre /\ g.dir = e.dir
              /\ g.pc \in {"envia", "cierra"} /\ (g.pc = "cierra" => ~g.ok)
              /\ n \in viva => g.ok = e.ok
BY BaseEnviada, EnTipos

LEMMA BaseEnviarCopia ==
  ASSUME Base, Repartos, NEW h \in Hilos, EnviarCopia(h)
  PROVE  Base' /\ Repartos'
<1> DEFINE e == envio[h]
           k == Len(e.enviados)
           n == datanodes[IndiceDe(e) + 1]
           j == PrimerLibre(n)
           c == [tipo |-> "SETBLOQUE", nombre |-> e.nombre, dir |-> e.dir, bloque |-> k \div 2,
                 copia |-> k % 2, numero |-> j]
           b == Marcar(n, j)
<1>1. /\ e \in EnCurso /\ Len(e.idx) = 2 * e.nb /\ n \in Nodos /\ j \in Numeros /\ c \in Copia
      /\ b \in [Nodos -> SUBSET (0..(Total - 1))]
  BY BaseAlEnviar
<1>2. /\ cpfrom' = TRUE /\ Anotar(n, e.nombre, e.dir) /\ e.pc = "envia"
      /\ UNCHANGED <<datanodes, unico, terminados, metadata, aFS, disco, viva, fs, cola, fallos>>
  BY DEF EnviarCopia, TomarCpfrom, nodo
<1>4. PICK g \in EnCurso : /\ envio' = [envio EXCEPT ![h] = g] /\ g.pc \in {"envia", "cierra"}
                           /\ g.cant = e.cant /\ g.idx = e.idx /\ g.nb = e.nb
  BY BaseEnviada
<1>5. bitmap' = b \/ bitmap' = Limpiados(b, SubSeq(e.enviados, 1, k - 1))
  BY DEF EnviarCopia
<1>6. erroneos' = erroneos \/ erroneos' = erroneos \cup {e.nombre}
  BY DEF EnviarCopia
<1>7. libres' = libres \/ Restar(e.enviados[k][1])
  BY DEF EnviarCopia
<1>8. bitmap' \in [Nodos -> SUBSET (0..(Total - 1))]
  <2>1. \A q : Limpiados(b, q) \in [Nodos -> SUBSET (0..(Total - 1))]
    BY <1>1 DEF Limpiados
  <2>2. QED
    BY <1>1, <1>5, <2>1
<1>9. libres' \in [Nodos -> Int]
  <2>1. libres \in [Nodos -> Int]
    BY DEF Base
  <2>2. QED
    BY <1>7, <2>1 DEF Restar
<1>10. actuales' \in [Nodos -> [Nombres -> Dirs \cup {Sin}]]
  <2>1. e.dir \in Dirs /\ e.nombre \in Nombres
    BY <1>1 DEF EnCurso
  <2>2. actuales \in [Nodos -> [Nombres -> Dirs \cup {Sin}]]
    BY DEF Base
  <2>3. actuales' = actuales \/ actuales' = [actuales EXCEPT ![n][e.nombre] = e.dir]
    BY <1>2 DEF Anotar
  <2>4. QED
    BY <2>1, <2>2, <2>3
<1>12. /\ envio' \in [Hilos -> Envio] /\ envio'[h] = g
       /\ \A x \in Hilos \ {h} : envio'[x] = envio[x]
  BY <1>4 DEF Envio, Base
<1>13. Base'
  BY <1>1, <1>2, <1>6, <1>8, <1>9, <1>10, <1>12 DEF Base, EnCurso
<1>14. Repartos'
  BY <1>1, <1>2, <1>4, <1>12 DEF Repartos
<1>15. QED
  BY <1>13, <1>14

LEMMA TiposEnviarCopia ==
  ASSUME TypeOK, Repartos, NEW h \in Hilos, EnviarCopia(h)
  PROVE  TypeOK' /\ Repartos'
<1> DEFINE e == envio[h]
           k == Len(e.enviados)
           n == datanodes[IndiceDe(e) + 1]
           c == [tipo |-> "SETBLOQUE", nombre |-> e.nombre, dir |-> e.dir, bloque |-> k \div 2,
                 copia |-> k % 2, numero |-> PrimerLibre(n)]
<1>1. n \in Nodos /\ c \in Copia
  BY AlEnviar
<1>2. UNCHANGED <<metadata, aFS, disco>>
  BY DEF EnviarCopia, nodo
<1>3. aNodo' = aNodo \/ aNodo' = [aNodo EXCEPT ![n] = Append(@, c)]
  BY DEF EnviarCopia
<1>4. aNodo' \in [Nodos -> Seq(Copia)]
  <2>1. aNodo \in [Nodos -> Seq(Copia)]
    BY DEF TypeOK
  <2>2. Append(aNodo[n], c) \in Seq(Copia)
    BY <1>1, <2>1, Agregada
  <2>3. QED
    BY <1>1, <1>3, <2>1, <2>2
<1>5. QED
  BY <1>2, <1>4, BaseEnviarCopia, EnTipos DEF TiposDatos

LEMMA BaseCerrar ==
  ASSUME Base, Repartos, NEW h \in Hilos, Cerrar(h)
  PROVE  Base' /\ Repartos'
<1> DEFINE e == envio[h]
<1>1. CASE Morir
  BY <1>1, BaseMorir
<1>2. CASE ~Morir
  <2>1. e \in EnCurso
    BY BaseAlmacena DEF Cerrar
  <2>2. /\ terminados' = IF e.pc = "envia" THEN terminados \cup {e.nombre} ELSE terminados
        /\ libres' = [n \in Nodos |->
              IF \E i \in DOMAIN e.cant : datanodes[i] = n
              THEN e.cant[CHOOSE i \in DOMAIN e.cant : datanodes[i] = n] ELSE libres[n]]
        /\ envio' = [envio EXCEPT ![h] = Libre(1)]
        /\ UNCHANGED <<datanodes, bitmap, actuales, unico, cpfrom, erroneos, metadata,
                       aNodo, aFS, disco, viva, fs, cola, fallos>>
    BY <1>2 DEF Cerrar, red, nodo
  <2>3. libres' \in [Nodos -> Int]
    <3>1. e.cant \in Seq(Int) /\ libres \in [Nodos -> Int]
      BY <2>1 DEF EnCurso, Base
    <3>2. ASSUME NEW n \in Nodos PROVE libres'[n] \in Int
      <4>1. CASE \E i \in DOMAIN e.cant : datanodes[i] = n
        <5> DEFINE i == CHOOSE x \in DOMAIN e.cant : datanodes[x] = n
        <5>1. i \in DOMAIN e.cant
          BY <4>1
        <5>2. libres'[n] = e.cant[i]
          BY <2>2, <4>1
        <5> HIDE DEF i
        <5>3. QED
          BY <3>1, <5>1, <5>2
      <4>2. CASE ~\E i \in DOMAIN e.cant : datanodes[i] = n
        BY <2>2, <3>1, <4>2
      <4>3. QED
        BY <4>1, <4>2
    <3>3. QED
      BY <2>2, <3>2
  <2>4. Base'
    <3>1. e.nombre \in Nombres /\ Libre(1) \in Envio
      BY <2>1 DEF EnCurso, Envio
    <3>2. QED
      BY <2>2, <2>3, <3>1 DEF Base
  <2>5. Repartos'
    BY <2>2 DEF Repartos, Base, Libre
  <2>6. QED
    BY <2>4, <2>5
<1>3. QED
  BY <1>1, <1>2

LEMMA TiposCerrar ==
  ASSUME TypeOK, Repartos, NEW h \in Hilos, Cerrar(h)
  PROVE  TypeOK' /\ Repartos'
<1>1. UNCHANGED <<metadata, aNodo, aFS, disco>>
  BY DEF Cerrar, SinLugar, Morir, fsArchivos, red, nodo
<1>2. QED
  BY <1>1, BaseCerrar, EnTipos DEF TiposDatos

(* The answers of the nodes. *)
Respuesta == [tipo : {"RESULOPERACION"}, copia : Copia, res : Resultados]

LEMMA TiposGuardar ==
  ASSUME TypeOK, Repartos, NEW n \in Nodos, Guardar(n)
  PROVE  TypeOK' /\ Repartos'
<1> DEFINE c == Head(aNodo[n])
<1>1. /\ aNodo[n] # <<>> /\ c.numero < Total
      /\ aNodo' = [aNodo EXCEPT ![n] = Tail(@)]
      /\ UNCHANGED <<datanodes, libres, bitmap, actuales, unico, cpfrom, terminados, erroneos,
                     metadata, viva, fs, cola, envio>>
  BY DEF Guardar, fsDatos, fsArchivos, hilo
<1>2. PICK r \in Resultados :
        /\ IF r = 1 THEN fallos' = fallos ELSE fallos < MaxFallos /\ fallos' = fallos + 1
        /\ disco' = IF r = 1
                    THEN [disco EXCEPT ![n][c.numero] =
                            [nombre |-> c.nombre, dir |-> c.dir, bloque |-> c.bloque]]
                    ELSE disco
        /\ aFS' = [aFS EXCEPT ![n] = Append(@, [tipo |-> "RESULOPERACION", copia |-> c, res |-> r])]
  BY DEF Guardar
<1>3. c \in Copia /\ Tail(aNodo[n]) \in Seq(Copia)
  BY <1>1 DEF TypeOK
<1>4. fallos' \in 0..MaxFallos
  <2>1. fallos \in 0..MaxFallos /\ MaxFallos \in Nat
    BY Instancia DEF TypeOK
  <2>2. fallos' = fallos \/ (fallos < MaxFallos /\ fallos' = fallos + 1)
    BY <1>2
  <2>3. QED
    BY <2>1, <2>2
<1>5. disco' \in [Nodos -> [0..(Total - 1) -> Dato \cup {Vacio}]]
  <2>1. [nombre |-> c.nombre, dir |-> c.dir, bloque |-> c.bloque] \in Dato
    BY <1>3 DEF Copia, Dato
  <2>2. disco \in [Nodos -> [0..(Total - 1) -> Dato \cup {Vacio}]]
    BY DEF TypeOK
  <2> HIDE DEF c
  <2>3. QED
    BY <1>2, <2>1, <2>2
<1>6. aFS' \in [Nodos -> Seq(Respuesta)]
  <2>1. [tipo |-> "RESULOPERACION", copia |-> c, res |-> r] \in Respuesta
    BY <1>3 DEF Respuesta
  <2>2. aFS \in [Nodos -> Seq(Respuesta)]
    BY DEF TypeOK, Respuesta
  <2> DEFINE x == [tipo |-> "RESULOPERACION", copia |-> c, res |-> r]
  <2> HIDE DEF x
  <2>3. Append(aFS[n], x) \in Seq(Respuesta)
    BY <2>1, <2>2 DEF x
  <2>4. QED
    BY <1>2, <2>2, <2>3 DEF x
<1>7. TypeOK'
  BY <1>1, <1>3, <1>4, <1>5, <1>6 DEF TypeOK, Respuesta
<1>8. Repartos'
  BY <1>1 DEF Repartos
<1>9. QED
  BY <1>7, <1>8

LEMMA TiposPerder ==
  ASSUME TypeOK, Repartos, NEW n \in Nodos, GuardarFuera(n) \/ Caer(n)
  PROVE  TypeOK' /\ Repartos'
<1>1. /\ viva' = viva \ {n} /\ aNodo' = [aNodo EXCEPT ![n] = <<>>]
      /\ fallos' = fallos \/ (fallos < MaxFallos /\ fallos' = fallos + 1)
      /\ UNCHANGED <<datanodes, libres, bitmap, actuales, unico, cpfrom, terminados, erroneos,
                     metadata, aFS, disco, fs, cola, envio>>
  BY DEF GuardarFuera, Caer, fsDatos, fsArchivos, hilo
<1>2. fallos' \in 0..MaxFallos
  BY <1>1, Instancia DEF TypeOK
<1>3. aNodo' \in [Nodos -> Seq(Copia)]
  <2>1. <<>> \in Seq(Copia) /\ aNodo \in [Nodos -> Seq(Copia)]
    BY DEF TypeOK
  <2>2. QED
    BY <1>1, <2>1
<1>4. TypeOK'
  BY <1>1, <1>2, <1>3 DEF TypeOK
<1>5. QED
  BY <1>1, <1>4 DEF Repartos

(* What an answer leaves as it was. *)
LEMMA TiposLeer ==
  ASSUME TypeOK, NEW n \in Nodos, LeerResultado(n)
  PROVE  /\ Head(aFS[n]).copia \in Copia
         /\ aFS' \in [Nodos -> Seq(Respuesta)]
         /\ UNCHANGED <<datanodes, libres, bitmap, terminados, erroneos, aNodo, disco, viva,
                        cola, envio, fallos>>
<1>1. aFS \in [Nodos -> Seq(Respuesta)]
  BY DEF TypeOK, Respuesta
<1>2. aFS[n] # <<>> /\ aFS' = [aFS EXCEPT ![n] = Tail(@)]
  BY DEF LeerResultado
<1>3. Head(aFS[n]) \in Respuesta /\ Tail(aFS[n]) \in Seq(Respuesta)
  BY <1>1, <1>2
<1>4. QED
  BY <1>1, <1>2, <1>3 DEF LeerResultado, Respuesta, nodo, hilo

(* The entry of a copy, in the directory that actuales says. *)
LEMMA TiposRegistrar ==
  ASSUME TypeOK, NEW n \in Nodos, NEW c \in Copia, actuales[n][c.nombre] # Sin,
         Registrar(n, c) \/ UNCHANGED metadata
  PROVE  metadata' \subseteq [nombre : Nombres, dir : Dirs, bloque : 0..MaxBloques,
                              copia : {0, 1}, nodo : Nodos, numero : Numeros]
<1>1. actuales[n][c.nombre] \in Dirs
  BY DEF TypeOK, Copia
<1>2. QED
  BY <1>1 DEF TypeOK, Copia, Registrar, EntradaDe, Poner

LEMMA TiposResultado ==
  ASSUME TypeOK, Repartos, NEW n \in Nodos, ResultadoFinal(n) \/ ResultadoParcial(n)
  PROVE  TypeOK' /\ Repartos'
<1> DEFINE c == Head(aFS[n]).copia
<1>1. LeerResultado(n)
  BY DEF ResultadoFinal, ResultadoParcial
<1>2. /\ c \in Copia
      /\ aFS' \in [Nodos -> Seq(Respuesta)]
      /\ UNCHANGED <<datanodes, libres, bitmap, terminados, erroneos, aNodo, disco, viva,
                     cola, envio, fallos>>
  BY <1>1, TiposLeer
<1>3. Registrar(n, c) \/ UNCHANGED metadata
  BY DEF ResultadoFinal, ResultadoParcial
<1>4. actuales[n][c.nombre] # Sin \/ UNCHANGED metadata
  BY DEF ResultadoFinal, ResultadoParcial
<1>5. actuales' = actuales \/ actuales' = [actuales EXCEPT ![n][c.nombre] = Sin]
  BY DEF ResultadoFinal, ResultadoParcial
<1>6. /\ unico' = unico \/ unico' = FALSE
      /\ cpfrom' = cpfrom \/ cpfrom' = FALSE
      /\ fs' \in {fs, "muerto"}
  BY DEF ResultadoFinal, ResultadoParcial, SoltarMutexes
<1>7. actuales' \in [Nodos -> [Nombres -> Dirs \cup {Sin}]]
  <2>1. c.nombre \in Nombres
    BY <1>2 DEF Copia
  <2>2. actuales \in [Nodos -> [Nombres -> Dirs \cup {Sin}]]
    BY DEF TypeOK
  <2> HIDE DEF c
  <2>3. QED
    BY <1>5, <2>1, <2>2
<1>8. metadata' \subseteq [nombre : Nombres, dir : Dirs, bloque : 0..MaxBloques,
                           copia : {0, 1}, nodo : Nodos, numero : Numeros]
  <2>1. CASE UNCHANGED metadata
    BY <2>1 DEF TypeOK
  <2>2. CASE actuales[n][c.nombre] # Sin
    BY <1>2, <1>3, <2>2, TiposRegistrar
  <2>3. QED
    BY <1>4, <2>1, <2>2
<1>9. TypeOK'
  BY <1>2, <1>6, <1>7, <1>8 DEF TypeOK, Respuesta
<1>10. QED
  BY <1>2, <1>9 DEF Repartos

LEMMA BaseDesconectar ==
  ASSUME Base, Repartos, NEW n \in Nodos, Desconectar(n)
  PROVE  Base' /\ Repartos'
<1>1. PICK i \in DOMAIN datanodes : datanodes' = RemoveAt(datanodes, i)
  BY DEF Desconectar
<1>2. UNCHANGED <<libres, bitmap, actuales, unico, cpfrom, terminados, erroneos, metadata,
                  aNodo, aFS, disco, viva, fs, cola, envio, fallos>>
  BY DEF Desconectar, fsDatos, fsArchivos, red, nodo, hilo
<1>3. datanodes' \in Seq(Nodos) /\ Len(datanodes') = Len(datanodes) - 1
  BY <1>1, Quitado DEF Base
<1>4. Base'
  BY <1>2, <1>3 DEF Base
<1>5. Repartos'
  <2>1. Len(datanodes) \in Nat /\ Len(datanodes) <= Len(Orden) /\ Len(Orden) \in Nat
    BY Largo DEF Base, Repartos
  <2>2. QED
    BY <1>2, <1>3, <2>1 DEF Repartos
<1>6. QED
  BY <1>4, <1>5

LEMMA TiposDesconectar ==
  ASSUME TypeOK, Repartos, NEW n \in Nodos, Desconectar(n)
  PROVE  TypeOK' /\ Repartos'
<1>1. UNCHANGED <<metadata, aNodo, aFS, disco>>
  BY DEF Desconectar, fsArchivos, red, nodo
<1>2. QED
  BY <1>1, BaseDesconectar, EnTipos DEF TiposDatos

(* Types and distributions, in every step. *)
LEMMA Tipos ==
  ASSUME TypeOK, Repartos, [Next]_vars
  PROVE  TypeOK' /\ Repartos'
<1>1. CASE UNCHANGED vars
  BY <1>1 DEF vars, fsDatos, fsArchivos, red, nodo, hilo, TypeOK, Repartos
<1>2. ASSUME NEW h \in Hilos, PasoHilo(h) PROVE TypeOK' /\ Repartos'
  <2>1. CASE CortarBasura(h) \/ EnviarMuere(h)
    BY <2>1, TiposMorir DEF CortarBasura, EnviarMuere
  <2>2. QED
    BY <1>2, <2>1, TiposEmpezar, TiposRepartir, TiposEnviarCopia, TiposCerrar DEF PasoHilo
<1>3. ASSUME NEW n \in Nodos, PasoNodo(n) \/ Caer(n) PROVE TypeOK' /\ Repartos'
  BY <1>3, TiposGuardar, TiposPerder, TiposResultado, TiposDesconectar DEF PasoNodo
<1>4. QED
  BY <1>1, <1>2, <1>3 DEF Next

-----------------------------------------------------------------------------
(* One copy at most between a send and its answer. *)
Nada(n) == aNodo[n] = <<>> /\ aFS[n] = <<>>

(* A node without messages has no copy on its way, and the other way round. *)
LEMMA SinVuelos ==
  ASSUME TypeOK, NEW n \in Nodos
  PROVE  EnVuelo(n) = {} <=> Nada(n)
<1>1. aNodo[n] \in Seq(Copia) /\ aFS[n] \in Seq(Respuesta)
  BY DEF TypeOK, Respuesta
<1>2. ASSUME aNodo[n] # <<>> PROVE aNodo[n][1] \in EnVuelo(n)
  <2>1. 1 \in DOMAIN aNodo[n]
    BY <1>1, <1>2
  <2>2. QED
    BY <2>1 DEF EnVuelo
<1>3. ASSUME aFS[n] # <<>> PROVE aFS[n][1].copia \in EnVuelo(n)
  <2>1. 1 \in DOMAIN aFS[n]
    BY <1>1, <1>3
  <2>2. QED
    BY <2>1 DEF EnVuelo
<1>4. Nada(n) => EnVuelo(n) = {}
  BY DEF Nada, EnVuelo
<1>5. QED
  BY <1>2, <1>3, <1>4 DEF Nada

(* With a message at n, it is the only one anywhere, and cpfrom is locked. *)
LEMMA UnicoMensaje ==
  ASSUME TypeOK, UnaEnVuelo, NEW n \in Nodos, ~Nada(n)
  PROVE  cpfrom /\ \A m \in Nodos \ {n} : Nada(m)
<1>1. PICK c : c \in EnVuelo(n)
  BY SinVuelos
<1>2. QED
  BY <1>1, SinVuelos DEF UnaEnVuelo

(* UnaEnVuelo, part by part. *)
Pocas == \A n \in Nodos : Len(aNodo[n]) + Len(aFS[n]) <= 1
Tomado == \A n \in Nodos : \A c \in EnVuelo(n) : cpfrom
Anotadas == \A n \in Nodos : \A c \in EnVuelo(n) : actuales[n][c.nombre] # Sin
Sola == \A n \in Nodos : EnVuelo(n) # {} => \A m \in Nodos \ {n} : EnVuelo(m) = {}

(* Two lists with one element at most between them. *)
LEMMA UnoSolo ==
  ASSUME NEW A, NEW B, NEW q \in Seq(A), NEW r \in Seq(B), Len(q) + Len(r) <= 1
  PROVE  /\ q # <<>> => Len(q) = 1 /\ Tail(q) = <<>> /\ r = <<>>
         /\ r # <<>> => Len(r) = 1 /\ Tail(r) = <<>> /\ q = <<>>
<1> DEFINE i == Len(q)
           j == Len(r)
<1>1. /\ i \in Nat /\ j \in Nat /\ i + j <= 1
      /\ (q = <<>> <=> i = 0) /\ (r = <<>> <=> j = 0)
      /\ i = 1 => Tail(q) = <<>>
      /\ j = 1 => Tail(r) = <<>>
  OBVIOUS
<1> HIDE DEF i, j
<1>2. /\ q # <<>> => i = 1 /\ j = 0
      /\ r # <<>> => j = 1 /\ i = 0
  BY <1>1
<1>3. QED
  BY <1>1, <1>2 DEF i, j

LEMMA Sumas ==
  /\ \A a, b, c \in Nat : a <= c /\ c + b <= 1 => a + b <= 1
  /\ 0 + 0 <= 1 /\ 1 + 0 <= 1 /\ 0 + 1 <= 1
  OBVIOUS

LEMMA PorPartes == UnaEnVuelo <=> Pocas /\ Tomado /\ Anotadas /\ Sola
BY DEF UnaEnVuelo, Pocas, Tomado, Anotadas, Sola

(* Nothing on its way. *)
Quieto == \A n \in Nodos : Nada(n)

LEMMA TodoQuieto == Quieto => UnaEnVuelo
<1> SUFFICES ASSUME Quieto PROVE UnaEnVuelo
  OBVIOUS
<1>1. \A n \in Nodos : EnVuelo(n) = {}
  BY DEF Quieto, Nada, EnVuelo
<1>2. Pocas
  <2> SUFFICES ASSUME NEW n \in Nodos PROVE Len(aNodo[n]) + Len(aFS[n]) <= 1
    BY DEF Pocas
  <2>1. Len(aNodo[n]) = 0 /\ Len(aFS[n]) = 0
    BY DEF Quieto, Nada
  <2>2. QED
    BY <2>1
<1>3. QED
  BY <1>1, <1>2, PorPartes DEF Tomado, Anotadas, Sola

LEMMA VuelaEnviada ==
  ASSUME TypeOK, Repartos, UnaEnVuelo, NEW h \in Hilos, EnviarCopia(h), TypeOK'
  PROVE  /\ UnaEnVuelo'
         /\ \E n \in Nodos, c \in Copia :
              /\ n = datanodes[IndiceDe(envio[h]) + 1]
              /\ c.nombre = envio[h].nombre /\ c.bloque = Len(envio[h].enviados) \div 2
              /\ c.copia = Len(envio[h].enviados) % 2 /\ c.numero = PrimerLibre(n)
              /\ \A m \in Nodos : EnVuelo(m) = {} /\ EnVuelo(m)' \subseteq {c}
              /\ \A m \in Nodos \ {n} : EnVuelo(m)' = {}
              /\ IF n \in viva THEN c \in EnVuelo(n)' ELSE EnVuelo(n)' = {}
<1> DEFINE e == envio[h]
           k == Len(e.enviados)
<1>0. PICK n, c :
        /\ n = datanodes[IndiceDe(e) + 1]
        /\ c = [tipo |-> "SETBLOQUE", nombre |-> e.nombre, dir |-> e.dir, bloque |-> k \div 2,
                copia |-> k % 2, numero |-> PrimerLibre(n)]
  OBVIOUS
<1>1. e \in EnCurso /\ n \in Nodos /\ c \in Copia
  BY <1>0, AlEnviar
<1>2. /\ ~cpfrom /\ cpfrom' = TRUE /\ Anotar(n, e.nombre, e.dir) /\ aFS' = aFS
      /\ \/ aNodo' = aNodo /\ n \notin viva
         \/ aNodo' = [aNodo EXCEPT ![n] = Append(@, c)] /\ n \in viva
  BY <1>0 DEF EnviarCopia, TomarCpfrom, Mandar
<1>3. \A m \in Nodos : Nada(m)
  BY <1>2, UnicoMensaje
<1>4. /\ c.nombre = e.nombre /\ e.nombre \in Nombres /\ e.dir \in Dirs
      /\ c.bloque = k \div 2 /\ c.copia = k % 2 /\ c.numero = PrimerLibre(n)
  BY <1>0, <1>1 DEF EnCurso
<1> HIDE DEF e, k
<1>5. actuales'[n][c.nombre] # Sin
  <2>1. e.dir # Sin /\ actuales \in [Nodos -> [Nombres -> Dirs \cup {Sin}]]
    BY <1>4, Instancia DEF TypeOK
  <2>2. QED
    BY <1>1, <1>2, <1>4, <2>1 DEF Anotar
<1> DEFINE Queda ==
      /\ UnaEnVuelo'
      /\ \A m \in Nodos : EnVuelo(m)' \subseteq {c}
      /\ \A m \in Nodos \ {n} : EnVuelo(m)' = {}
      /\ IF n \in viva THEN c \in EnVuelo(n)' ELSE EnVuelo(n)' = {}
<1>6. ASSUME aNodo' = aNodo, n \notin viva PROVE Queda
  <2>1. Quieto'
    BY <1>2, <1>3, <1>6 DEF Quieto, Nada
  <2>2. \A m \in Nodos : EnVuelo(m)' = {}
    BY <1>2, <1>3, <1>6 DEF EnVuelo, Nada
  <2>3. UnaEnVuelo'
    BY <2>1, TodoQuieto, PTL
  <2>4. QED
    BY <1>1, <1>6, <2>2, <2>3
<1>7. ASSUME aNodo' = [aNodo EXCEPT ![n] = Append(@, c)], n \in viva PROVE Queda
  <2>1. aNodo'[n] = <<c>> /\ \A m \in Nodos \ {n} : aNodo'[m] = <<>>
    <3>1. aNodo \in [Nodos -> Seq(Copia)] /\ \A m \in Nodos : aNodo[m] = <<>>
      BY <1>3 DEF TypeOK, Nada
    <3>2. Append(<<>>, c) = <<c>>
      OBVIOUS
    <3>3. QED
      BY <1>1, <1>7, <3>1, <3>2
  <2>2. \A m \in Nodos : aFS'[m] = <<>>
    BY <1>2, <1>3 DEF Nada
  <2>3. EnVuelo(n)' = {c} /\ Len(aNodo'[n]) = 1 /\ Len(aFS'[n]) = 0
    <3>1. Len(<<c>>) = 1 /\ DOMAIN <<c>> = {1} /\ <<c>>[1] = c /\ DOMAIN <<>> = {} /\ Len(<<>>) = 0
      OBVIOUS
    <3>2. aNodo'[n] = <<c>> /\ aFS'[n] = <<>>
      BY <1>1, <2>1, <2>2
    <3>3. EnVuelo(n)' = {c}
      <4> DEFINE q == aNodo'[n]
                 r == aFS'[n]
      <4>1. EnVuelo(n)' = {q[i] : i \in DOMAIN q} \cup {r[i].copia : i \in DOMAIN r}
        BY DEF EnVuelo
      <4>2. DOMAIN q = {1} /\ q[1] = c /\ DOMAIN r = {}
        BY <3>1, <3>2
      <4> HIDE DEF q, r
      <4>3. QED
        BY <4>1, <4>2
    <3>4. QED
      BY <3>1, <3>2, <3>3
  <2>4. \A m \in Nodos \ {n} : EnVuelo(m)' = {} /\ Len(aNodo'[m]) = 0 /\ Len(aFS'[m]) = 0
    BY <2>1, <2>2 DEF EnVuelo
  <2>5. Pocas'
    <3> SUFFICES ASSUME NEW m \in Nodos PROVE Len(aNodo'[m]) + Len(aFS'[m]) <= 1
      BY DEF Pocas
    <3>1. Len(aNodo'[m]) \in {0, 1} /\ Len(aFS'[m]) = 0
      BY <2>3, <2>4
    <3>2. QED
      BY <3>1, Sumas
  <2>6. (Tomado /\ Sola)' /\ Anotadas'
    <3>1. ASSUME NEW m \in Nodos, NEW z \in EnVuelo(m)' PROVE m = n /\ z = c
      <4>1. m = n
        BY <2>4, <3>1
      <4>2. QED
        BY <2>3, <3>1, <4>1
    <3>2. Anotadas'
      BY <1>5, <3>1 DEF Anotadas
    <3>3. Tomado' /\ Sola'
      BY <1>2, <2>4, <3>1 DEF Tomado, Sola
    <3>4. QED
      BY <3>2, <3>3
  <2>7. UnaEnVuelo'
    BY <2>5, <2>6, PorPartes, PTL
  <2>8. QED
    BY <1>7, <2>3, <2>4, <2>7
<1>8. Queda
  BY <1>2, <1>6, <1>7
<1>9. \A m \in Nodos : EnVuelo(m) = {}
  BY <1>3 DEF EnVuelo, Nada
<1>10. QED
  BY <1>0, <1>1, <1>4, <1>8, <1>9 DEF e, k

LEMMA VuelaGuardada ==
  ASSUME TypeOK, UnaEnVuelo, NEW n \in Nodos, Guardar(n), TypeOK'
  PROVE  UnaEnVuelo' /\ \A m \in Nodos : EnVuelo(m)' = EnVuelo(m)
<1> DEFINE c == Head(aNodo[n])
<1>1. /\ aNodo[n] # <<>> /\ aNodo' = [aNodo EXCEPT ![n] = Tail(@)]
      /\ UNCHANGED <<cpfrom, actuales>>
  BY DEF Guardar, fsDatos
<1>2. PICK r \in Resultados :
        aFS' = [aFS EXCEPT ![n] = Append(@, [tipo |-> "RESULOPERACION", copia |-> c, res |-> r])]
  BY DEF Guardar
<1> DEFINE x == [tipo |-> "RESULOPERACION", copia |-> c, res |-> r]
<1>3. aNodo[n] \in Seq(Copia) /\ aFS[n] \in Seq(Respuesta) /\ aNodo \in [Nodos -> Seq(Copia)]
      /\ aFS \in [Nodos -> Seq(Respuesta)]
  BY DEF TypeOK, Respuesta
<1>4. Len(aNodo[n]) = 1 /\ aFS[n] = <<>>
  <2>1. Len(aNodo[n]) + Len(aFS[n]) <= 1
    BY PorPartes DEF Pocas
  <2>2. QED
    BY <1>1, <1>3, <2>1, UnoSolo
<1>5. c \in EnVuelo(n) /\ x.copia = c /\ Tail(aNodo[n]) = <<>>
  <2>1. 1 \in DOMAIN aNodo[n] /\ c = aNodo[n][1] /\ Tail(aNodo[n]) = <<>>
    BY <1>1, <1>3, <1>4
  <2>2. QED
    BY <2>1 DEF EnVuelo
<1>6. cpfrom /\ actuales[n][c.nombre] # Sin /\ \A m \in Nodos \ {n} : Nada(m)
  BY <1>1, <1>5, UnicoMensaje DEF UnaEnVuelo, Nada
<1> HIDE DEF x, c
<1>7. aNodo'[n] = <<>> /\ aFS'[n] = <<x>>
  <2>1. Append(<<>>, x) = <<x>>
    OBVIOUS
  <2>2. QED
    BY <1>1, <1>2, <1>3, <1>4, <1>5, <2>1 DEF x
<1>8. \A m \in Nodos \ {n} : aNodo'[m] = <<>> /\ aFS'[m] = <<>>
  BY <1>1, <1>2, <1>3, <1>6 DEF Nada
<1>9. EnVuelo(n)' = {c} /\ Len(aNodo'[n]) = 0 /\ Len(aFS'[n]) = 1
  <2>1. Len(<<x>>) = 1 /\ DOMAIN <<x>> = {1} /\ <<x>>[1] = x /\ DOMAIN <<>> = {} /\ Len(<<>>) = 0
    OBVIOUS
  <2>2. QED
    BY <1>5, <1>7, <2>1 DEF EnVuelo
<1>10. \A m \in Nodos \ {n} : EnVuelo(m)' = {} /\ Len(aNodo'[m]) = 0 /\ Len(aFS'[m]) = 0
  BY <1>8 DEF EnVuelo
<1>11. Pocas'
  <2> SUFFICES ASSUME NEW m \in Nodos PROVE Len(aNodo'[m]) + Len(aFS'[m]) <= 1
    BY DEF Pocas
  <2>1. Len(aNodo'[m]) = 0 /\ Len(aFS'[m]) \in {0, 1}
    BY <1>9, <1>10
  <2>2. QED
    BY <2>1, Sumas
<1>12. (Tomado /\ Anotadas /\ Sola)'
  BY <1>1, <1>6, <1>9, <1>10 DEF Tomado, Anotadas, Sola
<1>13. UnaEnVuelo'
  BY <1>11, <1>12, PorPartes, PTL
<1>14. EnVuelo(n) = {c} /\ \A m \in Nodos \ {n} : EnVuelo(m) = {}
  <2>1. \A z : z \in EnVuelo(n) => z = c
    <3> DEFINE q == aNodo[n]
               t == aFS[n]
    <3>1. EnVuelo(n) = {q[i] : i \in DOMAIN q} \cup {t[i].copia : i \in DOMAIN t}
      BY DEF EnVuelo
    <3>2. DOMAIN q = {1} /\ q[1] = c /\ DOMAIN t = {}
      BY <1>3, <1>4 DEF c
    <3> HIDE DEF q, t
    <3>3. QED
      BY <3>1, <3>2
  <2>2. QED
    BY <1>5, <1>6, <2>1 DEF EnVuelo, Nada
<1>15. QED
  BY <1>9, <1>10, <1>13, <1>14

LEMMA VuelaPerdida ==
  ASSUME TypeOK, UnaEnVuelo, NEW n \in Nodos, GuardarFuera(n) \/ Caer(n)
  PROVE  UnaEnVuelo' /\ \A m \in Nodos : EnVuelo(m)' \subseteq EnVuelo(m)
<1>1. aNodo' = [aNodo EXCEPT ![n] = <<>>] /\ UNCHANGED <<aFS, cpfrom, actuales>>
  BY DEF GuardarFuera, Caer, fsDatos
<1>2. aNodo \in [Nodos -> Seq(Copia)] /\ aFS \in [Nodos -> Seq(Respuesta)]
  BY DEF TypeOK, Respuesta
<1>3. \A m \in Nodos : aNodo'[m] = aNodo[m] \/ aNodo'[m] = <<>>
  BY <1>1, <1>2
<1>4. \A m \in Nodos : EnVuelo(m)' \subseteq EnVuelo(m) /\ Len(aNodo'[m]) <= Len(aNodo[m])
  BY <1>1, <1>2, <1>3 DEF EnVuelo
<1>5. \A m \in Nodos : Len(aNodo'[m]) \in Nat /\ Len(aNodo[m]) \in Nat /\ Len(aFS[m]) \in Nat
  BY <1>2, <1>3
<1>6. Pocas'
  <2> SUFFICES ASSUME NEW m \in Nodos PROVE Len(aNodo'[m]) + Len(aFS'[m]) <= 1
    BY DEF Pocas
  <2>1. Len(aNodo[m]) + Len(aFS[m]) <= 1
    BY PorPartes DEF Pocas
  <2>2. aFS'[m] = aFS[m] /\ Len(aNodo'[m]) <= Len(aNodo[m])
    BY <1>1, <1>4
  <2>3. QED
    BY <1>5, <2>1, <2>2, Sumas
<1>7. (Tomado /\ Anotadas /\ Sola)'
  BY <1>1, <1>4, PorPartes DEF Tomado, Anotadas, Sola
<1>8. UnaEnVuelo'
  BY <1>6, <1>7, PorPartes, PTL
<1>9. QED
  BY <1>4, <1>8

LEMMA VuelaLeida ==
  ASSUME TypeOK, UnaEnVuelo, NEW n \in Nodos, LeerResultado(n)
  PROVE  /\ UnaEnVuelo'
         /\ EnVuelo(n) = {Head(aFS[n]).copia} /\ \A m \in Nodos \ {n} : EnVuelo(m) = {}
         /\ \A m \in Nodos : EnVuelo(m)' = {}
<1>1. aFS[n] # <<>> /\ aFS' = [aFS EXCEPT ![n] = Tail(@)] /\ aNodo' = aNodo
  BY DEF LeerResultado
<1>2. aNodo \in [Nodos -> Seq(Copia)] /\ aFS \in [Nodos -> Seq(Respuesta)]
  BY DEF TypeOK, Respuesta
<1>3. aNodo[n] = <<>> /\ Tail(aFS[n]) = <<>> /\ Len(aFS[n]) = 1 /\ DOMAIN aFS[n] = {1}
  <2>1. aNodo[n] \in Seq(Copia) /\ aFS[n] \in Seq(Respuesta)
    BY <1>2
  <2>2. Len(aNodo[n]) + Len(aFS[n]) <= 1
    BY PorPartes DEF Pocas
  <2> DEFINE q == aNodo[n]
             r == aFS[n]
  <2>3. q \in Seq(Copia) /\ r \in Seq(Respuesta) /\ r # <<>> /\ Len(q) + Len(r) <= 1
    BY <1>1, <2>1, <2>2
  <2> HIDE DEF q, r
  <2>4. Len(r) = 1 /\ Tail(r) = <<>> /\ q = <<>>
    BY <2>3, UnoSolo
  <2>5. DOMAIN r = {1}
    BY <2>3, <2>4
  <2>6. QED
    BY <2>4, <2>5 DEF q, r
<1>4. \A m \in Nodos \ {n} : Nada(m)
  BY <1>1, UnicoMensaje DEF Nada
<1>5. Quieto'
  BY <1>1, <1>2, <1>3, <1>4 DEF Quieto, Nada
<1>6. UnaEnVuelo'
  BY <1>5, TodoQuieto, PTL
<1>7. EnVuelo(n) = {Head(aFS[n]).copia}
  <2> DEFINE q == aNodo[n]
             r == aFS[n]
  <2>1. EnVuelo(n) = {q[i] : i \in DOMAIN q} \cup {r[i].copia : i \in DOMAIN r}
    BY DEF EnVuelo
  <2>2. DOMAIN q = {} /\ DOMAIN r = {1} /\ r[1] = Head(r)
    BY <1>2, <1>3
  <2> HIDE DEF q, r
  <2>3. EnVuelo(n) = {Head(r).copia}
    BY <2>1, <2>2
  <2>4. QED
    BY <2>3 DEF r
<1>8. /\ \A m \in Nodos \ {n} : EnVuelo(m) = {}
      /\ \A m \in Nodos : EnVuelo(m)' = {}
  BY <1>4, <1>5 DEF EnVuelo, Nada, Quieto
<1>9. QED
  BY <1>6, <1>7, <1>8

(* UnaEnVuelo, in every step. *)
LEMMA Vuelos ==
  ASSUME IInv, [Next]_vars, TypeOK'
  PROVE  UnaEnVuelo'
<1>1. ASSUME UNCHANGED <<aNodo, aFS, cpfrom, actuales>> PROVE UnaEnVuelo'
  <2>1. \A m \in Nodos : EnVuelo(m)' = EnVuelo(m)
    BY <1>1 DEF EnVuelo
  <2>2. Pocas'
    BY <1>1, PorPartes DEF IInv, Pocas
  <2>3. (Tomado /\ Anotadas /\ Sola)'
    BY <1>1, <2>1, PorPartes DEF IInv, Tomado, Anotadas, Sola
  <2>4. QED
    BY <2>2, <2>3, PorPartes, PTL
<1>2. CASE UNCHANGED vars
  BY <1>1, <1>2 DEF vars, red, fsDatos
<1>3. ASSUME NEW h \in Hilos, PasoHilo(h) PROVE UnaEnVuelo'
  <2>1. CASE Empezar(h) \/ CortarBasura(h) \/ EnviarMuere(h) \/ Cerrar(h)
    BY <1>1, <2>1 DEF Empezar, CortarBasura, EnviarMuere, Cerrar, Morir, red, fsDatos
  <2>2. CASE Repartir(h)
    BY <1>1, <2>2 DEF Repartir, SinLugar, Morir, red, fsDatos
  <2>3. CASE EnviarCopia(h)
    BY <2>3, VuelaEnviada DEF IInv
  <2>4. QED
    BY <1>3, <2>1, <2>2, <2>3 DEF PasoHilo
<1>4. ASSUME NEW n \in Nodos, PasoNodo(n) \/ Caer(n) PROVE UnaEnVuelo'
  <2>1. CASE Desconectar(n)
    BY <1>1, <2>1 DEF Desconectar, red, fsDatos
  <2>2. QED
    BY <1>4, <2>1, VuelaGuardada, VuelaPerdida, VuelaLeida
       DEF IInv, PasoNodo, ResultadoFinal, ResultadoParcial
<1>5. QED
  BY <1>2, <1>3, <1>4 DEF Next

(* The first states. *)
LEMMA AlPrincipio ==
  ASSUME Init PROVE IInv
<1>1. TypeOK
  <2>1. \A n \in Nodos : Total - Cardinality(Ocupados[n]) \in Int
    <3>1. ASSUME NEW n \in Nodos PROVE Cardinality(Ocupados[n]) \in Nat
      <4>1. IsFiniteSet(0..(Total - 1))
        BY Instancia, FS_Interval
      <4>2. QED
        BY <4>1, Instancia, FS_Subset, FS_CardinalityType
    <3>2. QED
      BY <3>1, Instancia
  <2>2. libres \in [Nodos -> Int]
    BY <2>1 DEF Init
  <2>3. disco \in [Nodos -> [0..(Total - 1) -> Dato \cup {Vacio}]]
    BY DEF Init
  <2>4. /\ datanodes \in Seq(Nodos) /\ bitmap \in [Nodos -> SUBSET (0..(Total - 1))]
        /\ cola \in [Hilos -> Seq(Pedido)] /\ fallos \in 0..MaxFallos
    BY Instancia DEF Init
  <2>5. actuales \in [Nodos -> [Nombres -> Dirs \cup {Sin}]]
    BY DEF Init
  <2>6. /\ aNodo \in [Nodos -> Seq(Copia)]
        /\ aFS \in [Nodos -> Seq([tipo : {"RESULOPERACION"}, copia : Copia, res : Resultados])]
    BY DEF Init
  <2>7. envio \in [Hilos -> Envio]
    BY DEF Init, Envio
  <2>8. unico \in BOOLEAN /\ cpfrom \in BOOLEAN
    BY DEF Init
  <2>9. QED
    BY <2>2, <2>3, <2>4, <2>5, <2>6, <2>7, <2>8 DEF Init, TypeOK
<1>2. Repartos
  BY Largo DEF Init, Repartos, Libre
<1>3. Quieto
  BY DEF Init, Quieto, Nada
<1>4. QED
  BY <1>1, <1>2, <1>3, TodoQuieto DEF IInv

LEMMA Inductivo == Spec => []IInv
<1>1. ASSUME IInv, [Next]_vars PROVE IInv'
  BY <1>1, Tipos, Vuelos DEF IInv
<1>2. QED
  BY <1>1, AlPrincipio, PTL DEF Spec

(* Every variable of FileSystem, of the nodes and of the threads that store  *)
(* keeps its type, whatever dies and whatever fails: a block number is never *)
(* past Total, an index of the distribution never past the nodes.            *)
THEOREM TiposAlmacenar == Spec => []TypeOK
BY Inductivo, PTL DEF IInv

(* mutex_cpfrom lets one copy at most be between a send and its answer, and  *)
(* its file is then in the list of its node: for any number of threads and   *)
(* nodes, though the mutexes are released by another thread (1247, 4284).    *)
THEOREM SiempreUna == Spec => []UnaEnVuelo
BY Inductivo, PTL DEF IInv

-----------------------------------------------------------------------------
(* The copies of a file.  What follows is about storing files of different   *)
(* names: two storings of one name share their entry in archivos_actuales.   *)
NombresDistintos ==
  \A h, g \in Hilos : \A i \in DOMAIN Pedidos[h], j \in DOMAIN Pedidos[g] :
    Pedidos[h][i].nombre = Pedidos[g][j].nombre => h = g /\ i = j

(* Copy c of block b of file a is registered at n or on its way there. *)
Puesta(a, b, c, n) ==
  \/ \E r \in metadata : r.nombre = a /\ r.bloque = b /\ r.copia = c /\ r.nodo = n
  \/ \E x \in EnVuelo(n) : x.nombre = a /\ x.bloque = b /\ x.copia = c

Puestas ==
  {<<r.nombre, r.bloque, r.copia, r.nodo>> : r \in metadata}
  \cup UNION {{<<x.nombre, x.bloque, x.copia, n>> : x \in EnVuelo(n)} : n \in Nodos}

(* The files thread h began to store. *)
Empezados(h) == Len(Pedidos[h]) - Len(cola[h])

(* What is left to store is the end of what was asked for, and the storing a *)
(* thread is at is of the file before.                                       *)
Colas ==
  \A h \in Hilos :
    /\ Empezados(h) \in 0..Len(Pedidos[h])
    /\ \A i \in DOMAIN cola[h] : cola[h][i] = Pedidos[h][Empezados(h) + i]
    /\ envio[h].pc # "libre" =>
         /\ Empezados(h) # 0
         /\ envio[h].nombre = Pedidos[h][Empezados(h)].nombre
         /\ envio[h].dir = Pedidos[h][Empezados(h)].dir
         /\ envio[h].nb \in Pedidos[h][Empezados(h)].bloques

(* No node left while all are alive. *)
Presentes == viva = Nodos => datanodes = Orden

(* The two indexes of a block are different. *)
EnPares(q) == \A i \in DOMAIN q : i % 2 = 1 => i + 1 \in DOMAIN q /\ q[i] # q[i + 1]
Parejas == \A h \in Hilos : envio[h].pc # "libre" => EnPares(envio[h].idx)

(* Nothing of a file is anywhere before its storing begins. *)
Nuevos ==
  \A h \in Hilos : \A i \in DOMAIN cola[h] : \A b \in 0..MaxBloques, c \in {0, 1}, n \in Nodos :
    <<cola[h][i].nombre, b, c, n>> \notin Puestas

(* What there is of the file being stored was sent where the distribution    *)
(* says.                                                                     *)
DondeDijo ==
  viva = Nodos =>
    \A h \in Hilos : envio[h].pc # "libre" =>
      \A b \in 0..MaxBloques, c \in {0, 1}, n \in Nodos :
        <<envio[h].nombre, b, c, n>> \in Puestas =>
          /\ 2 * b + c < Len(envio[h].enviados) /\ 2 * b + c + 1 \in DOMAIN envio[h].idx
          /\ n = Orden[envio[h].idx[2 * b + c + 1] + 1]

(* The copies of a block, registered or on their way, are apart. *)
Separadas ==
  viva = Nodos =>
    \A a \in Nombres, b \in 0..MaxBloques, n \in Nodos :
      ~(<<a, b, 0, n>> \in Puestas /\ <<a, b, 1, n>> \in Puestas)

(* The second invariant. *)
IInv2 == Colas /\ Presentes /\ Parejas /\ Nuevos /\ DondeDijo /\ Separadas

-----------------------------------------------------------------------------
(* The copies registered: file, directory, block and which of the two. *)
Registradas == {<<r.nombre, r.dir, r.bloque, r.copia>> : r \in metadata}

(* Those between their send and their answer. *)
Volando == UNION {{<<x.nombre, x.bloque, x.copia>> : x \in EnVuelo(n)} : n \in Nodos}

Sanos == fallos = 0 /\ viva = Nodos

(* Without failures no send fails and no file is marked as erroneous. *)
SinErrores ==
  Sanos =>
    /\ erroneos = {}
    /\ \A n \in Nodos : \A i \in DOMAIN aFS[n] : aFS[n][i].res = 1
    /\ \A h \in Hilos : envio[h].pc # "libre" => envio[h].ok /\ envio[h].pc # "cierra"

(* File a of directory d is one of those to store. *)
EsPedido(a, d) ==
  \E h \in Hilos : \E i \in DOMAIN Pedidos[h] : Pedidos[h][i].nombre = a /\ Pedidos[h][i].dir = d

(* archivos_actuales has the directory that was asked for. *)
Directorios ==
  \A n \in Nodos, a \in Nombres : actuales[n][a] # Sin => EsPedido(a, actuales[n][a])

(* The copies k of 0..m - 1 of a file are registered, but the last one maybe. *)
Hechas(a, d, m) ==
  \A k \in 0..(m - 1) : \/ <<a, d, k \div 2, k % 2>> \in Registradas
                        \/ k = m - 1 /\ <<a, k \div 2, k % 2>> \in Volando

(* Every copy sent is registered, but the one on its way. *)
Enviadas ==
  Sanos => \A h \in Hilos : envio[h].pc # "libre" =>
             Hechas(envio[h].nombre, envio[h].dir, Len(envio[h].enviados))

(* So is every copy of a file that was closed. *)
Completas ==
  Sanos => \A h \in Hilos : \A i \in DOMAIN Pedidos[h] :
    Pedidos[h][i].nombre \in terminados =>
      \E nb \in Pedidos[h][i].bloques : Hechas(Pedidos[h][i].nombre, Pedidos[h][i].dir, 2 * nb)

(* The third invariant. *)
IInv3 == SinErrores /\ Directorios /\ Enviadas /\ Completas

-----------------------------------------------------------------------------
(* Nodes do not come back, and what failed is not forgotten. *)
LEMMA SoloMenos ==
  ASSUME TypeOK, [Next]_vars
  PROVE  viva' \subseteq viva /\ (fallos' = 0 => fallos = 0)
<1>1. fallos \in Nat
  BY Instancia DEF TypeOK
<1>2. ASSUME UNCHANGED <<viva, fallos>> PROVE viva' \subseteq viva /\ (fallos' = 0 => fallos = 0)
  BY <1>2
<1>3. CASE UNCHANGED vars
  BY <1>2, <1>3 DEF vars, nodo
<1>4. ASSUME NEW h \in Hilos, PasoHilo(h) PROVE UNCHANGED <<viva, fallos>>
  <2>1. CASE Repartir(h)
    BY <2>1 DEF Repartir, Morir, nodo
  <2>2. CASE ~Repartir(h)
    BY <1>4, <2>2 DEF PasoHilo, Empezar, CortarBasura, EnviarCopia, EnviarMuere, Cerrar, Morir, nodo
  <2>3. QED
    BY <2>1, <2>2
<1>5. ASSUME NEW n \in Nodos, PasoNodo(n) \/ Caer(n)
      PROVE  /\ viva' \in {viva, viva \ {n}}
             /\ fallos' = fallos \/ fallos' = fallos + 1
  <2>1. CASE Guardar(n)
    BY <2>1 DEF Guardar
  <2>2. CASE GuardarFuera(n) \/ Caer(n)
    BY <2>2 DEF GuardarFuera, Caer
  <2>3. CASE ResultadoFinal(n) \/ ResultadoParcial(n) \/ Desconectar(n)
    BY <2>3 DEF ResultadoFinal, ResultadoParcial, LeerResultado, Desconectar, nodo
  <2>4. QED
    BY <1>5, <2>1, <2>2, <2>3 DEF PasoNodo
<1>6. CASE \E n \in Nodos : PasoNodo(n) \/ Caer(n)
  BY <1>1, <1>5, <1>6
<1>7. QED
  BY <1>2, <1>3, <1>4, <1>6 DEF Next

(* What answers write in metadata/archivos. *)
LEMMA AlRegistrar ==
  ASSUME NEW n \in Nodos, ResultadoFinal(n) \/ ResultadoParcial(n)
  PROVE  /\ LeerResultado(n)
         /\ \/ UNCHANGED metadata
            \/ Registrar(n, Head(aFS[n]).copia)
BY DEF ResultadoFinal, ResultadoParcial

(* A step of a thread that does not send leaves what is registered and what  *)
(* is on its way.                                                            *)
LEMMA SinEnviar ==
  ASSUME NEW h \in Hilos, PasoHilo(h), ~EnviarCopia(h)
  PROVE  UNCHANGED <<metadata, aNodo, aFS, actuales>>
<1>1. CASE Repartir(h)
  BY <1>1 DEF Repartir, Morir, fsArchivos, red, fsDatos
<1>2. CASE ~Repartir(h)
  BY <1>2 DEF PasoHilo, Empezar, CortarBasura, EnviarMuere, Cerrar, Morir, fsArchivos, red, fsDatos
<1>3. QED
  BY <1>1, <1>2

(* Copy c of block b of file a, to node n, is the next that thread h sends. *)
Toca(h, a, b, c, n) ==
  /\ a = envio[h].nombre /\ b = Len(envio[h].enviados) \div 2
  /\ c = Len(envio[h].enviados) % 2 /\ n = datanodes[IndiceDe(envio[h]) + 1]

(* A copy that is somewhere after a step was there before, or is the one     *)
(* that the step sent.                                                       *)
LEMMA YaPuesta ==
  ASSUME IInv, [Next]_vars, IInv', NEW a, NEW b, NEW c, NEW n \in Nodos, <<a, b, c, n>> \in Puestas'
  PROVE  \/ <<a, b, c, n>> \in Puestas
         \/ \E h \in Hilos : EnviarCopia(h) /\ Toca(h, a, b, c, n)
<1>0. Puesta(a, b, c, n)' /\ (Puesta(a, b, c, n) => <<a, b, c, n>> \in Puestas)
  <2>1. Puesta(a, b, c, n) => <<a, b, c, n>> \in Puestas
    BY DEF Puesta, Puestas
  <2>2. Puesta(a, b, c, n)'
    BY DEF Puesta, Puestas
  <2>3. QED
    BY <2>1, <2>2
<1>1. ASSUME metadata' = metadata, EnVuelo(n)' \subseteq EnVuelo(n) PROVE Puesta(a, b, c, n)
  BY <1>0, <1>1 DEF Puesta
<1>2. ASSUME UNCHANGED <<metadata, aNodo, aFS>> PROVE Puesta(a, b, c, n)
  BY <1>1, <1>2 DEF EnVuelo
<1>3. ASSUME UNCHANGED vars PROVE Puesta(a, b, c, n)
  BY <1>2, <1>3 DEF vars, fsArchivos, red
<1>4. ASSUME NEW h \in Hilos, PasoHilo(h), ~EnviarCopia(h) PROVE Puesta(a, b, c, n)
  BY <1>2, <1>4, SinEnviar
<1>5. ASSUME NEW h \in Hilos, EnviarCopia(h), ~Puesta(a, b, c, n)
      PROVE  Toca(h, a, b, c, n)
  <2>1. metadata' = metadata
    BY <1>5 DEF EnviarCopia
  <2>2. PICK m \in Nodos, x \in Copia :
          /\ m = datanodes[IndiceDe(envio[h]) + 1]
          /\ x.nombre = envio[h].nombre /\ x.bloque = Len(envio[h].enviados) \div 2
          /\ x.copia = Len(envio[h].enviados) % 2
          /\ EnVuelo(n)' \subseteq {x} /\ (n # m => EnVuelo(n)' = {})
    BY <1>5, VuelaEnviada DEF IInv
  <2>3. PICK y \in EnVuelo(n)' : y.nombre = a /\ y.bloque = b /\ y.copia = c
    BY <1>0, <1>5, <2>1 DEF Puesta
  <2>4. y = x /\ n = m
    BY <2>2, <2>3
  <2>5. QED
    BY <2>2, <2>3, <2>4 DEF Toca
<1>6. ASSUME NEW m \in Nodos, PasoNodo(m) \/ Caer(m) PROVE Puesta(a, b, c, n)
  <2>1. CASE Guardar(m)
    <3>1. metadata' = metadata
      BY <2>1 DEF Guardar, fsArchivos
    <3>2. QED
      BY <1>1, <2>1, <3>1, VuelaGuardada DEF IInv
  <2>2. CASE GuardarFuera(m) \/ Caer(m)
    <3>1. metadata' = metadata
      BY <2>2 DEF GuardarFuera, Caer, fsArchivos
    <3>2. QED
      BY <1>1, <2>2, <3>1, VuelaPerdida DEF IInv
  <2>3. CASE Desconectar(m)
    BY <1>2, <2>3 DEF Desconectar, fsArchivos, red
  <2>4. CASE ResultadoFinal(m) \/ ResultadoParcial(m)
    <3> DEFINE x == Head(aFS[m]).copia
    <3>1. LeerResultado(m) /\ (metadata' = metadata \/ Registrar(m, x))
      BY <2>4, AlRegistrar
    <3>2. EnVuelo(m) = {x} /\ EnVuelo(n)' = {}
      BY <3>1, VuelaLeida DEF IInv
    <3>3. PICK z \in metadata' : z.nombre = a /\ z.bloque = b /\ z.copia = c /\ z.nodo = n
      BY <1>0, <3>2 DEF Puesta
    <3>4. z \in metadata \/ (z.nombre = x.nombre /\ z.bloque = x.bloque /\ z.copia = x.copia
                              /\ z.nodo = m)
      BY <3>1 DEF Registrar, EntradaDe, Poner
    <3> HIDE DEF x
    <3>5. QED
      BY <3>2, <3>3, <3>4 DEF Puesta
  <2>5. QED
    BY <1>6, <2>1, <2>2, <2>3, <2>4 DEF PasoNodo
<1>7. QED
  BY <1>0, <1>3, <1>4, <1>5, <1>6 DEF Next

(* What a step may do to a thread: nothing, begin a file, stop, distribute   *)
(* one block or send one copy.                                               *)
Queda(g) == envio'[g] = envio[g] /\ cola'[g] = cola[g]
Empieza(g) ==
  /\ cola[g] # <<>> /\ cola'[g] = Tail(cola[g])
  /\ envio'[g].nombre = Head(cola[g]).nombre /\ envio'[g].dir = Head(cola[g]).dir
  /\ envio'[g].nb \in Head(cola[g]).bloques
  /\ envio'[g].pc = "reparte" /\ envio'[g].ok = TRUE
  /\ envio'[g].idx = <<>> /\ envio'[g].enviados = <<>>
Para(g) == envio'[g].pc = "libre" /\ cola'[g] = cola[g]
Mismo(g) ==
  /\ envio[g].pc # "libre" /\ cola'[g] = cola[g]
  /\ envio'[g].nombre = envio[g].nombre /\ envio'[g].dir = envio[g].dir
  /\ envio'[g].nb = envio[g].nb
Reparte(g) ==
  /\ Mismo(g) /\ envio[g].pc = "reparte" /\ envio'[g].pc \in {"reparte", "envia"}
  /\ envio'[g].enviados = envio[g].enviados /\ envio'[g].ok = envio[g].ok
  /\ \E a, b \in 0..(Len(Orden) - 1) : a # b /\ envio'[g].idx = envio[g].idx \o <<a, b>>
Envia(g) ==
  LET n == datanodes[IndiceDe(envio[g]) + 1]
  IN /\ EnviarCopia(g) /\ Mismo(g) /\ envio'[g].idx = envio[g].idx
     /\ envio'[g].pc \in {"envia", "cierra"} /\ (envio'[g].pc = "cierra" => ~envio'[g].ok)
     /\ envio'[g].enviados = Append(envio[g].enviados, <<n, PrimerLibre(n)>>)
     /\ n \in viva => envio'[g].ok = envio[g].ok

LEMMA HaceRepartir ==
  ASSUME Base, Repartos, NEW h \in Hilos, Repartir(h)
  PROVE  Queda(h) \/ Para(h) \/ Reparte(h)
<1> DEFINE e == envio[h]
           D == Len(e.cant)
<1>1. e.pc = "reparte" /\ e \in EnCurso
  BY BaseAlmacena DEF Repartir
<1>2. \E a, b :
        \/ Morir
        \/ /\ IF SonPareja(a, b, D)
              THEN envio' = [envio EXCEPT
                           ![h].idx = @ \o <<a, b>>,
                           ![h].cant = Gastar(@, {a, b}),
                           ![h].pc = IF Len(e.idx) + 2 = 2 * e.nb THEN "envia" ELSE @]
              ELSE SinLugar(h)
           /\ UNCHANGED cola
  BY DEF Repartir
<1>3. CASE Morir
  BY <1>3 DEF Morir, hilo, Queda
<1>4. ASSUME NEW a, NEW b, SonPareja(a, b, D), UNCHANGED cola,
             envio' = [envio EXCEPT
                        ![h].idx = @ \o <<a, b>>,
                        ![h].cant = Gastar(@, {a, b}),
                        ![h].pc = IF Len(e.idx) + 2 = 2 * e.nb THEN "envia" ELSE @]
      PROVE  Reparte(h)
  <2> DEFINE f == envio'[h]
  <2>1. f = [e EXCEPT !.idx = @ \o <<a, b>>,
                      !.cant = Gastar(@, {a, b}),
                      !.pc = IF Len(e.idx) + 2 = 2 * e.nb THEN "envia" ELSE @]
    BY <1>4 DEF Base
  <2>2. D \in Nat /\ D <= Len(Orden)
    BY <1>1 DEF Repartos, EnCurso
  <2>3. a \in 0..(Len(Orden) - 1) /\ b \in 0..(Len(Orden) - 1) /\ a # b
    BY <1>4, <2>2, Largo DEF SonPareja
  <2>4. /\ f.idx = e.idx \o <<a, b>> /\ f.enviados = e.enviados /\ f.ok = e.ok
        /\ f.nombre = e.nombre /\ f.dir = e.dir /\ f.nb = e.nb /\ f.pc \in {"reparte", "envia"}
    BY <1>1, <2>1 DEF EnCurso
  <2>5. Mismo(h)
    BY <1>1, <1>4, <2>4 DEF Mismo
  <2>6. QED
    BY <1>1, <2>3, <2>4, <2>5 DEF Reparte
<1>5. ASSUME SinLugar(h), UNCHANGED cola PROVE Para(h)
  <2>1. envio'[h] = Libre(-1)
    BY <1>5 DEF SinLugar, Base
  <2>2. QED
    BY <1>5, <2>1 DEF Para, Libre
<1>6. QED
  BY <1>2, <1>3, <1>4, <1>5

(* One thread moves at most, and the others stay as they were. *)
LEMMA PasoUnHilo ==
  ASSUME Base, Repartos, NEW h \in Hilos, PasoHilo(h), NEW g \in Hilos
  PROVE  Queda(g) \/ Empieza(g) \/ Para(g) \/ Reparte(g) \/ Envia(g)
<1>1. ASSUME UNCHANGED <<envio, cola>> PROVE Queda(g)
  BY <1>1 DEF Queda
<1>4. ASSUME h # g PROVE Queda(g)
  <2>1. \A x : (envio' = [envio EXCEPT ![h] = x]) => envio'[g] = envio[g]
    BY <1>4 DEF Base
  <2>2. CASE Empezar(h)
    BY <1>4, <2>2 DEF Empezar, Queda, Base
  <2>3. CASE Repartir(h)
    BY <1>4, <2>3 DEF Repartir, SinLugar, Morir, hilo, Queda, Base
  <2>4. CASE CortarBasura(h) \/ EnviarMuere(h)
    BY <1>1, <2>4 DEF CortarBasura, EnviarMuere, Morir, hilo
  <2>5. CASE EnviarCopia(h)
    <3>1. PICK x : envio' = [envio EXCEPT ![h] = x]
      BY <2>5, BaseEnviada
    <3>2. QED
      BY <2>1, <2>5, <3>1 DEF EnviarCopia, Queda
  <2>6. CASE Cerrar(h)
    BY <1>4, <2>6 DEF Cerrar, Morir, hilo, Queda, Base
  <2>7. QED
    BY <2>2, <2>3, <2>4, <2>5, <2>6 DEF PasoHilo
<1>5. CASE Empezar(g)
  <2>1. PICK nb \in Head(cola[g]).bloques :
          envio' = [envio EXCEPT ![g] =
                      [pc |-> "reparte", nombre |-> Head(cola[g]).nombre,
                       dir |-> Head(cola[g]).dir, nb |-> nb, idx |-> <<>>, cant |-> Cuanto,
                       enviados |-> <<>>, ok |-> TRUE]]
    BY <1>5 DEF Empezar
  <2>2. cola[g] # <<>> /\ cola' = [cola EXCEPT ![g] = Tail(@)]
    BY <1>5 DEF Empezar
  <2>3. Empieza(g)
    BY <2>1, <2>2 DEF Empieza, Base
  <2>4. QED
    BY <2>3
<1>6. CASE EnviarCopia(g)
  <2>1. PICK f \in EnCurso :
          LET e == envio[g]
              n == datanodes[IndiceDe(e) + 1]
          IN /\ envio' = [envio EXCEPT ![g] = f]
             /\ f.cant = e.cant /\ f.idx = e.idx /\ f.nb = e.nb
             /\ f.enviados = Append(e.enviados, <<n, PrimerLibre(n)>>)
             /\ f.nombre = e.nombre /\ f.dir = e.dir
             /\ f.pc \in {"envia", "cierra"} /\ (f.pc = "cierra" => ~f.ok)
             /\ n \in viva => f.ok = e.ok
    BY <1>6, BaseEnviada
  <2>2. envio'[g] = f
    BY <2>1 DEF Base
  <2>3. envio[g].pc = "envia" /\ cola' = cola
    BY <1>6 DEF EnviarCopia
  <2>4. Mismo(g)
    BY <2>1, <2>2, <2>3 DEF Mismo
  <2>5. Envia(g)
    BY <1>6, <2>1, <2>2, <2>4 DEF Envia
  <2>6. QED
    BY <2>5
<1>7. CASE Cerrar(g)
  BY <1>7 DEF Cerrar, Morir, hilo, Queda, Para, Libre, Base
<1>8. CASE CortarBasura(g) \/ EnviarMuere(g)
  BY <1>1, <1>8 DEF CortarBasura, EnviarMuere, Morir, hilo
<1>9. QED
  BY <1>4, <1>5, <1>6, <1>7, <1>8, HaceRepartir DEF PasoHilo

LEMMA UnHilo ==
  ASSUME TypeOK, Repartos, [Next]_vars, NEW g \in Hilos
  PROVE  Queda(g) \/ Empieza(g) \/ Para(g) \/ Reparte(g) \/ Envia(g)
<1>1. ASSUME UNCHANGED <<envio, cola>> PROVE Queda(g)
  BY <1>1 DEF Queda
<1>2. CASE UNCHANGED vars
  BY <1>1, <1>2 DEF vars, hilo
<1>3. ASSUME NEW n \in Nodos, PasoNodo(n) \/ Caer(n) PROVE Queda(g)
  BY <1>1, <1>3 DEF PasoNodo, Caer, Guardar, GuardarFuera, ResultadoFinal, ResultadoParcial,
                    LeerResultado, Desconectar, hilo
<1>4. QED
  BY <1>2, <1>3, PasoUnHilo, EnTipos DEF Next

(* Every node is once in the list of all of them. *)
LEMMA OrdenSinRepetir ==
  ASSUME NEW i \in DOMAIN Orden, NEW j \in DOMAIN Orden, Orden[i] = Orden[j]
  PROVE  i = j
<1> DEFINE m == Len(Orden)
           D == 1..m
<1>1. Orden \in Surjection(D, Nodos) /\ DOMAIN Orden = D /\ m \in Nat /\ m = Cardinality(Nodos)
  BY Instancia DEF Surjection
<1> HIDE DEF m
<1>2. IsFiniteSet(D) /\ Cardinality(D) = m
  <2>1. IsFiniteSet(1..m) /\ Cardinality(1..m) = IF 1 > m THEN 0 ELSE m - 1 + 1
    <3>1. m \in Int /\ 1 \in Int
      BY <1>1
    <3>2. QED
      BY <3>1, FS_Interval
  <2>2. QED
    BY <1>1, <2>1
<1>3. Orden \in Injection(D, Nodos)
  BY <1>1, <1>2, FS_SurjSameCardinalityImpliesInj
<1>4. QED
  BY <1>1, <1>3 DEF Injection, IsInjective

(* The rest of a list. *)
LEMMA ColaDe ==
  ASSUME NEW S, NEW q \in Seq(S), q # <<>>
  PROVE  /\ Tail(q) \in Seq(S) /\ Len(Tail(q)) = Len(q) - 1 /\ Head(q) = q[1]
         /\ 1 \in DOMAIN q /\ Len(q) \in Nat \ {0}
         /\ \A i \in DOMAIN Tail(q) : i + 1 \in DOMAIN q /\ Tail(q)[i] = q[i + 1]
  OBVIOUS

(* The files begun, in numbers. *)
LEMMA BaseCuentas ==
  ASSUME Base, NEW h \in Hilos
  PROVE  /\ Len(Pedidos[h]) \in Nat /\ Len(cola[h]) \in Nat /\ cola[h] \in Seq(Pedido)
         /\ Pedidos[h] \in Seq(Pedido) /\ DOMAIN Pedidos[h] = 1..Len(Pedidos[h])
         /\ DOMAIN cola[h] = 1..Len(cola[h])
BY Instancia DEF Base

LEMMA Cuentas ==
  ASSUME TypeOK, NEW h \in Hilos
  PROVE  /\ Len(Pedidos[h]) \in Nat /\ Len(cola[h]) \in Nat /\ cola[h] \in Seq(Pedido)
         /\ Pedidos[h] \in Seq(Pedido) /\ DOMAIN Pedidos[h] = 1..Len(Pedidos[h])
         /\ DOMAIN cola[h] = 1..Len(cola[h])
BY BaseCuentas, EnTipos

LEMMA ColaSigue ==
  ASSUME Base, Colas, NEW g \in Hilos,
         Queda(g) \/ Empieza(g) \/ Para(g) \/ Reparte(g) \/ Envia(g)
  PROVE  /\ Empezados(g)' \in 0..Len(Pedidos[g])
         /\ \A i \in DOMAIN cola'[g] : cola'[g][i] = Pedidos[g][Empezados(g)' + i]
         /\ envio'[g].pc # "libre" =>
              /\ Empezados(g)' # 0
              /\ envio'[g].nombre = Pedidos[g][Empezados(g)'].nombre
              /\ envio'[g].dir = Pedidos[g][Empezados(g)'].dir
              /\ envio'[g].nb \in Pedidos[g][Empezados(g)'].bloques
<1>1. /\ Empezados(g) \in 0..Len(Pedidos[g])
      /\ \A i \in DOMAIN cola[g] : cola[g][i] = Pedidos[g][Empezados(g) + i]
      /\ envio[g].pc # "libre" =>
           /\ Empezados(g) # 0
           /\ envio[g].nombre = Pedidos[g][Empezados(g)].nombre
           /\ envio[g].dir = Pedidos[g][Empezados(g)].dir
           /\ envio[g].nb \in Pedidos[g][Empezados(g)].bloques
  BY DEF Colas
<1>2. CASE Queda(g) \/ Para(g) \/ Reparte(g) \/ Envia(g)
  <2>1. cola'[g] = cola[g]
    BY <1>2 DEF Queda, Para, Reparte, Envia, Mismo
  <2>2. Empezados(g)' = Empezados(g)
    BY <2>1 DEF Empezados
  <2>3. envio'[g].pc # "libre" =>
          /\ envio[g].pc # "libre"
          /\ envio'[g].nombre = envio[g].nombre /\ envio'[g].dir = envio[g].dir
          /\ envio'[g].nb = envio[g].nb
    BY <1>2 DEF Queda, Para, Reparte, Envia, Mismo
  <2>4. QED
    BY <1>1, <2>1, <2>2, <2>3
<1>3. CASE Empieza(g)
  <2>1. /\ cola'[g] = Tail(cola[g]) /\ Head(cola[g]) = cola[g][1] /\ 1 \in DOMAIN cola[g]
        /\ Len(cola'[g]) = Len(cola[g]) - 1 /\ Len(cola[g]) \in Nat \ {0}
        /\ \A i \in DOMAIN cola'[g] : i + 1 \in DOMAIN cola[g] /\ cola'[g][i] = cola[g][i + 1]
        /\ DOMAIN cola'[g] \subseteq Nat
    <3>1. cola[g] \in Seq(Pedido) /\ cola[g] # <<>> /\ cola'[g] = Tail(cola[g])
      BY <1>3, BaseCuentas DEF Empieza
    <3>2. QED
      BY <3>1, ColaDe
  <2>2. Empezados(g)' = Empezados(g) + 1 /\ Empezados(g) + 1 \in 1..Len(Pedidos[g])
    <3> DEFINE p == Len(Pedidos[g])
               q == Len(cola[g])
               r == Len(cola'[g])
    <3>1. Empezados(g) = p - q /\ Empezados(g)' = p - r
      BY DEF Empezados
    <3>2. p \in Nat /\ q \in Nat \ {0} /\ r = q - 1 /\ p - q \in 0..p
      BY <1>1, <2>1, <3>1, BaseCuentas
    <3> HIDE DEF p, q, r
    <3>3. p - r = (p - q) + 1 /\ (p - q) + 1 \in 1..p
      BY <3>2
    <3>4. QED
      BY <3>1, <3>3 DEF p
  <2>3. \A i \in DOMAIN cola'[g] : cola'[g][i] = Pedidos[g][(Empezados(g) + 1) + i]
    <3> SUFFICES ASSUME NEW i \in DOMAIN cola'[g]
                 PROVE  cola'[g][i] = Pedidos[g][(Empezados(g) + 1) + i]
      OBVIOUS
    <3>1. cola'[g][i] = Pedidos[g][Empezados(g) + (i + 1)]
      BY <1>1, <2>1
    <3>2. i \in Nat /\ Empezados(g) \in Nat
      BY <1>1, <2>1, BaseCuentas
    <3>3. Empezados(g) + (i + 1) = (Empezados(g) + 1) + i
      BY <3>2
    <3>4. QED
      BY <3>1, <3>3
  <2>4. Head(cola[g]) = Pedidos[g][Empezados(g) + 1]
    BY <1>1, <2>1
  <2>5. /\ envio'[g].nombre = Head(cola[g]).nombre /\ envio'[g].dir = Head(cola[g]).dir
        /\ envio'[g].nb \in Head(cola[g]).bloques
    BY <1>3 DEF Empieza
  <2>6. Empezados(g)' \in 0..Len(Pedidos[g]) /\ Empezados(g)' # 0
    BY <2>2, BaseCuentas
  <2>7. QED
    BY <2>2, <2>3, <2>4, <2>5, <2>6
<1>4. QED
  BY <1>2, <1>3

LEMMA ColasSiguen ==
  ASSUME TypeOK, Repartos, [Next]_vars, Colas PROVE Colas'
<1> SUFFICES ASSUME NEW g \in Hilos
  PROVE  /\ Empezados(g)' \in 0..Len(Pedidos[g])
         /\ \A i \in DOMAIN cola'[g] : cola'[g][i] = Pedidos[g][Empezados(g)' + i]
         /\ envio'[g].pc # "libre" =>
              /\ Empezados(g)' # 0
              /\ envio'[g].nombre = Pedidos[g][Empezados(g)'].nombre
              /\ envio'[g].dir = Pedidos[g][Empezados(g)'].dir
              /\ envio'[g].nb \in Pedidos[g][Empezados(g)'].bloques
  BY DEF Colas
<1>1. QED
  BY UnHilo, ColaSigue, EnTipos

LEMMA PresentesSiguen ==
  ASSUME TypeOK, [Next]_vars, Presentes PROVE Presentes'
<1> SUFFICES ASSUME viva' = Nodos PROVE datanodes' = Orden
  BY DEF Presentes
<1>1. viva = Nodos /\ datanodes = Orden
  BY SoloMenos DEF TypeOK, Presentes
<1>2. ASSUME NEW n \in Nodos PROVE ~Desconectar(n)
  BY <1>1 DEF Desconectar
<1>3. CASE UNCHANGED vars
  BY <1>1, <1>3 DEF vars
<1>4. ASSUME NEW h \in Hilos, PasoHilo(h) PROVE datanodes' = datanodes
  <2>1. CASE Repartir(h)
    BY <2>1 DEF Repartir, Morir
  <2>2. CASE ~Repartir(h)
    BY <1>4, <2>2 DEF PasoHilo, Empezar, CortarBasura, EnviarCopia, EnviarMuere, Cerrar, Morir
  <2>3. QED
    BY <2>1, <2>2
<1>5. ASSUME NEW n \in Nodos, PasoNodo(n) \/ Caer(n) PROVE datanodes' = datanodes
  BY <1>2, <1>5 DEF PasoNodo, Caer, Guardar, GuardarFuera, ResultadoFinal, ResultadoParcial,
                    LeerResultado
<1>6. QED
  BY <1>1, <1>3, <1>4, <1>5 DEF Next

(* Two more indexes, for the next block. *)
LEMMA UnaPareja ==
  ASSUME NEW S, NEW q \in Seq(S), NEW a \in S, NEW b \in S, a # b, EnPares(q)
  PROVE  /\ EnPares(q \o <<a, b>>)
         /\ \A i \in DOMAIN q : i \in DOMAIN (q \o <<a, b>>) /\ (q \o <<a, b>>)[i] = q[i]
<1> DEFINE r == q \o <<a, b>>
           L == Len(q)
<1>1. L \in Nat /\ DOMAIN q = 1..L /\ DOMAIN r = 1..(L + 2)
      /\ (\A i \in 1..L : r[i] = q[i]) /\ r[L + 1] = a /\ r[L + 2] = b
  OBVIOUS
<1> HIDE DEF r, L
<1>2. \A i \in 1..L : i % 2 = 1 => i + 1 \in 1..L /\ q[i] # q[i + 1]
  BY <1>1 DEF EnPares
<1>3. L % 2 = 0
  <2>1. L % 2 = 1 => L \in 1..L /\ L + 1 \notin 1..L
    BY <1>1
  <2>2. L % 2 \in {0, 1}
    BY <1>1
  <2>3. QED
    BY <1>1, <1>2, <2>1, <2>2
<1>4. ASSUME NEW i \in 1..(L + 2), i % 2 = 1 PROVE i + 1 \in 1..(L + 2) /\ r[i] # r[i + 1]
  <2>1. i \in 1..L \/ i = L + 1
    <3>1. (L + 2) % 2 = 0
      BY <1>1, <1>3
    <3>2. i # L + 2
      BY <1>4, <3>1
    <3>3. QED
      BY <1>1, <3>2
  <2>2. CASE i \in 1..L
    <3>1. i + 1 \in 1..L /\ q[i] # q[i + 1]
      BY <1>1, <1>2, <1>4, <2>2
    <3>2. r[i] = q[i] /\ r[i + 1] = q[i + 1] /\ i + 1 \in 1..(L + 2)
      BY <1>1, <2>2, <3>1
    <3>3. QED
      BY <3>1, <3>2
  <2>3. CASE i = L + 1
    BY <1>1, <2>3
  <2>4. QED
    BY <2>1, <2>2, <2>3
<1>5. QED
  <2>1. EnPares(r)
    BY <1>1, <1>4 DEF EnPares
  <2>2. \A i \in DOMAIN q : i \in DOMAIN r /\ r[i] = q[i]
    BY <1>1
  <2>3. QED
    BY <2>1, <2>2 DEF r

LEMMA ParejasSiguen ==
  ASSUME TypeOK, Repartos, [Next]_vars, Parejas PROVE Parejas'
<1> SUFFICES ASSUME NEW g \in Hilos, envio'[g].pc # "libre" PROVE EnPares(envio'[g].idx)
  BY DEF Parejas
<1>1. CASE Queda(g) \/ Envia(g)
  <2>1. envio[g].pc # "libre" /\ envio'[g].idx = envio[g].idx
    BY <1>1 DEF Queda, Envia, Mismo
  <2>2. QED
    BY <2>1 DEF Parejas
<1>2. CASE Empieza(g)
  BY <1>2 DEF Empieza, EnPares
<1>3. CASE Reparte(g)
  <2>1. PICK a, b \in 0..(Len(Orden) - 1) : a # b /\ envio'[g].idx = envio[g].idx \o <<a, b>>
    BY <1>3 DEF Reparte
  <2>2. envio[g].pc # "libre" /\ envio[g].idx \in Seq(0..(Len(Orden) - 1))
    BY <1>3, Almacena DEF Reparte, Mismo, EnCurso
  <2>3. EnPares(envio[g].idx)
    BY <2>2 DEF Parejas
  <2> DEFINE q == envio[g].idx
             S == 0..(Len(Orden) - 1)
  <2>4. q \in Seq(S) /\ a \in S /\ b \in S /\ EnPares(q)
    BY <2>2, <2>3
  <2> HIDE DEF q, S
  <2>5. EnPares(q \o <<a, b>>)
    BY <2>1, <2>4, UnaPareja
  <2>6. QED
    BY <2>1, <2>5 DEF q
<1>4. QED
  BY <1>1, <1>2, <1>3, UnHilo DEF Para

(* The names of what is left and of what is being stored are different. *)
LEMMA NombrePropio ==
  ASSUME NombresDistintos, TypeOK, Colas, NEW h \in Hilos, NEW g \in Hilos, envio[h].pc # "libre"
  PROVE  /\ envio[g].pc # "libre" /\ envio[g].nombre = envio[h].nombre => g = h
         /\ \A i \in DOMAIN cola[g] : cola[g][i].nombre # envio[h].nombre
<1> DEFINE p == Empezados(h)
           r == Empezados(g)
<1>1. p \in DOMAIN Pedidos[h] /\ envio[h].nombre = Pedidos[h][p].nombre
  BY Cuentas DEF Colas
<1>2. ASSUME envio[g].pc # "libre", envio[g].nombre = envio[h].nombre PROVE g = h
  <2>1. r \in DOMAIN Pedidos[g] /\ envio[g].nombre = Pedidos[g][r].nombre
    BY <1>2, Cuentas DEF Colas
  <2> HIDE DEF p, r
  <2>2. QED
    <3>1. Pedidos[h][p].nombre = Pedidos[g][r].nombre
      BY <1>1, <1>2, <2>1
    <3>2. QED
      BY <1>1, <2>1, <3>1 DEF NombresDistintos
<1>3. ASSUME NEW i \in DOMAIN cola[g] PROVE cola[g][i].nombre # envio[h].nombre
  <2>1. /\ r + i \in DOMAIN Pedidos[g] /\ cola[g][i] = Pedidos[g][r + i]
        /\ r + i # r /\ r \in 0..Len(Pedidos[g])
    <3>1. cola[g][i] = Pedidos[g][r + i] /\ r \in 0..Len(Pedidos[g])
      BY DEF Colas
    <3> DEFINE a == Len(Pedidos[g])
               b == Len(cola[g])
    <3>2. a \in Nat /\ b \in Nat /\ i \in 1..b /\ r = a - b /\ DOMAIN Pedidos[g] = 1..a
          /\ r \in 0..a
      BY <3>1, Cuentas DEF Empezados
    <3> HIDE DEF a, b, r
    <3>3. r + i \in 1..a /\ r + i # r
      BY <3>2
    <3>4. QED
      BY <3>1, <3>2, <3>3 DEF a
  <2> DEFINE t == r + i
  <2>2. g = h => t # p
    BY <2>1
  <2>3. t \in DOMAIN Pedidos[g] /\ cola[g][i].nombre = Pedidos[g][t].nombre
    BY <2>1
  <2> HIDE DEF p, r, t
  <2>4. QED
    BY <1>1, <2>2, <2>3 DEF NombresDistintos
<1>4. QED
  BY <1>2, <1>3

LEMMA NuevosSiguen ==
  ASSUME NombresDistintos, IInv, [Next]_vars, IInv', Colas, Nuevos PROVE Nuevos'
<1> SUFFICES ASSUME NEW g \in Hilos, NEW i \in DOMAIN cola'[g],
                    NEW b \in 0..MaxBloques, NEW c \in {0, 1}, NEW n \in Nodos
             PROVE  <<cola'[g][i].nombre, b, c, n>> \notin Puestas'
  BY DEF Nuevos
<1>1. PICK j \in DOMAIN cola[g] : cola'[g][i] = cola[g][j]
  <2>1. CASE Empieza(g)
    <3>1. cola[g] \in Seq(Pedido) /\ cola[g] # <<>> /\ cola'[g] = Tail(cola[g])
      BY <2>1, Cuentas DEF Empieza, IInv
    <3>2. QED
      BY <3>1, ColaDe
  <2>2. CASE ~Empieza(g)
    <3>1. cola'[g] = cola[g]
      BY <2>2, UnHilo DEF IInv, Queda, Para, Reparte, Envia, Mismo
    <3>2. QED
      BY <3>1
  <2>3. QED
    BY <2>1, <2>2
<1>2. PICK a : a = cola[g][j].nombre /\ a = cola'[g][i].nombre
  BY <1>1
<1>3. <<a, b, c, n>> \notin Puestas
  BY <1>2 DEF Nuevos
<1>4. ASSUME NEW h \in Hilos, EnviarCopia(h) PROVE a # envio[h].nombre
  <2>1. envio[h].pc # "libre"
    BY <1>4 DEF EnviarCopia
  <2>2. QED
    <3>1. cola[g][j].nombre # envio[h].nombre
      BY <2>1, NombrePropio DEF IInv
    <3>2. QED
      BY <1>2, <3>1
<1>5. <<a, b, c, n>> \notin Puestas'
  <2> SUFFICES ASSUME <<a, b, c, n>> \in Puestas' PROVE FALSE
    OBVIOUS
  <2>1. PICK h \in Hilos : EnviarCopia(h) /\ Toca(h, a, b, c, n)
    BY <1>3, YaPuesta
  <2>2. QED
    BY <1>4, <2>1 DEF Toca
<1>6. QED
  BY <1>2, <1>5

LEMMA DondeDijoSigue ==
  ASSUME NombresDistintos, IInv, [Next]_vars, IInv', Colas, Presentes, Nuevos, DondeDijo
  PROVE  DondeDijo'
<1> SUFFICES ASSUME viva' = Nodos, NEW g \in Hilos, envio'[g].pc # "libre",
                    NEW b \in 0..MaxBloques, NEW c \in {0, 1}, NEW n \in Nodos,
                    <<envio'[g].nombre, b, c, n>> \in Puestas'
             PROVE  /\ 2 * b + c < Len(envio'[g].enviados)
                    /\ 2 * b + c + 1 \in DOMAIN envio'[g].idx
                    /\ n = Orden[envio'[g].idx[2 * b + c + 1] + 1]
  BY DEF DondeDijo
<1>1. PICK a : a = envio'[g].nombre
  OBVIOUS
<1>2. <<a, b, c, n>> \in Puestas'
  BY <1>1
<1>3. viva = Nodos /\ datanodes = Orden
  BY SoloMenos DEF IInv, TypeOK, Presentes
<1>4. ~Empieza(g)
  <2> SUFFICES ASSUME Empieza(g) PROVE FALSE
    OBVIOUS
  <2>1. cola[g] \in Seq(Pedido) /\ cola[g] # <<>> /\ a = Head(cola[g]).nombre
    BY <1>1, Cuentas DEF Empieza, IInv
  <2>2. 1 \in DOMAIN cola[g] /\ a = cola[g][1].nombre
    BY <2>1, ColaDe
  <2>3. <<a, b, c, n>> \notin Puestas
    BY <2>2 DEF Nuevos
  <2>4. PICK h \in Hilos : EnviarCopia(h) /\ a = envio[h].nombre
    BY <1>2, <2>3, YaPuesta DEF Toca
  <2>5. envio[h].pc # "libre"
    BY <2>4 DEF EnviarCopia
  <2>6. QED
    BY <2>2, <2>4, <2>5, NombrePropio DEF IInv
<1>5. ~Para(g)
  BY DEF Para
<1>6. envio[g].pc # "libre" /\ envio[g].nombre = a
  BY <1>1, <1>4, <1>5, UnHilo DEF IInv, Queda, Reparte, Envia, Mismo
<1>7. envio[g] \in EnCurso
  BY <1>6, Almacena DEF IInv
<1>8. /\ \A i \in DOMAIN envio[g].idx : i \in DOMAIN envio'[g].idx /\ envio'[g].idx[i] = envio[g].idx[i]
      /\ Len(envio'[g].enviados) \in Nat /\ Len(envio[g].enviados) \in Nat
      /\ Len(envio[g].enviados) <= Len(envio'[g].enviados)
  <2>1. envio[g].idx \in Seq(0..(Len(Orden) - 1)) /\ envio[g].enviados \in Seq(Nodos \X Numeros)
        /\ Len(envio[g].enviados) \in Nat
    BY <1>7 DEF EnCurso
  <2>2. CASE Queda(g)
    BY <2>1, <2>2 DEF Queda
  <2>3. CASE Reparte(g)
    <3> DEFINE q == envio[g].idx
               S == 0..(Len(Orden) - 1)
    <3>1. PICK x, y \in S : x # y /\ envio'[g].idx = q \o <<x, y>>
      BY <2>3 DEF Reparte
    <3>2. envio'[g].enviados = envio[g].enviados
      BY <2>3 DEF Reparte
    <3>3. q \in Seq(S) /\ x \in S /\ y \in S
      BY <2>1
    <3> HIDE DEF q, S
    <3>4. \A i \in DOMAIN q : i \in DOMAIN (q \o <<x, y>>) /\ (q \o <<x, y>>)[i] = q[i]
      BY <3>3
    <3>5. \A i \in DOMAIN q : i \in DOMAIN envio'[g].idx /\ envio'[g].idx[i] = q[i]
      BY <3>1, <3>4
    <3>6. QED
      BY <2>1, <3>2, <3>5 DEF q
  <2>4. CASE Envia(g)
    <3> DEFINE d == datanodes[IndiceDe(envio[g]) + 1]
               x == <<d, PrimerLibre(d)>>
               q == envio[g].enviados
    <3>1. envio'[g].enviados = Append(q, x) /\ envio'[g].idx = envio[g].idx
      BY <2>4 DEF Envia
    <3>2. d \in Nodos /\ PrimerLibre(d) \in Numeros
      BY <2>4, AlEnviar DEF IInv, Envia
    <3>3. q \in Seq(Nodos \X Numeros) /\ x \in Nodos \X Numeros
      BY <2>1, <3>2
    <3> HIDE DEF q, x, d
    <3>4. Len(Append(q, x)) = Len(q) + 1 /\ Len(q) \in Nat
      BY <3>3
    <3>5. QED
      BY <2>1, <3>1, <3>4 DEF q
  <2>5. QED
    BY <1>4, <1>5, <2>2, <2>3, <2>4, UnHilo DEF IInv
<1>9. CASE <<a, b, c, n>> \in Puestas
  <2>1. /\ 2 * b + c < Len(envio[g].enviados) /\ 2 * b + c + 1 \in DOMAIN envio[g].idx
        /\ n = Orden[envio[g].idx[2 * b + c + 1] + 1]
    BY <1>3, <1>6, <1>9 DEF DondeDijo
  <2>2. 2 * b + c \in Nat
    BY Largo
  <2> DEFINE k == 2 * b + c
  <2>3. k < Len(envio[g].enviados) /\ k + 1 \in DOMAIN envio[g].idx
        /\ n = Orden[envio[g].idx[k + 1] + 1] /\ k \in Nat
    BY <2>1, <2>2
  <2> HIDE DEF k
  <2>4. k < Len(envio'[g].enviados) /\ k + 1 \in DOMAIN envio'[g].idx
        /\ n = Orden[envio'[g].idx[k + 1] + 1]
    BY <1>8, <2>3
  <2>5. QED
    BY <2>4 DEF k
<1>10. CASE <<a, b, c, n>> \notin Puestas
  <2>1. PICK h \in Hilos : EnviarCopia(h) /\ Toca(h, a, b, c, n)
    BY <1>2, <1>10, YaPuesta
  <2>2. envio[h].pc # "libre" /\ a = envio[h].nombre
    BY <2>1 DEF EnviarCopia, Toca
  <2>3. h = g
    BY <1>6, <2>2, NombrePropio DEF IInv
  <2> DEFINE k == Len(envio[g].enviados)
  <2>4. EnviarCopia(g) /\ b = k \div 2 /\ c = k % 2 /\ k \in Nat
        /\ n = datanodes[IndiceDe(envio[g]) + 1]
    BY <1>8, <2>1, <2>3 DEF Toca
  <2>5. k + 1 \in DOMAIN envio[g].idx /\ n = Orden[envio[g].idx[k + 1] + 1]
    <3>1. k < 2 * envio[g].nb /\ Len(envio[g].idx) = 2 * envio[g].nb
          /\ IndiceDe(envio[g]) = envio[g].idx[k + 1]
      BY <2>4, AlEnviar DEF IInv
    <3>2. DOMAIN envio[g].idx = 1..Len(envio[g].idx) /\ Len(envio[g].idx) \in Nat
      BY <1>7 DEF EnCurso
    <3> DEFINE L == Len(envio[g].idx)
    <3>3. k < L /\ DOMAIN envio[g].idx = 1..L /\ L \in Nat
      BY <3>1, <3>2
    <3> HIDE DEF L, k
    <3>4. k + 1 \in DOMAIN envio[g].idx
      BY <2>4, <3>3
    <3>5. QED
      BY <1>3, <2>4, <3>1, <3>4
  <2>6. Len(envio'[g].enviados) = k + 1
    <3>1. PICK x \in Nodos \X Numeros : envio'[g].enviados = Append(envio[g].enviados, x)
      <4> DEFINE d == datanodes[IndiceDe(envio[g]) + 1]
      <4>1. d \in Nodos /\ PrimerLibre(d) \in Numeros
        BY <2>4, AlEnviar DEF IInv
      <4>2. envio'[g].enviados = Append(envio[g].enviados, <<d, PrimerLibre(d)>>)
        <5>1. PICK f \in EnCurso : envio' = [envio EXCEPT ![g] = f]
                 /\ f.enviados = Append(envio[g].enviados, <<d, PrimerLibre(d)>>)
          BY <2>4, Enviada DEF IInv
        <5>2. QED
          BY <5>1 DEF IInv, TypeOK
      <4> HIDE DEF d
      <4>3. <<d, PrimerLibre(d)>> \in Nodos \X Numeros
        BY <4>1
      <4>4. QED
        BY <4>2, <4>3
    <3>2. envio[g].enviados \in Seq(Nodos \X Numeros)
      BY <1>7 DEF EnCurso
    <3>3. QED
      BY <3>1, <3>2, Agregada
  <2> HIDE DEF k
  <2>7. 2 * b + c = k
    BY <2>4
  <2>8. QED
    BY <1>8, <2>4, <2>5, <2>6, <2>7
<1>11. QED
  BY <1>9, <1>10

(* The next copy that a thread sends: its number, and the node it goes to. *)
LEMMA AlMandar ==
  ASSUME IInv, NEW h \in Hilos, EnviarCopia(h),
         NEW a, NEW b \in Nat, NEW c \in {0, 1}, NEW n, Toca(h, a, b, c, n)
  PROVE  /\ envio[h].pc # "libre" /\ envio[h].nombre = a
         /\ Len(envio[h].enviados) = 2 * b + c
         /\ n = datanodes[envio[h].idx[2 * b + c + 1] + 1]
         /\ envio[h].idx \in Seq(0..(Len(Orden) - 1)) /\ 2 * b + c + 1 \in DOMAIN envio[h].idx
<1>1. envio[h].pc # "libre" /\ envio[h].nombre = a
  BY DEF EnviarCopia, Toca
<1>2. envio[h] \in EnCurso
  BY <1>1, Almacena DEF IInv
<1>3. /\ envio[h].idx \in Seq(0..(Len(Orden) - 1)) /\ Len(envio[h].enviados) \in Nat
      /\ Len(envio[h].idx) \in Nat /\ DOMAIN envio[h].idx = 1..Len(envio[h].idx)
  BY <1>2 DEF EnCurso
<1> DEFINE k == Len(envio[h].enviados)
           L == Len(envio[h].idx)
<1>4. k \in Nat /\ L \in Nat /\ DOMAIN envio[h].idx = 1..L /\ b = k \div 2 /\ c = k % 2
      /\ n = datanodes[IndiceDe(envio[h]) + 1]
  BY <1>3 DEF Toca
<1>5. k < L /\ IndiceDe(envio[h]) = envio[h].idx[k + 1]
  BY AlEnviar DEF IInv
<1> HIDE DEF k, L
<1>6. k = 2 * b + c /\ k + 1 \in 1..L
  BY <1>4, <1>5
<1>7. QED
  BY <1>1, <1>3, <1>4, <1>5, <1>6 DEF k

LEMMA SeparadasSigue ==
  ASSUME NombresDistintos, IInv, [Next]_vars, IInv',
         Colas, Presentes, Parejas, DondeDijo, Separadas
  PROVE  Separadas'
<1> SUFFICES ASSUME viva' = Nodos, NEW a \in Nombres, NEW b \in 0..MaxBloques, NEW n \in Nodos,
                    <<a, b, 0, n>> \in Puestas', <<a, b, 1, n>> \in Puestas'
             PROVE  FALSE
  BY DEF Separadas
<1>1. viva = Nodos /\ datanodes = Orden
  BY SoloMenos DEF IInv, TypeOK, Presentes
<1>2. b \in Nat
  BY Largo
<1>3. ~(<<a, b, 0, n>> \in Puestas /\ <<a, b, 1, n>> \in Puestas)
  BY <1>1 DEF Separadas
<1>4. ASSUME NEW h \in Hilos, envio[h].pc # "libre", envio[h].nombre = a,
             NEW c \in {0, 1}, <<a, b, c, n>> \in Puestas
      PROVE  /\ 2 * b + c < Len(envio[h].enviados) /\ 2 * b + c + 1 \in DOMAIN envio[h].idx
             /\ n = Orden[envio[h].idx[2 * b + c + 1] + 1]
  BY <1>1, <1>4 DEF DondeDijo
<1>5. CASE <<a, b, 0, n>> \in Puestas
  <2>1. PICK h \in Hilos : EnviarCopia(h) /\ Toca(h, a, b, 1, n)
    BY <1>3, <1>5, YaPuesta
  <2>2. /\ envio[h].pc # "libre" /\ envio[h].nombre = a
        /\ n = datanodes[envio[h].idx[2 * b + 1 + 1] + 1]
        /\ envio[h].idx \in Seq(0..(Len(Orden) - 1)) /\ 2 * b + 1 + 1 \in DOMAIN envio[h].idx
    BY <1>2, <2>1, AlMandar
  <2>3. 2 * b + 0 + 1 \in DOMAIN envio[h].idx /\ n = Orden[envio[h].idx[2 * b + 0 + 1] + 1]
    BY <1>4, <1>5, <2>2
  <2>4. EnPares(envio[h].idx)
    BY <2>2 DEF Parejas
  <2> DEFINE q == envio[h].idx
             i == 2 * b + 1
  <2>5. /\ q \in Seq(0..(Len(Orden) - 1)) /\ EnPares(q) /\ i \in DOMAIN q /\ i + 1 \in DOMAIN q
        /\ i % 2 = 1 /\ n = Orden[q[i] + 1] /\ n = Orden[q[i + 1] + 1]
    BY <1>1, <1>2, <2>2, <2>3, <2>4
  <2> HIDE DEF q, i
  <2>6. q[i] # q[i + 1] /\ q[i] \in 0..(Len(Orden) - 1) /\ q[i + 1] \in 0..(Len(Orden) - 1)
    BY <2>5 DEF EnPares
  <2>7. q[i] + 1 \in DOMAIN Orden /\ q[i + 1] + 1 \in DOMAIN Orden
    <3>1. PICK k, l, m : k = Len(Orden) /\ k \in Nat /\ l = q[i] /\ m = q[i + 1]
      BY Instancia
    <3>2. DOMAIN Orden = 1..k
      BY <3>1, Instancia
    <3>3. k \in Nat /\ l \in 0..(k - 1) /\ m \in 0..(k - 1)
      BY <2>6, <3>1
    <3>4. l + 1 \in 1..k /\ m + 1 \in 1..k
      BY <3>3
    <3>5. QED
      BY <3>1, <3>2, <3>4
  <2>8. q[i] + 1 = q[i + 1] + 1
    BY <2>5, <2>7, OrdenSinRepetir
  <2>9. QED
    BY <2>6, <2>8
<1>6. CASE <<a, b, 0, n>> \notin Puestas
  <2>1. PICK h \in Hilos : EnviarCopia(h) /\ Toca(h, a, b, 0, n)
    BY <1>6, YaPuesta
  <2>2. envio[h].pc # "libre" /\ envio[h].nombre = a /\ Len(envio[h].enviados) = 2 * b + 0
    BY <1>2, <2>1, AlMandar
  <2>3. CASE <<a, b, 1, n>> \in Puestas
    <3>1. 2 * b + 1 < Len(envio[h].enviados)
      BY <1>4, <2>2, <2>3
    <3>2. QED
      BY <1>2, <2>2, <3>1
  <2>4. CASE <<a, b, 1, n>> \notin Puestas
    <3>1. PICK g \in Hilos : EnviarCopia(g) /\ Toca(g, a, b, 1, n)
      BY <2>4, YaPuesta
    <3>2. envio[g].pc # "libre" /\ envio[g].nombre = a /\ Len(envio[g].enviados) = 2 * b + 1
      BY <1>2, <3>1, AlMandar
    <3>3. g = h
      BY <2>2, <3>2, NombrePropio DEF IInv
    <3>4. QED
      BY <1>2, <2>2, <3>2, <3>3
  <2>5. QED
    BY <2>3, <2>4
<1>7. QED
  BY <1>5, <1>6

LEMMA AlPrincipio2 ==
  ASSUME Init PROVE IInv2
<1>1. IInv
  BY AlPrincipio
<1>2. Puestas = {}
  BY DEF Init, Puestas, EnVuelo
<1>3. ASSUME NEW h \in Hilos PROVE Empezados(h) = 0 /\ envio[h].pc = "libre"
  BY <1>1, Cuentas DEF Init, Empezados, Libre, IInv
<1>4. Colas
  <2>1. ASSUME NEW h \in Hilos, NEW i \in DOMAIN cola[h] PROVE cola[h][i] = Pedidos[h][0 + i]
    BY <1>1, Cuentas DEF Init, IInv
  <2>2. QED
    BY <1>1, <1>3, <2>1, Cuentas DEF Colas, IInv
<1>5. Presentes
  BY DEF Init, Presentes
<1>6. QED
  BY <1>2, <1>3, <1>4, <1>5 DEF IInv2, Parejas, Nuevos, DondeDijo, Separadas

LEMMA Inductivo2 ==
  ASSUME NombresDistintos PROVE Spec => [](IInv /\ IInv2)
<1>1. ASSUME IInv, IInv2, [Next]_vars PROVE IInv' /\ IInv2'
  <2>1. IInv'
    BY <1>1, Tipos, Vuelos DEF IInv
  <2>2. /\ TypeOK /\ Repartos /\ UnaEnVuelo
        /\ Colas /\ Presentes /\ Parejas /\ Nuevos /\ DondeDijo /\ Separadas
    BY <1>1 DEF IInv, IInv2
  <2>3. Colas' /\ Presentes' /\ Parejas'
    BY <1>1, <2>2, ColasSiguen, PresentesSiguen, ParejasSiguen
  <2>4. Nuevos' /\ DondeDijo'
    BY <1>1, <2>1, <2>2, NuevosSiguen, DondeDijoSigue
  <2>5. Separadas'
    BY <1>1, <2>1, <2>2, SeparadasSigue
  <2>6. QED
    BY <2>1, <2>3, <2>4, <2>5 DEF IInv2
<1>2. QED
  BY <1>1, AlPrincipio, AlPrincipio2, PTL DEF Spec

(* While every node is alive the two copies of a block are never on the same *)
(* node, for any number of nodes, threads and files of different names: the  *)
(* distribution takes two different indexes and the thread that registers a  *)
(* copy does it at the node it was sent to (4248-4251, 1225).                *)
THEOREM SiempreSeparadas ==
  ASSUME NombresDistintos PROVE Spec => []CopiasSeparadas
<1>1. ASSUME IInv, IInv2 PROVE CopiasSeparadas
  <2> SUFFICES ASSUME viva = Nodos, NEW r \in metadata, NEW s \in metadata,
                      r.nombre = s.nombre, r.bloque = s.bloque, r.copia = 0, s.copia = 1,
                      r.nodo = s.nodo
               PROVE  FALSE
    <3>1. \A r \in metadata : r.copia \in {0, 1}
      BY <1>1 DEF IInv, TypeOK
    <3>2. QED
      BY <3>1 DEF CopiasSeparadas
  <2>1. r.nombre \in Nombres /\ r.bloque \in 0..MaxBloques /\ r.nodo \in Nodos
    BY <1>1 DEF IInv, TypeOK
  <2>2. <<r.nombre, r.bloque, 0, r.nodo>> \in Puestas /\ <<r.nombre, r.bloque, 1, r.nodo>> \in Puestas
    BY DEF Puestas
  <2>3. QED
    BY <1>1, <2>1, <2>2 DEF IInv2, Separadas
<1>2. QED
  BY <1>1, Inductivo2, PTL

-----------------------------------------------------------------------------
(* The third invariant, part by part. *)
LEMMA SanosAntes ==
  ASSUME TypeOK, [Next]_vars, Sanos' PROVE Sanos
BY SoloMenos DEF Sanos, TypeOK

(* Without failures a send never fails, so no file becomes erroneous. *)
LEMMA ErroneosIguales ==
  ASSUME IInv, [Next]_vars, Sanos, SinErrores PROVE erroneos' = erroneos
<1>1. CASE UNCHANGED vars
  BY <1>1 DEF vars, fsArchivos
<1>2. ASSUME NEW h \in Hilos, EnviarCopia(h) PROVE erroneos' = erroneos
  <2> DEFINE e == envio[h]
             n == datanodes[IndiceDe(e) + 1]
  <2>1. e.ok /\ n \in viva
    BY <1>2, AlEnviar DEF IInv, EnviarCopia, Sanos, SinErrores
  <2>2. \A r \in Mandar(n) : e.ok /\ r # "falla"
    BY <2>1 DEF Mandar
  <2> HIDE DEF e, n
  <2>3. \E r \in Mandar(n) : (e.ok /\ r # "falla") => erroneos' = erroneos
    BY <1>2 DEF EnviarCopia, e, n
  <2>4. QED
    BY <2>2, <2>3
<1>3. ASSUME NEW h \in Hilos, PasoHilo(h), ~EnviarCopia(h) PROVE erroneos' = erroneos
  <2>1. CASE Repartir(h)
    BY <2>1 DEF Repartir, Morir, fsArchivos
  <2>2. CASE ~Repartir(h)
    BY <1>3, <2>2 DEF PasoHilo, Empezar, CortarBasura, EnviarMuere, Cerrar, Morir, fsArchivos
  <2>3. QED
    BY <2>1, <2>2
<1>4. ASSUME NEW n \in Nodos, PasoNodo(n) \/ Caer(n) PROVE erroneos' = erroneos
  BY <1>4 DEF PasoNodo, Caer, Guardar, GuardarFuera, ResultadoFinal, ResultadoParcial,
              LeerResultado, Desconectar, fsArchivos
<1>5. QED
  BY <1>1, <1>2, <1>3, <1>4 DEF Next

(* All the answers say that the block was written. *)
Buenas == \A n \in Nodos : \A i \in DOMAIN aFS[n] : aFS[n][i].res = 1

LEMMA BuenasSiguen ==
  ASSUME IInv, [Next]_vars, Sanos, Sanos', Buenas PROVE Buenas'
<1>1. ASSUME aFS' = aFS PROVE Buenas'
  BY <1>1 DEF Buenas
<1>2. CASE UNCHANGED vars
  BY <1>1, <1>2 DEF vars, red
<1>3. ASSUME NEW h \in Hilos, PasoHilo(h) PROVE Buenas'
  BY <1>1, <1>3, SinEnviar DEF EnviarCopia
<1>4. ASSUME NEW n \in Nodos, Guardar(n) PROVE Buenas'
  <2>1. PICK r \in Resultados :
          /\ IF r = 1 THEN UNCHANGED fallos ELSE fallos < MaxFallos /\ fallos' = fallos + 1
          /\ aFS' = [aFS EXCEPT ![n] = Append(@, [tipo |-> "RESULOPERACION",
                                                 copia |-> Head(aNodo[n]), res |-> r])]
    BY <1>4 DEF Guardar
  <2>2. r = 1
    BY <2>1 DEF Sanos
  <2>3. PICK x : x = [tipo |-> "RESULOPERACION", copia |-> Head(aNodo[n]), res |-> r]
    OBVIOUS
  <2>4. x.res = 1 /\ aFS' = [aFS EXCEPT ![n] = Append(@, x)]
    BY <2>1, <2>2, <2>3
  <2>5. aFS \in [Nodos -> Seq(Respuesta)] /\ x \in Respuesta
    <3>1. Head(aNodo[n]) \in Copia
      BY <1>4 DEF Guardar, IInv, TypeOK
    <3>2. QED
      BY <2>3, <3>1 DEF IInv, TypeOK, Respuesta
  <2>6. \A m \in Nodos : aFS'[m] = IF m = n THEN Append(aFS[n], x) ELSE aFS[m]
    BY <2>4, <2>5
  <2>7. \A i \in DOMAIN Append(aFS[n], x) : Append(aFS[n], x)[i].res = 1
    <3> DEFINE q == aFS[n]
    <3>1. q \in Seq(Respuesta) /\ \A i \in DOMAIN q : q[i].res = 1
      BY <2>5 DEF Buenas
    <3> HIDE DEF q
    <3>2. \A i \in DOMAIN Append(q, x) : Append(q, x)[i] = x \/ (i \in DOMAIN q /\ Append(q, x)[i] = q[i])
      BY <2>5, <3>1
    <3>3. \A i \in DOMAIN Append(q, x) : Append(q, x)[i].res = 1
      BY <2>4, <3>1, <3>2
    <3>4. QED
      BY <3>3 DEF q
  <2>8. ASSUME NEW m \in Nodos, NEW i \in DOMAIN aFS'[m] PROVE aFS'[m][i].res = 1
    <3>1. CASE m = n
      BY <2>6, <2>7, <2>8, <3>1
    <3>2. CASE m # n
      BY <2>6, <2>8, <3>2 DEF Buenas
    <3>3. QED
      BY <3>1, <3>2
  <2>9. QED
    BY <2>8 DEF Buenas
<1>5. ASSUME NEW n \in Nodos, LeerResultado(n) PROVE Buenas'
  <2>1. aFS \in [Nodos -> Seq(Respuesta)] /\ aFS[n] # <<>>
    BY <1>5 DEF IInv, TypeOK, Respuesta, LeerResultado
  <2>2. \A m \in Nodos : aFS'[m] = IF m = n THEN Tail(aFS[n]) ELSE aFS[m]
    BY <1>5, <2>1 DEF LeerResultado
  <2>3. \A i \in DOMAIN Tail(aFS[n]) : Tail(aFS[n])[i].res = 1
    BY <2>1, ColaDe DEF Buenas
  <2>4. ASSUME NEW m \in Nodos, NEW i \in DOMAIN aFS'[m] PROVE aFS'[m][i].res = 1
    <3>1. CASE m = n
      BY <2>2, <2>3, <2>4, <3>1
    <3>2. CASE m # n
      BY <2>2, <2>4, <3>2 DEF Buenas
    <3>3. QED
      BY <3>1, <3>2
  <2>5. QED
    BY <2>4 DEF Buenas
<1>6. ASSUME NEW n \in Nodos, PasoNodo(n) \/ Caer(n) PROVE Buenas'
  <2>1. CASE GuardarFuera(n) \/ Caer(n) \/ Desconectar(n)
    BY <1>1, <2>1 DEF GuardarFuera, Caer, Desconectar, red
  <2>2. QED
    BY <1>4, <1>5, <1>6, <2>1 DEF PasoNodo, ResultadoFinal, ResultadoParcial
<1>7. QED
  BY <1>2, <1>3, <1>6 DEF Next

LEMMA SinErroresSigue ==
  ASSUME IInv, IInv', [Next]_vars, SinErrores PROVE SinErrores'
<1> SUFFICES ASSUME Sanos' PROVE /\ erroneos' = {}
                                 /\ Buenas'
                                 /\ \A g \in Hilos : envio'[g].pc # "libre" =>
                                      envio'[g].ok /\ envio'[g].pc # "cierra"
  BY DEF SinErrores, Buenas
<1>1. Sanos
  BY SanosAntes DEF IInv
<1>2. erroneos' = {}
  BY <1>1, ErroneosIguales DEF SinErrores
<1>3. Buenas'
  BY <1>1, BuenasSiguen DEF SinErrores, Buenas
<1>4. ASSUME NEW g \in Hilos, envio'[g].pc # "libre"
      PROVE  envio'[g].ok /\ envio'[g].pc # "cierra"
  <2>1. envio[g].pc # "libre" => envio[g].ok /\ envio[g].pc # "cierra"
    BY <1>1 DEF SinErrores
  <2>2. CASE Envia(g)
    <3>1. datanodes[IndiceDe(envio[g]) + 1] \in viva
      BY <1>1, <2>2, AlEnviar DEF Envia, IInv, Sanos
    <3>2. QED
      BY <2>1, <2>2, <3>1 DEF Envia, Mismo
  <2>3. QED
    BY <1>4, <2>1, <2>2, UnHilo DEF IInv, Queda, Empieza, Para, Reparte, Mismo
<1>5. QED
  BY <1>2, <1>3, <1>4

(* A storing in course is of a file that was asked for. *)
LEMMA BaseEsDeUnPedido ==
  ASSUME Base, Colas, NEW h \in Hilos, envio[h].pc # "libre"
  PROVE  /\ Empezados(h) \in DOMAIN Pedidos[h]
         /\ envio[h].nombre = Pedidos[h][Empezados(h)].nombre
         /\ envio[h].dir = Pedidos[h][Empezados(h)].dir
         /\ envio[h].nb \in Pedidos[h][Empezados(h)].bloques
         /\ EsPedido(envio[h].nombre, envio[h].dir)
<1>1. /\ Empezados(h) \in DOMAIN Pedidos[h]
      /\ envio[h].nombre = Pedidos[h][Empezados(h)].nombre
      /\ envio[h].dir = Pedidos[h][Empezados(h)].dir
      /\ envio[h].nb \in Pedidos[h][Empezados(h)].bloques
  BY BaseCuentas DEF Colas
<1>2. QED
  BY <1>1 DEF EsPedido

LEMMA EsDeUnPedido ==
  ASSUME TypeOK, Colas, NEW h \in Hilos, envio[h].pc # "libre"
  PROVE  /\ Empezados(h) \in DOMAIN Pedidos[h]
         /\ envio[h].nombre = Pedidos[h][Empezados(h)].nombre
         /\ envio[h].dir = Pedidos[h][Empezados(h)].dir
         /\ envio[h].nb \in Pedidos[h][Empezados(h)].bloques
         /\ EsPedido(envio[h].nombre, envio[h].dir)
BY BaseEsDeUnPedido, EnTipos

LEMMA DirectoriosSiguen ==
  ASSUME IInv, Colas, [Next]_vars, Directorios PROVE Directorios'
<1> SUFFICES ASSUME NEW m \in Nodos, NEW a \in Nombres, actuales'[m][a] # Sin
             PROVE  EsPedido(a, actuales'[m][a])
  BY DEF Directorios, EsPedido
<1>1. actuales[m][a] # Sin => EsPedido(a, actuales[m][a])
  BY DEF Directorios
<1>2. CASE actuales' = actuales
  BY <1>1, <1>2
<1>3. actuales \in [Nodos -> [Nombres -> Dirs \cup {Sin}]]
  BY DEF IInv, TypeOK
<1>4. ASSUME NEW h \in Hilos, EnviarCopia(h) PROVE EsPedido(a, actuales'[m][a])
  <2>1. EsPedido(envio[h].nombre, envio[h].dir)
    BY <1>4, EsDeUnPedido DEF IInv, EnviarCopia
  <2>2. \E n : Anotar(n, envio[h].nombre, envio[h].dir)
    BY <1>4 DEF EnviarCopia
  <2>3. actuales'[m][a] = actuales[m][a]
        \/ (a = envio[h].nombre /\ actuales'[m][a] = envio[h].dir)
    BY <1>3, <2>2 DEF Anotar
  <2>4. QED
    BY <1>1, <2>1, <2>3
<1>5. ASSUME NEW n \in Nodos, ResultadoFinal(n) PROVE EsPedido(a, actuales'[m][a])
  <2>1. \E x : actuales' = actuales \/ actuales' = [actuales EXCEPT ![n][x] = Sin]
    BY <1>5 DEF ResultadoFinal
  <2>2. actuales'[m][a] = actuales[m][a]
    BY <1>3, <2>1
  <2>3. QED
    BY <1>1, <2>2
<1>6. ASSUME NEW h \in Hilos, PasoHilo(h) PROVE EsPedido(a, actuales'[m][a])
  BY <1>2, <1>4, <1>6, SinEnviar
<1>7. ASSUME NEW n \in Nodos, PasoNodo(n) \/ Caer(n) PROVE EsPedido(a, actuales'[m][a])
  <2>1. CASE ~ResultadoFinal(n)
    BY <1>2, <1>7, <2>1 DEF PasoNodo, Caer, Guardar, GuardarFuera, ResultadoParcial,
                            Desconectar, fsDatos
  <2>2. QED
    BY <1>5, <2>1
<1>8. QED
  BY <1>2, <1>6, <1>7 DEF Next, vars, fsDatos

(* What is registered stays. *)
LEMMA RegistradasCrecen ==
  ASSUME [Next]_vars, NEW a, NEW d, NEW b, NEW c, <<a, d, b, c>> \in Registradas
  PROVE  <<a, d, b, c>> \in Registradas'
<1>1. ASSUME metadata' = metadata PROVE <<a, d, b, c>> \in Registradas'
  BY <1>1 DEF Registradas
<1>2. ASSUME NEW n, NEW x, Registrar(n, x) PROVE <<a, d, b, c>> \in Registradas'
  <2>1. PICK z \in metadata : z.nombre = a /\ z.dir = d /\ z.bloque = b /\ z.copia = c
    BY DEF Registradas
  <2>2. PICK y \in metadata' : y.nombre = a /\ y.dir = d /\ y.bloque = b /\ y.copia = c
    BY <1>2, <2>1 DEF Registrar, EntradaDe, Poner
  <2>3. QED
    BY <2>2 DEF Registradas
<1>3. ASSUME NEW h \in Hilos, PasoHilo(h) PROVE metadata' = metadata
  BY <1>3, SinEnviar DEF EnviarCopia
<1>4. ASSUME NEW n \in Nodos, PasoNodo(n) \/ Caer(n)
      PROVE  metadata' = metadata \/ \E x : Registrar(n, x)
  <2>1. CASE ResultadoFinal(n) \/ ResultadoParcial(n)
    BY <2>1, AlRegistrar
  <2>2. CASE ~(ResultadoFinal(n) \/ ResultadoParcial(n))
    BY <1>4, <2>2 DEF PasoNodo, Caer, Guardar, GuardarFuera, Desconectar, fsArchivos
  <2>3. QED
    BY <2>1, <2>2
<1>5. CASE UNCHANGED vars
  BY <1>1, <1>5 DEF vars, fsArchivos
<1>6. QED
  BY <1>1, <1>2, <1>3, <1>4, <1>5 DEF Next

(* Without failures a copy on its way stays there until it is registered in  *)
(* the file that was asked for.                                              *)
LEMMA VuelaORegistra ==
  ASSUME NombresDistintos, IInv, IInv', [Next]_vars, Sanos, Sanos', SinErrores, Directorios,
         NEW a, NEW d, NEW b, NEW c, EsPedido(a, d), <<a, b, c>> \in Volando
  PROVE  <<a, b, c>> \in Volando' \/ <<a, d, b, c>> \in Registradas'
<1>1. PICK m, x : m \in Nodos /\ x \in EnVuelo(m) /\ x.nombre = a /\ x.bloque = b /\ x.copia = c
  BY DEF Volando
<1>2. ASSUME EnVuelo(m)' = EnVuelo(m) PROVE <<a, b, c>> \in Volando'
  BY <1>1, <1>2 DEF Volando
<1>3. ASSUME UNCHANGED <<aNodo, aFS>> PROVE <<a, b, c>> \in Volando'
  <2>1. EnVuelo(m)' = EnVuelo(m)
    BY <1>3 DEF EnVuelo
  <2>2. QED
    BY <1>2, <2>1
<1>4. CASE UNCHANGED vars
  BY <1>3, <1>4 DEF vars, red
<1>5. ASSUME NEW h \in Hilos, PasoHilo(h) PROVE <<a, b, c>> \in Volando'
  <2>1. ~EnviarCopia(h)
    BY <1>1 DEF IInv, UnaEnVuelo, EnviarCopia, TomarCpfrom
  <2>2. QED
    BY <1>3, <1>5, <2>1, SinEnviar
<1>6. ASSUME NEW n \in Nodos, ResultadoFinal(n) \/ ResultadoParcial(n)
      PROVE  <<a, d, b, c>> \in Registradas'
  <2>1. EnVuelo(n) = {Head(aFS[n]).copia} /\ \A z \in Nodos \ {n} : EnVuelo(z) = {}
    BY <1>6, AlRegistrar, VuelaLeida DEF IInv
  <2>2. n = m /\ x = Head(aFS[n]).copia
    BY <1>1, <2>1
  <2>3. actuales[n][a] # Sin /\ a \in Nombres /\ a = Head(aFS[n]).copia.nombre
    <3>1. actuales[n][a] # Sin
      BY <1>1, <2>2 DEF IInv, UnaEnVuelo
    <3>2. aFS[n] \in Seq(Respuesta) /\ aFS[n] # <<>>
      BY <1>6, AlRegistrar DEF IInv, TypeOK, Respuesta, LeerResultado
    <3>3. Head(aFS[n]).copia \in Copia
      <4>1. 1 \in DOMAIN aFS[n] /\ Head(aFS[n]) = aFS[n][1] /\ aFS[n][1] \in Respuesta
        BY <3>2, ColaDe
      <4>2. QED
        BY <4>1 DEF Respuesta
    <3>4. QED
      BY <1>1, <2>2, <3>1, <3>3 DEF Copia
  <2>4. actuales[n][a] = d
    <3>1. EsPedido(a, actuales[n][a])
      BY <2>3 DEF Directorios
    <3>2. QED
      BY <3>1 DEF EsPedido, NombresDistintos
  <2>5. Head(aFS[n]).res = 1 /\ a \notin erroneos
    <3>1. aFS[n] \in Seq(Respuesta) /\ aFS[n] # <<>>
      BY <1>6, AlRegistrar DEF IInv, TypeOK, Respuesta, LeerResultado
    <3>2. 1 \in DOMAIN aFS[n] /\ Head(aFS[n]) = aFS[n][1]
      BY <3>1, ColaDe
    <3>3. QED
      BY <3>2 DEF SinErrores
  <2>6. Registrar(n, x)
    BY <1>6, <2>2, <2>3, <2>5 DEF ResultadoFinal, ResultadoParcial
  <2> DEFINE r == [nombre |-> x.nombre, dir |-> actuales[n][x.nombre], bloque |-> x.bloque,
                   copia |-> x.copia, nodo |-> n, numero |-> x.numero]
  <2>7. r \in metadata'
    BY <2>6 DEF Registrar, EntradaDe, Poner
  <2>8. r.nombre = a /\ r.dir = d /\ r.bloque = b /\ r.copia = c
    BY <1>1, <2>4
  <2> HIDE DEF r
  <2>9. QED
    BY <2>7, <2>8 DEF Registradas
<1>7. ASSUME NEW n \in Nodos, PasoNodo(n) \/ Caer(n), ~ResultadoFinal(n), ~ResultadoParcial(n)
      PROVE  <<a, b, c>> \in Volando'
  <2>1. CASE Guardar(n)
    BY <1>1, <1>2, <2>1, VuelaGuardada DEF IInv
  <2>2. CASE GuardarFuera(n) \/ Caer(n)
    BY <2>2 DEF GuardarFuera, Caer, Sanos
  <2>3. CASE Desconectar(n)
    BY <1>3, <2>3 DEF Desconectar, red
  <2>4. QED
    BY <1>7, <2>1, <2>2, <2>3 DEF PasoNodo
<1>8. QED
  BY <1>4, <1>5, <1>6, <1>7 DEF Next

(* So the copies that are done stay done. *)
LEMMA HechasSiguen ==
  ASSUME NombresDistintos, IInv, IInv', [Next]_vars, Sanos, Sanos', SinErrores, Directorios,
         NEW a, NEW d, NEW m, EsPedido(a, d), Hechas(a, d, m)
  PROVE  Hechas(a, d, m)'
<1> SUFFICES ASSUME NEW k \in 0..(m - 1)
             PROVE  \/ <<a, d, k \div 2, k % 2>> \in Registradas'
                    \/ k = m - 1 /\ <<a, k \div 2, k % 2>> \in Volando'
  BY DEF Hechas
<1>1. PICK b, c : b = k \div 2 /\ c = k % 2
  OBVIOUS
<1>2. <<a, d, b, c>> \in Registradas \/ (k = m - 1 /\ <<a, b, c>> \in Volando)
  BY <1>1 DEF Hechas
<1>3. CASE <<a, d, b, c>> \in Registradas
  BY <1>1, <1>3, RegistradasCrecen
<1>4. CASE k = m - 1 /\ <<a, b, c>> \in Volando
  <2>1. <<a, b, c>> \in Volando' \/ <<a, d, b, c>> \in Registradas'
    BY <1>4, VuelaORegistra
  <2>2. QED
    BY <1>1, <1>4, <2>1
<1>5. QED
  BY <1>2, <1>3, <1>4

LEMMA EnviadasSiguen ==
  ASSUME NombresDistintos, IInv, IInv', [Next]_vars, Colas, SinErrores, Directorios, Enviadas
  PROVE  Enviadas'
<1> SUFFICES ASSUME Sanos', NEW g \in Hilos, envio'[g].pc # "libre"
             PROVE  Hechas(envio[g].nombre, envio[g].dir, Len(envio[g].enviados))'
  BY DEF Enviadas
<1>1. Sanos
  BY SanosAntes DEF IInv
<1>2. PICK a, d, m : a = envio'[g].nombre /\ d = envio'[g].dir /\ m = Len(envio'[g].enviados)
  OBVIOUS
<1>3. SUFFICES Hechas(a, d, m)'
  BY <1>2 DEF Hechas
<1>4. CASE Empieza(g)
  <2>1. m = 0
    BY <1>2, <1>4 DEF Empieza
  <2>2. 0..(m - 1) = {}
    BY <2>1
  <2>3. QED
    BY <2>2 DEF Hechas
<1>5. CASE Queda(g) \/ Reparte(g)
  <2>1. /\ envio[g].pc # "libre" /\ a = envio[g].nombre /\ d = envio[g].dir
        /\ m = Len(envio[g].enviados)
    BY <1>2, <1>5 DEF Queda, Reparte, Mismo
  <2>2. Hechas(a, d, m) /\ EsPedido(a, d)
    BY <1>1, <2>1, EsDeUnPedido DEF Enviadas, IInv
  <2>3. QED
    BY <1>1, <2>2, HechasSiguen
<1>6. CASE Envia(g)
  <2>1. /\ envio[g].pc # "libre" /\ a = envio[g].nombre /\ d = envio[g].dir /\ EnviarCopia(g)
    BY <1>2, <1>6 DEF Envia, Mismo
  <2>2. PICK k \in Nat : k = Len(envio[g].enviados) /\ m = k + 1
    <3> DEFINE z == datanodes[IndiceDe(envio[g]) + 1]
    <3>1. z \in Nodos /\ PrimerLibre(z) \in Numeros /\ envio[g] \in EnCurso
      BY <2>1, AlEnviar DEF IInv
    <3>2. envio'[g].enviados = Append(envio[g].enviados, <<z, PrimerLibre(z)>>)
      BY <1>6 DEF Envia
    <3> HIDE DEF z
    <3>3. <<z, PrimerLibre(z)>> \in Nodos \X Numeros /\ envio[g].enviados \in Seq(Nodos \X Numeros)
      BY <3>1 DEF EnCurso
    <3>4. PICK y \in Nodos \X Numeros : envio'[g].enviados = Append(envio[g].enviados, y)
      BY <3>2, <3>3
    <3>5. QED
      BY <1>2, <3>3, <3>4, Agregada
  <2>3. \A n \in Nodos : EnVuelo(n) = {}
    BY <2>1, VuelaEnviada DEF IInv
  <2>4. Volando = {}
    BY <2>3 DEF Volando
  <2>5. Hechas(a, d, k)
    BY <1>1, <2>1, <2>2 DEF Enviadas
  <2>6. <<a, k \div 2, k % 2>> \in Volando'
    <3>1. PICK n \in Nodos, x \in Copia :
            /\ n = datanodes[IndiceDe(envio[g]) + 1]
            /\ x.nombre = envio[g].nombre /\ x.bloque = Len(envio[g].enviados) \div 2
            /\ x.copia = Len(envio[g].enviados) % 2
            /\ n \in viva => x \in EnVuelo(n)'
      BY <2>1, VuelaEnviada DEF IInv
    <3>2. x \in EnVuelo(n)'
      BY <1>1, <3>1 DEF Sanos
    <3>3. x.nombre = a /\ x.bloque = k \div 2 /\ x.copia = k % 2
      BY <2>1, <2>2, <3>1
    <3>4. <<x.nombre, x.bloque, x.copia>> \in Volando'
      BY <3>2 DEF Volando
    <3>5. QED
      BY <3>3, <3>4
  <2>7. ASSUME NEW i \in 0..(m - 1), i # k
        PROVE  <<a, d, i \div 2, i % 2>> \in Registradas'
    <3>1. i \in 0..(k - 1)
      BY <2>2, <2>7
    <3>2. <<a, d, i \div 2, i % 2>> \in Registradas
      BY <2>4, <2>5, <3>1 DEF Hechas
    <3>3. PICK b, c : b = i \div 2 /\ c = i % 2
      OBVIOUS
    <3>4. QED
      BY <3>2, <3>3, RegistradasCrecen
  <2>8. k = m - 1
    BY <2>2
  <2>9. QED
    BY <2>6, <2>7, <2>8 DEF Hechas
<1>7. QED
  BY <1>4, <1>5, <1>6, UnHilo DEF IInv, Para

(* Which files a step marks as finished. *)
LEMMA AlTerminar ==
  ASSUME [Next]_vars, NEW a, a \in terminados', a \notin terminados
  PROVE  \E h \in Hilos : Cerrar(h) /\ envio[h].pc = "envia" /\ a = envio[h].nombre
                          /\ Len(envio[h].enviados) = 2 * envio[h].nb
<1>1. CASE UNCHANGED vars
  BY <1>1 DEF vars, fsArchivos
<1>2. ASSUME NEW h \in Hilos, PasoHilo(h), ~Cerrar(h) PROVE terminados' = terminados
  <2>1. CASE Repartir(h)
    <3>1. UNCHANGED terminados
      BY <2>1 DEF Repartir, Morir, fsArchivos
    <3>2. QED
      BY <3>1
  <2>2. CASE ~Repartir(h)
    BY <1>2, <2>2 DEF PasoHilo, Empezar, CortarBasura, EnviarCopia, EnviarMuere, Morir, fsArchivos
  <2>3. QED
    BY <2>1, <2>2
<1>3. ASSUME NEW n \in Nodos, PasoNodo(n) \/ Caer(n) PROVE terminados' = terminados
  BY <1>3 DEF PasoNodo, Caer, Guardar, GuardarFuera, ResultadoFinal, ResultadoParcial,
              LeerResultado, Desconectar, fsArchivos
<1>4. ASSUME NEW h \in Hilos, Cerrar(h)
      PROVE  envio[h].pc = "envia" /\ a = envio[h].nombre
             /\ Len(envio[h].enviados) = 2 * envio[h].nb
  <2>1. terminados' = terminados
        \/ (envio[h].pc = "envia" /\ terminados' = terminados \cup {envio[h].nombre})
    BY <1>4 DEF Cerrar, Morir, fsArchivos
  <2>2. QED
    BY <1>4, <2>1 DEF Cerrar
<1>5. QED
  BY <1>1, <1>2, <1>3, <1>4 DEF Next

LEMMA CompletasSiguen ==
  ASSUME NombresDistintos, IInv, IInv', [Next]_vars, Colas,
         SinErrores, Directorios, Enviadas, Completas
  PROVE  Completas'
<1> SUFFICES ASSUME Sanos', NEW h \in Hilos, NEW i \in DOMAIN Pedidos[h],
                    Pedidos[h][i].nombre \in terminados'
             PROVE  \E nb \in Pedidos[h][i].bloques :
                      Hechas(Pedidos[h][i].nombre, Pedidos[h][i].dir, 2 * nb)'
  BY DEF Completas
<1>1. Sanos
  BY SanosAntes DEF IInv
<1>2. PICK a, d : a = Pedidos[h][i].nombre /\ d = Pedidos[h][i].dir
  OBVIOUS
<1>3. EsPedido(a, d)
  BY <1>2 DEF EsPedido
<1>4. PICK nb \in Pedidos[h][i].bloques : Hechas(a, d, 2 * nb)
  <2>1. CASE a \in terminados
    BY <1>1, <1>2, <2>1 DEF Completas
  <2>2. CASE a \notin terminados
    <3>1. PICK g \in Hilos : /\ envio[g].pc = "envia" /\ a = envio[g].nombre
                             /\ Len(envio[g].enviados) = 2 * envio[g].nb
      BY <1>2, <2>2, AlTerminar
    <3>2. /\ Empezados(g) \in DOMAIN Pedidos[g]
          /\ envio[g].nombre = Pedidos[g][Empezados(g)].nombre
          /\ envio[g].dir = Pedidos[g][Empezados(g)].dir
          /\ envio[g].nb \in Pedidos[g][Empezados(g)].bloques
      BY <3>1, EsDeUnPedido DEF IInv
    <3>3. g = h /\ Empezados(g) = i
      <4>1. PICK j \in DOMAIN Pedidos[g] : j = Empezados(g)
        BY <3>2
      <4>2. Pedidos[g][j].nombre = Pedidos[h][i].nombre
        BY <1>2, <3>1, <3>2, <4>1
      <4>3. g = h /\ j = i
        BY <4>2 DEF NombresDistintos
      <4>4. QED
        BY <4>1, <4>3
    <3>4. envio[g].nb \in Pedidos[h][i].bloques /\ envio[g].dir = d
      BY <1>2, <3>2, <3>3
    <3>5. Hechas(envio[g].nombre, envio[g].dir, Len(envio[g].enviados))
      BY <1>1, <3>1 DEF Enviadas
    <3>6. QED
      BY <3>1, <3>4, <3>5
  <2>3. QED
    BY <2>1, <2>2
<1>5. PICK m : m = 2 * nb
  OBVIOUS
<1>6. Hechas(a, d, m)'
  BY <1>1, <1>3, <1>4, <1>5, HechasSiguen
<1>7. QED
  BY <1>2, <1>5, <1>6 DEF Hechas

LEMMA AlPrincipio3 ==
  ASSUME Init PROVE IInv3
<1>1. SinErrores
  BY DEF Init, SinErrores, Libre
<1>2. Directorios
  BY DEF Init, Directorios
<1>3. Enviadas
  BY DEF Init, Enviadas, Libre
<1>4. Completas
  BY DEF Init, Completas
<1>5. QED
  BY <1>1, <1>2, <1>3, <1>4 DEF IInv3

LEMMA Inductivo3 ==
  ASSUME NombresDistintos PROVE Spec => [](IInv /\ Colas /\ IInv3)
<1>1. ASSUME IInv, Colas, IInv3, [Next]_vars PROVE IInv' /\ Colas' /\ IInv3'
  <2>1. IInv'
    BY <1>1, Tipos, Vuelos DEF IInv
  <2>2. TypeOK /\ Repartos /\ UnaEnVuelo /\ SinErrores /\ Directorios /\ Enviadas /\ Completas
    BY <1>1 DEF IInv, IInv3
  <2>3. Colas'
    BY <1>1, <2>2, ColasSiguen
  <2>4. SinErrores' /\ Directorios'
    BY <1>1, <2>1, <2>2, SinErroresSigue, DirectoriosSiguen
  <2>5. Enviadas' /\ Completas'
    BY <1>1, <2>1, <2>2, EnviadasSiguen, CompletasSiguen
  <2>6. QED
    BY <2>1, <2>3, <2>4, <2>5 DEF IInv3
<1>2. Init => IInv /\ Colas /\ IInv3
  BY AlPrincipio, AlPrincipio2, AlPrincipio3 DEF IInv2
<1>3. QED
  BY <1>1, <1>2, PTL DEF Spec

(* Without failures no copy of a file that was closed is missing in its      *)
(* metadata, but the last one while its answer is on its way: for any number *)
(* of threads and nodes and files of different names, in spite of the        *)
(* handler that drops the file from archivos_actuales with every answer      *)
(* (1228).                                                                   *)
THEOREM SiempreCompleta ==
  ASSUME NombresDistintos PROVE Spec => []MetadataCompleta
<1>1. ASSUME IInv, IInv3 PROVE MetadataCompleta
  <2> SUFFICES ASSUME fallos = 0, viva = Nodos, NEW h \in Hilos, NEW i \in DOMAIN Pedidos[h],
                      Pedidos[h][i].nombre \in terminados
               PROVE  \E nb \in Pedidos[h][i].bloques :
                        \A b \in 0..(nb - 1), c \in {0, 1} :
                          \/ \E r \in metadata :
                               /\ r.nombre = Pedidos[h][i].nombre /\ r.dir = Pedidos[h][i].dir
                               /\ r.bloque = b /\ r.copia = c
                          \/ b = nb - 1 /\ c = 1 /\ \E n \in Nodos : EnVuelo(n) # {}
    BY DEF MetadataCompleta
  <2>1. PICK a, d : a = Pedidos[h][i].nombre /\ d = Pedidos[h][i].dir
    OBVIOUS
  <2>2. PICK nb \in Pedidos[h][i].bloques : Hechas(a, d, 2 * nb)
    BY <1>1, <2>1 DEF IInv3, Completas, Sanos
  <2>3. nb \in Nat
    <3>1. Pedidos[h] \in Seq(Pedido)
      BY Instancia
    <3>2. Pedidos[h][i] \in Pedido
      BY <3>1
    <3>3. nb \in Cantidades
      BY <3>2 DEF Pedido
    <3>4. QED
      BY <3>3, Instancia
  <2>4. ASSUME NEW b \in 0..(nb - 1), NEW c \in {0, 1}
        PROVE  \/ \E r \in metadata : r.nombre = a /\ r.dir = d /\ r.bloque = b /\ r.copia = c
               \/ b = nb - 1 /\ c = 1 /\ \E n \in Nodos : EnVuelo(n) # {}
    <3>1. PICK k \in 0..(2 * nb - 1) : k = 2 * b + c
      BY <2>3
    <3>2. k \div 2 = b /\ k % 2 = c /\ (k = 2 * nb - 1 => b = nb - 1 /\ c = 1)
      BY <2>3, <3>1
    <3>3. <<a, d, b, c>> \in Registradas \/ (k = 2 * nb - 1 /\ <<a, b, c>> \in Volando)
      BY <2>2, <3>2 DEF Hechas
    <3>4. QED
      BY <3>2, <3>3 DEF Registradas, Volando
  <2>5. QED
    BY <2>1, <2>4
<1>2. QED
  BY <1>1, Inductivo3, PTL

-----------------------------------------------------------------------------
(* The storing as Almacenamiento promises it.                                *)

(* What there is of the file being stored was sent.  (DondeDijo, of any      *)
(* nodes.)                                                                   *)
Antes ==
  \A h \in Hilos : envio[h].pc # "libre" =>
    \A b \in 0..MaxBloques, c \in {0, 1}, n \in Nodos :
      <<envio[h].nombre, b, c, n>> \in Puestas => 2 * b + c < Len(envio[h].enviados)

(* The copy on its way is not registered yet. *)
Unicas ==
  \A n \in Nodos : \A x \in EnVuelo(n) : \A r \in metadata :
    ~(r.nombre = x.nombre /\ r.bloque = x.bloque /\ r.copia = x.copia)

(* Nothing is sent before the distribution is made; a send fails only to a   *)
(* node that died; and while none has, the copies go where the distribution  *)
(* says.                                                                     *)
Mandados(h) ==
  LET e == envio[h]
  IN /\ e.pc = "reparte" => e.enviados = <<>>
     /\ e.pc = "cierra" => ~e.ok
     /\ ~e.ok => \E i \in DOMAIN e.enviados : e.enviados[i][1] \notin viva
     /\ viva = Nodos => \A i \in DOMAIN e.enviados :
                          i \in DOMAIN e.idx /\ e.enviados[i][1] = Orden[e.idx[i] + 1]
Llegadas == \A h \in Hilos : envio[h].pc # "libre" => Mandados(h)

(* The fourth invariant. *)
IInv4 == Antes /\ Unicas /\ Llegadas

(* The list of copies sent, after a send. *)
LEMMA UnaMas ==
  ASSUME IInv, NEW g \in Hilos, EnviarCopia(g)
  PROVE  LET n == datanodes[IndiceDe(envio[g]) + 1]
             j == PrimerLibre(n)
             q == envio[g].enviados
         IN /\ n \in Nodos /\ j \in Numeros /\ q \in Seq(Nodos \X Numeros)
            /\ envio'[g].enviados = Append(q, <<n, j>>)
            /\ Len(q) \in Nat /\ Len(envio'[g].enviados) = Len(q) + 1
            /\ DOMAIN envio'[g].enviados = 1..(Len(q) + 1) /\ DOMAIN q = 1..Len(q)
            /\ envio'[g].enviados[Len(q) + 1] = <<n, j>>
            /\ \A i \in 1..Len(q) : envio'[g].enviados[i] = q[i]
<1> DEFINE n == datanodes[IndiceDe(envio[g]) + 1]
           j == PrimerLibre(n)
           q == envio[g].enviados
<1>1. n \in Nodos /\ j \in Numeros /\ envio[g] \in EnCurso
  BY AlEnviar DEF IInv
<1>2. envio'[g].enviados = Append(q, <<n, j>>)
  <2>1. PICK f : envio' = [envio EXCEPT ![g] = f] /\ f.enviados = Append(q, <<n, j>>)
    BY Enviada DEF IInv
  <2>2. QED
    BY <2>1 DEF IInv, TypeOK
<1>3. q \in Seq(Nodos \X Numeros)
  BY <1>1 DEF EnCurso
<1> DEFINE x == <<n, j>>
<1>4. x \in Nodos \X Numeros
  BY <1>1
<1> HIDE DEF n, j, q, x
<1>5. /\ Len(q) \in Nat /\ DOMAIN q = 1..Len(q)
      /\ Len(Append(q, x)) = Len(q) + 1 /\ DOMAIN Append(q, x) = 1..(Len(q) + 1)
      /\ Append(q, x)[Len(q) + 1] = x /\ \A i \in 1..Len(q) : Append(q, x)[i] = q[i]
  BY <1>3, <1>4
<1>6. QED
  BY <1>1, <1>2, <1>3, <1>5 DEF n, j, q, x

(* A thread that was storing goes on with its file, and has sent no less. *)
LEMMA SigueCurso ==
  ASSUME IInv, [Next]_vars, NEW g \in Hilos, envio'[g].pc # "libre", ~Empieza(g)
  PROVE  /\ envio[g].pc # "libre" /\ envio'[g].nombre = envio[g].nombre
         /\ Len(envio[g].enviados) \in Nat /\ Len(envio'[g].enviados) \in Nat
         /\ Len(envio[g].enviados) <= Len(envio'[g].enviados)
<1>1. Queda(g) \/ Reparte(g) \/ Envia(g)
  BY UnHilo DEF IInv, Para
<1>2. envio[g].pc # "libre" /\ envio'[g].nombre = envio[g].nombre
  BY <1>1 DEF Queda, Reparte, Envia, Mismo
<1>3. Len(envio[g].enviados) \in Nat
  BY <1>2, Almacena DEF IInv, EnCurso
<1>4. CASE Queda(g) \/ Reparte(g)
  BY <1>2, <1>3, <1>4 DEF Queda, Reparte
<1>5. CASE Envia(g)
  <2>1. Len(envio'[g].enviados) = Len(envio[g].enviados) + 1
    BY <1>5, UnaMas DEF Envia
  <2>2. QED
    BY <1>2, <1>3, <2>1
<1>6. QED
  BY <1>1, <1>4, <1>5

(* Nothing of a file is anywhere when its storing begins. *)
LEMMA NadaAlEmpezar ==
  ASSUME NombresDistintos, IInv, [Next]_vars, IInv', Colas, Nuevos, NEW g \in Hilos, Empieza(g),
         NEW b \in 0..MaxBloques, NEW c \in {0, 1}, NEW n \in Nodos
  PROVE  <<envio'[g].nombre, b, c, n>> \notin Puestas'
<1> SUFFICES ASSUME <<envio'[g].nombre, b, c, n>> \in Puestas' PROVE FALSE
  OBVIOUS
<1>1. PICK a : a = envio'[g].nombre
  OBVIOUS
<1>2. cola[g] \in Seq(Pedido) /\ cola[g] # <<>> /\ a = Head(cola[g]).nombre
  BY <1>1, Cuentas DEF Empieza, IInv
<1>3. 1 \in DOMAIN cola[g] /\ a = cola[g][1].nombre
  BY <1>2, ColaDe
<1>4. <<a, b, c, n>> \notin Puestas
  BY <1>3 DEF Nuevos
<1>5. PICK h \in Hilos : EnviarCopia(h) /\ a = envio[h].nombre
  BY <1>1, <1>4, YaPuesta DEF Toca
<1>6. envio[h].pc # "libre"
  BY <1>5 DEF EnviarCopia
<1>7. QED
  BY <1>3, <1>5, <1>6, NombrePropio DEF IInv

LEMMA AntesSigue ==
  ASSUME NombresDistintos, IInv, [Next]_vars, IInv', Colas, Nuevos, Antes
  PROVE  Antes'
<1> SUFFICES ASSUME NEW g \in Hilos, envio'[g].pc # "libre",
                    NEW b \in 0..MaxBloques, NEW c \in {0, 1}, NEW n \in Nodos,
                    <<envio'[g].nombre, b, c, n>> \in Puestas'
             PROVE  2 * b + c < Len(envio'[g].enviados)
  BY DEF Antes
<1>1. PICK a : a = envio'[g].nombre
  OBVIOUS
<1>2. ~Empieza(g)
  BY NadaAlEmpezar
<1>3. /\ envio[g].pc # "libre" /\ envio[g].nombre = a
      /\ Len(envio[g].enviados) \in Nat /\ Len(envio'[g].enviados) \in Nat
      /\ Len(envio[g].enviados) <= Len(envio'[g].enviados)
  BY <1>1, <1>2, SigueCurso
<1>4. b \in Nat
  BY Largo
<1>8. 2 * b + c \in Nat
  BY <1>4
<1>5. CASE <<a, b, c, n>> \in Puestas
  <2>1. 2 * b + c < Len(envio[g].enviados)
    BY <1>3, <1>5 DEF Antes
  <2>2. QED
    BY <1>3, <1>8, <2>1
<1>6. CASE <<a, b, c, n>> \notin Puestas
  <2>1. PICK h \in Hilos : EnviarCopia(h) /\ Toca(h, a, b, c, n)
    BY <1>1, <1>6, YaPuesta
  <2>2. envio[h].pc # "libre" /\ envio[h].nombre = a /\ Len(envio[h].enviados) = 2 * b + c
    <3>1. CASE c = 0
      BY <1>4, <2>1, <3>1, AlMandar
    <3>2. CASE c = 1
      BY <1>4, <2>1, <3>2, AlMandar
    <3>3. QED
      BY <3>1, <3>2
  <2>3. h = g
    BY <1>3, <2>2, NombrePropio DEF IInv
  <2>4. Len(envio'[g].enviados) = Len(envio[g].enviados) + 1
    BY <2>1, <2>3, UnaMas
  <2>5. QED
    BY <1>8, <2>2, <2>3, <2>4
<1>7. QED
  BY <1>5, <1>6

LEMMA UnicasSiguen ==
  ASSUME IInv, [Next]_vars, IInv', Antes, Unicas
  PROVE  Unicas'
<1> SUFFICES ASSUME NEW n \in Nodos, NEW x \in EnVuelo(n)', NEW r \in metadata',
                    r.nombre = x.nombre, r.bloque = x.bloque, r.copia = x.copia
             PROVE  FALSE
  BY DEF Unicas
<1>1. ASSUME metadata' = metadata, x \in EnVuelo(n) PROVE FALSE
  BY <1>1 DEF Unicas
<1>2. ASSUME UNCHANGED <<metadata, aNodo, aFS>> PROVE FALSE
  BY <1>1, <1>2 DEF EnVuelo
<1>3. CASE UNCHANGED vars
  BY <1>2, <1>3 DEF vars, fsArchivos, red
<1>4. ASSUME NEW h \in Hilos, PasoHilo(h), ~EnviarCopia(h) PROVE FALSE
  BY <1>2, <1>4, SinEnviar
<1>5. ASSUME NEW h \in Hilos, EnviarCopia(h) PROVE FALSE
  <2> DEFINE k == Len(envio[h].enviados)
  <2>1. metadata' = metadata /\ envio[h].pc # "libre"
    BY <1>5 DEF EnviarCopia
  <2>2. x.nombre = envio[h].nombre /\ x.bloque = k \div 2 /\ x.copia = k % 2
    <3>1. PICK z \in Copia :
            /\ z.nombre = envio[h].nombre /\ z.bloque = Len(envio[h].enviados) \div 2
            /\ z.copia = Len(envio[h].enviados) % 2
            /\ EnVuelo(n)' \subseteq {z}
      BY <1>5, VuelaEnviada DEF IInv
    <3>2. x = z
      BY <3>1
    <3>3. QED
      BY <3>1, <3>2
  <2>3. /\ r.nombre \in Nombres /\ r.bloque \in 0..MaxBloques /\ r.copia \in {0, 1}
        /\ r.nodo \in Nodos
    BY <2>1 DEF IInv, TypeOK
  <2>4. <<r.nombre, r.bloque, r.copia, r.nodo>> \in Puestas
    BY <2>1 DEF Puestas
  <2>5. 2 * r.bloque + r.copia < k
    BY <2>1, <2>2, <2>3, <2>4 DEF Antes
  <2>6. k \in Nat /\ r.bloque \in Nat
    BY <1>5, <2>3, UnaMas, Largo
  <2> HIDE DEF k
  <2>7. QED
    BY <2>2, <2>5, <2>6
<1>6. ASSUME NEW m \in Nodos, PasoNodo(m) \/ Caer(m) PROVE FALSE
  <2>1. CASE Guardar(m)
    BY <1>1, <2>1, VuelaGuardada DEF IInv, Guardar, fsArchivos
  <2>2. CASE GuardarFuera(m) \/ Caer(m)
    BY <1>1, <2>2, VuelaPerdida DEF IInv, GuardarFuera, Caer, fsArchivos
  <2>3. CASE Desconectar(m)
    BY <1>2, <2>3 DEF Desconectar, fsArchivos, red
  <2>4. CASE ResultadoFinal(m) \/ ResultadoParcial(m)
    BY <2>4, VuelaLeida DEF IInv, ResultadoFinal, ResultadoParcial
  <2>5. QED
    BY <1>6, <2>1, <2>2, <2>3, <2>4 DEF PasoNodo
<1>7. QED
  BY <1>3, <1>4, <1>5, <1>6 DEF Next

LEMMA LlegadasSiguen ==
  ASSUME IInv, [Next]_vars, Presentes, Llegadas
  PROVE  Llegadas'
<1> SUFFICES ASSUME NEW g \in Hilos, envio'[g].pc # "libre"
             PROVE  Mandados(g)'
  BY DEF Llegadas
<1>1. viva' \subseteq viva /\ viva \subseteq Nodos
  BY SoloMenos DEF IInv, TypeOK
<1>2. ASSUME envio[g].pc # "libre" PROVE Mandados(g)
  BY <1>2 DEF Llegadas
<1>3. CASE Queda(g)
  <2>1. envio'[g] = envio[g] /\ Mandados(g)
    BY <1>2, <1>3 DEF Queda
  <2>2. \A n : n \notin viva => n \notin viva'
    BY <1>1
  <2>3. viva' = Nodos => viva = Nodos
    BY <1>1
  <2>4. QED
    BY <2>1, <2>2, <2>3 DEF Mandados
<1>4. CASE Empieza(g)
  BY <1>4 DEF Empieza, Mandados
<1>5. CASE Reparte(g)
  BY <1>2, <1>5 DEF Reparte, Mandados
<1>6. CASE Envia(g)
  <2> DEFINE e == envio[g]
             f == envio'[g]
             n == datanodes[IndiceDe(e) + 1]
             k == Len(e.enviados)
  <2>1. /\ f.idx = e.idx /\ f.pc \in {"envia", "cierra"} /\ (f.pc = "cierra" => ~f.ok)
        /\ n \in viva => f.ok = e.ok
    BY <1>6 DEF Envia
  <2>2. /\ k \in Nat /\ DOMAIN f.enviados = 1..(k + 1) /\ DOMAIN e.enviados = 1..k
        /\ f.enviados[k + 1][1] = n /\ \A i \in 1..k : f.enviados[i] = e.enviados[i]
    BY <1>6, UnaMas DEF Envia
  <2>3. k + 1 \in DOMAIN e.idx /\ IndiceDe(e) = e.idx[k + 1]
    <3>1. k < 2 * e.nb /\ Len(e.idx) = 2 * e.nb /\ IndiceDe(e) = e.idx[k + 1] /\ e \in EnCurso
      BY <1>6, AlEnviar DEF IInv, Envia
    <3>2. DOMAIN e.idx = 1..Len(e.idx) /\ Len(e.idx) \in Nat
      BY <3>1 DEF EnCurso
    <3> DEFINE L == Len(e.idx)
    <3>3. k < L /\ L \in Nat /\ DOMAIN e.idx = 1..L
      BY <3>1, <3>2
    <3> HIDE DEF L, k
    <3>4. k + 1 \in 1..L
      BY <2>2, <3>3
    <3>5. QED
      BY <3>1, <3>3, <3>4 DEF k
  <2>4. e.pc = "envia"
    BY <1>6 DEF Envia, EnviarCopia
  <2>5. Mandados(g)
    BY <1>2, <2>4
  <2>6. viva' = Nodos => viva = Nodos /\ datanodes = Orden
    BY <1>1 DEF Presentes
  <2>7. k + 1 \in 1..(k + 1) /\ \A i \in 1..(k + 1) : i \in 1..k \/ i = k + 1
    BY <2>2
  <2>8. ~f.ok => \E i \in DOMAIN f.enviados : f.enviados[i][1] \notin viva'
    <3>1. CASE n \in viva
      BY <1>1, <2>1, <2>2, <2>5, <3>1 DEF Mandados
    <3>2. CASE n \notin viva
      BY <1>1, <2>2, <2>7, <3>2
    <3>3. QED
      BY <3>1, <3>2
  <2>9. viva' = Nodos => \A i \in DOMAIN f.enviados :
                          i \in DOMAIN f.idx /\ f.enviados[i][1] = Orden[f.idx[i] + 1]
    <3> SUFFICES ASSUME viva' = Nodos, NEW i \in 1..(k + 1)
                 PROVE  i \in DOMAIN e.idx /\ f.enviados[i][1] = Orden[e.idx[i] + 1]
      BY <2>1, <2>2
    <3>1. CASE i \in 1..k
      BY <2>2, <2>5, <2>6, <3>1 DEF Mandados
    <3>2. CASE i = k + 1
      BY <2>2, <2>3, <2>6, <3>2
    <3>3. QED
      BY <2>7, <3>1, <3>2
  <2>10. QED
    BY <2>1, <2>8, <2>9 DEF Mandados
<1>7. QED
  BY <1>3, <1>4, <1>5, <1>6, UnHilo DEF IInv, Para

LEMMA AlPrincipio4 ==
  ASSUME Init PROVE IInv4
<1>1. \A h \in Hilos : envio[h].pc = "libre"
  BY DEF Init, Libre
<1>2. metadata = {}
  BY DEF Init
<1>3. QED
  BY <1>1, <1>2 DEF IInv4, Antes, Unicas, Llegadas

LEMMA Inductivo4 ==
  ASSUME NombresDistintos PROVE Spec => [](IInv /\ IInv2 /\ IInv4)
<1>1. ASSUME IInv, IInv2, IInv4, [Next]_vars, IInv' PROVE IInv4'
  <2>1. Colas /\ Presentes /\ Nuevos /\ Antes /\ Unicas /\ Llegadas
    BY <1>1 DEF IInv2, IInv4
  <2>2. Antes'
    BY <1>1, <2>1, AntesSigue
  <2>3. Unicas'
    BY <1>1, <2>1, UnicasSiguen
  <2>4. Llegadas'
    BY <1>1, <2>1, LlegadasSiguen
  <2>5. QED
    BY <2>2, <2>3, <2>4 DEF IInv4
<1>2. QED
  BY <1>1, AlPrincipio4, Inductivo2, PTL DEF Spec

(* The copies on their way, when there is none and when there is one. *)
LEMMA VuelanNinguna ==
  /\ (\A m \in Nodos : EnVuelo(m) = {}) => Vuelan = {}
  /\ (\A m \in Nodos : EnVuelo(m)' = {}) => Vuelan' = {}
BY DEF Vuelan

LEMMA VuelaUna ==
  ASSUME NEW n \in Nodos, NEW x
  PROVE  /\ EnVuelo(n) = {x} /\ (\A m \in Nodos \ {n} : EnVuelo(m) = {})
              => Vuelan = {CopiaEn(x, n)}
         /\ EnVuelo(n)' = {x} /\ (\A m \in Nodos \ {n} : EnVuelo(m)' = {})
              => Vuelan' = {CopiaEn(x, n)}
<1>1. ASSUME EnVuelo(n) = {x}, \A m \in Nodos \ {n} : EnVuelo(m) = {}
      PROVE  Vuelan = {CopiaEn(x, n)}
  <2> DEFINE U(m) == {CopiaEn(z, m) : z \in EnVuelo(m)}
  <2>1. U(n) = {CopiaEn(x, n)} /\ \A m \in Nodos \ {n} : U(m) = {}
    BY <1>1
  <2>2. Vuelan = UNION {U(m) : m \in Nodos}
    BY DEF Vuelan
  <2> HIDE DEF U
  <2>3. QED
    BY <2>1, <2>2
<1>2. ASSUME EnVuelo(n)' = {x}, \A m \in Nodos \ {n} : EnVuelo(m)' = {}
      PROVE  Vuelan' = {CopiaEn(x, n)}
  <2> DEFINE U(m) == {CopiaEn(z, m) : z \in EnVuelo(m)'}
  <2>1. U(n) = {CopiaEn(x, n)} /\ \A m \in Nodos \ {n} : U(m) = {}
    BY <1>2
  <2>2. Vuelan' = UNION {U(m) : m \in Nodos}
    BY DEF Vuelan
  <2> HIDE DEF U
  <2>3. QED
    BY <2>1, <2>2
<1>3. QED
  BY <1>1, <1>2

(* What a node that dies takes with it. *)
LEMMA VuelaAlCaer ==
  ASSUME TypeOK, UnaEnVuelo, NEW n \in Nodos, GuardarFuera(n) \/ Caer(n)
  PROVE  \/ Vuelan' = Vuelan
         \/ Vuelan' = {} /\ \A c \in Vuelan : c.nodo = n
<1>1. aNodo' = [aNodo EXCEPT ![n] = <<>>] /\ aFS' = aFS
  BY DEF GuardarFuera, Caer
<1>2. aNodo \in [Nodos -> Seq(Copia)] /\ aFS \in [Nodos -> Seq(Respuesta)]
  BY DEF TypeOK, Respuesta
<1>3. CASE aNodo[n] = <<>>
  <2>1. aNodo' = aNodo
    BY <1>1, <1>2, <1>3
  <2>2. QED
    BY <1>1, <2>1 DEF Vuelan, EnVuelo
<1>4. CASE aNodo[n] # <<>>
  <2>1. aNodo[n] \in Seq(Copia) /\ aFS[n] \in Seq(Respuesta) /\ Len(aNodo[n]) + Len(aFS[n]) <= 1
    BY <1>2, PorPartes DEF Pocas
  <2>2. aFS[n] = <<>>
    BY <1>4, <2>1, UnoSolo
  <2>3. \A m \in Nodos \ {n} : aNodo[m] = <<>> /\ aFS[m] = <<>>
    BY <1>4, UnicoMensaje DEF Nada
  <2>4. \A m \in Nodos : aNodo'[m] = <<>> /\ aFS'[m] = <<>>
    BY <1>1, <1>2, <2>2, <2>3
  <2>5. \A m \in Nodos : EnVuelo(m)' = {}
    BY <2>4 DEF EnVuelo
  <2>6. \A m \in Nodos \ {n} : EnVuelo(m) = {}
    BY <2>3 DEF EnVuelo
  <2>7. \A c \in Vuelan : c.nodo = n
    BY <2>6 DEF Vuelan, CopiaEn
  <2>8. QED
    BY <2>5, <2>7, VuelanNinguna
<1>5. QED
  BY <1>3, <1>4

(* One thread moves: its storing begins or goes on, or it ends. *)
LEMMA CursosCon ==
  ASSUME TypeOK, NEW h \in Hilos, NEW f, envio' = [envio EXCEPT ![h] = f], f.pc # "libre"
  PROVE  Cursos' = [g \in DOMAIN Cursos \cup {h} |->
                      IF g = h THEN [nombre |-> f.nombre, bloques |-> f.nb, destinos |-> f.enviados]
                      ELSE Cursos[g]]
<1>1. envio'[h] = f /\ \A g \in Hilos \ {h} : envio'[g] = envio[g]
  BY DEF TypeOK
<1>2. {g \in Hilos : envio'[g].pc # "libre"} = {g \in Hilos : envio[g].pc # "libre"} \cup {h}
  BY <1>1
<1>3. Cursos' = [g \in {z \in Hilos : envio'[z].pc # "libre"} |-> Curso(g)']
  BY DEF Cursos
<1>4. QED
  BY <1>1, <1>2, <1>3 DEF Cursos, Curso

LEMMA CursosSin ==
  ASSUME TypeOK, NEW h \in Hilos, NEW r, envio' = [envio EXCEPT ![h] = Libre(r)]
  PROVE  Cursos' = [g \in DOMAIN Cursos \ {h} |-> Cursos[g]]
<1>1. envio'[h].pc = "libre" /\ \A g \in Hilos \ {h} : envio'[g] = envio[g]
  BY DEF TypeOK, Libre
<1>2. {g \in Hilos : envio'[g].pc # "libre"} = {g \in Hilos : envio[g].pc # "libre"} \ {h}
  BY <1>1
<1>3. Cursos' = [g \in {z \in Hilos : envio'[z].pc # "libre"} |-> Curso(g)']
  BY DEF Cursos
<1>4. QED
  BY <1>1, <1>2, <1>3 DEF Cursos, Curso

(* The storing of a thread that is at one. *)
LEMMA CursoDe ==
  ASSUME NEW h \in Hilos, envio[h].pc # "libre"
  PROVE  h \in DOMAIN Cursos /\ Cursos[h] = Curso(h)
BY DEF Cursos

PasoPromesa == Promesa!Next \/ UNCHANGED Promesa!vars

(* Most steps change nothing that Almacenamiento sees. *)
LEMMA PasoQuieto ==
  ASSUME UNCHANGED <<cola, envio, Vuelan, cpfrom, metadata, terminados, viva>>
  PROVE  PasoPromesa
<1>1. Cursos' = Cursos /\ Conocidas' = Conocidas
  BY DEF Cursos, Curso, Conocidas
<1>2. QED
  BY <1>1 DEF PasoPromesa, Promesa!vars

LEMMA PasoMorir ==
  ASSUME Morir PROVE PasoPromesa
<1>1. Vuelan' = Vuelan
  BY DEF Morir, red, Vuelan, EnVuelo
<1>2. QED
  BY <1>1, PasoQuieto DEF Morir, hilo, fsArchivos, nodo

LEMMA PasoEmpezar ==
  ASSUME IInv, Nuevos, NEW h \in Hilos, Empezar(h) PROVE PasoPromesa
<1> DEFINE p == Head(cola[h])
<1>1. PICK nb \in p.bloques :
        envio' = [envio EXCEPT ![h] =
                    [pc |-> "reparte", nombre |-> p.nombre,
                     dir |-> p.dir, nb |-> nb, idx |-> <<>>, cant |-> Cuanto,
                     enviados |-> <<>>, ok |-> TRUE]]
  BY DEF Empezar
<1>2. /\ envio[h].pc = "libre" /\ cola[h] # <<>> /\ cola' = [cola EXCEPT ![h] = Tail(@)]
      /\ UNCHANGED <<cpfrom, metadata, terminados, viva, aNodo, aFS>>
  BY DEF Empezar, fsArchivos, red, nodo
<1>3. h \notin DOMAIN Cursos
  BY <1>2 DEF Cursos
<1>4. Cursos' = [g \in DOMAIN Cursos \cup {h} |->
                   IF g = h THEN [nombre |-> p.nombre, bloques |-> nb, destinos |-> <<>>]
                   ELSE Cursos[g]]
  <2> DEFINE f == [pc |-> "reparte", nombre |-> p.nombre,
                   dir |-> p.dir, nb |-> nb, idx |-> <<>>, cant |-> Cuanto,
                   enviados |-> <<>>, ok |-> TRUE]
  <2>1. envio' = [envio EXCEPT ![h] = f]
    BY <1>1
  <2>2. f.pc # "libre" /\ f.nombre = p.nombre /\ f.nb = nb /\ f.enviados = <<>>
    OBVIOUS
  <2> HIDE DEF f, p
  <2>3. Cursos' = [g \in DOMAIN Cursos \cup {h} |->
                     IF g = h THEN [nombre |-> f.nombre, bloques |-> f.nb, destinos |-> f.enviados]
                     ELSE Cursos[g]]
    BY <2>1, <2>2, CursosCon DEF IInv
  <2>4. QED
    BY <2>2, <2>3
<1>5. Vuelan' = Vuelan /\ Conocidas' = Conocidas
  BY <1>2 DEF Vuelan, EnVuelo, Conocidas
<1>6. \A c \in Conocidas : c.nombre # p.nombre
  <2> SUFFICES ASSUME NEW r \in metadata, r.nombre = p.nombre PROVE FALSE
    BY DEF Conocidas, CopiaEn
  <2>1. r.bloque \in 0..MaxBloques /\ r.copia \in {0, 1} /\ r.nodo \in Nodos
    BY DEF IInv, TypeOK
  <2>2. <<p.nombre, r.bloque, r.copia, r.nodo>> \in Puestas
    BY DEF Puestas
  <2>3. 1 \in DOMAIN cola[h] /\ p = cola[h][1]
    BY <1>2, ColaDe DEF IInv, TypeOK
  <2>4. QED
    BY <2>1, <2>2, <2>3 DEF Nuevos
<1>7. Promesa!Comenzar(h)
  BY <1>2, <1>3, <1>4, <1>5, <1>6 DEF Promesa!Comenzar
<1>8. QED
  BY <1>7 DEF PasoPromesa, Promesa!Next

LEMMA PasoSinLugar ==
  ASSUME IInv, NEW h \in Hilos, envio[h].pc = "reparte", Mandados(h), SinLugar(h),
         UNCHANGED <<cola, aNodo, aFS, cpfrom, metadata, terminados, viva>>
  PROVE  PasoPromesa
<1>1. Cursos' = [g \in DOMAIN Cursos \ {h} |-> Cursos[g]]
  <2>1. PICK r : envio' = [envio EXCEPT ![h] = Libre(r)]
    BY DEF SinLugar
  <2>2. QED
    BY <2>1, CursosSin DEF IInv
<1>2. h \in DOMAIN Cursos /\ Cursos[h].destinos = <<>>
  <2>1. h \in DOMAIN Cursos /\ Cursos[h] = Curso(h)
    BY CursoDe
  <2>2. envio[h].enviados = <<>>
    BY DEF Mandados
  <2>3. QED
    BY <2>1, <2>2 DEF Curso
<1>3. Vuelan' = Vuelan /\ Conocidas' = Conocidas
  BY DEF Vuelan, EnVuelo, Conocidas
<1>4. Promesa!Abandonar(h)
  BY <1>1, <1>2, <1>3 DEF Promesa!Abandonar, Promesa!Dejar
<1>5. QED
  BY <1>4 DEF PasoPromesa, Promesa!Next

LEMMA PasoRepartir ==
  ASSUME IInv, Llegadas, NEW h \in Hilos, Repartir(h) PROVE PasoPromesa
<1> DEFINE e == envio[h]
<1>1. e.pc = "reparte" /\ e \in EnCurso /\ Mandados(h)
  BY Almacena DEF IInv, Repartir, Llegadas
<1>2. \/ Morir
      \/ /\ \E a, b :
              envio' = [envio EXCEPT
                         ![h].idx = @ \o <<a, b>>,
                         ![h].cant = Gastar(@, {a, b}),
                         ![h].pc = IF Len(e.idx) + 2 = 2 * e.nb THEN "envia" ELSE @]
         /\ UNCHANGED <<cola, aNodo, aFS, cpfrom, metadata, terminados, viva>>
      \/ SinLugar(h) /\ UNCHANGED <<cola, aNodo, aFS, cpfrom, metadata, terminados, viva>>
  BY DEF Repartir, fsArchivos, red, nodo
<1>3. ASSUME NEW a, NEW b,
             envio' = [envio EXCEPT
                         ![h].idx = @ \o <<a, b>>,
                         ![h].cant = Gastar(@, {a, b}),
                         ![h].pc = IF Len(e.idx) + 2 = 2 * e.nb THEN "envia" ELSE @],
             UNCHANGED <<cola, aNodo, aFS, cpfrom, metadata, terminados, viva>>
      PROVE  PasoPromesa
  <2> DEFINE f == [e EXCEPT !.idx = @ \o <<a, b>>,
                            !.cant = Gastar(@, {a, b}),
                            !.pc = IF Len(e.idx) + 2 = 2 * e.nb THEN "envia" ELSE @]
  <2>1. envio' = [envio EXCEPT ![h] = f]
    BY <1>3
  <2>2. f.nombre = e.nombre /\ f.nb = e.nb /\ f.enviados = e.enviados /\ f.pc # "libre"
    BY <1>1 DEF EnCurso
  <2> HIDE DEF f
  <2>3. Cursos' = [g \in DOMAIN Cursos \cup {h} |->
                     IF g = h THEN [nombre |-> f.nombre, bloques |-> f.nb, destinos |-> f.enviados]
                     ELSE Cursos[g]]
    BY <2>1, <2>2, CursosCon DEF IInv
  <2>4. h \in DOMAIN Cursos
        /\ Cursos[h] = [nombre |-> f.nombre, bloques |-> f.nb, destinos |-> f.enviados]
    BY <1>1, <2>2, CursoDe DEF Curso
  <2>5. Cursos' = Cursos
    BY <2>3, <2>4 DEF Cursos
  <2>6. Vuelan' = Vuelan /\ Conocidas' = Conocidas
    BY <1>3 DEF Vuelan, EnVuelo, Conocidas
  <2>7. QED
    BY <1>3, <2>5, <2>6 DEF PasoPromesa, Promesa!vars
<1>4. QED
  BY <1>1, <1>2, <1>3, PasoMorir, PasoSinLugar

LEMMA PasoEnviar ==
  ASSUME IInv, Presentes, Parejas, Llegadas, NEW h \in Hilos, EnviarCopia(h), TypeOK'
  PROVE  PasoPromesa
<1> DEFINE e == envio[h]
           q == e.enviados
           k == Len(q)
           n == datanodes[IndiceDe(e) + 1]
           j == PrimerLibre(n)
<1>1. /\ e.pc = "envia" /\ ~cpfrom /\ cpfrom' = TRUE /\ k < 2 * e.nb
      /\ UNCHANGED <<cola, metadata, terminados, viva>>
  BY DEF EnviarCopia, TomarCpfrom, nodo
<1>2. n \in Nodos /\ j \in Numeros /\ k \in Nat
  BY UnaMas
<1>3. h \in DOMAIN Cursos /\ Cursos[h] = [nombre |-> e.nombre, bloques |-> e.nb, destinos |-> q]
  BY <1>1, CursoDe DEF Curso
<1>0. Cursos[h].nombre = e.nombre /\ Cursos[h].bloques = e.nb /\ Cursos[h].destinos = q
  BY <1>3
<1>4. Cursos' = [Cursos EXCEPT ![h].destinos = Append(Cursos[h].destinos, <<n, j>>)]
  <2>1. PICK f \in EnCurso :
          /\ envio' = [envio EXCEPT ![h] = f]
          /\ f.nombre = e.nombre /\ f.nb = e.nb /\ f.pc \in {"envia", "cierra"}
          /\ f.enviados = Append(q, <<n, j>>)
    BY Enviada DEF IInv
  <2> HIDE DEF n, j
  <2>2. Cursos' = [g \in DOMAIN Cursos \cup {h} |->
                     IF g = h THEN [nombre |-> f.nombre, bloques |-> f.nb, destinos |-> f.enviados]
                     ELSE Cursos[g]]
    BY <2>1, CursosCon DEF IInv
  <2> DEFINE R == [nombre |-> e.nombre, bloques |-> e.nb, destinos |-> Append(q, <<n, j>>)]
  <2>3. R = [Cursos[h] EXCEPT !.destinos = Append(q, <<n, j>>)]
    <3>1. \A a, b, c, d : [nombre |-> a, bloques |-> b, destinos |-> d]
                          = [[nombre |-> a, bloques |-> b, destinos |-> c] EXCEPT !.destinos = d]
      OBVIOUS
    <3>2. PICK a, b, c, d : a = e.nombre /\ b = e.nb /\ c = q /\ d = Append(q, <<n, j>>)
      OBVIOUS
    <3> HIDE DEF q, e, k, R
    <3>3. Cursos[h] = [nombre |-> a, bloques |-> b, destinos |-> c]
      BY <1>3, <3>2
    <3>4. [Cursos[h] EXCEPT !.destinos = d] = [nombre |-> a, bloques |-> b, destinos |-> d]
      BY <3>1, <3>3
    <3>5. R = [nombre |-> a, bloques |-> b, destinos |-> d]
      BY <3>2 DEF R
    <3>6. QED
      BY <3>2, <3>4, <3>5
  <2> HIDE DEF R, q, k, e
  <2>4. Cursos' = [g \in DOMAIN Cursos |-> IF g = h THEN R ELSE Cursos[g]]
    BY <1>3, <2>1, <2>2 DEF R
  <2>5. Cursos = [g \in DOMAIN Cursos |-> Cursos[g]]
    BY DEF Cursos
  <2>6. QED
    BY <1>0, <1>3, <2>3, <2>4, <2>5
<1>5. Vuelan' = IF n \in viva THEN {Promesa!Envio(e.nombre, k, n, j)} ELSE {}
  <2>1. PICK m \in Nodos, c \in Copia :
          /\ m = n
          /\ c.nombre = e.nombre /\ c.bloque = k \div 2 /\ c.copia = k % 2 /\ c.numero = PrimerLibre(m)
          /\ \A o \in Nodos : EnVuelo(o)' \subseteq {c}
          /\ \A o \in Nodos \ {m} : EnVuelo(o)' = {}
          /\ IF m \in viva THEN c \in EnVuelo(m)' ELSE EnVuelo(m)' = {}
    BY VuelaEnviada DEF IInv
  <2>2. CopiaEn(c, m) = Promesa!Envio(e.nombre, k, n, j)
    BY <2>1 DEF CopiaEn, Promesa!Envio
  <2> HIDE DEF n, j, e, q, k
  <2>3. CASE n \in viva
    <3>1. EnVuelo(m)' = {c}
      BY <2>1, <2>3
    <3>2. Vuelan' = {CopiaEn(c, m)}
      BY <2>1, <3>1, VuelaUna
    <3>3. QED
      BY <2>2, <2>3, <3>2
  <2>4. CASE n \notin viva
    <3>1. \A o \in Nodos : EnVuelo(o)' = {}
      BY <2>1, <2>4
    <3>2. QED
      BY <2>4, <3>1, VuelanNinguna
  <2>5. QED
    BY <2>3, <2>4
<1>6. Vuelan = {} /\ Conocidas' = Conocidas
  BY <1>1, VuelanNinguna, PorPartes DEF Conocidas, IInv, Tomado
<1>7. ASSUME k % 2 = 1, viva = Nodos PROVE n # q[k][1]
  <2>1. EnPares(e.idx) /\ Mandados(h)
    BY <1>1 DEF Parejas, Llegadas
  <2>2. e \in EnCurso /\ IndiceDe(e) = e.idx[k + 1] /\ IndiceDe(e) + 1 \in DOMAIN datanodes
    BY AlEnviar DEF IInv
  <2>3. k \in DOMAIN q
    <3>1. DOMAIN q = 1..k
      BY UnaMas
    <3> HIDE DEF k
    <3>2. QED
      BY <1>2, <1>7, <3>1
  <2>4. k \in DOMAIN e.idx /\ q[k][1] = Orden[e.idx[k] + 1]
    BY <1>7, <2>1, <2>3 DEF Mandados
  <2>5. k + 1 \in DOMAIN e.idx /\ e.idx[k] # e.idx[k + 1]
    BY <1>7, <2>1, <2>4 DEF EnPares
  <2>6. e.idx \in Seq(0..(Len(Orden) - 1))
    BY <2>2 DEF EnCurso
  <2> DEFINE a == e.idx[k]
             b == e.idx[k + 1]
  <2>7. a \in 0..(Len(Orden) - 1) /\ b \in 0..(Len(Orden) - 1) /\ a # b
    BY <2>4, <2>5, <2>6
  <2>8. n = datanodes[b + 1] /\ q[k][1] = Orden[a + 1]
    BY <2>2, <2>4
  <2> HIDE DEF a, b
  <2>9. a + 1 \in DOMAIN Orden /\ b + 1 \in DOMAIN Orden
    <3>1. Len(Orden) \in Nat /\ DOMAIN Orden = 1..Len(Orden)
      BY Instancia
    <3>2. QED
      BY <2>7, <3>1
  <2>10. a + 1 # b + 1
    BY <2>7
  <2>11. Orden[a + 1] # Orden[b + 1]
    BY <2>9, <2>10, OrdenSinRepetir
  <2>12. datanodes = Orden
    BY <1>7 DEF Presentes
  <2>13. QED
    BY <2>8, <2>11, <2>12
<1>8. Promesa!Enviar(h, n, j)
  <2> HIDE DEF n, j, e, q
  <2>1. QED
    BY <1>0, <1>1, <1>3, <1>4, <1>5, <1>6, <1>7 DEF Promesa!Enviar
<1>9. QED
  BY <1>2, <1>8 DEF PasoPromesa, Promesa!Next

LEMMA PasoCerrar ==
  ASSUME IInv, Llegadas, NEW h \in Hilos, Cerrar(h) PROVE PasoPromesa
<1> DEFINE e == envio[h]
<1>1. CASE Morir
  BY <1>1, PasoMorir
<1>2. CASE ~Morir
  <2>1. /\ e.pc = "cierra" \/ (e.pc = "envia" /\ Len(e.enviados) = 2 * e.nb)
        /\ terminados' = IF e.pc = "envia" THEN terminados \cup {e.nombre} ELSE terminados
        /\ envio' = [envio EXCEPT ![h] = Libre(1)]
        /\ UNCHANGED <<cola, aNodo, aFS, cpfrom, metadata, viva>>
    BY <1>2 DEF Cerrar, red, nodo
  <2>2. Cursos' = [g \in DOMAIN Cursos \ {h} |-> Cursos[g]]
    BY <2>1, CursosSin DEF IInv
  <2>3. h \in DOMAIN Cursos
        /\ Cursos[h] = [nombre |-> e.nombre, bloques |-> e.nb, destinos |-> e.enviados]
    BY <2>1, CursoDe DEF Curso
  <2>4. Vuelan' = Vuelan /\ Conocidas' = Conocidas
    BY <2>1 DEF Vuelan, EnVuelo, Conocidas
  <2>5. Promesa!Dejar(h)
    BY <2>1, <2>2, <2>3, <2>4 DEF Promesa!Dejar
  <2>6. CASE e.pc = "envia"
    <3>1. Promesa!Cerrar(h)
      BY <2>1, <2>3, <2>5, <2>6 DEF Promesa!Cerrar
    <3>2. QED
      BY <3>1 DEF PasoPromesa, Promesa!Next
  <2>7. CASE e.pc = "cierra"
    <3>1. \E i \in DOMAIN e.enviados : e.enviados[i][1] \notin viva
      BY <2>7 DEF Llegadas, Mandados
    <3>2. Promesa!Abandonar(h)
      BY <2>1, <2>3, <2>5, <2>7, <3>1 DEF Promesa!Abandonar
    <3>3. QED
      BY <3>2 DEF PasoPromesa, Promesa!Next
  <2>8. QED
    BY <2>1, <2>6, <2>7
<1>3. QED
  BY <1>1, <1>2

LEMMA PasoCaer ==
  ASSUME IInv, NEW n \in Nodos, GuardarFuera(n) \/ Caer(n) PROVE PasoPromesa
<1>1. /\ n \in viva /\ viva' = viva \ {n}
      /\ UNCHANGED <<cola, envio, cpfrom, metadata, terminados>>
  BY DEF GuardarFuera, Caer, fsArchivos, hilo
<1>2. Cursos' = Cursos /\ Conocidas' = Conocidas
  BY <1>1 DEF Cursos, Curso, Conocidas
<1>3. Promesa!Caer(n)
  BY <1>1, <1>2, VuelaAlCaer DEF IInv, Promesa!Caer
<1>4. QED
  BY <1>1, <1>3 DEF PasoPromesa, Promesa!Next

LEMMA UnaConocidaMas ==
  ASSUME NEW n, NEW c, Registrar(n, c),
         \A z \in metadata : ~(z.nombre = c.nombre /\ z.bloque = c.bloque /\ z.copia = c.copia)
  PROVE  Conocidas' = Conocidas \cup {CopiaEn(c, n)}
<1> DEFINE r == [nombre |-> c.nombre, dir |-> actuales[n][c.nombre], bloque |-> c.bloque,
                 copia |-> c.copia, nodo |-> n, numero |-> c.numero]
<1>1. \A z : z \in metadata' <=>
        z = r \/ (z \in metadata /\ ~(z.nombre = c.nombre /\ z.dir = actuales[n][c.nombre]
                                    /\ z.bloque = c.bloque /\ z.copia = c.copia))
  BY DEF Registrar, EntradaDe, Poner
<1>2. CopiaEn(r, r.nodo) = CopiaEn(c, n)
  BY DEF CopiaEn
<1> HIDE DEF r
<1>3. \A z : z \in metadata' <=> z = r \/ z \in metadata
  BY <1>1
<1>4. metadata' = metadata \cup {r}
  BY <1>3
<1>5. QED
  BY <1>2, <1>4 DEF Conocidas

LEMMA PasoResultado ==
  ASSUME IInv, Unicas, NEW n \in Nodos, ResultadoFinal(n) \/ ResultadoParcial(n)
  PROVE  PasoPromesa
<1> DEFINE x == Head(aFS[n]).copia
           c == CopiaEn(x, n)
<1>1. LeerResultado(n) /\ UNCHANGED <<cola, envio, terminados, viva>>
  BY DEF ResultadoFinal, ResultadoParcial, LeerResultado, hilo, nodo
<1>2. EnVuelo(n) = {x} /\ (\A m \in Nodos \ {n} : EnVuelo(m) = {}) /\ \A m \in Nodos : EnVuelo(m)' = {}
  BY <1>1, VuelaLeida DEF IInv
<1>3. Vuelan = {c} /\ Vuelan' = {}
  BY <1>2, VuelaUna, VuelanNinguna
<1>4. actuales[n][x.nombre] # Sin
  BY <1>2 DEF IInv, UnaEnVuelo
<1>5. /\ cpfrom' = FALSE
      /\ Registrar(n, x) \/ (metadata' = metadata /\ x.nombre \notin terminados)
  BY <1>4 DEF ResultadoFinal, ResultadoParcial, SoltarMutexes
<1>6. Promesa!Responder(c) /\ Cursos' = Cursos
  BY <1>1, <1>3, <1>5 DEF Promesa!Responder, Cursos, Curso
<1>7. CASE Registrar(n, x)
  <2>1. \A z \in metadata : ~(z.nombre = x.nombre /\ z.bloque = x.bloque /\ z.copia = x.copia)
    BY <1>2 DEF Unicas
  <2>5. Conocidas' = Conocidas \cup {c}
    BY <1>7, <2>1, UnaConocidaMas
  <2>6. \A d \in Conocidas : ~Promesa!EsLaMisma(c, d)
    BY <2>1 DEF Conocidas, CopiaEn, Promesa!EsLaMisma
  <2> HIDE DEF c, x
  <2>7. Promesa!Registrar(c)
    BY <1>1, <1>6, <2>5, <2>6 DEF Promesa!Registrar
  <2>8. QED
    BY <1>3, <2>7 DEF PasoPromesa, Promesa!Next
<1>8. CASE metadata' = metadata /\ x.nombre \notin terminados
  <2>1. Conocidas' = Conocidas /\ c.nombre \notin terminados
    BY <1>8 DEF Conocidas, CopiaEn
  <2> HIDE DEF c, x
  <2>2. Promesa!Rechazar(c)
    BY <1>1, <1>6, <2>1 DEF Promesa!Rechazar
  <2>3. QED
    BY <1>3, <2>2 DEF PasoPromesa, Promesa!Next
<1>9. QED
  BY <1>5, <1>7, <1>8

LEMMA PasoUno ==
  ASSUME IInv, IInv2, IInv4, [Next]_vars, TypeOK' PROVE PasoPromesa
<1>1. Presentes /\ Parejas /\ Nuevos /\ Unicas /\ Llegadas
  BY DEF IInv2, IInv4
<1>2. ASSUME UNCHANGED <<cola, envio, aNodo, aFS, cpfrom, metadata, terminados, viva>>
      PROVE  PasoPromesa
  BY <1>2, PasoQuieto DEF Vuelan, EnVuelo
<1>3. CASE UNCHANGED vars
  BY <1>2, <1>3 DEF vars, hilo, red, fsArchivos, nodo
<1>4. ASSUME NEW h \in Hilos, PasoHilo(h) PROVE PasoPromesa
  <2>1. CASE CortarBasura(h) \/ EnviarMuere(h)
    BY <2>1, PasoMorir DEF CortarBasura, EnviarMuere
  <2>2. QED
    BY <1>1, <1>4, <2>1, PasoEmpezar, PasoRepartir, PasoEnviar, PasoCerrar DEF PasoHilo
<1>5. ASSUME NEW n \in Nodos, PasoNodo(n) \/ Caer(n) PROVE PasoPromesa
  <2>1. CASE Guardar(n)
    <3>1. Vuelan' = Vuelan
      BY <2>1, VuelaGuardada DEF IInv, Vuelan
    <3>2. QED
      BY <2>1, <3>1, PasoQuieto DEF Guardar, hilo, fsArchivos
  <2>2. CASE Desconectar(n)
    BY <1>2, <2>2 DEF Desconectar, hilo, red, fsArchivos, nodo
  <2>3. QED
    BY <1>1, <1>5, <2>1, <2>2, PasoCaer, PasoResultado DEF PasoNodo
<1>6. QED
  BY <1>3, <1>4, <1>5 DEF Next

LEMMA PromesaAlPrincipio == Init => Promesa!Init
<1> SUFFICES ASSUME Init PROVE Promesa!Init
  OBVIOUS
<1>1. {g \in Hilos : envio[g].pc # "libre"} = {}
  BY DEF Init, Libre
<1>2. Cursos = [h \in {} |-> 0]
  BY <1>1 DEF Cursos
<1>3. \A n \in Nodos : EnVuelo(n) = {}
  BY DEF Init, EnVuelo
<1>4. Vuelan = {}
  BY <1>3, VuelanNinguna
<1>5. QED
  BY <1>2, <1>4 DEF Init, Promesa!Init, Conocidas

(* Whatever dies or fails, the storings of FileSystem are what               *)
(* Almacenamiento promises of files of different names, for any threads,     *)
(* nodes and files: one copy at a time goes out, in order, and it is         *)
(* registered once and where it was sent; one that a node took with it is    *)
(* waited for for ever, because only its answer releases mutex_cpfrom        *)
(* (551, 1247, 4284); a file is given up only for want of room or for a      *)
(* node that died (4268, 4287-4294).                                         *)
THEOREM CumplePromesaDeAlmacenar ==
  ASSUME NombresDistintos PROVE Spec => ImplementaAlmacenamiento
<1>1. ASSUME IInv, IInv2, IInv4, [Next]_vars, IInv' PROVE [Promesa!Next]_Promesa!vars
  BY <1>1, PasoUno DEF PasoPromesa, IInv
<1>2. QED
  BY <1>1, PromesaAlPrincipio, Inductivo4, PTL DEF Spec, ImplementaAlmacenamiento, Promesa!Spec
=============================================================================
