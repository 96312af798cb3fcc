-------------------------- MODULE FsBloques_proof --------------------------
(***************************************************************************)
(* rm and cpblock next to the storing of files, for any nodes, blocks,      *)
(* files, workers, commands and failures: as long as no send failed and no  *)
(* removed copy was saved again, the block of a registered copy is marked   *)
(* and holds what it should.                                                *)
(***************************************************************************)
EXTENDS FsBloques, FsAlmacenar_proof

Bloques == 0..(Total - 1)
Contenido == Dato \cup {Vacio}
Destinos == Nodos \cup {SinNombre}

(* What is on its way to a node and back. *)
Get == [tipo : {"GETBLOQUE"}, numero : Bloques, para : Destinos]
CopiaNueva == [tipo : {"SETBLOQUECPTO"}, nombre : Nombres, dir : Dirs, bloque : 0..MaxBloques,
               numero : Numeros, dato : Contenido]
Mensaje == Copia \cup Get \cup CopiaNueva

Resultado == [tipo : {"RESULOPERACION"}, copia : {c \in Copia : c.numero < Total}, res : Resultados]
Traido == [tipo : {"RESPUESTAGETBLOQUE"}, dato : Contenido, para : Destinos]
Copiada == [tipo : {"RESPUESTASETBLOQUECPTO"}, nombre : Nombres, dir : Dirs,
            bloque : 0..MaxBloques, numero : Bloques, res : Resultados]
Contestado == Resultado \cup Traido \cup Copiada

Entrada == [nombre : Nombres, dir : Dirs, bloque : 0..MaxBloques, copia : 0..2, nodo : Nodos,
            numero : Bloques]

OrdenRm == [pc : {"recuenta", "quita"}, nombre : Nombres, dir : Dirs]
OrdenCp == [pc : {"espera"}, nombre : Nombres, dir : Dirs, bloque : 0..MaxBloques, nodo : Nodos]

(* A registration: what was read of the metadata of a file, with the entry. *)
Cargado == [pc : {"lee", "graba", "otra", "relee"}, de : {"final", "parcial", "copia"},
            doble : BOOLEAN, nueva : Entrada, copias : SUBSET Entrada]

TiposRed ==
  /\ metadata \subseteq Entrada
  /\ aNodo \in [Nodos -> Seq(Mensaje)]
  /\ aFS \in [Nodos -> Seq(Contestado)]
  /\ disco \in [Nodos -> [Bloques -> Contenido]]

TiposOrdenes ==
  /\ orden \in {Parado} \cup OrdenRm \cup OrdenCp
  /\ cpblock \in [dato : Contenido, para : Destinos]
  /\ ordenCp \in BOOLEAN
  /\ cargada \in [Nodos -> {SinCargar} \cup Cargado]

(* A message is about a copy of a cpfrom, a block read for a cpblock, or the *)
(* copy a cpblock makes.                                                     *)
Clase(m) ==
  IF m.tipo \in {"SETBLOQUE", "RESULOPERACION"} THEN "copia"
  ELSE IF m.tipo \in {"GETBLOQUE", "RESPUESTAGETBLOQUE"} THEN "get" ELSE "nueva"

(* The block of the node that is or was written for it, if there is one. *)
Bloque(m) == IF m.tipo = "RESULOPERACION" THEN m.copia.numero ELSE m.numero
Escribe(m) == Clase(m) # "get" /\ Bloque(m) < Total

Tiene(k, q) == \E i \in DOMAIN q : Clase(q[i]) = k
UnoDe(k, q) == \A i, j \in DOMAIN q : Clase(q[i]) = k /\ Clase(q[j]) = k => i = j
Hay(k, n) == Tiene(k, aNodo[n]) \/ Tiene(k, aFS[n])
Ninguno(k) == \A n \in Nodos : ~Hay(k, n)

(* One message of a class at most, on its way to a node or back. *)
Unico(k) ==
  \A n \in Nodos :
    /\ UnoDe(k, aNodo[n]) /\ UnoDe(k, aFS[n])
    /\ ~(Tiene(k, aNodo[n]) /\ Tiene(k, aFS[n]))
    /\ Hay(k, n) => \A m \in Nodos \ {n} : ~Hay(k, m)

(* The console waits for one block, which is for the node it named or for a  *)
(* node without name.                                                        *)
Receptores == {orden.nodo, SinNombre}
UnaOrden ==
  /\ Unico("get")
  /\ orden.pc # "espera" => Ninguno("get") /\ ~ordenCp
  /\ ordenCp => Ninguno("get") /\ cpblock.para \in Receptores
  /\ \A n \in Nodos :
       /\ \A m \in ToSet(aNodo[n]) : Clase(m) = "get" => m.para \in Receptores
       /\ \A m \in ToSet(aFS[n]) : Clase(m) = "get" => m.para \in Receptores

(* The blocks of node n that messages on their way are to write or wrote. *)
Usados(q) == {Bloque(m) : m \in {x \in ToSet(q) : Escribe(x)}}
Distintos(q) ==
  \A i, j \in DOMAIN q : i # j /\ Escribe(q[i]) /\ Escribe(q[j]) => Bloque(q[i]) # Bloque(q[j])

(* Every block on its way is marked, and is of one message. *)
EnUso(n) == Usados(aNodo[n]) \cup Usados(aFS[n])
Sueltos(n) ==
  /\ Usados(aNodo[n]) \cap Usados(aFS[n]) = {}
  /\ Distintos(aNodo[n]) /\ Distintos(aFS[n])
EnCamino == \A n \in Nodos : EnUso(n) \subseteq bitmap[n] /\ Sueltos(n)

(* So is the one of every registered copy, and no message or other file has *)
(* it.                                                                       *)
Vigentes == {r \in metadata : ~Borrandose(r)}
MismoArchivo(r, s) == r.nombre = s.nombre /\ r.dir = s.dir
Registrados ==
  /\ \A r \in Vigentes : r.numero \in bitmap[r.nodo] \ EnUso(r.nodo)
  /\ \A r, s \in Vigentes : r.nodo = s.nodo /\ r.numero = s.numero => MismoArchivo(r, s)

Bits == SinDudas => EnCamino /\ Registrados

InvBits == Base /\ Repartos /\ TiposRed /\ TiposOrdenes /\ UnaOrden /\ Bits

-----------------------------------------------------------------------------
Del(x) == [nombre |-> x.nombre, dir |-> x.dir, bloque |-> x.bloque]

(* Copies of a cpfrom on their way to node n or back. *)
Volantes(n) ==
  {m \in ToSet(aNodo[n]) : m.tipo = "SETBLOQUE"}
  \cup {x.copia : x \in {y \in ToSet(aFS[n]) : y.tipo = "RESULOPERACION"}}

(* The answer of a copy of a cpfrom that is being registered was taken.      *)
EnRegistro(n) == cargada[n].pc \in {"graba", "otra", "relee"} /\ cargada[n].de # "copia"

(* One at most, and mutex_cpfrom is taken until it is registered. *)
UnaCopia ==
  /\ Unico("copia") /\ (~Ninguno("copia") => cpfrom)
  /\ \A n \in Nodos : EnRegistro(n) =>
       cpfrom /\ Ninguno("copia") /\ \A m \in Nodos : EnRegistro(m) => m = n

(* A file that began to be stored; that was closed. *)
Empezado(a, d) ==
  \E h \in Hilos : \E i \in 1..Empezados(h) : Pedidos[h][i].nombre = a /\ Pedidos[h][i].dir = d
Acabado(a) ==
  \E h \in Hilos : \E i \in 1..Empezados(h) :
    Pedidos[h][i].nombre = a /\ (i = Empezados(h) => envio[h].pc = "libre")

DeEmpezados ==
  /\ \A a \in terminados : Acabado(a)
  /\ \A n \in Nodos : \A c \in Volantes(n) : Empezado(c.nombre, c.dir)

(* The copy on its way of a file stored once is the last that was sent. *)
Reciente ==
  \A n \in Nodos : \A c \in Volantes(n) : PedidaUnaVez(c.nombre) =>
    /\ \A h \in Hilos : envio[h].pc # "libre" /\ envio[h].nombre = c.nombre =>
         LET k == Len(envio[h].enviados)
         IN k # 0 /\ c.bloque = (k - 1) \div 2 /\ c.copia = (k - 1) % 2
    /\ c.nombre \in terminados => EsLaUltima(c)

(* Entry r is of answer x: the copy of a cpfrom that was written, or of a file *)
(* that is finished, or the one that was made for a cpblock.                 *)
Registra(r, x) ==
  \/ /\ x \in Resultado /\ r.nombre = x.copia.nombre /\ r.bloque = x.copia.bloque
     /\ r.copia = x.copia.copia /\ r.numero = x.copia.numero
     /\ EsPedido(r.nombre, r.dir)
     /\ x.res = 1 \/ x.copia.nombre \in terminados
  \/ x \in Copiada /\ x.res = 1 /\ MismoArchivo(r, x) /\ Del(r) = Del(x) /\ r.numero = x.numero

(* What was read is for the answer that is still the next to read. *)
Cargadas ==
  \A n \in Nodos : cargada[n].pc = "lee" =>
    /\ aFS[n] # <<>> /\ cargada[n].nueva.nodo = n
    /\ Registra(cargada[n].nueva, Head(aFS[n]))
    /\ cargada[n].de # "copia" => Head(aFS[n]) \in Resultado

InvEnvios == Colas /\ Directorios /\ UnaCopia /\ DeEmpezados /\ Reciente /\ Cargadas

(* Of the files stored once, every message brings the block it says: the copy *)
(* a cpblock makes, the block it reads and what is brought back to it.        *)
CopiaDicha ==
  \A n \in Nodos : \A m \in ToSet(aNodo[n]) :
    m.tipo = "SETBLOQUECPTO" /\ PedidaUnaVez(m.nombre) => m.dato = Del(m)
PideBien ==
  \A n \in Nodos : \A m \in ToSet(aNodo[n]) :
    m.tipo = "GETBLOQUE" /\ m.para # SinNombre /\ PedidaUnaVez(orden.nombre) =>
      disco[n][m.numero] = Del(orden) /\ m.numero \in bitmap[n] \ Usados(aNodo[n])
Escrita ==
  \A n \in Nodos : \A x \in ToSet(aFS[n]) :
    x.tipo = "RESULOPERACION" /\ x.res = 1 => disco[n][x.copia.numero] = Del(x.copia)
CopiaEscrita ==
  \A n \in Nodos : \A x \in ToSet(aFS[n]) :
    x.tipo = "RESPUESTASETBLOQUECPTO" /\ x.res = 1 /\ PedidaUnaVez(x.nombre) =>
      disco[n][x.numero] = Del(x)
TraeBien ==
  \A n \in Nodos : \A x \in ToSet(aFS[n]) :
    x.tipo = "RESPUESTAGETBLOQUE" /\ x.para # SinNombre /\ PedidaUnaVez(orden.nombre) =>
      x.dato = Del(orden)
EnLaConsola ==
  ordenCp /\ cpblock.para # SinNombre /\ PedidaUnaVez(orden.nombre) => cpblock.dato = Del(orden)

Datos ==
  SinDudas => /\ CopiaDicha /\ PideBien /\ Escrita /\ CopiaEscrita /\ TraeBien /\ EnLaConsola
              /\ CopiasLegibles

InvDatos == InvBits /\ InvEnvios /\ Datos

-----------------------------------------------------------------------------
(* A message of a type is in the set of those of its type. *)
LEMMA QueMensaje ==
  ASSUME NEW m \in Mensaje
  PROVE  \/ m \in Copia /\ m.tipo = "SETBLOQUE"
         \/ m \in Get /\ m.tipo = "GETBLOQUE"
         \/ m \in CopiaNueva /\ m.tipo = "SETBLOQUECPTO"
BY DEF Mensaje, Copia, Get, CopiaNueva

LEMMA QueContestado ==
  ASSUME NEW x \in Contestado
  PROVE  \/ x \in Resultado /\ x.tipo = "RESULOPERACION"
         \/ x \in Traido /\ x.tipo = "RESPUESTAGETBLOQUE"
         \/ x \in Copiada /\ x.tipo = "RESPUESTASETBLOQUECPTO"
BY DEF Contestado, Resultado, Traido, Copiada

(* A list without its head. *)
LEMMA SinPrimero ==
  ASSUME NEW S, NEW q \in Seq(S), q # <<>>
  PROVE  /\ Head(q) \in S /\ Tail(q) \in Seq(S) /\ 1 \in DOMAIN q /\ q[1] = Head(q)
         /\ \A i \in DOMAIN Tail(q) : i \in Nat \ {0} /\ i + 1 \in DOMAIN q /\ Tail(q)[i] = q[i + 1]
         /\ \A i \in DOMAIN q : i # 1 => i - 1 \in DOMAIN Tail(q) /\ q[i] = Tail(q)[i - 1]
OBVIOUS

(* A list with one more. *)
LEMMA ConOtro ==
  ASSUME NEW S, NEW q \in Seq(S), NEW x \in S
  PROVE  /\ Append(q, x) \in Seq(S)
         /\ DOMAIN q \subseteq DOMAIN Append(q, x) /\ \A i \in DOMAIN q : Append(q, x)[i] = q[i]
         /\ \E z : /\ z \notin DOMAIN q /\ z \in DOMAIN Append(q, x) /\ Append(q, x)[z] = x
                   /\ \A i \in DOMAIN Append(q, x) : i = z \/ i \in DOMAIN q
<1>1. /\ Len(q) \in Nat /\ DOMAIN q = 1..Len(q)
      /\ Append(q, x) \in Seq(S) /\ DOMAIN Append(q, x) = 1..(Len(q) + 1)
      /\ Append(q, x)[Len(q) + 1] = x /\ \A i \in DOMAIN q : Append(q, x)[i] = q[i]
  OBVIOUS
<1> DEFINE z == Len(q) + 1
<1>2. /\ z \notin DOMAIN q /\ z \in DOMAIN Append(q, x)
      /\ \A i \in DOMAIN Append(q, x) : i = z \/ i \in DOMAIN q
      /\ DOMAIN q \subseteq DOMAIN Append(q, x)
  BY <1>1
<1>3. QED
  BY <1>1, <1>2

LEMMA Elementos ==
  ASSUME NEW S, NEW q \in Seq(S)
  PROVE  /\ \A x \in S : ToSet(Append(q, x)) = ToSet(q) \cup {x}
         /\ q # <<>> => ToSet(q) = {Head(q)} \cup ToSet(Tail(q))
         /\ ToSet(q) \subseteq S
<1>1. ASSUME NEW x \in S PROVE ToSet(Append(q, x)) = ToSet(q) \cup {x}
  <2> DEFINE a == Append(q, x)
  <2>1. /\ DOMAIN q \subseteq DOMAIN a /\ \A i \in DOMAIN q : a[i] = q[i]
        /\ \E z : /\ z \in DOMAIN a /\ a[z] = x
                  /\ \A i \in DOMAIN a : i = z \/ i \in DOMAIN q
    BY ConOtro
  <2> HIDE DEF a
  <2>2. QED
    BY <2>1 DEF ToSet, a
<1>2. ASSUME q # <<>> PROVE ToSet(q) = {Head(q)} \cup ToSet(Tail(q))
  <2> DEFINE t == Tail(q)
             y == Head(q)
  <2>1. /\ 1 \in DOMAIN q /\ q[1] = y
        /\ \A i \in DOMAIN t : i + 1 \in DOMAIN q /\ t[i] = q[i + 1]
        /\ \A i \in DOMAIN q : i # 1 => i - 1 \in DOMAIN t /\ q[i] = t[i - 1]
    BY <1>2, SinPrimero
  <2> HIDE DEF t, y
  <2>2. \A i \in DOMAIN q : q[i] \in {y} \cup ToSet(t)
    BY <2>1 DEF ToSet
  <2>3. y \in ToSet(q) /\ \A i \in DOMAIN t : t[i] \in ToSet(q)
    BY <2>1 DEF ToSet
  <2>4. ToSet(q) \subseteq {y} \cup ToSet(t)
    BY <2>2 DEF ToSet
  <2>5. {y} \cup ToSet(t) \subseteq ToSet(q)
    BY <2>3 DEF ToSet
  <2>6. QED
    BY <2>4, <2>5 DEF t, y
<1>3. ToSet(q) \subseteq S
  BY DEF ToSet
<1>4. QED
  BY <1>1, <1>2, <1>3

(* Classes of messages in a list with one more and in one without its head. *)
LEMMA ClasesMas ==
  ASSUME NEW S, NEW q \in Seq(S), NEW x \in S, NEW k
  PROVE  /\ Tiene(k, Append(q, x)) <=> Tiene(k, q) \/ Clase(x) = k
         /\ UnoDe(k, q) /\ (Clase(x) = k => ~Tiene(k, q)) => UnoDe(k, Append(q, x))
<1> DEFINE a == Append(q, x)
<1>1. PICK z : /\ DOMAIN q \subseteq DOMAIN a /\ \A i \in DOMAIN q : a[i] = q[i]
               /\ z \notin DOMAIN q /\ z \in DOMAIN a /\ a[z] = x
               /\ \A i \in DOMAIN a : i = z \/ i \in DOMAIN q
  BY ConOtro
<1> HIDE DEF a
<1>2. Tiene(k, a) <=> Tiene(k, q) \/ Clase(x) = k
  BY <1>1 DEF Tiene
<1>3. UnoDe(k, q) /\ (Clase(x) = k => ~Tiene(k, q)) => UnoDe(k, a)
  BY <1>1 DEF Tiene, UnoDe
<1>4. QED
  BY <1>2, <1>3 DEF a

LEMMA ClasesMenos ==
  ASSUME NEW S, NEW q \in Seq(S), q # <<>>, NEW k
  PROVE  /\ Tiene(k, q) <=> Clase(Head(q)) = k \/ Tiene(k, Tail(q))
         /\ UnoDe(k, q) => UnoDe(k, Tail(q)) /\ (Clase(Head(q)) = k => ~Tiene(k, Tail(q)))
<1> DEFINE t == Tail(q)
           y == Head(q)
<1>1. /\ 1 \in DOMAIN q /\ q[1] = y
      /\ \A i \in DOMAIN t : i \in Nat \ {0} /\ i + 1 \in DOMAIN q /\ t[i] = q[i + 1]
      /\ \A i \in DOMAIN q : i # 1 => i - 1 \in DOMAIN t /\ q[i] = t[i - 1]
  BY SinPrimero
<1> HIDE DEF t, y
<1>2. Tiene(k, q) <=> Clase(y) = k \/ Tiene(k, t)
  BY <1>1 DEF Tiene
<1>3. ASSUME UnoDe(k, q) PROVE UnoDe(k, t)
  <2> SUFFICES ASSUME NEW i \in DOMAIN t, NEW j \in DOMAIN t, Clase(t[i]) = k, Clase(t[j]) = k
               PROVE  i = j
    BY DEF UnoDe
  <2>1. i + 1 = j + 1
    BY <1>1, <1>3 DEF UnoDe
  <2>2. QED
    BY <1>1, <2>1
<1>4. ASSUME UnoDe(k, q), Clase(y) = k, Tiene(k, t) PROVE FALSE
  <2>1. PICK i \in DOMAIN t : Clase(t[i]) = k
    BY <1>4 DEF Tiene
  <2>2. i + 1 = 1
    BY <1>1, <1>4, <2>1 DEF UnoDe
  <2>3. QED
    BY <1>1, <2>2
<1>5. QED
  BY <1>2, <1>3, <1>4 DEF t, y

(* The blocks that messages write in a list with one more, and without one. *)
LEMMA UsadosMas ==
  ASSUME NEW S, NEW q \in Seq(S), NEW x \in S
  PROVE  /\ Escribe(x) => Usados(Append(q, x)) = Usados(q) \cup {Bloque(x)}
         /\ ~Escribe(x) => Usados(Append(q, x)) = Usados(q)
         /\ Distintos(q) /\ (Escribe(x) => Bloque(x) \notin Usados(q)) => Distintos(Append(q, x))
<1> DEFINE a == Append(q, x)
<1>1. PICK z : /\ DOMAIN q \subseteq DOMAIN a /\ \A i \in DOMAIN q : a[i] = q[i]
               /\ z \notin DOMAIN q /\ z \in DOMAIN a /\ a[z] = x
               /\ \A i \in DOMAIN a : i = z \/ i \in DOMAIN q
  BY ConOtro
<1>2. ToSet(a) = ToSet(q) \cup {x}
  BY Elementos
<1> HIDE DEF a
<1>3. /\ Escribe(x) => Usados(a) = Usados(q) \cup {Bloque(x)}
      /\ ~Escribe(x) => Usados(a) = Usados(q)
  BY <1>2 DEF Usados
<1>4. \A i \in DOMAIN q : Escribe(q[i]) => Bloque(q[i]) \in Usados(q)
  BY DEF Usados, ToSet
<1>5. Distintos(q) /\ (Escribe(x) => Bloque(x) \notin Usados(q)) => Distintos(a)
  BY <1>1, <1>4 DEF Distintos
<1>6. QED
  BY <1>3, <1>5 DEF a

LEMMA UsadosMenos ==
  ASSUME NEW S, NEW q \in Seq(S), q # <<>>
  PROVE  /\ Escribe(Head(q)) => Usados(q) = Usados(Tail(q)) \cup {Bloque(Head(q))}
         /\ ~Escribe(Head(q)) => Usados(q) = Usados(Tail(q))
         /\ Distintos(q) => /\ Distintos(Tail(q))
                            /\ Escribe(Head(q)) => Bloque(Head(q)) \notin Usados(Tail(q))
<1> DEFINE t == Tail(q)
           y == Head(q)
<1>1. /\ 1 \in DOMAIN q /\ q[1] = y
      /\ \A i \in DOMAIN t : i \in Nat \ {0} /\ i + 1 \in DOMAIN q /\ t[i] = q[i + 1]
  BY SinPrimero
<1>2. ToSet(q) = {y} \cup ToSet(t)
  BY Elementos
<1> HIDE DEF t, y
<1>3. /\ Escribe(y) => Usados(q) = Usados(t) \cup {Bloque(y)}
      /\ ~Escribe(y) => Usados(q) = Usados(t)
  BY <1>2 DEF Usados
<1>4. ASSUME Distintos(q) PROVE Distintos(t)
  <2> SUFFICES ASSUME NEW i \in DOMAIN t, NEW j \in DOMAIN t, i # j, Escribe(t[i]), Escribe(t[j])
               PROVE  Bloque(t[i]) # Bloque(t[j])
    BY DEF Distintos
  <2>1. i + 1 # j + 1
    BY <1>1
  <2>2. QED
    BY <1>1, <1>4, <2>1 DEF Distintos
<1>5. ASSUME Distintos(q), Escribe(y), Bloque(y) \in Usados(t) PROVE FALSE
  <2>1. PICK i \in DOMAIN t : Escribe(t[i]) /\ Bloque(t[i]) = Bloque(y)
    BY <1>5 DEF Usados, ToSet
  <2>2. i + 1 # 1
    BY <1>1
  <2>3. QED
    BY <1>1, <1>5, <2>1, <2>2 DEF Distintos
<1>6. QED
  BY <1>3, <1>4, <1>5 DEF t, y

-----------------------------------------------------------------------------
(* The ways in which the messages of a node change. *)
Manda(n, m) == aNodo' = [aNodo EXCEPT ![n] = Append(@, m)] /\ aFS' = aFS
Contesta(n, x) ==
  /\ aNodo[n] # <<>> /\ aNodo' = [aNodo EXCEPT ![n] = Tail(@)]
  /\ aFS' = [aFS EXCEPT ![n] = Append(@, x)]
Lee(n) == aFS[n] # <<>> /\ aFS' = [aFS EXCEPT ![n] = Tail(@)] /\ aNodo' = aNodo
Pierde(n) == aNodo' = [aNodo EXCEPT ![n] = <<>>] /\ aFS' = aFS

LEMMA TiposMensajes ==
  ASSUME TiposRed, NEW n \in Nodos,
         \/ \E m \in Mensaje : Manda(n, m)
         \/ \E x \in Contestado : Contesta(n, x)
         \/ Lee(n) \/ Pierde(n) \/ UNCHANGED red
  PROVE  aNodo' \in [Nodos -> Seq(Mensaje)] /\ aFS' \in [Nodos -> Seq(Contestado)]
<1>1. aNodo \in [Nodos -> Seq(Mensaje)] /\ aFS \in [Nodos -> Seq(Contestado)]
  BY DEF TiposRed
<1>2. /\ \A m \in Mensaje : Append(aNodo[n], m) \in Seq(Mensaje)
      /\ \A x \in Contestado : Append(aFS[n], x) \in Seq(Contestado)
  BY <1>1, ConOtro
<1>3. /\ aNodo[n] # <<>> => Tail(aNodo[n]) \in Seq(Mensaje)
      /\ aFS[n] # <<>> => Tail(aFS[n]) \in Seq(Contestado)
  BY <1>1, SinPrimero
<1>4. <<>> \in Seq(Mensaje)
  OBVIOUS
<1>5. CASE \E m \in Mensaje : Manda(n, m)
  BY <1>1, <1>2, <1>5 DEF Manda
<1>6. CASE \E x \in Contestado : Contesta(n, x)
  BY <1>1, <1>2, <1>3, <1>6 DEF Contesta
<1>7. CASE Lee(n)
  BY <1>1, <1>3, <1>7 DEF Lee
<1>8. CASE Pierde(n)
  BY <1>1, <1>4, <1>8 DEF Pierde
<1>9. CASE UNCHANGED red
  BY <1>1, <1>9 DEF red
<1>10. QED
  BY <1>5, <1>6, <1>7, <1>8, <1>9

(* The head of what node n or FileSystem has to read. *)
LEMMA Primeros ==
  ASSUME TiposRed, NEW n \in Nodos
  PROVE  /\ aNodo[n] \in Seq(Mensaje) /\ aFS[n] \in Seq(Contestado)
         /\ aNodo[n] # <<>> => Head(aNodo[n]) \in Mensaje
         /\ aFS[n] # <<>> => Head(aFS[n]) \in Contestado
<1>1. aNodo[n] \in Seq(Mensaje) /\ aFS[n] \in Seq(Contestado)
  BY DEF TiposRed
<1>2. QED
  BY <1>1, SinPrimero

(* The send of a copy. *)
LEMMA HaceEnviar ==
  ASSUME Base, Repartos, NEW h \in Hilos, EnviarCopia(h)
  PROVE  \E n \in Nodos, c \in Copia :
           /\ c.nombre = envio[h].nombre /\ c.dir = envio[h].dir
           /\ c.bloque = Len(envio[h].enviados) \div 2 /\ c.copia = Len(envio[h].enviados) % 2
           /\ c.tipo = "SETBLOQUE" /\ c.numero \notin bitmap[n]
           /\ Manda(n, c) \/ UNCHANGED red
           /\ erroneos' = {} => bitmap' = Marcar(n, c.numero) /\ erroneos = {}
           /\ ~cpfrom /\ cpfrom' /\ Anotar(n, c.nombre, c.dir)
           /\ UNCHANGED <<datanodes, unico, terminados, metadata, disco, viva, fs, cola, fallos>>
<1> DEFINE e == envio[h]
           k == Len(e.enviados)
           n == datanodes[IndiceDe(e) + 1]
           c == [tipo |-> "SETBLOQUE", nombre |-> e.nombre, dir |-> e.dir, bloque |-> k \div 2,
                 copia |-> k % 2, numero |-> PrimerLibre(n)]
<1>1. n \in Nodos /\ c \in Copia
  BY BaseAlEnviar
<1>2. c.numero \notin bitmap[n]
  BY <1>1, BaseLibre
<1>3. /\ ~cpfrom /\ cpfrom' /\ Anotar(n, e.nombre, e.dir) /\ aFS' = aFS
      /\ UNCHANGED <<datanodes, unico, terminados, metadata, disco, viva, fs, cola, fallos>>
  BY DEF EnviarCopia, TomarCpfrom, nodo
<1>4. aNodo' = aNodo \/ aNodo' = [aNodo EXCEPT ![n] = Append(@, c)]
  BY DEF EnviarCopia
<1>5. \/ bitmap' = Marcar(n, PrimerLibre(n)) /\ erroneos' = erroneos
      \/ erroneos' = erroneos \cup {e.nombre}
  BY DEF EnviarCopia
<1>6. erroneos' = {} => bitmap' = Marcar(n, c.numero) /\ erroneos = {}
  BY <1>5
<1>7. /\ c.nombre = e.nombre /\ c.dir = e.dir /\ c.bloque = k \div 2 /\ c.copia = k % 2
      /\ c.tipo = "SETBLOQUE"
  OBVIOUS
<1> HIDE DEF c, n, k
<1>8. Manda(n, c) \/ UNCHANGED red
  BY <1>3, <1>4 DEF Manda, red
<1>9. QED
  BY <1>1, <1>2, <1>3, <1>6, <1>7, <1>8 DEF k

(* A datanode writes a copy of a cpfrom. *)
LEMMA HaceGuardar ==
  ASSUME TiposRed, NEW n \in Nodos, Guardar(n)
  PROVE  \E c \in Copia, r \in Resultados :
           /\ c = Head(aNodo[n]) /\ c.numero \in Bloques
           /\ [tipo |-> "RESULOPERACION", copia |-> c, res |-> r] \in Resultado
           /\ Contesta(n, [tipo |-> "RESULOPERACION", copia |-> c, res |-> r])
           /\ disco' = IF r = 1 THEN [disco EXCEPT ![n][c.numero] = Del(c)] ELSE disco
           /\ fallos' = fallos \/ (fallos < MaxFallos /\ fallos' = fallos + 1)
           /\ UNCHANGED <<datanodes, libres, bitmap, actuales, unico, cpfrom, terminados, erroneos,
                          metadata, viva, fs, cola, envio>>
<1>1. PICK c : c = Head(aNodo[n])
  OBVIOUS
<1>2. /\ aNodo[n] # <<>> /\ c.tipo = "SETBLOQUE" /\ c.numero < Total
      /\ aNodo' = [aNodo EXCEPT ![n] = Tail(@)]
      /\ UNCHANGED <<datanodes, libres, bitmap, actuales, unico, cpfrom, terminados, erroneos,
                     metadata, viva, fs, cola, envio>>
  BY <1>1 DEF Guardar, fsDatos, fsArchivos, hilo
<1>3. PICK r \in Resultados :
        /\ IF r = 1 THEN fallos' = fallos ELSE fallos < MaxFallos /\ fallos' = fallos + 1
        /\ disco' = IF r = 1
                    THEN [disco EXCEPT ![n][c.numero] =
                            [nombre |-> c.nombre, dir |-> c.dir, bloque |-> c.bloque]]
                    ELSE disco
        /\ aFS' = [aFS EXCEPT ![n] = Append(@, [tipo |-> "RESULOPERACION", copia |-> c, res |-> r])]
  BY <1>1 DEF Guardar
<1>4. c \in Copia
  BY <1>1, <1>2, Primeros, QueMensaje
<1>5. c.numero \in Bloques
  BY <1>2, <1>4, Instancia DEF Copia, Numeros, Bloques
<1>6. [tipo |-> "RESULOPERACION", copia |-> c, res |-> r] \in Resultado
  BY <1>2, <1>4 DEF Resultado
<1>7. Contesta(n, [tipo |-> "RESULOPERACION", copia |-> c, res |-> r])
  BY <1>2, <1>3 DEF Contesta
<1>8. QED
  BY <1>1, <1>2, <1>3, <1>4, <1>5, <1>6, <1>7 DEF Del

(* A datanode writes the copy of a cpblock. *)
LEMMA HaceGuardarCopia ==
  ASSUME TiposRed, NEW n \in Nodos, GuardarCopia(n)
  PROVE  \E c \in CopiaNueva, x \in Copiada :
           /\ c = Head(aNodo[n]) /\ c.tipo = "SETBLOQUECPTO" /\ c.numero \in Bloques
           /\ x.nombre = c.nombre /\ x.dir = c.dir /\ x.bloque = c.bloque /\ x.numero = c.numero
           /\ Contesta(n, x)
           /\ disco' = IF x.res = 1 THEN [disco EXCEPT ![n][c.numero] = c.dato] ELSE disco
           /\ fallos' = fallos \/ (fallos < MaxFallos /\ fallos' = fallos + 1)
           /\ UNCHANGED <<datanodes, libres, bitmap, actuales, unico, cpfrom, terminados, erroneos,
                          metadata, viva, fs, cola, envio, bloqueVars>>
<1>1. PICK c : c = Head(aNodo[n])
  OBVIOUS
<1>2. /\ aNodo[n] # <<>> /\ c.tipo = "SETBLOQUECPTO" /\ c.numero < Total
      /\ aNodo' = [aNodo EXCEPT ![n] = Tail(@)]
      /\ UNCHANGED <<datanodes, libres, bitmap, actuales, unico, cpfrom, terminados, erroneos,
                     metadata, viva, fs, cola, envio, bloqueVars>>
  BY <1>1 DEF GuardarCopia, fsDatos, fsArchivos, hilo
<1>3. PICK r \in Resultados :
        /\ IF r = 1 THEN fallos' = fallos ELSE fallos < MaxFallos /\ fallos' = fallos + 1
        /\ disco' = IF r = 1 THEN [disco EXCEPT ![n][c.numero] = c.dato] ELSE disco
        /\ aFS' = [aFS EXCEPT ![n] =
                     Append(@, [tipo |-> "RESPUESTASETBLOQUECPTO", nombre |-> c.nombre,
                                dir |-> c.dir, bloque |-> c.bloque, numero |-> c.numero,
                                res |-> r])]
  BY <1>1 DEF GuardarCopia
<1>4. c \in CopiaNueva
  BY <1>1, <1>2, Primeros, QueMensaje
<1>5. c.numero \in Bloques
  BY <1>2, <1>4, Instancia DEF CopiaNueva, Numeros, Bloques
<1>6. PICK x : x = [tipo |-> "RESPUESTASETBLOQUECPTO", nombre |-> c.nombre, dir |-> c.dir,
                    bloque |-> c.bloque, numero |-> c.numero, res |-> r]
  OBVIOUS
<1>7. /\ x \in Copiada /\ x.nombre = c.nombre /\ x.dir = c.dir /\ x.bloque = c.bloque
      /\ x.numero = c.numero /\ x.res = r
  BY <1>4, <1>5, <1>6 DEF Copiada, CopiaNueva
<1>8. Contesta(n, x)
  BY <1>2, <1>3, <1>6 DEF Contesta
<1>9. QED
  BY <1>1, <1>2, <1>3, <1>4, <1>5, <1>7, <1>8

(* A datanode dies. *)
LEMMA HacePerder ==
  ASSUME NEW n \in Nodos, GuardarFuera(n) \/ Caer(n)
  PROVE  /\ Pierde(n) /\ viva' = viva \ {n}
         /\ fallos' = fallos \/ (fallos < MaxFallos /\ fallos' = fallos + 1)
         /\ UNCHANGED <<datanodes, libres, bitmap, actuales, unico, cpfrom, terminados, erroneos,
                        metadata, disco, fs, cola, envio>>
BY DEF GuardarFuera, Caer, Pierde, fsDatos, fsArchivos, hilo

(* The answer for a copy of a cpfrom that is not registered. *)
LEMMA HaceFallido ==
  ASSUME TiposRed, NEW n \in Nodos, ResultadoFallido(n)
  PROVE  /\ Lee(n) /\ Head(aFS[n]) \in Resultado /\ cargada[n] = SinCargar
         /\ UNCHANGED <<datanodes, libres, bitmap, actuales, terminados, erroneos, metadata, disco,
                        viva, cola, envio, fallos, bloqueVars>>
         /\ unico' \in {unico, FALSE} /\ cpfrom' \in {cpfrom, FALSE} /\ fs' \in {fs, "muerto"}
<1> DEFINE x == Head(aFS[n])
<1>1. /\ aFS[n] # <<>> /\ x.tipo = "RESULOPERACION" /\ aFS' = [aFS EXCEPT ![n] = Tail(@)]
      /\ cargada[n] = SinCargar /\ ~SeRegistra(x) /\ actuales' = actuales
      /\ UNCHANGED <<datanodes, libres, bitmap, terminados, erroneos, aNodo, disco, viva, cola,
                     envio, fallos, bloqueVars>>
  BY DEF ResultadoFallido, ResultadoParcial, LeerResultado, nodo, hilo
<1>2. x \in Resultado
  BY <1>1, Primeros, QueContestado
<1>3. /\ metadata' = metadata
      /\ unico' \in {unico, FALSE} /\ cpfrom' \in {cpfrom, FALSE} /\ fs' \in {fs, "muerto"}
  BY <1>1 DEF ResultadoFallido, ResultadoParcial, SoltarMutexes, SeRegistra
<1>4. QED
  BY <1>1, <1>2, <1>3 DEF Lee

(* What a node does as in FsAlmacenar, without registering anything. *)
DelNodo(n) ==
  PasoDeAntes(n) \/ ResultadoFallido(n) \/ (Caer(n) /\ UNCHANGED bloqueVars)

LEMMA CasosDelNodo ==
  ASSUME NEW n, DelNodo(n)
  PROVE  /\ UNCHANGED bloqueVars
         /\ Guardar(n) \/ (GuardarFuera(n) \/ Caer(n)) \/ ResultadoFallido(n) \/ Desconectar(n)
BY DEF DelNodo, PasoDeAntes, ResultadoFallido

(* What most steps leave alone. *)
deBloques == <<metadata, red, disco, orden, cpblock, ordenCp, cargada, revividos, erroneos>>

LEMMA OrdenDe ==
  ASSUME TiposOrdenes
  PROVE  /\ orden.pc \in {"libre", "recuenta", "quita", "espera"}
         /\ orden.pc \in {"recuenta", "quita"} => orden \in OrdenRm
         /\ orden.pc = "espera" => orden \in OrdenCp
         /\ orden.pc = "libre" => orden = Parado
BY DEF TiposOrdenes, Parado, OrdenRm, OrdenCp

(* The copy that cpblock reads is there, and is COPIA0 if there is one. *)
LEMMA Primera ==
  ASSUME TiposRed, NEW copias \in SUBSET metadata, copias # {}
  PROVE  LET r == CHOOSE x \in copias : \A y \in copias : x.copia <= y.copia
         IN r \in copias /\ r \in Entrada
<1>1. \A x \in copias : x \in Entrada /\ x.copia \in 0..2
  BY DEF TiposRed, Entrada
<1>2. \E x \in copias : \A y \in copias : x.copia <= y.copia
  <2>1. CASE \E x \in copias : x.copia = 0
    BY <1>1, <2>1
  <2>2. CASE (\A x \in copias : x.copia # 0) /\ \E x \in copias : x.copia = 1
    <3>1. \A y \in copias : 1 <= y.copia
      BY <1>1, <2>2
    <3>2. QED
      BY <2>2, <3>1
  <2>3. CASE \A x \in copias : x.copia # 0 /\ x.copia # 1
    <3>1. \A y \in copias : y.copia = 2
      BY <1>1, <2>3
    <3>2. QED
      BY <3>1
  <2>4. QED
    BY <2>1, <2>2, <2>3
<1>3. QED
  BY <1>1, <1>2

(* cpblock: nothing, or a block is asked for. *)
LEMMA HaceCpblock ==
  ASSUME TiposRed, TiposOrdenes, NEW a \in Nombres, NEW d \in Dirs, NEW b \in 0..MaxBloques,
         NEW n \in Nodos, Cpblock(a, d, b, n)
  PROVE  /\ UNCHANGED <<datanodes, libres, bitmap, actuales, unico, cpfrom, terminados, erroneos,
                        viva, cola, envio, fallos>>
         /\ fs' \in {fs, "muerto"}
         /\ \/ UNCHANGED deBloques
            \/ \E r \in metadata, g \in Get :
                 /\ r.nombre = a /\ r.dir = d /\ r.bloque = b
                 /\ g.tipo = "GETBLOQUE" /\ g.numero = r.numero
                 /\ g.para = IF r.copia = 0 THEN n ELSE SinNombre
                 /\ orden.pc = "libre"
                 /\ orden' = [pc |-> "espera", nombre |-> a, dir |-> d, bloque |-> b, nodo |-> n]
                 /\ Manda(r.nodo, g) \/ UNCHANGED red
                 /\ UNCHANGED <<metadata, disco, cpblock, ordenCp, cargada, revividos>>
<1> DEFINE copias == {x \in DeArchivo(a, d) : x.bloque = b}
           r == CHOOSE x \in copias : \A y \in copias : x.copia <= y.copia
           g == [tipo |-> "GETBLOQUE", numero |-> r.numero,
                 para |-> IF r.copia = 0 THEN n ELSE SinNombre]
<1>1. copias # {} /\ orden.pc = "libre"
  BY DEF Cpblock, Ordenar
<1>2. copias \in SUBSET metadata
  BY DEF DeArchivo
<1>3. r \in copias /\ r \in Entrada
  BY <1>1, <1>2, Primera
<1>4. r \in metadata /\ r.nombre = a /\ r.dir = d /\ r.bloque = b
  BY <1>3 DEF DeArchivo
<1>5. \/ MorirOrden
      \/ /\ aNodo' = aNodo \/ aNodo' = [aNodo EXCEPT ![r.nodo] = Append(@, g)]
         /\ orden' = [pc |-> "espera", nombre |-> a, dir |-> d, bloque |-> b, nodo |-> n]
         /\ UNCHANGED <<datanodes, fsDatos, unico, cpfrom, fsArchivos, aFS, nodo, fs, hilo,
                        fallos, cpblock, ordenCp, cargada, revividos>>
  BY DEF Cpblock
<1>6. g \in Get /\ g.tipo = "GETBLOQUE" /\ g.numero = r.numero
      /\ g.para = IF r.copia = 0 THEN n ELSE SinNombre
  BY <1>3 DEF Get, Entrada, Destinos
<1> HIDE DEF r, g
<1>7. CASE MorirOrden
  BY <1>7 DEF MorirOrden, Morir, deBloques, fsDatos, fsArchivos, red, nodo, hilo
<1>8. CASE ~MorirOrden
  BY <1>1, <1>4, <1>5, <1>6, <1>8 DEF Manda, deBloques, fsDatos, fsArchivos, red, nodo, hilo
<1>9. QED
  BY <1>7, <1>8

(* The second half of cpblock: the console dies, or a block of the target is *)
(* marked and the block sent, or there was no room.                          *)
LEMMA HaceCopiar ==
  ASSUME Base, TiposRed, TiposOrdenes, Copiar
  PROVE  /\ orden \in OrdenCp /\ ordenCp /\ ordenCp' = FALSE
         /\ UNCHANGED <<datanodes, libres, actuales, unico, cpfrom, terminados, erroneos, metadata,
                        aFS, disco, viva, cola, envio, fallos, cpblock, cargada, revividos>>
         /\ fs' \in {fs, "muerto"}
         /\ \/ UNCHANGED <<bitmap, aNodo, orden>>
            \/ \E j \in Numeros :
                 /\ j \notin bitmap[orden.nodo]
                 /\ bitmap' = Marcar(orden.nodo, j) /\ orden' = Parado
                 /\ \/ aNodo' = aNodo
                    \/ \E m \in CopiaNueva :
                         /\ cpblock.para \in Nodos /\ Manda(cpblock.para, m)
                         /\ m.tipo = "SETBLOQUECPTO" /\ m.numero = j
                         /\ Del(m) = Del(orden) /\ m.nombre = orden.nombre
                         /\ m.dato = cpblock.dato
<1>1. /\ orden.pc = "espera" /\ ordenCp /\ ordenCp' = FALSE
      /\ UNCHANGED <<datanodes, libres, actuales, unico, cpfrom, terminados, erroneos, metadata,
                     aFS, disco, viva, cola, envio, fallos, cpblock, cargada, revividos>>
  BY DEF Copiar, fsArchivos, nodo, hilo
<1>2. orden \in OrdenCp
  BY <1>1, OrdenDe
<1>3. orden.nodo \in Nodos
  BY <1>2 DEF OrdenCp
<1> DEFINE M(k) == [tipo |-> "SETBLOQUECPTO", nombre |-> orden.nombre, dir |-> orden.dir,
                    bloque |-> orden.bloque, numero |-> k, dato |-> cpblock.dato]
<1>4. PICK j \in {PrimerLibre(orden.nodo)} :
        \/ fs' = "muerto" /\ UNCHANGED <<bitmap, aNodo, orden>>
        \/ /\ j # Total - 1 => cpblock.para \in Conectados
           /\ bitmap' = Marcar(orden.nodo, j) /\ orden' = Parado
           /\ IF j = Total - 1 THEN UNCHANGED aNodo
              ELSE \/ aNodo' = aNodo
                   \/ aNodo' = [aNodo EXCEPT ![cpblock.para] = Append(@, M(j))]
           /\ UNCHANGED fs
  BY DEF Copiar, Apartar
<1>5. j \in Numeros /\ j \notin bitmap[orden.nodo]
  BY <1>3, <1>4, BaseLibre
<1>6. Conectados \subseteq Nodos
  BY DEF Conectados, Base
<1>7. PICK m : m = M(j)
  OBVIOUS
<1>8. /\ m \in CopiaNueva /\ m.tipo = "SETBLOQUECPTO" /\ m.numero = j
      /\ Del(m) = Del(orden) /\ m.nombre = orden.nombre /\ m.dato = cpblock.dato
  <2>1. cpblock.dato \in Contenido
    BY DEF TiposOrdenes
  <2>2. QED
    BY <1>2, <1>5, <1>7, <2>1 DEF CopiaNueva, OrdenCp, Del
<1>9. \/ fs' = "muerto" /\ UNCHANGED <<bitmap, aNodo, orden>>
      \/ /\ bitmap' = Marcar(orden.nodo, j) /\ orden' = Parado /\ UNCHANGED fs
         /\ \/ aNodo' = aNodo
            \/ /\ cpblock.para \in Nodos
               /\ aNodo' = [aNodo EXCEPT ![cpblock.para] = Append(@, m)]
  BY <1>4, <1>6, <1>7
<1>10. QED
  BY <1>1, <1>2, <1>5, <1>8, <1>9 DEF Manda

(* What is known of a registration. *)
LEMMA DeCargado ==
  ASSUME TiposOrdenes, NEW n \in Nodos, cargada[n].pc # "no"
  PROVE  cargada[n] \in Cargado
BY DEF TiposOrdenes, SinCargar

(* A save: of entries that were not there only nuevas. *)
LEMMA Salvadas ==
  ASSUME TiposRed, NEW n \in Nodos, cargada[n] \in Cargado, NEW N, Salvar(n, N)
  PROVE  /\ metadata' \in SUBSET Entrada
         /\ revividos' = {} => metadata' \subseteq metadata \cup N /\ revividos = {}
<1> DEFINE C == cargada[n].copias
           f == DeArchivo(cargada[n].nueva.nombre, cargada[n].nueva.dir)
<1>1. /\ metadata' = (metadata \ f) \cup C
      /\ revividos' = IF C \ N \subseteq metadata THEN revividos
                      ELSE revividos \cup {cargada[n].nueva.nombre}
  BY DEF Salvar
<1>2. C \subseteq Entrada
  BY DEF Cargado
<1> HIDE DEF C, f
<1>3. metadata' \in SUBSET Entrada
  BY <1>1, <1>2 DEF TiposRed
<1>4. QED
  BY <1>1, <1>3

(* The first save of a registration, which takes the answer. *)
LEMMA HaceGrabar ==
  ASSUME TiposRed, TiposOrdenes, Cargadas, NEW n \in Nodos, GrabarMetadata(n)
  PROVE  \E x \in Resultado \cup Copiada, r \in Entrada :
           /\ x = Head(aFS[n]) /\ Lee(n) /\ r.nodo = n /\ Registra(r, x)
           /\ cargada[n].pc = "lee" /\ (cargada[n].de # "copia" => x \in Resultado)
           /\ metadata' \in SUBSET Entrada
           /\ revividos' = {} => metadata' \subseteq metadata \cup {r} /\ revividos = {}
           /\ \E k \in Cargado : /\ k.pc = "graba" /\ k.de = cargada[n].de
                                  /\ cargada' = [cargada EXCEPT ![n] = k]
           /\ UNCHANGED <<datanodes, libres, bitmap, actuales, unico, cpfrom, terminados, erroneos,
                          disco, viva, fs, cola, envio, fallos, orden, cpblock, ordenCp>>
<1>1. /\ cargada[n].pc = "lee" /\ Salvar(n, {cargada[n].nueva})
      /\ cargada' = [cargada EXCEPT ![n] = [@ EXCEPT !.pc = "graba"]]
      /\ aFS' = [aFS EXCEPT ![n] = Tail(@)]
      /\ UNCHANGED <<datanodes, libres, bitmap, actuales, unico, cpfrom, terminados, erroneos,
                     aNodo, disco, viva, fs, cola, envio, fallos, orden, cpblock, ordenCp>>
  BY DEF GrabarMetadata, fsDatos, nodo, hilo
<1>2. PICK r : r = cargada[n].nueva
  OBVIOUS
<1>3. PICK x : x = Head(aFS[n])
  OBVIOUS
<1>4. /\ aFS[n] # <<>> /\ r.nodo = n /\ Registra(r, x)
      /\ cargada[n].de # "copia" => x \in Resultado
  BY <1>1, <1>2, <1>3 DEF Cargadas
<1>5. cargada[n] \in Cargado
  BY <1>1, DeCargado
<1>6. r \in Entrada /\ x \in Resultado \cup Copiada
  BY <1>2, <1>4, <1>5 DEF Cargado, Registra
<1>7. PICK k : k = [cargada[n] EXCEPT !.pc = "graba"]
  OBVIOUS
<1>8. k \in Cargado /\ k.pc = "graba" /\ k.de = cargada[n].de
  BY <1>5, <1>7 DEF Cargado
<1>9. cargada' = [cargada EXCEPT ![n] = k]
  BY <1>1, <1>7
<1>10. /\ metadata' \in SUBSET Entrada
       /\ revividos' = {} => metadata' \subseteq metadata \cup {r} /\ revividos = {}
  BY <1>1, <1>2, <1>5, Salvadas
<1>11. Lee(n)
  BY <1>1, <1>4 DEF Lee
<1>12. QED
  BY <1>1, <1>3, <1>4, <1>6, <1>8, <1>9, <1>10, <1>11

(* The other saves of a registration, and what its end releases. *)
LEMMA HaceSalvar ==
  ASSUME TiposRed, TiposOrdenes, NEW n \in Nodos, Regrabar(n) \/ Releer(n) \/ Terminar(n)
  PROVE  /\ UNCHANGED <<datanodes, libres, bitmap, terminados, erroneos, red, disco, viva, fs,
                        cola, envio, fallos, orden, cpblock, ordenCp>>
         /\ metadata' \in SUBSET Entrada
         /\ revividos' = {} => metadata' \subseteq metadata /\ revividos = {}
         /\ cargada[n].pc \in {"graba", "otra", "relee"}
         /\ \/ /\ UNCHANGED <<actuales, unico, cpfrom>>
               /\ \E k \in Cargado : /\ k.pc # "lee" /\ k.de = cargada[n].de
                                      /\ cargada' = [cargada EXCEPT ![n] = k]
            \/ /\ cargada' = [cargada EXCEPT ![n] = SinCargar]
               /\ actuales' = actuales \/ \E a : actuales' = [actuales EXCEPT ![n][a] = Sin]
               /\ unico' \in {unico, FALSE}
               /\ cpfrom' = cpfrom \/ (cargada[n].de # "copia" /\ cpfrom' = FALSE)
<1>1. cargada[n].pc \in {"graba", "otra", "relee"}
  BY DEF Regrabar, Releer, Terminar
<1>2. cargada[n] \in Cargado
  BY <1>1, DeCargado
<1>3. UNCHANGED <<datanodes, libres, bitmap, terminados, erroneos, red, disco, viva, fs, cola,
                  envio, fallos, orden, cpblock, ordenCp>>
  BY DEF Regrabar, Releer, Terminar, vars, fsDatos, fsArchivos, nodo, hilo
<1>4. /\ metadata' \in SUBSET Entrada
      /\ revividos' = {} => metadata' \subseteq metadata /\ revividos = {}
  <2>1. CASE Regrabar(n) \/ Terminar(n)
    <3>1. Salvar(n, {})
      BY <2>1 DEF Regrabar, Terminar
    <3>2. QED
      BY <1>2, <3>1, Salvadas
  <2>2. CASE Releer(n)
    BY <2>2 DEF Releer, vars, fsArchivos, TiposRed
  <2>3. QED
    BY <2>1, <2>2
<1>5. CASE Regrabar(n)
  <2>1. PICK q \in {"graba", "otra"} : cargada' = [cargada EXCEPT ![n] = [@ EXCEPT !.pc = q]]
    BY <1>5 DEF Regrabar
  <2>2. PICK k : k = [cargada[n] EXCEPT !.pc = q]
    OBVIOUS
  <2>3. k \in Cargado /\ k.pc # "lee" /\ k.de = cargada[n].de
    BY <1>2, <2>2 DEF Cargado
  <2>4. UNCHANGED <<actuales, unico, cpfrom>>
    BY <1>5 DEF Regrabar, fsDatos
  <2>5. QED
    BY <1>1, <1>3, <1>4, <2>1, <2>2, <2>3, <2>4
<1>6. CASE Releer(n)
  <2>1. PICK r : r = cargada[n].nueva
    OBVIOUS
  <2>2. PICK C : C = Poner(r, DeArchivo(r.nombre, r.dir))
    OBVIOUS
  <2>3. cargada' = [cargada EXCEPT ![n] = [@ EXCEPT !.pc = "relee", !.doble = FALSE, !.copias = C]]
    BY <1>6, <2>1, <2>2 DEF Releer
  <2>4. C \subseteq Entrada
    BY <1>2, <2>1, <2>2 DEF Poner, DeArchivo, TiposRed, Cargado
  <2>5. PICK k : k = [cargada[n] EXCEPT !.pc = "relee", !.doble = FALSE, !.copias = C]
    OBVIOUS
  <2>6. k \in Cargado /\ k.pc # "lee" /\ k.de = cargada[n].de
    BY <1>2, <2>4, <2>5 DEF Cargado
  <2>7. UNCHANGED <<actuales, unico, cpfrom>>
    BY <1>6 DEF Releer, vars, fsDatos
  <2>8. QED
    BY <1>1, <1>3, <1>4, <2>3, <2>5, <2>6, <2>7
<1>7. CASE Terminar(n)
  BY <1>1, <1>3, <1>4, <1>7 DEF Terminar, SoltarMutexes
<1>8. QED
  BY <1>5, <1>6, <1>7

-----------------------------------------------------------------------------
(* Types, action by action. *)
InvTipos == Base /\ Repartos /\ TiposRed /\ TiposOrdenes

(* Steps of the threads of storing leave nothing but the send for this. *)
LEMMA HilosQuietos ==
  ASSUME NEW h \in Hilos, PasoHilo(h), ~EnviarCopia(h)
  PROVE  UNCHANGED <<bitmap, actuales, cpfrom, erroneos, metadata, red, disco, viva>>
BY DEF PasoHilo, Empezar, Repartir, SinLugar, CortarBasura, EnviarMuere, Cerrar, Morir, fsDatos,
       fsArchivos, nodo, red

LEMMA DesconectarQuieto ==
  ASSUME NEW n \in Nodos, Desconectar(n)
  PROVE  UNCHANGED <<libres, bitmap, actuales, unico, cpfrom, terminados, erroneos, metadata, red,
                     disco, viva, fs, cola, envio, fallos>>
BY DEF Desconectar, fsDatos, fsArchivos, red, nodo, hilo

LEMMA TiposHilo ==
  ASSUME InvTipos, NEW h \in Hilos, PasoHilo(h), UNCHANGED bloqueVars
  PROVE  InvTipos'
<1>1. Base' /\ Repartos'
  <2>1. CASE CortarBasura(h) \/ EnviarMuere(h)
    BY <2>1, BaseMorir DEF InvTipos, CortarBasura, EnviarMuere
  <2>2. QED
    BY <2>1, BaseEmpezar, BaseRepartir, BaseEnviarCopia, BaseCerrar DEF InvTipos, PasoHilo
<1>2. TiposRed'
  <2>1. CASE EnviarCopia(h)
    <3>1. PICK n \in Nodos, c \in Copia : /\ Manda(n, c) \/ UNCHANGED red
                                          /\ UNCHANGED <<metadata, disco>>
      BY <2>1, HaceEnviar DEF InvTipos
    <3>2. c \in Mensaje
      BY DEF Mensaje
    <3>3. aNodo' \in [Nodos -> Seq(Mensaje)] /\ aFS' \in [Nodos -> Seq(Contestado)]
      BY <3>1, <3>2, TiposMensajes DEF InvTipos
    <3>4. QED
      BY <3>1, <3>3 DEF TiposRed, InvTipos
  <2>2. CASE ~EnviarCopia(h)
    BY <2>2, HilosQuietos DEF TiposRed, InvTipos, red
  <2>3. QED
    BY <2>1, <2>2
<1>3. TiposOrdenes'
  BY DEF InvTipos, TiposOrdenes, bloqueVars
<1>4. QED
  BY <1>1, <1>2, <1>3 DEF InvTipos

(* The disk of a node, with a block written or not. *)
LEMMA TiposDisco ==
  ASSUME TiposRed, NEW n \in Nodos, NEW j \in Bloques, NEW x \in Contenido,
         disco' = [disco EXCEPT ![n][j] = x] \/ disco' = disco
  PROVE  disco' \in [Nodos -> [Bloques -> Contenido]]
<1>1. disco \in [Nodos -> [Bloques -> Contenido]]
  BY DEF TiposRed
<1>2. [disco[n] EXCEPT ![j] = x] \in [Bloques -> Contenido]
  BY <1>1
<1>3. [disco EXCEPT ![n][j] = x] \in [Nodos -> [Bloques -> Contenido]]
  BY <1>1, <1>2
<1>4. QED
  BY <1>1, <1>3

LEMMA MasFallos ==
  ASSUME Base, fallos' = fallos \/ (fallos < MaxFallos /\ fallos' = fallos + 1)
  PROVE  fallos' \in 0..MaxFallos
<1>1. fallos \in 0..MaxFallos /\ MaxFallos \in Nat
  BY Instancia DEF Base
<1>2. QED
  BY <1>1

LEMMA TiposNodo ==
  ASSUME InvTipos, NEW n \in Nodos, DelNodo(n)
  PROVE  InvTipos'
<1>0. TiposOrdenes'
  BY CasosDelNodo DEF InvTipos, TiposOrdenes, bloqueVars
<1>1. CASE Guardar(n)
  <2>1. PICK c \in Copia, r \in Resultados :
           /\ c.numero \in Bloques
           /\ [tipo |-> "RESULOPERACION", copia |-> c, res |-> r] \in Resultado
           /\ Contesta(n, [tipo |-> "RESULOPERACION", copia |-> c, res |-> r])
           /\ disco' = IF r = 1 THEN [disco EXCEPT ![n][c.numero] = Del(c)] ELSE disco
           /\ fallos' = fallos \/ (fallos < MaxFallos /\ fallos' = fallos + 1)
           /\ UNCHANGED <<datanodes, libres, bitmap, actuales, unico, cpfrom, terminados, erroneos,
                          metadata, viva, fs, cola, envio>>
    BY <1>1, HaceGuardar DEF InvTipos
  <2>2. Del(c) \in Contenido
    BY DEF Copia, Del, Contenido, Dato
  <2>3. disco' \in [Nodos -> [Bloques -> Contenido]]
    BY <2>1, <2>2, TiposDisco DEF InvTipos
  <2>4. aNodo' \in [Nodos -> Seq(Mensaje)] /\ aFS' \in [Nodos -> Seq(Contestado)]
    BY <2>1, TiposMensajes DEF InvTipos, Contestado
  <2>5. fallos' \in 0..MaxFallos
    BY <2>1, MasFallos DEF InvTipos
  <2>6. Base' /\ Repartos'
    BY <2>1, <2>5 DEF InvTipos, Base, Repartos
  <2>7. TiposRed'
    BY <2>1, <2>3, <2>4 DEF InvTipos, TiposRed
  <2>8. QED
    BY <1>0, <2>6, <2>7 DEF InvTipos
<1>2. CASE GuardarFuera(n) \/ Caer(n)
  <2>1. /\ Pierde(n) /\ viva' = viva \ {n}
        /\ fallos' = fallos \/ (fallos < MaxFallos /\ fallos' = fallos + 1)
        /\ UNCHANGED <<datanodes, libres, bitmap, actuales, unico, cpfrom, terminados, erroneos,
                       metadata, disco, fs, cola, envio>>
    BY <1>2, HacePerder
  <2>2. aNodo' \in [Nodos -> Seq(Mensaje)] /\ aFS' \in [Nodos -> Seq(Contestado)]
    BY <2>1, TiposMensajes DEF InvTipos
  <2>3. fallos' \in 0..MaxFallos
    BY <2>1, MasFallos DEF InvTipos
  <2>4. Base' /\ Repartos'
    BY <2>1, <2>3 DEF InvTipos, Base, Repartos
  <2>5. TiposRed'
    BY <2>1, <2>2 DEF InvTipos, TiposRed
  <2>6. QED
    BY <1>0, <2>4, <2>5 DEF InvTipos
<1>3. CASE ResultadoFallido(n)
  <2>1. /\ Lee(n)
        /\ UNCHANGED <<datanodes, libres, bitmap, actuales, terminados, erroneos, metadata, disco,
                       viva, cola, envio, fallos>>
        /\ unico' \in {unico, FALSE} /\ cpfrom' \in {cpfrom, FALSE} /\ fs' \in {fs, "muerto"}
    BY <1>3, HaceFallido DEF InvTipos
  <2>2. aNodo' \in [Nodos -> Seq(Mensaje)] /\ aFS' \in [Nodos -> Seq(Contestado)]
    BY <2>1, TiposMensajes DEF InvTipos
  <2>3. Base' /\ Repartos'
    BY <2>1 DEF InvTipos, Base, Repartos
  <2>4. TiposRed'
    BY <2>1, <2>2 DEF InvTipos, TiposRed
  <2>5. QED
    BY <1>0, <2>3, <2>4 DEF InvTipos
<1>4. CASE Desconectar(n)
  <2>1. Base' /\ Repartos'
    BY <1>4, BaseDesconectar DEF InvTipos
  <2>2. TiposRed'
    BY <1>4, DesconectarQuieto DEF InvTipos, TiposRed, red
  <2>3. QED
    BY <1>0, <2>1, <2>2 DEF InvTipos
<1>5. QED
  BY <1>1, <1>2, <1>3, <1>4, CasosDelNodo

(* The commands of the console. *)
LEMMA TiposRm ==
  ASSUME InvTipos, NEW a \in Nombres, NEW d \in Dirs, Rm(a, d)
  PROVE  InvTipos'
<1>1. CASE MorirOrden
  BY <1>1 DEF MorirOrden, Morir, InvTipos, Base, Repartos, TiposRed, TiposOrdenes, fsDatos,
              fsArchivos, red, nodo, hilo
<1>2. CASE ~MorirOrden
  <2>1. /\ orden' = [pc |-> "recuenta", nombre |-> a, dir |-> d]
        /\ bitmap' = SinBits(DeArchivo(a, d))
        /\ UNCHANGED <<datanodes, libres, actuales, unico, cpfrom, terminados, erroneos, metadata,
                       aNodo, aFS, disco, viva, fs, cola, envio, fallos, cpblock, ordenCp, cargada,
                       revividos>>
    BY <1>2 DEF Rm, fsArchivos, red, nodo, hilo
  <2>2. bitmap' \in [Nodos -> SUBSET (0..(Total - 1))]
    BY <2>1 DEF SinBits, InvTipos, Base
  <2>3. orden' \in OrdenRm
    BY <2>1 DEF OrdenRm
  <2>4. Base' /\ Repartos' /\ TiposRed'
    BY <2>1, <2>2 DEF InvTipos, Base, Repartos, TiposRed
  <2>5. TiposOrdenes'
    BY <2>1, <2>3 DEF InvTipos, TiposOrdenes
  <2>6. QED
    BY <2>4, <2>5 DEF InvTipos
<1>3. QED
  BY <1>1, <1>2

LEMMA TiposRecontar ==
  ASSUME InvTipos, Recontar
  PROVE  InvTipos'
<1>1. /\ libres' = [n \in Nodos |-> IF n \in Conectados THEN Total - Cardinality(bitmap[n])
                                    ELSE libres[n]]
      /\ orden.pc = "recuenta" /\ orden' = [orden EXCEPT !.pc = "quita"]
      /\ UNCHANGED <<datanodes, bitmap, actuales, unico, cpfrom, terminados, erroneos, metadata,
                     aNodo, aFS, disco, viva, fs, cola, envio, fallos, cpblock, ordenCp, cargada,
                     revividos>>
  BY DEF Recontar, fsArchivos, red, nodo, hilo
<1>2. ASSUME NEW n \in Nodos PROVE Cardinality(bitmap[n]) \in Nat
  <2>1. 0 \in Int /\ Total - 1 \in Int /\ bitmap[n] \in SUBSET (0..(Total - 1))
    BY Instancia DEF InvTipos, Base
  <2>2. IsFiniteSet(bitmap[n])
    BY <2>1, FS_Interval, FS_Subset
  <2>3. QED
    BY <2>2, FS_CardinalityType
<1>3. libres' \in [Nodos -> Int]
  <2>1. libres \in [Nodos -> Int] /\ Total \in Int
    BY Instancia DEF InvTipos, Base
  <2>2. QED
    BY <1>1, <1>2, <2>1
<1>4. orden' \in OrdenRm
  BY <1>1, OrdenDe DEF InvTipos, OrdenRm
<1>5. Base' /\ Repartos' /\ TiposRed'
  BY <1>1, <1>3 DEF InvTipos, Base, Repartos, TiposRed
<1>6. QED
  BY <1>1, <1>4, <1>5 DEF InvTipos, TiposOrdenes

LEMMA TiposQuitar ==
  ASSUME InvTipos, Quitar
  PROVE  InvTipos'
BY DEF Quitar, InvTipos, Base, Repartos, TiposRed, TiposOrdenes, fsDatos, red, nodo, hilo

LEMMA TiposCpblock ==
  ASSUME InvTipos, NEW a \in Nombres, NEW d \in Dirs, NEW b \in 0..MaxBloques, NEW n \in Nodos,
         Cpblock(a, d, b, n)
  PROVE  InvTipos'
<1>1. /\ UNCHANGED <<datanodes, libres, bitmap, actuales, unico, cpfrom, terminados, erroneos,
                     viva, cola, envio, fallos>>
      /\ fs' \in {fs, "muerto"}
      /\ \/ UNCHANGED deBloques
         \/ \E r \in metadata, g \in Get :
              /\ orden' = [pc |-> "espera", nombre |-> a, dir |-> d, bloque |-> b, nodo |-> n]
              /\ Manda(r.nodo, g) \/ UNCHANGED red
              /\ UNCHANGED <<metadata, disco, cpblock, ordenCp, cargada, revividos>>
  <2>1. TiposRed /\ TiposOrdenes
    BY DEF InvTipos
  <2>2. QED
    BY <2>1, HaceCpblock
<1>2. Base' /\ Repartos'
  BY <1>1 DEF InvTipos, Base, Repartos
<1>3. CASE UNCHANGED deBloques
  BY <1>2, <1>3 DEF deBloques, InvTipos, TiposRed, TiposOrdenes, red
<1>4. CASE ~UNCHANGED deBloques
  <2>1. PICK r \in metadata, g \in Get :
          /\ orden' = [pc |-> "espera", nombre |-> a, dir |-> d, bloque |-> b, nodo |-> n]
          /\ Manda(r.nodo, g) \/ UNCHANGED red
          /\ UNCHANGED <<metadata, disco, cpblock, ordenCp, cargada, revividos>>
    BY <1>1, <1>4
  <2>2. r.nodo \in Nodos /\ g \in Mensaje
    BY DEF InvTipos, TiposRed, Entrada, Mensaje
  <2>3. aNodo' \in [Nodos -> Seq(Mensaje)] /\ aFS' \in [Nodos -> Seq(Contestado)]
    BY <2>1, <2>2, TiposMensajes DEF InvTipos
  <2>4. orden' \in OrdenCp
    BY <2>1 DEF OrdenCp
  <2>5. TiposRed' /\ TiposOrdenes'
    BY <2>1, <2>3, <2>4 DEF InvTipos, TiposRed, TiposOrdenes
  <2>6. QED
    BY <1>2, <2>5 DEF InvTipos
<1>5. QED
  BY <1>3, <1>4

LEMMA TiposCopiar ==
  ASSUME InvTipos, Copiar
  PROVE  InvTipos'
<1>1. /\ orden \in OrdenCp /\ ordenCp /\ ordenCp' = FALSE
      /\ UNCHANGED <<datanodes, libres, actuales, unico, cpfrom, terminados, erroneos, metadata,
                     aFS, disco, viva, cola, envio, fallos, cpblock, cargada, revividos>>
      /\ fs' \in {fs, "muerto"}
      /\ \/ UNCHANGED <<bitmap, aNodo, orden>>
         \/ \E j \in Numeros :
              /\ bitmap' = Marcar(orden.nodo, j) /\ orden' = Parado
              /\ \/ aNodo' = aNodo
                 \/ \E m \in CopiaNueva : cpblock.para \in Nodos /\ Manda(cpblock.para, m)
  BY HaceCopiar DEF InvTipos
<1>2. bitmap' \in [Nodos -> SUBSET (0..(Total - 1))]
  <2>1. bitmap \in [Nodos -> SUBSET (0..(Total - 1))]
    BY DEF InvTipos, Base
  <2>2. \A j \in Numeros : {j} \ {Total} \subseteq 0..(Total - 1)
    BY Instancia DEF Numeros
  <2>3. \A j \in Numeros : Marcar(orden.nodo, j) \in [Nodos -> SUBSET (0..(Total - 1))]
    BY <2>1, <2>2 DEF Marcar
  <2>4. QED
    BY <1>1, <2>1, <2>3
<1>3. aNodo' \in [Nodos -> Seq(Mensaje)] /\ aFS' \in [Nodos -> Seq(Contestado)]
  <2>1. CASE aNodo' = aNodo
    BY <1>1, <2>1 DEF InvTipos, TiposRed
  <2>2. CASE \E m \in CopiaNueva : cpblock.para \in Nodos /\ Manda(cpblock.para, m)
    BY <2>2, TiposMensajes DEF InvTipos, Mensaje
  <2>3. QED
    BY <1>1, <2>1, <2>2
<1>4. Base' /\ Repartos'
  BY <1>1, <1>2 DEF InvTipos, Base, Repartos
<1>5. TiposRed' /\ TiposOrdenes'
  BY <1>1, <1>3 DEF InvTipos, TiposRed, TiposOrdenes
<1>6. QED
  BY <1>4, <1>5 DEF InvTipos

(* The block asked for leaves its node and reaches the console. *)
LEMMA HaceResponder ==
  ASSUME TiposRed, NEW n \in Nodos, ResponderGet(n)
  PROVE  \E g \in Get, x \in Traido :
           /\ g = Head(aNodo[n]) /\ g.tipo = "GETBLOQUE"
           /\ x.dato = disco[n][g.numero] /\ x.para = g.para /\ Contesta(n, x)
           /\ UNCHANGED <<datanodes, libres, bitmap, actuales, unico, cpfrom, terminados, erroneos,
                          metadata, disco, viva, fs, cola, envio, fallos, bloqueVars>>
<1>1. PICK g : g = Head(aNodo[n])
  OBVIOUS
<1>2. PICK x : x = [tipo |-> "RESPUESTAGETBLOQUE", dato |-> disco[n][g.numero], para |-> g.para]
  OBVIOUS
<1>3. /\ aNodo[n] # <<>> /\ g.tipo = "GETBLOQUE"
      /\ aFS' = [aFS EXCEPT ![n] = Append(@, x)] /\ aNodo' = [aNodo EXCEPT ![n] = Tail(@)]
      /\ UNCHANGED <<datanodes, libres, bitmap, actuales, unico, cpfrom, terminados, erroneos,
                     metadata, disco, viva, fs, cola, envio, fallos, bloqueVars>>
  BY <1>1, <1>2 DEF ResponderGet, fsDatos, fsArchivos, nodo, hilo
<1>4. g \in Get
  BY <1>1, <1>3, Primeros, QueMensaje
<1>5. x \in Traido /\ x.dato = disco[n][g.numero] /\ x.para = g.para
  <2>1. disco[n][g.numero] \in Contenido
    BY <1>4 DEF TiposRed, Get
  <2>2. QED
    BY <1>2, <1>4, <2>1 DEF Traido, Get
<1>6. Contesta(n, x)
  BY <1>3 DEF Contesta
<1>7. QED
  BY <1>1, <1>3, <1>4, <1>5, <1>6

LEMMA HaceLeerGet ==
  ASSUME TiposRed, NEW n \in Nodos, LeerGet(n)
  PROVE  \E x \in Traido :
           /\ x = Head(aFS[n]) /\ x.tipo = "RESPUESTAGETBLOQUE" /\ Lee(n) /\ ordenCp' = TRUE
           /\ cpblock' = [dato |-> x.dato, para |-> x.para]
           /\ UNCHANGED <<datanodes, libres, bitmap, actuales, unico, cpfrom, terminados, erroneos,
                          metadata, disco, viva, fs, cola, envio, fallos, orden, cargada, revividos>>
<1>1. PICK x : x = Head(aFS[n])
  OBVIOUS
<1>2. /\ aFS[n] # <<>> /\ x.tipo = "RESPUESTAGETBLOQUE" /\ ordenCp' = TRUE
      /\ aFS' = [aFS EXCEPT ![n] = Tail(@)] /\ aNodo' = aNodo
      /\ cpblock' = [dato |-> x.dato, para |-> x.para]
      /\ UNCHANGED <<datanodes, libres, bitmap, actuales, unico, cpfrom, terminados, erroneos,
                     metadata, disco, viva, fs, cola, envio, fallos, orden, cargada, revividos>>
  BY <1>1 DEF LeerGet, Atiende, SoltarOrdenCp, fsDatos, fsArchivos, nodo, hilo
<1>3. x \in Traido
  BY <1>1, <1>2, Primeros, QueContestado
<1>4. QED
  BY <1>1, <1>2, <1>3 DEF Lee

(* What a registration begins with. *)
Empezada(n, k) ==
  /\ cargada[n] = SinCargar /\ aFS[n] # <<>>
  /\ k \in Cargado /\ k.pc = "lee" /\ k.nueva.nodo = n
  /\ Directorios => Registra(k.nueva, Head(aFS[n]))
  /\ k.de # "copia" => Head(aFS[n]) \in Resultado
  /\ cargada' = [cargada EXCEPT ![n] = k]

(* The entry of an answer and what is read of the metadata. *)
LEMMA EsLeida ==
  ASSUME TiposRed, NEW de \in {"final", "parcial", "copia"}, NEW doble \in BOOLEAN,
         NEW r \in Entrada
  PROVE  /\ Leida(de, doble, r) \in Cargado /\ Leida(de, doble, r).pc = "lee"
         /\ Leida(de, doble, r).de = de /\ Leida(de, doble, r).nueva = r
<1>1. Poner(r, DeArchivo(r.nombre, r.dir)) \subseteq Entrada
  BY DEF Poner, DeArchivo, TiposRed
<1>2. QED
  BY <1>1 DEF Leida, Cargado

LEMMA HaceCargarRegistro ==
  ASSUME InvTipos, NEW n \in Nodos, CargarRegistro(n), ~MorirOrden
  PROVE  /\ \E k : Empezada(n, k)
         /\ UNCHANGED <<vars, orden, ordenes, cpblock, ordenCp, revividos>>
<1> DEFINE x == Head(aFS[n])
           c == x.copia
           r == EntradaDe(n, c)
           de == IF c.nombre \in terminados THEN "final" ELSE "parcial"
           doble == c.nombre \in terminados /\ unicoBloque
           k == Leida(de, doble, r)
<1>1. /\ cargada[n] = SinCargar /\ aFS[n] # <<>> /\ x.tipo = "RESULOPERACION" /\ SeRegistra(x)
      /\ actuales[n][c.nombre] # Sin
      /\ cargada' = [cargada EXCEPT ![n] = k]
      /\ UNCHANGED <<vars, orden, ordenes, cpblock, ordenCp, revividos>>
  BY DEF CargarRegistro, Atiende
<1>2. x \in Resultado
  BY <1>1, Primeros, QueContestado DEF InvTipos
<1>3. c \in Copia /\ c.numero \in Bloques /\ actuales[n][c.nombre] \in Dirs
  BY <1>1, <1>2, Instancia DEF Resultado, Copia, Numeros, Bloques, InvTipos, Base
<1>4. /\ r \in Entrada /\ r.nodo = n /\ r.nombre = c.nombre /\ r.bloque = c.bloque
      /\ r.copia = c.copia /\ r.numero = c.numero /\ r.dir = actuales[n][c.nombre]
  BY <1>3 DEF EntradaDe, Entrada, Copia
<1>5. Directorios => EsPedido(r.nombre, r.dir)
  BY <1>1, <1>3, <1>4 DEF Directorios, Copia
<1>6. x.res = 1 \/ c.nombre \in terminados
  BY <1>1 DEF SeRegistra
<1>7. Directorios => Registra(r, x)
  BY <1>2, <1>4, <1>5, <1>6 DEF Registra
<1>8. de \in {"final", "parcial", "copia"} /\ doble \in BOOLEAN
  OBVIOUS
<1> HIDE DEF r, de, doble
<1>9. k \in Cargado /\ k.pc = "lee" /\ k.nueva = r
  BY <1>4, <1>8, EsLeida DEF InvTipos
<1> HIDE DEF k, x
<1>10. QED
  BY <1>1, <1>2, <1>4, <1>7, <1>9 DEF Empezada, x

LEMMA HaceCargarCopia ==
  ASSUME InvTipos, NEW n \in Nodos, CargarCopia(n), ~MorirOrden
  PROVE  /\ \E k : Empezada(n, k)
         /\ UNCHANGED <<vars, orden, ordenes, cpblock, ordenCp, revividos>>
<1> DEFINE x == Head(aFS[n])
           j == CopiaQueFalta({y \in DeArchivo(x.nombre, x.dir) : y.bloque = x.bloque})
           r == [nombre |-> x.nombre, dir |-> x.dir, bloque |-> x.bloque, copia |-> j,
                 nodo |-> n, numero |-> x.numero]
           k == Leida("copia", FALSE, r)
<1>1. /\ cargada[n] = SinCargar /\ aFS[n] # <<>> /\ x.tipo = "RESPUESTASETBLOQUECPTO" /\ x.res = 1
      /\ cargada' = [cargada EXCEPT ![n] = k]
      /\ UNCHANGED <<vars, orden, ordenes, cpblock, ordenCp, revividos>>
  BY DEF CargarCopia, Atiende
<1>2. x \in Copiada
  BY <1>1, Primeros, QueContestado DEF InvTipos
<1>3. j \in 0..2
  BY DEF CopiaQueFalta
<1> HIDE DEF j
<1>4. /\ r \in Entrada /\ r.nodo = n /\ r.nombre = x.nombre /\ r.bloque = x.bloque
      /\ r.dir = x.dir /\ r.numero = x.numero
  BY <1>2, <1>3 DEF Entrada, Copiada
<1>5. Registra(r, x)
  BY <1>1, <1>2, <1>4 DEF Registra, MismoArchivo, Del
<1>6. k \in Cargado /\ k.pc = "lee" /\ k.nueva = r /\ k.de = "copia"
  BY <1>4, EsLeida DEF InvTipos
<1> HIDE DEF k, r, x
<1>7. QED
  BY <1>1, <1>4, <1>5, <1>6 DEF Empezada, x

(* A registration begins, or FileSystem dies. *)
LEMMA HaceCargar ==
  ASSUME InvTipos, NEW n \in Nodos, CargarRegistro(n) \/ CargarCopia(n)
  PROVE  /\ UNCHANGED <<datanodes, libres, bitmap, actuales, unico, cpfrom, terminados, erroneos,
                        metadata, red, disco, viva, cola, envio, fallos, orden, cpblock, ordenCp,
                        revividos>>
         /\ fs' \in {fs, "muerto"}
         /\ cargada' = cargada \/ \E k : Empezada(n, k)
<1>1. CASE MorirOrden
  BY <1>1 DEF MorirOrden, Morir, fsDatos, fsArchivos, red, nodo, hilo
<1>2. CASE ~MorirOrden
  <2>1. /\ \E k : Empezada(n, k)
        /\ UNCHANGED <<vars, orden, ordenes, cpblock, ordenCp, revividos>>
    BY <1>2, HaceCargarRegistro, HaceCargarCopia
  <2>2. QED
    BY <2>1 DEF vars, fsDatos, fsArchivos, nodo, hilo
<1>3. QED
  BY <1>1, <1>2

LEMMA TiposNodoBloques ==
  ASSUME InvTipos, Cargadas, NEW n \in Nodos, PasoNodoBloques(n)
  PROVE  InvTipos'
<1>1. CASE DelNodo(n)
  BY <1>1, TiposNodo
<1>2. CASE ResponderGet(n)
  <2>1. PICK x \in Traido :
          /\ Contesta(n, x)
          /\ UNCHANGED <<datanodes, libres, bitmap, actuales, unico, cpfrom, terminados, erroneos,
                         metadata, disco, viva, fs, cola, envio, fallos, bloqueVars>>
    BY <1>2, HaceResponder DEF InvTipos
  <2>2. aNodo' \in [Nodos -> Seq(Mensaje)] /\ aFS' \in [Nodos -> Seq(Contestado)]
    BY <2>1, TiposMensajes DEF InvTipos, Contestado
  <2>3. QED
    BY <2>1, <2>2 DEF InvTipos, Base, Repartos, TiposRed, TiposOrdenes, bloqueVars
<1>3. CASE LeerGet(n)
  <2>1. PICK x \in Traido :
          /\ Lee(n) /\ ordenCp' = TRUE
          /\ cpblock' = [dato |-> x.dato, para |-> x.para]
          /\ UNCHANGED <<datanodes, libres, bitmap, actuales, unico, cpfrom, terminados, erroneos,
                         metadata, disco, viva, fs, cola, envio, fallos, orden, cargada, revividos>>
    BY <1>3, HaceLeerGet DEF InvTipos
  <2>2. aNodo' \in [Nodos -> Seq(Mensaje)] /\ aFS' \in [Nodos -> Seq(Contestado)]
    BY <2>1, TiposMensajes DEF InvTipos
  <2>3. cpblock' \in [dato : Contenido, para : Destinos]
    BY <2>1 DEF Traido
  <2>4. Base' /\ Repartos' /\ TiposRed'
    BY <2>1, <2>2 DEF InvTipos, Base, Repartos, TiposRed
  <2>5. QED
    BY <2>1, <2>3, <2>4 DEF InvTipos, TiposOrdenes
<1>4. CASE GuardarCopia(n)
  <2>1. PICK c \in CopiaNueva, x \in Copiada :
           /\ c.numero \in Bloques /\ Contesta(n, x)
           /\ disco' = IF x.res = 1 THEN [disco EXCEPT ![n][c.numero] = c.dato] ELSE disco
           /\ fallos' = fallos \/ (fallos < MaxFallos /\ fallos' = fallos + 1)
           /\ UNCHANGED <<datanodes, libres, bitmap, actuales, unico, cpfrom, terminados, erroneos,
                          metadata, viva, fs, cola, envio, bloqueVars>>
    <3>1. TiposRed
      BY DEF InvTipos
    <3>2. QED
      BY <1>4, <3>1, HaceGuardarCopia
  <2>2. c.dato \in Contenido
    BY DEF CopiaNueva
  <2>3. disco' \in [Nodos -> [Bloques -> Contenido]]
    BY <2>1, <2>2, TiposDisco DEF InvTipos
  <2>4. aNodo' \in [Nodos -> Seq(Mensaje)] /\ aFS' \in [Nodos -> Seq(Contestado)]
    BY <2>1, TiposMensajes DEF InvTipos, Contestado
  <2>5. fallos' \in 0..MaxFallos
    BY <2>1, MasFallos DEF InvTipos
  <2>6. Base' /\ Repartos'
    BY <2>1, <2>5 DEF InvTipos, Base, Repartos
  <2>7. TiposRed' /\ TiposOrdenes'
    BY <2>1, <2>3, <2>4 DEF InvTipos, TiposRed, TiposOrdenes, bloqueVars
  <2>8. QED
    BY <2>6, <2>7 DEF InvTipos
<1>5. CASE CopiaFallida(n)
  <2>1. /\ Lee(n)
        /\ UNCHANGED <<datanodes, libres, bitmap, actuales, unico, cpfrom, terminados, erroneos,
                       metadata, disco, viva, fs, cola, envio, fallos, bloqueVars>>
    BY <1>5 DEF CopiaFallida, Atiende, Lee, fsDatos, fsArchivos, nodo, hilo
  <2>2. aNodo' \in [Nodos -> Seq(Mensaje)] /\ aFS' \in [Nodos -> Seq(Contestado)]
    BY <2>1, TiposMensajes DEF InvTipos
  <2>3. QED
    BY <2>1, <2>2 DEF InvTipos, Base, Repartos, TiposRed, TiposOrdenes, bloqueVars
<1>6. CASE CargarRegistro(n) \/ CargarCopia(n)
  <2>1. /\ UNCHANGED <<datanodes, libres, bitmap, actuales, unico, cpfrom, terminados, erroneos,
                       metadata, red, disco, viva, cola, envio, fallos, orden, cpblock, ordenCp,
                       revividos>>
        /\ fs' \in {fs, "muerto"}
        /\ cargada' = cargada \/ \E k : Empezada(n, k)
    BY <1>6, HaceCargar
  <2>2. cargada' \in [Nodos -> {SinCargar} \cup Cargado]
    BY <2>1 DEF Empezada, InvTipos, TiposOrdenes
  <2>3. Base' /\ Repartos' /\ TiposRed'
    BY <2>1 DEF InvTipos, Base, Repartos, TiposRed, red
  <2>4. QED
    BY <2>1, <2>2, <2>3 DEF InvTipos, TiposOrdenes
<1>7. CASE GrabarMetadata(n)
  <2>1. /\ Lee(n) /\ metadata' \in SUBSET Entrada
        /\ \E k \in Cargado : cargada' = [cargada EXCEPT ![n] = k]
        /\ UNCHANGED <<datanodes, libres, bitmap, actuales, unico, cpfrom, terminados, erroneos,
                       disco, viva, fs, cola, envio, fallos, orden, cpblock, ordenCp>>
    <3>1. TiposRed /\ TiposOrdenes
      BY DEF InvTipos
    <3>2. QED
      BY <1>7, <3>1, HaceGrabar
  <2>2. aNodo' \in [Nodos -> Seq(Mensaje)] /\ aFS' \in [Nodos -> Seq(Contestado)]
    BY <2>1, TiposMensajes DEF InvTipos
  <2>3. Base' /\ Repartos' /\ TiposRed'
    BY <2>1, <2>2 DEF InvTipos, Base, Repartos, TiposRed
  <2>4. QED
    BY <2>1, <2>3 DEF InvTipos, TiposOrdenes
<1>8. CASE Regrabar(n) \/ Releer(n) \/ Terminar(n)
  <2>0. TiposRed /\ TiposOrdenes
    BY DEF InvTipos
  <2>1. /\ UNCHANGED <<datanodes, libres, bitmap, terminados, erroneos, red, disco, viva, fs, cola,
                       envio, fallos, orden, cpblock, ordenCp>>
        /\ metadata' \in SUBSET Entrada
        /\ unico' \in {unico, FALSE} /\ cpfrom' \in {cpfrom, FALSE}
    BY <1>8, <2>0, HaceSalvar
  <2>a. actuales' = actuales \/ \E a : actuales' = [actuales EXCEPT ![n][a] = Sin]
    BY <1>8, <2>0, HaceSalvar
  <2>c. \E k \in {SinCargar} \cup Cargado : cargada' = [cargada EXCEPT ![n] = k]
    BY <1>8, <2>0, HaceSalvar
  <2>2. actuales' \in [Nodos -> [Nombres -> Dirs \cup {Sin}]]
    <3>1. actuales \in [Nodos -> [Nombres -> Dirs \cup {Sin}]]
      BY DEF InvTipos, Base
    <3>2. \A a : [actuales[n] EXCEPT ![a] = Sin] \in [Nombres -> Dirs \cup {Sin}]
      BY <3>1
    <3>3. QED
      BY <2>a, <3>1, <3>2
  <2>3. Base' /\ Repartos' /\ TiposRed'
    BY <2>1, <2>2 DEF InvTipos, Base, Repartos, TiposRed, red
  <2>4. QED
    BY <2>1, <2>c, <2>3 DEF InvTipos, TiposOrdenes
<1>9. QED
  BY <1>1, <1>2, <1>3, <1>4, <1>5, <1>6, <1>7, <1>8 DEF PasoNodoBloques, DelNodo

(* The kinds of steps there are. *)
LEMMA Pasos ==
  ASSUME [NextBloques]_todo
  PROVE  \/ UNCHANGED todo
         \/ \E h \in Hilos : PasoHilo(h) /\ UNCHANGED bloqueVars
         \/ \E n \in Nodos : PasoNodoBloques(n) \/ (Caer(n) /\ UNCHANGED bloqueVars)
         \/ \E a \in Nombres, d \in Dirs : Rm(a, d)
         \/ \E a \in Nombres, d \in Dirs, b \in 0..MaxBloques, n \in Nodos : Cpblock(a, d, b, n)
         \/ Recontar \/ Quitar \/ Copiar
BY DEF NextBloques, EmpezarOrden, PasoConsola, Almacenar, Hilos

LEMMA TiposSiguen ==
  ASSUME InvTipos, Cargadas, [NextBloques]_todo
  PROVE  InvTipos'
<1>1. CASE UNCHANGED todo
  BY <1>1 DEF todo, vars, bloqueVars, fsDatos, fsArchivos, red, nodo, hilo, InvTipos, Base, Repartos,
              TiposRed, TiposOrdenes
<1>2. ASSUME NEW n \in Nodos, PasoNodoBloques(n) \/ (Caer(n) /\ UNCHANGED bloqueVars)
      PROVE  InvTipos'
  BY <1>2, TiposNodoBloques, TiposNodo DEF DelNodo
<1>3. QED
  BY <1>1, <1>2, Pasos, TiposHilo, TiposRm, TiposCpblock, TiposRecontar, TiposQuitar, TiposCopiar

LEMMA TiposAlPrincipio ==
  ASSUME InitBloques
  PROVE  InvTipos
<1>1. TypeOK /\ Repartos
  BY AlPrincipio DEF InitBloques, IInv
<1>2. /\ metadata = {} /\ aNodo = [n \in Nodos |-> <<>>] /\ aFS = [n \in Nodos |-> <<>>]
      /\ disco = [n \in Nodos |-> [j \in 0..(Total - 1) |-> Vacio]]
  BY DEF InitBloques, Init
<1>3. TiposRed
  <2>1. <<>> \in Seq(Mensaje) /\ <<>> \in Seq(Contestado)
    OBVIOUS
  <2>2. QED
    BY <1>2, <2>1 DEF TiposRed, Bloques, Contenido
<1>4. TiposOrdenes
  BY DEF InitBloques, TiposOrdenes, Contenido, Destinos
<1>5. QED
  BY <1>1, <1>3, <1>4, EnTipos DEF InvTipos

-----------------------------------------------------------------------------
(* The messages of one class, when one is sent, answered, read or lost. *)
LEMMA ClaseMandada ==
  ASSUME TiposRed, NEW n \in Nodos, NEW m \in Mensaje, Manda(n, m), NEW k
  PROVE  /\ \A p \in Nodos : Hay(k, p)' <=> Hay(k, p) \/ (p = n /\ Clase(m) = k)
         /\ Unico(k) /\ (Clase(m) = k => Ninguno(k)) => Unico(k)'
<1>1. /\ aNodo \in [Nodos -> Seq(Mensaje)] /\ aNodo[n] \in Seq(Mensaje)
      /\ aNodo' = [aNodo EXCEPT ![n] = Append(@, m)] /\ aFS' = aFS
  BY DEF TiposRed, Manda
<1>2. aNodo'[n] = Append(aNodo[n], m) /\ \A p \in Nodos \ {n} : aNodo'[p] = aNodo[p]
  BY <1>1
<1>3. /\ Tiene(k, aNodo'[n]) <=> Tiene(k, aNodo[n]) \/ Clase(m) = k
      /\ UnoDe(k, aNodo[n]) /\ (Clase(m) = k => ~Tiene(k, aNodo[n])) => UnoDe(k, aNodo'[n])
  BY <1>1, <1>2, ClasesMas
<1>4. \A p \in Nodos : Hay(k, p)' <=> Hay(k, p) \/ (p = n /\ Clase(m) = k)
  BY <1>1, <1>2, <1>3 DEF Hay
<1>5. ASSUME Unico(k), Clase(m) = k => Ninguno(k) PROVE Unico(k)'
  BY <1>1, <1>2, <1>3, <1>4, <1>5 DEF Unico, Ninguno, Hay
<1>6. QED
  BY <1>4, <1>5

LEMMA ClaseContestada ==
  ASSUME TiposRed, NEW n \in Nodos, NEW x \in Contestado, Contesta(n, x), NEW k,
         Clase(x) = Clase(Head(aNodo[n]))
  PROVE  /\ \A p \in Nodos : Hay(k, p)' <=> Hay(k, p)
         /\ Unico(k) => Unico(k)'
<1>1. /\ aNodo \in [Nodos -> Seq(Mensaje)] /\ aNodo[n] \in Seq(Mensaje) /\ aNodo[n] # <<>>
      /\ aFS \in [Nodos -> Seq(Contestado)] /\ aFS[n] \in Seq(Contestado)
      /\ aNodo' = [aNodo EXCEPT ![n] = Tail(@)] /\ aFS' = [aFS EXCEPT ![n] = Append(@, x)]
  BY DEF TiposRed, Contesta
<1>2. /\ aNodo'[n] = Tail(aNodo[n]) /\ \A p \in Nodos \ {n} : aNodo'[p] = aNodo[p]
      /\ aFS'[n] = Append(aFS[n], x) /\ \A p \in Nodos \ {n} : aFS'[p] = aFS[p]
  BY <1>1
<1>3. /\ Tiene(k, aNodo[n]) <=> Clase(x) = k \/ Tiene(k, aNodo'[n])
      /\ UnoDe(k, aNodo[n]) => UnoDe(k, aNodo'[n]) /\ (Clase(x) = k => ~Tiene(k, aNodo'[n]))
  BY <1>1, <1>2, ClasesMenos
<1>4. /\ Tiene(k, aFS'[n]) <=> Tiene(k, aFS[n]) \/ Clase(x) = k
      /\ UnoDe(k, aFS[n]) /\ (Clase(x) = k => ~Tiene(k, aFS[n])) => UnoDe(k, aFS'[n])
  BY <1>1, <1>2, ClasesMas
<1>5. \A p \in Nodos : Hay(k, p)' <=> Hay(k, p)
  BY <1>2, <1>3, <1>4 DEF Hay
<1>6. ASSUME Unico(k) PROVE Unico(k)'
  BY <1>2, <1>3, <1>4, <1>5, <1>6 DEF Unico, Hay
<1>7. QED
  BY <1>5, <1>6

LEMMA ClaseLeida ==
  ASSUME TiposRed, NEW n \in Nodos, Lee(n), NEW k
  PROVE  /\ \A p \in Nodos : Hay(k, p)' => Hay(k, p)
         /\ Unico(k) => Unico(k)' /\ (Clase(Head(aFS[n])) = k => Ninguno(k)')
         /\ Clase(Head(aFS[n])) # k => \A p \in Nodos : Hay(k, p)' <=> Hay(k, p)
         /\ Clase(Head(aFS[n])) = k => Hay(k, n)
<1>1. /\ aFS \in [Nodos -> Seq(Contestado)] /\ aFS[n] \in Seq(Contestado) /\ aFS[n] # <<>>
      /\ aFS' = [aFS EXCEPT ![n] = Tail(@)] /\ aNodo' = aNodo
  BY DEF TiposRed, Lee
<1>2. aFS'[n] = Tail(aFS[n]) /\ \A p \in Nodos \ {n} : aFS'[p] = aFS[p]
  BY <1>1
<1>3. /\ Tiene(k, aFS[n]) <=> Clase(Head(aFS[n])) = k \/ Tiene(k, aFS'[n])
      /\ UnoDe(k, aFS[n]) => /\ UnoDe(k, aFS'[n])
                             /\ Clase(Head(aFS[n])) = k => ~Tiene(k, aFS'[n])
  BY <1>1, <1>2, ClasesMenos
<1>4. \A p \in Nodos : Hay(k, p)' => Hay(k, p)
  BY <1>1, <1>2, <1>3 DEF Hay
<1>5. ASSUME Unico(k) PROVE Unico(k)'
  BY <1>1, <1>2, <1>3, <1>4, <1>5 DEF Unico, Hay
<1>6. ASSUME Unico(k), Clase(Head(aFS[n])) = k PROVE Ninguno(k)'
  <2>1. Tiene(k, aFS[n]) /\ ~Tiene(k, aFS'[n]) /\ ~Tiene(k, aNodo[n])
    BY <1>3, <1>6 DEF Unico
  <2>2. \A p \in Nodos \ {n} : ~Hay(k, p)
    BY <1>6, <2>1 DEF Unico, Hay
  <2>3. QED
    BY <1>1, <1>2, <2>1, <2>2 DEF Ninguno, Hay
<1>7. Clase(Head(aFS[n])) # k => \A p \in Nodos : Hay(k, p)' <=> Hay(k, p)
  BY <1>1, <1>2, <1>3 DEF Hay
<1>8. QED
  BY <1>3, <1>4, <1>5, <1>6, <1>7 DEF Hay

LEMMA ClasePerdida ==
  ASSUME TiposRed, NEW n \in Nodos, Pierde(n), NEW k
  PROVE  /\ \A p \in Nodos : Hay(k, p)' => Hay(k, p)
         /\ Unico(k) => Unico(k)'
<1>1. aNodo'[n] = <<>> /\ (\A p \in Nodos \ {n} : aNodo'[p] = aNodo[p]) /\ aFS' = aFS
  BY DEF TiposRed, Pierde
<1>2. ~Tiene(k, <<>>) /\ UnoDe(k, <<>>)
  BY DEF Tiene, UnoDe
<1>3. \A p \in Nodos : Hay(k, p)' => Hay(k, p)
  BY <1>1, <1>2 DEF Hay
<1>4. ASSUME Unico(k) PROVE Unico(k)'
  BY <1>1, <1>2, <1>3, <1>4 DEF Unico, Hay
<1>5. QED
  BY <1>3, <1>4

(* The messages a node or FileSystem has to read afterwards. *)
LEMMA Contenidos ==
  ASSUME TiposRed, NEW n \in Nodos, NEW p \in Nodos
  PROVE  /\ \A m \in Mensaje : Manda(n, m) =>
              /\ ToSet(aNodo'[p]) \subseteq ToSet(aNodo[p]) \cup {m}
              /\ p # n => ToSet(aNodo'[p]) = ToSet(aNodo[p])
              /\ ToSet(aFS'[p]) = ToSet(aFS[p])
         /\ \A x \in Contestado : Contesta(n, x) =>
              /\ ToSet(aNodo'[p]) \subseteq ToSet(aNodo[p]) /\ Head(aNodo[n]) \in ToSet(aNodo[n])
              /\ ToSet(aFS'[p]) \subseteq ToSet(aFS[p]) \cup {x}
              /\ p # n => ToSet(aFS'[p]) = ToSet(aFS[p])
         /\ Lee(n) => /\ ToSet(aNodo'[p]) = ToSet(aNodo[p]) /\ Head(aFS[n]) \in ToSet(aFS[n])
                      /\ ToSet(aFS'[p]) \subseteq ToSet(aFS[p])
         /\ Pierde(n) => ToSet(aNodo'[p]) \subseteq ToSet(aNodo[p]) /\ ToSet(aFS'[p]) = ToSet(aFS[p])
<1>1. aNodo \in [Nodos -> Seq(Mensaje)] /\ aFS \in [Nodos -> Seq(Contestado)]
  BY DEF TiposRed
<1>2. /\ \A m \in Mensaje : ToSet(Append(aNodo[n], m)) = ToSet(aNodo[n]) \cup {m}
      /\ aNodo[n] # <<>> => ToSet(aNodo[n]) = {Head(aNodo[n])} \cup ToSet(Tail(aNodo[n]))
  BY <1>1, Elementos
<1>3. /\ \A x \in Contestado : ToSet(Append(aFS[n], x)) = ToSet(aFS[n]) \cup {x}
      /\ aFS[n] # <<>> => ToSet(aFS[n]) = {Head(aFS[n])} \cup ToSet(Tail(aFS[n]))
  BY <1>1, Elementos
<1>4. ASSUME NEW m \in Mensaje, Manda(n, m)
      PROVE  /\ ToSet(aNodo'[p]) \subseteq ToSet(aNodo[p]) \cup {m}
             /\ p # n => ToSet(aNodo'[p]) = ToSet(aNodo[p])
             /\ ToSet(aFS'[p]) = ToSet(aFS[p])
  <2>1. aFS' = aFS /\ aNodo'[n] = Append(aNodo[n], m) /\ \A z \in Nodos \ {n} : aNodo'[z] = aNodo[z]
    BY <1>1, <1>4 DEF Manda
  <2>2. QED
    BY <1>2, <2>1
<1>5. ASSUME NEW x \in Contestado, Contesta(n, x)
      PROVE  /\ ToSet(aNodo'[p]) \subseteq ToSet(aNodo[p]) /\ Head(aNodo[n]) \in ToSet(aNodo[n])
             /\ ToSet(aFS'[p]) \subseteq ToSet(aFS[p]) \cup {x}
             /\ p # n => ToSet(aFS'[p]) = ToSet(aFS[p])
  <2>1. /\ aNodo[n] # <<>> /\ aNodo'[n] = Tail(aNodo[n]) /\ \A z \in Nodos \ {n} : aNodo'[z] = aNodo[z]
        /\ aFS'[n] = Append(aFS[n], x) /\ \A z \in Nodos \ {n} : aFS'[z] = aFS[z]
    BY <1>1, <1>5 DEF Contesta
  <2>2. QED
    BY <1>2, <1>3, <2>1
<1>6. ASSUME Lee(n)
      PROVE  /\ ToSet(aNodo'[p]) = ToSet(aNodo[p]) /\ Head(aFS[n]) \in ToSet(aFS[n])
             /\ ToSet(aFS'[p]) \subseteq ToSet(aFS[p])
  <2>1. /\ aNodo' = aNodo /\ aFS[n] # <<>>
        /\ aFS'[n] = Tail(aFS[n]) /\ \A z \in Nodos \ {n} : aFS'[z] = aFS[z]
    BY <1>1, <1>6 DEF Lee
  <2>2. QED
    BY <1>3, <2>1
<1>7. ASSUME Pierde(n)
      PROVE  ToSet(aNodo'[p]) \subseteq ToSet(aNodo[p]) /\ ToSet(aFS'[p]) = ToSet(aFS[p])
  <2>1. aFS' = aFS /\ aNodo'[n] = <<>> /\ \A z \in Nodos \ {n} : aNodo'[z] = aNodo[z]
    BY <1>1, <1>7 DEF Pierde
  <2>2. ToSet(<<>>) = {}
    BY DEF ToSet
  <2>3. QED
    BY <2>1, <2>2
<1>8. QED
  BY <1>4, <1>5, <1>6, <1>7

-----------------------------------------------------------------------------
(* The block the console waits for. *)
LEMMA Clases ==
  /\ \A m \in Mensaje : /\ m \in Copia => Clase(m) = "copia"
                        /\ m \in Get => Clase(m) = "get"
                        /\ m \in CopiaNueva => Clase(m) = "nueva"
  /\ \A x \in Contestado : /\ x \in Resultado => Clase(x) = "copia"
                           /\ x \in Traido => Clase(x) = "get"
                           /\ x \in Copiada => Clase(x) = "nueva"
  /\ Copia \cup Get \cup CopiaNueva = Mensaje /\ Resultado \cup Traido \cup Copiada = Contestado
  /\ "copia" # "get" /\ "copia" # "nueva" /\ "get" # "nueva"
BY DEF Mensaje, Copia, Get, CopiaNueva, Contestado, Resultado, Traido, Copiada, Clase

LEMMA SinGets ==
  ASSUME Ninguno("get")
  PROVE  \A n \in Nodos : /\ \A m \in ToSet(aNodo[n]) : Clase(m) # "get"
                          /\ \A m \in ToSet(aFS[n]) : Clase(m) # "get"
BY DEF Ninguno, Hay, Tiene, ToSet

(* Nothing new that a cpblock asked for. *)
LEMMA OrdenIgual ==
  ASSUME UnaOrden, UNCHANGED <<orden, ordenCp, cpblock>>, Unico("get")',
         \A p \in Nodos : Hay("get", p)' => Hay("get", p),
         \A p \in Nodos :
           /\ \A m \in ToSet(aNodo'[p]) :
                m \in ToSet(aNodo[p]) \/ Clase(m) # "get" \/ m.para \in Receptores
           /\ \A m \in ToSet(aFS'[p]) :
                m \in ToSet(aFS[p]) \/ Clase(m) # "get" \/ m.para \in Receptores
  PROVE  UnaOrden'
<1>1. Ninguno("get") => Ninguno("get")'
  BY DEF Ninguno
<1>2. Receptores' = Receptores
  BY DEF Receptores
<1>3. ASSUME NEW n \in Nodos
      PROVE  /\ \A m \in ToSet(aNodo'[n]) : Clase(m) = "get" => m.para \in Receptores
             /\ \A m \in ToSet(aFS'[n]) : Clase(m) = "get" => m.para \in Receptores
  BY <1>3 DEF UnaOrden
<1>4. QED
  BY <1>1, <1>2, <1>3 DEF UnaOrden

(* The same messages. *)
LEMMA OrdenMismaRed ==
  ASSUME UnaOrden, UNCHANGED <<orden, ordenCp, cpblock>>, UNCHANGED red
  PROVE  UnaOrden'
BY DEF UnaOrden, Unico, Ninguno, Hay, Receptores, red

(* A message that is not of a cpblock is sent, answered or read, or some are *)
(* lost.                                                                     *)
LEMMA OrdenAparte ==
  ASSUME InvTipos, UnaOrden, UNCHANGED <<orden, ordenCp, cpblock>>, NEW n \in Nodos,
         \/ \E m \in Mensaje : Manda(n, m) /\ Clase(m) # "get"
         \/ \E x \in Contestado : Contesta(n, x) /\ Clase(x) # "get" /\ Clase(Head(aNodo[n])) = Clase(x)
         \/ Lee(n) \/ Pierde(n)
  PROVE  UnaOrden'
<1> USE DEF InvTipos
<1>1. CASE \E m \in Mensaje : Manda(n, m) /\ Clase(m) # "get"
  <2>1. PICK m \in Mensaje : Manda(n, m) /\ Clase(m) # "get"
    BY <1>1
  <2>2. Unico("get")' /\ \A p \in Nodos : Hay("get", p)' => Hay("get", p)
    BY <2>1, ClaseMandada DEF UnaOrden
  <2>3. \A p \in Nodos : /\ ToSet(aNodo'[p]) \subseteq ToSet(aNodo[p]) \cup {m}
                         /\ ToSet(aFS'[p]) = ToSet(aFS[p])
    BY <2>1, Contenidos
  <2>4. QED
    BY <2>1, <2>2, <2>3, OrdenIgual
<1>2. CASE \E x \in Contestado : Contesta(n, x) /\ Clase(x) # "get" /\ Clase(Head(aNodo[n])) = Clase(x)
  <2>1. PICK x \in Contestado : Contesta(n, x) /\ Clase(x) # "get" /\ Clase(Head(aNodo[n])) = Clase(x)
    BY <1>2
  <2>2. Unico("get")' /\ \A p \in Nodos : Hay("get", p)' => Hay("get", p)
    BY <2>1, ClaseContestada DEF UnaOrden
  <2>3. \A p \in Nodos : /\ ToSet(aNodo'[p]) \subseteq ToSet(aNodo[p])
                         /\ ToSet(aFS'[p]) \subseteq ToSet(aFS[p]) \cup {x}
    BY <2>1, Contenidos
  <2>4. QED
    BY <2>1, <2>2, <2>3, OrdenIgual
<1>3. CASE Lee(n)
  <2>1. Unico("get")' /\ \A p \in Nodos : Hay("get", p)' => Hay("get", p)
    BY <1>3, ClaseLeida DEF UnaOrden
  <2>2. \A p \in Nodos : /\ ToSet(aNodo'[p]) = ToSet(aNodo[p])
                         /\ ToSet(aFS'[p]) \subseteq ToSet(aFS[p])
    BY <1>3, Contenidos
  <2>3. QED
    BY <2>1, <2>2, OrdenIgual
<1>4. CASE Pierde(n)
  <2>1. Unico("get")' /\ \A p \in Nodos : Hay("get", p)' => Hay("get", p)
    BY <1>4, ClasePerdida DEF UnaOrden
  <2>2. \A p \in Nodos : /\ ToSet(aNodo'[p]) \subseteq ToSet(aNodo[p])
                         /\ ToSet(aFS'[p]) = ToSet(aFS[p])
    BY <1>4, Contenidos
  <2>3. QED
    BY <2>1, <2>2, OrdenIgual
<1>5. QED
  BY <1>1, <1>2, <1>3, <1>4

LEMMA OrdenHilo ==
  ASSUME InvTipos, UnaOrden, NEW h \in Hilos, PasoHilo(h), UNCHANGED bloqueVars
  PROVE  UnaOrden'
<1>1. CASE EnviarCopia(h)
  <2>1. PICK n \in Nodos, c \in Copia : Manda(n, c) \/ UNCHANGED red
    BY <1>1, HaceEnviar DEF InvTipos
  <2>2. c \in Mensaje /\ Clase(c) # "get"
    BY Clases
  <2>3. QED
    BY <2>1, <2>2, OrdenAparte, OrdenMismaRed DEF bloqueVars
<1>2. CASE ~EnviarCopia(h)
  BY <1>2, HilosQuietos, OrdenMismaRed DEF bloqueVars
<1>3. QED
  BY <1>1, <1>2

LEMMA OrdenNodo ==
  ASSUME InvTipos, UnaOrden, NEW n \in Nodos, DelNodo(n)
  PROVE  UnaOrden'
<1>0. UNCHANGED <<orden, ordenCp, cpblock>>
  BY CasosDelNodo DEF bloqueVars
<1>1. CASE Guardar(n)
  <2>1. PICK c \in Copia, x \in Resultado : Contesta(n, x) /\ c = Head(aNodo[n])
    BY <1>1, HaceGuardar DEF InvTipos
  <2>2. x \in Contestado /\ Clase(x) # "get" /\ Clase(Head(aNodo[n])) = Clase(x)
    BY <2>1, Clases
  <2>3. QED
    BY <2>1, <2>2, <1>0, OrdenAparte
<1>2. CASE GuardarFuera(n) \/ Caer(n)
  BY <1>2, HacePerder, <1>0, OrdenAparte
<1>3. CASE ResultadoFallido(n)
  <2>1. Lee(n)
    BY <1>3, HaceFallido DEF InvTipos
  <2>2. QED
    BY <2>1, <1>0, OrdenAparte
<1>4. CASE Desconectar(n)
  BY <1>4, DesconectarQuieto, <1>0, OrdenMismaRed
<1>5. QED
  BY <1>1, <1>2, <1>3, <1>4, CasosDelNodo

LEMMA OrdenNodoBloques ==
  ASSUME InvTipos, UnaOrden, Cargadas, NEW n \in Nodos, PasoNodoBloques(n)
  PROVE  UnaOrden'
<1>1. CASE DelNodo(n)
  BY <1>1, OrdenNodo
<1>2. CASE ResponderGet(n)
  <2>1. PICK g \in Get, x \in Traido : /\ g = Head(aNodo[n]) /\ x.para = g.para /\ Contesta(n, x)
                                       /\ UNCHANGED bloqueVars
    BY <1>2, HaceResponder DEF InvTipos
  <2>2. x \in Contestado /\ Clase(g) = "get" /\ Clase(x) = "get"
    BY Clases
  <2>3. Unico("get")' /\ \A p \in Nodos : Hay("get", p)' => Hay("get", p)
    BY <2>1, <2>2, ClaseContestada DEF UnaOrden, InvTipos
  <2>4. \A p \in Nodos : /\ ToSet(aNodo'[p]) \subseteq ToSet(aNodo[p])
                         /\ ToSet(aFS'[p]) \subseteq ToSet(aFS[p]) \cup {x}
    BY <2>1, <2>2, Contenidos DEF InvTipos
  <2>5. g \in ToSet(aNodo[n])
    BY <2>1, <2>2, Contenidos DEF InvTipos
  <2>6. x.para \in Receptores
    BY <2>1, <2>2, <2>5 DEF UnaOrden
  <2>7. UNCHANGED <<orden, ordenCp, cpblock>>
    BY <2>1 DEF bloqueVars
  <2>8. QED
    BY <2>3, <2>4, <2>6, <2>7, OrdenIgual
<1>3. CASE LeerGet(n)
  <2>1. PICK x \in Traido : /\ x = Head(aFS[n]) /\ Lee(n) /\ ordenCp' = TRUE
                            /\ cpblock' = [dato |-> x.dato, para |-> x.para] /\ orden' = orden
    BY <1>3, HaceLeerGet DEF InvTipos
  <2>2. x \in Contestado /\ Clase(x) = "get"
    BY Clases
  <2>3. Unico("get")' /\ Ninguno("get")' /\ Hay("get", n)
    BY <2>1, <2>2, ClaseLeida DEF UnaOrden, InvTipos
  <2>4. orden.pc = "espera"
    BY <2>3 DEF UnaOrden, Ninguno
  <2>5. x \in ToSet(aFS[n])
    BY <2>1, Contenidos DEF InvTipos
  <2>6. cpblock'.para \in Receptores'
    BY <2>1, <2>2, <2>5 DEF UnaOrden, Receptores
  <2>7. \A p \in Nodos : /\ \A m \in ToSet(aNodo'[p]) : Clase(m) # "get"
                         /\ \A m \in ToSet(aFS'[p]) : Clase(m) # "get"
    BY <2>3 DEF Ninguno, Hay, Tiene, ToSet
  <2>8. QED
    BY <2>1, <2>3, <2>4, <2>6, <2>7 DEF UnaOrden
<1>4. CASE GuardarCopia(n)
  <2>1. PICK c \in CopiaNueva, x \in Copiada : c = Head(aNodo[n]) /\ Contesta(n, x) /\ UNCHANGED bloqueVars
    BY <1>4, HaceGuardarCopia DEF InvTipos
  <2>2. x \in Contestado /\ Clase(x) # "get" /\ Clase(Head(aNodo[n])) = Clase(x)
    BY <2>1, Clases
  <2>3. QED
    BY <2>1, <2>2, OrdenAparte DEF bloqueVars
<1>5. CASE CopiaFallida(n)
  <2>1. Lee(n) /\ UNCHANGED bloqueVars
    BY <1>5 DEF CopiaFallida, Atiende, Lee
  <2>2. QED
    BY <2>1, OrdenAparte DEF bloqueVars
<1>6. CASE CargarRegistro(n) \/ CargarCopia(n)
  BY <1>6, HaceCargar, OrdenMismaRed
<1>7. CASE GrabarMetadata(n)
  <2>1. Lee(n) /\ UNCHANGED <<orden, ordenCp, cpblock>>
    BY <1>7, HaceGrabar DEF InvTipos
  <2>2. QED
    BY <2>1, OrdenAparte
<1>8. CASE Regrabar(n) \/ Releer(n) \/ Terminar(n)
  BY <1>8, HaceSalvar, OrdenMismaRed DEF InvTipos
<1>9. QED
  BY <1>1, <1>2, <1>3, <1>4, <1>5, <1>6, <1>7, <1>8 DEF PasoNodoBloques, DelNodo

(* With nothing asked for there is nobody to receive it. *)
LEMMA OrdenNueva ==
  ASSUME UnaOrden, Ninguno("get"), UNCHANGED red, ~ordenCp'
  PROVE  UnaOrden'
<1>1. Unico("get")' /\ Ninguno("get")'
  BY DEF UnaOrden, Unico, Ninguno, Hay, red
<1>2. \A n \in Nodos : /\ \A m \in ToSet(aNodo'[n]) : Clase(m) # "get"
                       /\ \A m \in ToSet(aFS'[n]) : Clase(m) # "get"
  BY SinGets DEF red
<1>3. QED
  BY <1>1, <1>2 DEF UnaOrden

LEMMA OrdenConsola ==
  ASSUME InvTipos, UnaOrden, (\E a \in Nombres, d \in Dirs : Rm(a, d)) \/ Recontar \/ Quitar
  PROVE  UnaOrden'
<1>1. orden.pc \in {"libre", "recuenta", "quita"} /\ UNCHANGED red /\ ordenCp' = ordenCp
  BY DEF Rm, Ordenar, MorirOrden, Morir, Recontar, Quitar
<1>2. Ninguno("get") /\ ~ordenCp
  BY <1>1 DEF UnaOrden
<1>3. QED
  BY <1>1, <1>2, OrdenNueva

LEMMA OrdenCpblock ==
  ASSUME InvTipos, UnaOrden, NEW a \in Nombres, NEW d \in Dirs, NEW b \in 0..MaxBloques,
         NEW n \in Nodos, Cpblock(a, d, b, n)
  PROVE  UnaOrden'
<1>0. TiposRed /\ TiposOrdenes
  BY DEF InvTipos
<1>1. CASE UNCHANGED deBloques
  BY <1>1, OrdenMismaRed DEF deBloques
<1>2. CASE ~UNCHANGED deBloques
  <2>1. PICK r \in metadata, g \in Get :
          /\ g.para = IF r.copia = 0 THEN n ELSE SinNombre
          /\ orden.pc = "libre"
          /\ orden' = [pc |-> "espera", nombre |-> a, dir |-> d, bloque |-> b, nodo |-> n]
          /\ Manda(r.nodo, g) \/ UNCHANGED red
          /\ UNCHANGED <<cpblock, ordenCp>>
    BY <1>0, <1>2, HaceCpblock
  <2>2. Ninguno("get") /\ ~ordenCp /\ Unico("get")
    BY <2>1 DEF UnaOrden
  <2>3. r.nodo \in Nodos /\ g \in Mensaje /\ g.para \in Receptores'
    BY <1>0, <2>1, Clases DEF TiposRed, Entrada, Receptores
  <2>4. CASE UNCHANGED red
    BY <2>1, <2>2, <2>4, OrdenNueva
  <2>5. CASE Manda(r.nodo, g)
    <3>1. Unico("get")'
      BY <1>0, <2>2, <2>3, <2>5, ClaseMandada
    <3>2. \A p \in Nodos : /\ ToSet(aNodo'[p]) \subseteq ToSet(aNodo[p]) \cup {g}
                           /\ ToSet(aFS'[p]) = ToSet(aFS[p])
      BY <1>0, <2>3, <2>5, Contenidos
    <3>3. \A p \in Nodos : /\ \A m \in ToSet(aNodo'[p]) : Clase(m) = "get" => m.para \in Receptores'
                           /\ \A m \in ToSet(aFS'[p]) : Clase(m) = "get" => m.para \in Receptores'
      BY <2>2, <2>3, <3>2, SinGets
    <3>4. QED
      BY <2>1, <2>2, <3>1, <3>3 DEF UnaOrden
  <2>6. QED
    BY <2>1, <2>4, <2>5
<1>3. QED
  BY <1>1, <1>2

LEMMA OrdenCopiar ==
  ASSUME InvTipos, UnaOrden, Copiar
  PROVE  UnaOrden'
<1>1. /\ ordenCp /\ ordenCp' = FALSE /\ aFS' = aFS
      /\ \/ UNCHANGED aNodo
         \/ \E m \in CopiaNueva : cpblock.para \in Nodos /\ Manda(cpblock.para, m)
  BY HaceCopiar DEF InvTipos
<1>2. Ninguno("get") /\ Unico("get")
  BY <1>1 DEF UnaOrden
<1>3. CASE UNCHANGED aNodo
  BY <1>1, <1>2, <1>3, OrdenNueva DEF red
<1>4. CASE \E m \in CopiaNueva : cpblock.para \in Nodos /\ Manda(cpblock.para, m)
  <2>1. PICK m \in CopiaNueva : cpblock.para \in Nodos /\ Manda(cpblock.para, m)
    BY <1>4
  <2>2. m \in Mensaje /\ Clase(m) = "nueva"
    BY Clases
  <2>3. Unico("get")' /\ Ninguno("get")'
    BY <1>2, <2>1, <2>2, ClaseMandada DEF InvTipos, Ninguno
  <2>4. \A p \in Nodos : /\ \A z \in ToSet(aNodo'[p]) : Clase(z) # "get"
                         /\ \A z \in ToSet(aFS'[p]) : Clase(z) # "get"
    BY <2>3 DEF Ninguno, Hay, Tiene, ToSet
  <2>5. QED
    BY <1>1, <2>3, <2>4 DEF UnaOrden
<1>5. QED
  BY <1>1, <1>3, <1>4

LEMMA OrdenSigue ==
  ASSUME InvTipos, UnaOrden, Cargadas, [NextBloques]_todo
  PROVE  UnaOrden'
<1>1. CASE UNCHANGED todo
  BY <1>1, OrdenMismaRed DEF todo, vars, bloqueVars
<1>2. ASSUME NEW n \in Nodos, PasoNodoBloques(n) \/ (Caer(n) /\ UNCHANGED bloqueVars)
      PROVE  UnaOrden'
  BY <1>2, OrdenNodoBloques, OrdenNodo DEF DelNodo
<1>3. QED
  BY <1>1, <1>2, Pasos, OrdenHilo, OrdenConsola, OrdenCpblock, OrdenCopiar

-----------------------------------------------------------------------------
(* The blocks that are written for the messages. *)
LEMMA Escriben ==
  /\ \A c \in Copia : Bloque(c) = c.numero /\ (Escribe(c) <=> c.numero < Total)
  /\ \A c \in CopiaNueva : Bloque(c) = c.numero /\ (Escribe(c) <=> c.numero < Total)
  /\ \A g \in Get \cup Traido : ~Escribe(g)
  /\ \A x \in Resultado : Bloque(x) = x.copia.numero /\ Escribe(x)
  /\ \A x \in Copiada : Bloque(x) = x.numero /\ Escribe(x)
<1>1. \A c \in Copia : Bloque(c) = c.numero /\ (Escribe(c) <=> c.numero < Total)
  BY DEF Copia, Bloque, Escribe, Clase
<1>2. \A c \in CopiaNueva : Bloque(c) = c.numero /\ (Escribe(c) <=> c.numero < Total)
  BY DEF CopiaNueva, Bloque, Escribe, Clase
<1>3. \A g \in Get \cup Traido : ~Escribe(g)
  BY DEF Get, Traido, Escribe, Clase
<1>4. \A x \in Resultado : Bloque(x) = x.copia.numero /\ Escribe(x)
  BY DEF Resultado, Bloque, Escribe, Clase
<1>5. \A x \in Copiada : Bloque(x) = x.numero /\ Escribe(x)
  BY Instancia DEF Copiada, Bloques, Bloque, Escribe, Clase
<1>6. QED
  BY <1>1, <1>2, <1>3, <1>4, <1>5

(* The blocks on their way, when a message is sent, answered, read or lost. *)
LEMMA UsosMandados ==
  ASSUME TiposRed, NEW n \in Nodos, NEW m \in Mensaje, Manda(n, m), NEW p \in Nodos
  PROVE  /\ EnUso(p)' = EnUso(p) \cup (IF p = n /\ Escribe(m) THEN {Bloque(m)} ELSE {})
         /\ Sueltos(p) /\ (p = n /\ Escribe(m) => Bloque(m) \notin EnUso(p)) => Sueltos(p)'
<1>1. /\ aNodo \in [Nodos -> Seq(Mensaje)] /\ aNodo[n] \in Seq(Mensaje)
      /\ aNodo' = [aNodo EXCEPT ![n] = Append(@, m)] /\ aFS' = aFS
  BY DEF TiposRed, Manda
<1>2. aNodo'[n] = Append(aNodo[n], m) /\ \A z \in Nodos \ {n} : aNodo'[z] = aNodo[z]
  BY <1>1
<1>3. /\ Escribe(m) => Usados(aNodo'[n]) = Usados(aNodo[n]) \cup {Bloque(m)}
      /\ ~Escribe(m) => Usados(aNodo'[n]) = Usados(aNodo[n])
      /\ Distintos(aNodo[n]) /\ (Escribe(m) => Bloque(m) \notin Usados(aNodo[n]))
           => Distintos(aNodo'[n])
  BY <1>1, <1>2, UsadosMas
<1>4. EnUso(p)' = EnUso(p) \cup (IF p = n /\ Escribe(m) THEN {Bloque(m)} ELSE {})
  BY <1>1, <1>2, <1>3 DEF EnUso
<1>5. ASSUME Sueltos(p), p = n /\ Escribe(m) => Bloque(m) \notin EnUso(p) PROVE Sueltos(p)'
  BY <1>1, <1>2, <1>3, <1>5 DEF EnUso, Sueltos
<1>6. QED
  BY <1>4, <1>5

LEMMA UsosContestados ==
  ASSUME TiposRed, NEW n \in Nodos, NEW x \in Contestado, Contesta(n, x), NEW p \in Nodos,
         Escribe(x) <=> Escribe(Head(aNodo[n])),
         Escribe(x) => Bloque(x) = Bloque(Head(aNodo[n]))
  PROVE  EnUso(p)' = EnUso(p) /\ (Sueltos(p) => Sueltos(p)')
<1>1. /\ aNodo \in [Nodos -> Seq(Mensaje)] /\ aNodo[n] \in Seq(Mensaje) /\ aNodo[n] # <<>>
      /\ aFS \in [Nodos -> Seq(Contestado)] /\ aFS[n] \in Seq(Contestado)
      /\ aNodo' = [aNodo EXCEPT ![n] = Tail(@)] /\ aFS' = [aFS EXCEPT ![n] = Append(@, x)]
  BY DEF TiposRed, Contesta
<1>2. /\ aNodo'[n] = Tail(aNodo[n]) /\ \A z \in Nodos \ {n} : aNodo'[z] = aNodo[z]
      /\ aFS'[n] = Append(aFS[n], x) /\ \A z \in Nodos \ {n} : aFS'[z] = aFS[z]
  BY <1>1
<1>3. /\ Escribe(x) => Usados(aNodo[n]) = Usados(aNodo'[n]) \cup {Bloque(x)}
      /\ ~Escribe(x) => Usados(aNodo[n]) = Usados(aNodo'[n])
      /\ Distintos(aNodo[n]) => /\ Distintos(aNodo'[n])
                                /\ Escribe(x) => Bloque(x) \notin Usados(aNodo'[n])
  BY <1>1, <1>2, UsadosMenos
<1>4. /\ Escribe(x) => Usados(aFS'[n]) = Usados(aFS[n]) \cup {Bloque(x)}
      /\ ~Escribe(x) => Usados(aFS'[n]) = Usados(aFS[n])
      /\ Distintos(aFS[n]) /\ (Escribe(x) => Bloque(x) \notin Usados(aFS[n])) => Distintos(aFS'[n])
  BY <1>1, <1>2, UsadosMas
<1>5. EnUso(p)' = EnUso(p)
  BY <1>2, <1>3, <1>4 DEF EnUso
<1>6. ASSUME Sueltos(p) PROVE Sueltos(p)'
  BY <1>2, <1>3, <1>4, <1>6 DEF Sueltos
<1>7. QED
  BY <1>5, <1>6

LEMMA UsosLeidos ==
  ASSUME TiposRed, NEW n \in Nodos, Lee(n), NEW p \in Nodos
  PROVE  /\ EnUso(p)' \subseteq EnUso(p) /\ (Sueltos(p) => Sueltos(p)')
         /\ Escribe(Head(aFS[n])) =>
              /\ Bloque(Head(aFS[n])) \in EnUso(n)
              /\ Sueltos(n) => Bloque(Head(aFS[n])) \notin EnUso(n)'
<1>1. /\ aFS \in [Nodos -> Seq(Contestado)] /\ aFS[n] \in Seq(Contestado) /\ aFS[n] # <<>>
      /\ aFS' = [aFS EXCEPT ![n] = Tail(@)] /\ aNodo' = aNodo
  BY DEF TiposRed, Lee
<1>2. aFS'[n] = Tail(aFS[n]) /\ \A z \in Nodos \ {n} : aFS'[z] = aFS[z]
  BY <1>1
<1> DEFINE y == Head(aFS[n])
<1>3. /\ Escribe(y) => Usados(aFS[n]) = Usados(aFS'[n]) \cup {Bloque(y)}
      /\ ~Escribe(y) => Usados(aFS[n]) = Usados(aFS'[n])
      /\ Distintos(aFS[n]) => /\ Distintos(aFS'[n])
                              /\ Escribe(y) => Bloque(y) \notin Usados(aFS'[n])
  BY <1>1, <1>2, UsadosMenos
<1> HIDE DEF y
<1>4. EnUso(p)' \subseteq EnUso(p)
  BY <1>1, <1>2, <1>3 DEF EnUso
<1>5. ASSUME Sueltos(p) PROVE Sueltos(p)'
  BY <1>1, <1>2, <1>3, <1>5 DEF Sueltos
<1>6. ASSUME Escribe(y) PROVE Bloque(y) \in EnUso(n) /\ (Sueltos(n) => Bloque(y) \notin EnUso(n)')
  BY <1>1, <1>2, <1>3, <1>6 DEF Sueltos, EnUso
<1>7. QED
  BY <1>4, <1>5, <1>6 DEF y

LEMMA UsosPerdidos ==
  ASSUME TiposRed, NEW n \in Nodos, Pierde(n), NEW p \in Nodos
  PROVE  EnUso(p)' \subseteq EnUso(p) /\ (Sueltos(p) => Sueltos(p)')
<1>1. aNodo'[n] = <<>> /\ (\A z \in Nodos \ {n} : aNodo'[z] = aNodo[z]) /\ aFS' = aFS
  BY DEF TiposRed, Pierde
<1>2. Usados(<<>>) = {} /\ Distintos(<<>>)
  BY DEF Usados, Distintos, ToSet
<1>3. QED
  BY <1>1, <1>2 DEF EnUso, Sueltos

LEMMA UsosIguales ==
  ASSUME UNCHANGED red
  PROVE  \A p \in Nodos : EnUso(p)' = EnUso(p) /\ (Sueltos(p) => Sueltos(p)')
BY DEF red, EnUso, Sueltos

-----------------------------------------------------------------------------
(* No block is given and no copy registered. *)
LEMMA BitsIgual ==
  ASSUME Bits, SinDudas' => SinDudas, bitmap' = bitmap, Vigentes' \subseteq Vigentes,
         TiposRed, \A p \in Nodos : EnUso(p)' \subseteq EnUso(p) /\ (Sueltos(p) => Sueltos(p)')
  PROVE  Bits'
<1> SUFFICES ASSUME SinDudas' PROVE EnCamino' /\ Registrados'
  BY DEF Bits
<1>1. EnCamino /\ Registrados
  BY DEF Bits
<1>2. EnCamino'
  BY <1>1 DEF EnCamino
<1>3. \A r \in Vigentes : r.nodo \in Nodos
  BY DEF Vigentes, TiposRed, Entrada
<1>4. Registrados'
  BY <1>1, <1>3 DEF Registrados
<1>5. QED
  BY <1>2, <1>4

(* Block j of node n, which was free, is marked, and a message may be sent   *)
(* that writes it.                                                           *)
LEMMA BitsAparta ==
  ASSUME Bits, Base, TiposRed, SinDudas' => SinDudas, NEW n \in Nodos, NEW j \in Numeros,
         j \notin bitmap[n], SinDudas' => bitmap' = Marcar(n, j), Vigentes' \subseteq Vigentes,
         \/ UNCHANGED red
         \/ \E m \in Mensaje : Manda(n, m) /\ (Escribe(m) => Bloque(m) = j /\ j < Total)
  PROVE  Bits'
<1> SUFFICES ASSUME SinDudas' PROVE EnCamino' /\ Registrados'
  BY DEF Bits
<1>1. EnCamino /\ Registrados
  BY DEF Bits
<1>2. /\ \A p \in Nodos : bitmap[p] \subseteq bitmap'[p]
      /\ j < Total => j \in bitmap'[n]
  <2>1. bitmap \in [Nodos -> SUBSET (0..(Total - 1))] /\ bitmap' = Marcar(n, j)
    BY DEF Base
  <2>2. j < Total => j \notin {Total}
    BY Instancia
  <2>3. QED
    BY <2>1, <2>2 DEF Marcar
<1>3. j \notin EnUso(n)
  BY <1>1 DEF EnCamino
<1>4. \A p \in Nodos : /\ \/ EnUso(p)' = EnUso(p)
                          \/ p = n /\ j < Total /\ EnUso(p)' = EnUso(p) \cup {j}
                       /\ Sueltos(p)'
  <2>1. CASE UNCHANGED red
    BY <1>1, <2>1, UsosIguales DEF EnCamino
  <2>2. CASE \E m \in Mensaje : Manda(n, m) /\ (Escribe(m) => Bloque(m) = j /\ j < Total)
    <3>1. PICK m \in Mensaje : Manda(n, m) /\ (Escribe(m) => Bloque(m) = j /\ j < Total)
      BY <2>2
    <3>2. \A p \in Nodos :
            /\ EnUso(p)' = EnUso(p) \cup (IF p = n /\ Escribe(m) THEN {Bloque(m)} ELSE {})
            /\ Sueltos(p) /\ (p = n /\ Escribe(m) => Bloque(m) \notin EnUso(p)) => Sueltos(p)'
      BY <3>1, UsosMandados
    <3>3. QED
      BY <1>1, <1>3, <3>1, <3>2 DEF EnCamino
  <2>3. QED
    BY <2>1, <2>2
<1>5. EnCamino'
  BY <1>1, <1>2, <1>4 DEF EnCamino
<1>6. \A r \in Vigentes : r.nodo \in Nodos
  BY DEF Vigentes, TiposRed, Entrada
<1>7. ASSUME NEW r \in Vigentes' PROVE r.numero \in bitmap'[r.nodo] /\ r.numero \notin EnUso(r.nodo)'
  <2>1. r.nodo \in Nodos /\ r.numero \in bitmap[r.nodo] \ EnUso(r.nodo)
    BY <1>1, <1>6 DEF Registrados
  <2>2. \A p \in Nodos : p = r.nodo => EnUso(p)' \subseteq EnUso(p) \cup (IF p = n THEN {j} ELSE {})
    BY <1>4
  <2>3. r.nodo = n => r.numero # j
    BY <2>1
  <2>4. QED
    BY <1>2, <2>1, <2>2, <2>3
<1>8. \A r, s \in Vigentes' : r.nodo = s.nodo /\ r.numero = s.numero => MismoArchivo(r, s)
  BY <1>1 DEF Registrados
<1>9. Registrados'
  <2>1. \A r \in Vigentes' : r.numero \in bitmap'[r.nodo] \ (EnUso(r.nodo))'
    BY <1>7
  <2>2. QED
    BY <1>8, <2>1 DEF Registrados, MismoArchivo
<1>10. QED
  BY <1>5, <1>9

(* An answer is read, and the copy it is about may be registered. *)
LEMMA BitsRegistra ==
  ASSUME Bits, TiposRed, SinDudas' => SinDudas, bitmap' = bitmap, NEW n \in Nodos, Lee(n),
         Escribe(Head(aFS[n])), NEW r, r.nodo = n, r.numero = Bloque(Head(aFS[n])),
         SinDudas' => Vigentes' \subseteq Vigentes \cup {r}
  PROVE  Bits'
<1> SUFFICES ASSUME SinDudas' PROVE EnCamino' /\ Registrados'
  BY DEF Bits
<1>1. EnCamino /\ Registrados
  BY DEF Bits
<1>2. \A p \in Nodos : EnUso(p)' \subseteq EnUso(p) /\ (Sueltos(p) => Sueltos(p)')
  BY UsosLeidos
<1>3. r.numero \in EnUso(n) /\ r.numero \notin EnUso(n)'
  BY <1>1, UsosLeidos DEF EnCamino
<1>4. EnCamino'
  BY <1>1, <1>2 DEF EnCamino
<1>5. \A s \in Vigentes : s.nodo \in Nodos
  BY DEF Vigentes, TiposRed, Entrada
<1>6. \A s \in Vigentes : s.nodo = n => s.numero # r.numero
  BY <1>1, <1>3 DEF Registrados
<1>7. ASSUME NEW s \in Vigentes' PROVE s.numero \in bitmap'[s.nodo] /\ s.numero \notin EnUso(s.nodo)'
  <2>1. CASE s = r
    BY <1>1, <1>3, <2>1 DEF EnCamino
  <2>2. CASE s \in Vigentes
    BY <1>1, <1>2, <1>5, <2>2 DEF Registrados
  <2>3. QED
    BY <2>1, <2>2
<1>8. \A s, t \in Vigentes' : s.nodo = t.nodo /\ s.numero = t.numero => MismoArchivo(s, t)
  <2>1. MismoArchivo(r, r)
    BY DEF MismoArchivo
  <2>2. QED
    BY <1>1, <1>6, <2>1 DEF Registrados
<1>9. Registrados'
  <2>1. \A s \in Vigentes' : s.numero \in bitmap'[s.nodo] \ (EnUso(s.nodo))'
    BY <1>7
  <2>2. QED
    BY <1>8, <2>1 DEF Registrados, MismoArchivo
<1>10. QED
  BY <1>4, <1>9

-----------------------------------------------------------------------------
(* The blocks that are marked, action by action. *)
LEMMA SinDudasDe ==
  ASSUME erroneos' = {} => erroneos = {}, revividos' = {} => revividos = {}
  PROVE  SinDudas' => SinDudas
BY DEF SinDudas

(* The metadata and the command of the console stay. *)
LEMMA VigentesIguales ==
  ASSUME UNCHANGED <<metadata, orden>>
  PROVE  Vigentes' = Vigentes
BY DEF Vigentes, Borrandose

LEMMA BitsHilo ==
  ASSUME InvTipos, Bits, NEW h \in Hilos, PasoHilo(h), UNCHANGED bloqueVars
  PROVE  Bits'
<1>1. UNCHANGED <<orden, revividos>>
  BY DEF bloqueVars
<1>2. CASE EnviarCopia(h)
  <2>1. PICK n \in Nodos, c \in Copia :
           /\ c.numero \notin bitmap[n]
           /\ Manda(n, c) \/ UNCHANGED red
           /\ erroneos' = {} => bitmap' = Marcar(n, c.numero) /\ erroneos = {}
           /\ UNCHANGED metadata
    BY <1>2, HaceEnviar DEF InvTipos
  <2>2. Vigentes' = Vigentes /\ (SinDudas' => SinDudas)
    BY <1>1, <2>1, VigentesIguales, SinDudasDe
  <2>3. c \in Mensaje /\ Bloque(c) = c.numero /\ (Escribe(c) => c.numero < Total)
    BY Clases, Escriben
  <2>4. c.numero \in Numeros
    BY DEF Copia
  <2>5. SinDudas' => bitmap' = Marcar(n, c.numero)
    BY <2>1 DEF SinDudas
  <2>6. QED
    BY <2>1, <2>2, <2>3, <2>4, <2>5, BitsAparta DEF InvTipos
<1>3. CASE ~EnviarCopia(h)
  <2>1. UNCHANGED <<bitmap, erroneos, metadata, red>>
    BY <1>3, HilosQuietos
  <2>2. Vigentes' = Vigentes /\ (SinDudas' => SinDudas)
    BY <1>1, <2>1, VigentesIguales, SinDudasDe
  <2>3. QED
    BY <2>1, <2>2, UsosIguales, BitsIgual DEF InvTipos
<1>4. QED
  BY <1>2, <1>3

LEMMA BitsNodo ==
  ASSUME InvTipos, Bits, NEW n \in Nodos, DelNodo(n)
  PROVE  Bits'
<1>0. UNCHANGED <<orden, revividos>>
  BY CasosDelNodo DEF bloqueVars
<1>1. CASE Guardar(n)
  <2>1. PICK c \in Copia, x \in Resultado :
          /\ c = Head(aNodo[n]) /\ c.numero \in Bloques /\ x.copia = c /\ Contesta(n, x)
          /\ UNCHANGED <<bitmap, erroneos, metadata>>
    BY <1>1, HaceGuardar DEF InvTipos
  <2>2. x \in Contestado /\ Escribe(x) /\ Escribe(c) /\ Bloque(x) = Bloque(c)
    BY <2>1, Clases, Escriben, Instancia DEF Bloques
  <2>3. \A p \in Nodos : EnUso(p)' \subseteq EnUso(p) /\ (Sueltos(p) => Sueltos(p)')
    BY <2>1, <2>2, UsosContestados DEF InvTipos
  <2>4. Vigentes' = Vigentes /\ (SinDudas' => SinDudas)
    BY <1>0, <2>1, VigentesIguales, SinDudasDe
  <2>5. QED
    BY <2>1, <2>3, <2>4, BitsIgual DEF InvTipos
<1>2. CASE GuardarFuera(n) \/ Caer(n)
  <2>1. Pierde(n) /\ UNCHANGED <<bitmap, erroneos, metadata>>
    BY <1>2, HacePerder
  <2>2. \A p \in Nodos : EnUso(p)' \subseteq EnUso(p) /\ (Sueltos(p) => Sueltos(p)')
    BY <2>1, UsosPerdidos DEF InvTipos
  <2>3. Vigentes' = Vigentes /\ (SinDudas' => SinDudas)
    BY <1>0, <2>1, VigentesIguales, SinDudasDe
  <2>4. QED
    BY <2>1, <2>2, <2>3, BitsIgual DEF InvTipos
<1>3. CASE ResultadoFallido(n)
  <2>1. Lee(n) /\ UNCHANGED <<bitmap, erroneos, metadata>>
    BY <1>3, HaceFallido DEF InvTipos
  <2>2. \A p \in Nodos : EnUso(p)' \subseteq EnUso(p) /\ (Sueltos(p) => Sueltos(p)')
    BY <2>1, UsosLeidos DEF InvTipos
  <2>3. Vigentes' = Vigentes /\ (SinDudas' => SinDudas)
    BY <1>0, <2>1, VigentesIguales, SinDudasDe
  <2>4. QED
    BY <2>1, <2>2, <2>3, BitsIgual DEF InvTipos
<1>4. CASE Desconectar(n)
  <2>1. UNCHANGED <<bitmap, erroneos, metadata, red>>
    BY <1>4, DesconectarQuieto
  <2>2. Vigentes' = Vigentes /\ (SinDudas' => SinDudas)
    BY <1>0, <2>1, VigentesIguales, SinDudasDe
  <2>3. QED
    BY <2>1, <2>2, UsosIguales, BitsIgual DEF InvTipos
<1>5. QED
  BY <1>1, <1>2, <1>3, <1>4, CasosDelNodo

LEMMA BitsNodoBloques ==
  ASSUME InvTipos, Bits, Cargadas, NEW n \in Nodos, PasoNodoBloques(n)
  PROVE  Bits'
<1>0. ASSUME UNCHANGED <<bitmap, erroneos, revividos, metadata, orden>>,
             \A p \in Nodos : EnUso(p)' \subseteq EnUso(p) /\ (Sueltos(p) => Sueltos(p)')
      PROVE  Bits'
  <2>1. Vigentes' = Vigentes /\ (SinDudas' => SinDudas)
    BY <1>0, VigentesIguales, SinDudasDe
  <2>2. QED
    BY <1>0, <2>1, BitsIgual DEF InvTipos
<1>1. CASE DelNodo(n)
  BY <1>1, BitsNodo
<1>2. CASE ResponderGet(n)
  <2>1. PICK g \in Get, x \in Traido :
          /\ g = Head(aNodo[n]) /\ Contesta(n, x) /\ UNCHANGED <<bitmap, erroneos, metadata, bloqueVars>>
    BY <1>2, HaceResponder DEF InvTipos
  <2>2. x \in Contestado /\ ~Escribe(g) /\ ~Escribe(x)
    BY Clases, Escriben
  <2>3. \A p \in Nodos : EnUso(p)' \subseteq EnUso(p) /\ (Sueltos(p) => Sueltos(p)')
    BY <2>1, <2>2, UsosContestados DEF InvTipos
  <2>4. QED
    BY <1>0, <2>1, <2>3 DEF bloqueVars
<1>3. CASE LeerGet(n)
  <2>1. Lee(n) /\ UNCHANGED <<bitmap, erroneos, revividos, metadata, orden>>
    BY <1>3, HaceLeerGet DEF InvTipos
  <2>2. \A p \in Nodos : EnUso(p)' \subseteq EnUso(p) /\ (Sueltos(p) => Sueltos(p)')
    BY <2>1, UsosLeidos DEF InvTipos
  <2>3. QED
    BY <1>0, <2>1, <2>2
<1>4. CASE GuardarCopia(n)
  <2>1. PICK c \in CopiaNueva, x \in Copiada :
          /\ c = Head(aNodo[n]) /\ c.numero \in Bloques /\ x.numero = c.numero /\ Contesta(n, x)
          /\ UNCHANGED <<bitmap, erroneos, metadata, bloqueVars>>
    <3>1. TiposRed
      BY DEF InvTipos
    <3>2. QED
      BY <1>4, <3>1, HaceGuardarCopia
  <2>2. x \in Contestado /\ Escribe(x) /\ Escribe(c) /\ Bloque(x) = Bloque(c)
    BY <2>1, Clases, Escriben, Instancia DEF Bloques
  <2>3. \A p \in Nodos : EnUso(p)' \subseteq EnUso(p) /\ (Sueltos(p) => Sueltos(p)')
    BY <2>1, <2>2, UsosContestados DEF InvTipos
  <2>4. QED
    BY <1>0, <2>1, <2>3 DEF bloqueVars
<1>5. CASE CopiaFallida(n)
  <2>1. Lee(n) /\ UNCHANGED <<bitmap, erroneos, metadata, bloqueVars>>
    BY <1>5 DEF CopiaFallida, Atiende, Lee, fsDatos, fsArchivos
  <2>2. \A p \in Nodos : EnUso(p)' \subseteq EnUso(p) /\ (Sueltos(p) => Sueltos(p)')
    BY <2>1, UsosLeidos DEF InvTipos
  <2>3. QED
    BY <1>0, <2>1, <2>2 DEF bloqueVars
<1>6. CASE CargarRegistro(n) \/ CargarCopia(n)
  <2>1. UNCHANGED <<bitmap, erroneos, revividos, metadata, orden>> /\ UNCHANGED red
    BY <1>6, HaceCargar
  <2>2. QED
    BY <1>0, <2>1, UsosIguales
<1>7. CASE GrabarMetadata(n)
  <2>1. PICK x \in Resultado \cup Copiada, r \in Entrada :
           /\ x = Head(aFS[n]) /\ Lee(n) /\ r.nodo = n /\ Registra(r, x)
           /\ revividos' = {} => metadata' \subseteq metadata \cup {r} /\ revividos = {}
           /\ UNCHANGED <<bitmap, erroneos, orden>>
    <3>1. TiposRed /\ TiposOrdenes
      BY DEF InvTipos
    <3>2. QED
      BY <1>7, <3>1, HaceGrabar
  <2>2. Escribe(x) /\ r.numero = Bloque(x)
    BY <2>1, Escriben DEF Registra
  <2>3. SinDudas' => SinDudas
    BY <2>1, SinDudasDe
  <2>4. SinDudas' => Vigentes' \subseteq Vigentes \cup {r}
    BY <2>1 DEF SinDudas, Vigentes, Borrandose
  <2>5. QED
    BY <2>1, <2>2, <2>3, <2>4, BitsRegistra DEF InvTipos
<1>8. CASE Regrabar(n) \/ Releer(n) \/ Terminar(n)
  <2>1. /\ UNCHANGED <<bitmap, erroneos, orden>> /\ UNCHANGED red
        /\ revividos' = {} => metadata' \subseteq metadata /\ revividos = {}
    BY <1>8, HaceSalvar DEF InvTipos
  <2>2. SinDudas' => SinDudas /\ Vigentes' \subseteq Vigentes
    BY <2>1, SinDudasDe DEF SinDudas, Vigentes, Borrandose
  <2>3. CASE SinDudas'
    BY <2>1, <2>2, <2>3, UsosIguales, BitsIgual DEF InvTipos
  <2>4. QED
    BY <2>3 DEF Bits
<1>9. QED
  BY <1>1, <1>2, <1>3, <1>4, <1>5, <1>6, <1>7, <1>8 DEF PasoNodoBloques, DelNodo

(* rm frees the blocks of its file, which no other file and no message has. *)
LEMMA BitsRm ==
  ASSUME InvTipos, Bits, NEW a \in Nombres, NEW d \in Dirs, Rm(a, d)
  PROVE  Bits'
<1>1. CASE MorirOrden
  <2>1. UNCHANGED <<bitmap, erroneos, revividos, metadata, orden>> /\ UNCHANGED red
    BY <1>1 DEF MorirOrden, Morir, fsDatos, fsArchivos
  <2>2. Vigentes' = Vigentes /\ (SinDudas' => SinDudas)
    BY <2>1, VigentesIguales, SinDudasDe
  <2>3. QED
    BY <2>1, <2>2, UsosIguales, BitsIgual DEF InvTipos
<1>2. CASE ~MorirOrden
  <2>1. /\ orden' = [pc |-> "recuenta", nombre |-> a, dir |-> d] /\ orden.pc = "libre"
        /\ bitmap' = SinBits(DeArchivo(a, d))
        /\ UNCHANGED <<erroneos, metadata, revividos>> /\ UNCHANGED red
    BY <1>2 DEF Rm, Ordenar, fsArchivos
  <2> SUFFICES ASSUME SinDudas' PROVE EnCamino' /\ Registrados'
    BY DEF Bits
  <2>2. SinDudas /\ EnCamino /\ Registrados
    BY <2>1, SinDudasDe DEF Bits
  <2>3. Vigentes = metadata /\ Vigentes' = {r \in metadata : ~(r.nombre = a /\ r.dir = d)}
    BY <2>1 DEF Vigentes, Borrandose
  <2>4. \A p \in Nodos : /\ bitmap'[p] \subseteq bitmap[p]
                         /\ \A i \in bitmap[p] : i \in bitmap'[p] \/
                              \E r \in metadata : /\ r.nombre = a /\ r.dir = d
                                                  /\ r.nodo = p /\ r.numero = i
    BY <2>1 DEF SinBits, DeArchivo
  <2>5. \A p \in Nodos : EnUso(p)' = EnUso(p) /\ (Sueltos(p) => Sueltos(p)')
    BY <2>1, UsosIguales
  <2>6. EnCamino'
    <3>1. ASSUME NEW p \in Nodos, NEW i \in EnUso(p) PROVE i \in bitmap'[p]
      BY <2>2, <2>3, <2>4, <3>1 DEF EnCamino, Registrados
    <3>2. QED
      BY <2>2, <2>5, <3>1 DEF EnCamino
  <2>7. \A s \in metadata : s.nodo \in Nodos
    BY DEF InvTipos, TiposRed, Entrada
  <2>8. ASSUME NEW s \in Vigentes' PROVE s.numero \in bitmap'[s.nodo] \ EnUso(s.nodo)'
    <3>1. s \in metadata /\ ~(s.nombre = a /\ s.dir = d) /\ s.nodo \in Nodos
      BY <2>3, <2>7
    <3>2. s.numero \in bitmap[s.nodo] \ EnUso(s.nodo)
      BY <2>2, <2>3, <3>1 DEF Registrados
    <3>3. \A r \in metadata : r.nodo = s.nodo /\ r.numero = s.numero => ~(r.nombre = a /\ r.dir = d)
      BY <2>2, <2>3, <3>1 DEF Registrados, MismoArchivo
    <3>4. QED
      BY <2>4, <2>5, <3>1, <3>2, <3>3
  <2>9. Registrados'
    <3>1. \A s, t \in Vigentes' : s.nodo = t.nodo /\ s.numero = t.numero => MismoArchivo(s, t)
      BY <2>2, <2>3 DEF Registrados
    <3>2. \A s \in Vigentes' : s.numero \in bitmap'[s.nodo] \ (EnUso(s.nodo))'
      BY <2>8
    <3>3. QED
      BY <3>1, <3>2 DEF Registrados, MismoArchivo
  <2>10. QED
    BY <2>6, <2>9
<1>3. QED
  BY <1>1, <1>2

LEMMA BitsCpblock ==
  ASSUME InvTipos, Bits, NEW a \in Nombres, NEW d \in Dirs, NEW b \in 0..MaxBloques,
         NEW n \in Nodos, Cpblock(a, d, b, n)
  PROVE  Bits'
<1>1. TiposRed /\ TiposOrdenes
  BY DEF InvTipos
<1>2. /\ UNCHANGED <<bitmap, erroneos>>
      /\ \/ UNCHANGED deBloques
         \/ \E r \in metadata, g \in Get :
              /\ orden.pc = "libre"
              /\ orden' = [pc |-> "espera", nombre |-> a, dir |-> d, bloque |-> b, nodo |-> n]
              /\ Manda(r.nodo, g) \/ UNCHANGED red
              /\ UNCHANGED <<metadata, revividos>>
  BY <1>1, HaceCpblock
<1>3. CASE UNCHANGED deBloques
  <2>1. UNCHANGED <<metadata, orden, revividos>> /\ UNCHANGED red
    BY <1>3 DEF deBloques
  <2>2. Vigentes' = Vigentes /\ (SinDudas' => SinDudas)
    BY <1>2, <2>1, VigentesIguales, SinDudasDe
  <2>3. QED
    BY <1>1, <1>2, <2>1, <2>2, UsosIguales, BitsIgual
<1>4. CASE ~UNCHANGED deBloques
  <2>1. PICK r \in metadata, g \in Get :
          /\ orden.pc = "libre"
          /\ orden' = [pc |-> "espera", nombre |-> a, dir |-> d, bloque |-> b, nodo |-> n]
          /\ Manda(r.nodo, g) \/ UNCHANGED red
          /\ UNCHANGED <<metadata, revividos>>
    BY <1>2, <1>4
  <2>2. Vigentes' = Vigentes
    BY <2>1 DEF Vigentes, Borrandose
  <2>3. SinDudas' => SinDudas
    BY <1>2, <2>1, SinDudasDe
  <2>4. r.nodo \in Nodos /\ g \in Mensaje /\ ~Escribe(g)
    BY <1>1, Clases, Escriben DEF TiposRed, Entrada
  <2>5. \A p \in Nodos : EnUso(p)' \subseteq EnUso(p) /\ (Sueltos(p) => Sueltos(p)')
    BY <1>1, <2>1, <2>4, UsosMandados, UsosIguales
  <2>6. QED
    BY <1>1, <1>2, <2>2, <2>3, <2>5, BitsIgual
<1>5. QED
  BY <1>3, <1>4

(* cpblock marks a block of the node it named, and sends to that node. *)
LEMMA BitsCopiar ==
  ASSUME InvTipos, UnaOrden, Bits, Copiar
  PROVE  Bits'
<1>1. /\ orden \in OrdenCp /\ ordenCp
      /\ UNCHANGED <<erroneos, metadata, aFS, revividos>>
      /\ \/ UNCHANGED <<bitmap, aNodo, orden>>
         \/ \E j \in Numeros :
              /\ j \notin bitmap[orden.nodo]
              /\ bitmap' = Marcar(orden.nodo, j) /\ orden' = Parado
              /\ \/ aNodo' = aNodo
                 \/ \E m \in CopiaNueva : /\ cpblock.para \in Nodos /\ Manda(cpblock.para, m)
                                          /\ m.numero = j
  BY HaceCopiar DEF InvTipos
<1>2. SinDudas' => SinDudas
  BY <1>1, SinDudasDe
<1>3. CASE UNCHANGED <<bitmap, aNodo, orden>>
  <2>1. Vigentes' = Vigentes /\ UNCHANGED red
    BY <1>1, <1>3, VigentesIguales DEF red
  <2>2. QED
    BY <1>2, <1>3, <2>1, UsosIguales, BitsIgual DEF InvTipos
<1>4. CASE ~UNCHANGED <<bitmap, aNodo, orden>>
  <2>1. PICK j \in Numeros :
          /\ j \notin bitmap[orden.nodo]
          /\ bitmap' = Marcar(orden.nodo, j) /\ orden' = Parado
          /\ \/ aNodo' = aNodo
             \/ \E m \in CopiaNueva : /\ cpblock.para \in Nodos /\ Manda(cpblock.para, m)
                                      /\ m.numero = j
    BY <1>1, <1>4
  <2>2. orden.nodo \in Nodos /\ orden.pc = "espera"
    BY <1>1 DEF OrdenCp
  <2>3. Vigentes' = Vigentes
    BY <1>1, <2>1, <2>2 DEF Vigentes, Borrandose, Parado
  <2>4. cpblock.para \in Nodos => cpblock.para = orden.nodo
    BY <1>1, OrdenesPosibles DEF UnaOrden, Receptores
  <2>5. \A m \in CopiaNueva : /\ m \in Mensaje
                              /\ m.numero = j => (Escribe(m) => Bloque(m) = j /\ j < Total)
    BY Clases, Escriben
  <2>6. \/ UNCHANGED red
        \/ \E m \in Mensaje : Manda(orden.nodo, m) /\ (Escribe(m) => Bloque(m) = j /\ j < Total)
    BY <1>1, <2>1, <2>4, <2>5 DEF red
  <2>7. QED
    BY <1>2, <2>1, <2>2, <2>3, <2>6, BitsAparta DEF InvTipos
<1>5. QED
  BY <1>3, <1>4

LEMMA BitsSiguen ==
  ASSUME InvTipos, UnaOrden, Bits, Cargadas, [NextBloques]_todo
  PROVE  Bits'
<1>0. ASSUME UNCHANGED <<bitmap, erroneos, revividos>>, UNCHANGED red, Vigentes' \subseteq Vigentes
      PROVE  Bits'
  BY <1>0, SinDudasDe, UsosIguales, BitsIgual DEF InvTipos
<1>1. CASE UNCHANGED todo
  <2>1. UNCHANGED <<bitmap, erroneos, revividos, metadata, orden>> /\ UNCHANGED red
    BY <1>1 DEF todo, vars, bloqueVars, fsDatos, fsArchivos
  <2>2. QED
    BY <1>0, <2>1, VigentesIguales
<1>2. ASSUME NEW n \in Nodos, PasoNodoBloques(n) \/ (Caer(n) /\ UNCHANGED bloqueVars)
      PROVE  Bits'
  BY <1>2, BitsNodoBloques, BitsNodo DEF DelNodo
<1>3. CASE Recontar
  <2>1. /\ orden.pc = "recuenta" /\ orden' = [orden EXCEPT !.pc = "quita"] /\ UNCHANGED metadata
        /\ UNCHANGED <<bitmap, erroneos, revividos>> /\ UNCHANGED red
    BY <1>3 DEF Recontar, fsArchivos
  <2>2. orden \in OrdenRm
    BY <2>1, OrdenDe DEF InvTipos
  <2>3. Vigentes' \subseteq Vigentes
    BY <2>1, <2>2 DEF Vigentes, Borrandose, OrdenRm
  <2>4. QED
    BY <1>0, <2>1, <2>3
<1>4. CASE Quitar
  <2>1. /\ metadata' = metadata \ DeArchivo(orden.nombre, orden.dir)
        /\ UNCHANGED <<bitmap, erroneos, revividos>> /\ UNCHANGED red
    BY <1>4 DEF Quitar, fsDatos
  <2>2. Vigentes' \subseteq Vigentes
    BY <2>1 DEF Vigentes, Borrandose, DeArchivo
  <2>3. QED
    BY <1>0, <2>1, <2>2
<1>5. QED
  BY <1>1, <1>2, <1>3, <1>4, Pasos, BitsHilo, BitsRm, BitsCpblock, BitsCopiar

LEMMA BitsAlPrincipio ==
  ASSUME InitBloques
  PROVE  UnaOrden /\ Bits
<1>1. /\ metadata = {} /\ aNodo = [n \in Nodos |-> <<>>] /\ aFS = [n \in Nodos |-> <<>>]
      /\ orden.pc = "libre" /\ ordenCp = FALSE
  BY DEF InitBloques, Init, Parado
<1>2. /\ \A n \in Nodos : aNodo[n] = <<>> /\ aFS[n] = <<>>
      /\ ToSet(<<>>) = {}
  BY <1>1 DEF ToSet
<1>3. UnaOrden
  <2>1. \A n \in Nodos : ~Hay("get", n)
    BY <1>2 DEF Hay, Tiene
  <2>2. Unico("get")
    BY <1>2, <2>1 DEF Unico, UnoDe, Hay
  <2>3. QED
    BY <1>1, <1>2, <2>1, <2>2 DEF UnaOrden, Ninguno
<1>4. EnCamino
  BY <1>2 DEF EnCamino, EnUso, Sueltos, Usados, Distintos
<1>5. Registrados
  BY <1>1 DEF Registrados, Vigentes
<1>6. QED
  BY <1>3, <1>4, <1>5 DEF Bits

-----------------------------------------------------------------------------
(* What a step may do to the messages, and to what they are about. *)
DeEnvio(h, c) ==
  /\ c.nombre = envio[h].nombre /\ c.dir = envio[h].dir
  /\ c.bloque = Len(envio[h].enviados) \div 2 /\ c.copia = Len(envio[h].enviados) % 2

Mudo ==
  UNCHANGED <<aNodo, aFS, disco, cargada>> /\ (cpfrom' = cpfrom \/ ~cpfrom)
Carga(n) ==
  UNCHANGED <<aNodo, aFS, disco, cpfrom>> /\ \E k : Empezada(n, k)
Resalva(n) ==
  /\ UNCHANGED <<aNodo, aFS, disco>>
  /\ cargada[n].pc \in {"graba", "otra", "relee"}
  /\ \/ /\ cpfrom' = cpfrom
        /\ \E k \in Cargado : /\ k.pc # "lee" /\ k.de = cargada[n].de
                              /\ cargada' = [cargada EXCEPT ![n] = k]
     \/ /\ cpfrom' = cpfrom \/ (cargada[n].de # "copia" /\ cpfrom' = FALSE)
        /\ cargada' = [cargada EXCEPT ![n] = SinCargar]
MandaCopia(n) ==
  /\ ~cpfrom /\ cpfrom'
  /\ \E h \in Hilos, c \in Copia :
       EnviarCopia(h) /\ DeEnvio(h, c) /\ c.numero \notin bitmap[n] /\ Manda(n, c)
  /\ UNCHANGED <<disco, cargada>>
MandaGet(n) ==
  /\ orden.pc = "libre"
  /\ \E r \in metadata, g \in Get :
       /\ r.nodo = n /\ Del(r) = Del(orden') /\ g.numero = r.numero
       /\ g.para # SinNombre => r.copia = 0
       /\ Manda(n, g)
  /\ UNCHANGED <<disco, cargada, cpfrom, bitmap>>
MandaNueva(n) ==
  /\ ordenCp
  /\ \E m \in CopiaNueva :
       /\ m.numero \notin bitmap[n] /\ cpblock.para \in Nodos
       /\ Del(m) = Del(orden) /\ m.nombre = orden.nombre /\ m.dato = cpblock.dato
       /\ Manda(n, m)
  /\ UNCHANGED <<disco, cargada, cpfrom>>
ContestaCopia(n) ==
  /\ \E c \in Copia, x \in Resultado :
       /\ c = Head(aNodo[n]) /\ x.copia = c /\ c.numero \in Bloques /\ Contesta(n, x)
       /\ disco' = IF x.res = 1 THEN [disco EXCEPT ![n][c.numero] = Del(c)] ELSE disco
  /\ UNCHANGED <<cargada, cpfrom>>
ContestaGet(n) ==
  /\ \E g \in Get, x \in Traido :
       g = Head(aNodo[n]) /\ x.dato = disco[n][g.numero] /\ x.para = g.para /\ Contesta(n, x)
  /\ UNCHANGED <<disco, cargada, cpfrom>>
ContestaNueva(n) ==
  /\ \E c \in CopiaNueva, x \in Copiada :
       /\ c = Head(aNodo[n]) /\ c.numero \in Bloques
       /\ x.nombre = c.nombre /\ Del(x) = Del(c) /\ x.numero = c.numero /\ Contesta(n, x)
       /\ disco' = IF x.res = 1 THEN [disco EXCEPT ![n][c.numero] = c.dato] ELSE disco
  /\ UNCHANGED <<cargada, cpfrom>>
LeeUna(n) ==
  /\ Lee(n) /\ Head(aFS[n]) \in Contestado /\ disco' = disco
  /\ \/ /\ cargada[n] = SinCargar /\ cargada' = cargada
        /\ cpfrom' = cpfrom \/ Head(aFS[n]) \in Resultado
     \/ /\ cargada[n].pc = "lee" /\ cpfrom' = cpfrom
        /\ cargada[n].de # "copia" => Head(aFS[n]) \in Resultado
        /\ \E k \in Cargado : /\ k.pc = "graba" /\ k.de = cargada[n].de
                              /\ cargada' = [cargada EXCEPT ![n] = k]
PierdeTodo(n) == Pierde(n) /\ UNCHANGED <<disco, cargada, cpfrom>>

UnPaso ==
  \/ Mudo
  \/ \E n \in Nodos : \/ MandaCopia(n) \/ MandaGet(n) \/ MandaNueva(n)
                      \/ ContestaCopia(n) \/ ContestaGet(n) \/ ContestaNueva(n)
                      \/ LeeUna(n) \/ PierdeTodo(n) \/ Carga(n) \/ Resalva(n)

LEMMA PasoHiloRed ==
  ASSUME InvTipos, NEW h \in Hilos, PasoHilo(h), UNCHANGED bloqueVars
  PROVE  UnPaso
<1>0. cargada' = cargada
  BY DEF bloqueVars
<1>1. CASE EnviarCopia(h)
  <2>1. PICK n \in Nodos, c \in Copia :
          /\ c.nombre = envio[h].nombre /\ c.dir = envio[h].dir
          /\ c.bloque = Len(envio[h].enviados) \div 2 /\ c.copia = Len(envio[h].enviados) % 2
          /\ c.numero \notin bitmap[n]
          /\ Manda(n, c) \/ UNCHANGED red
          /\ ~cpfrom /\ cpfrom' /\ UNCHANGED disco
    BY <1>1, HaceEnviar DEF InvTipos
  <2>2. CASE UNCHANGED red
    BY <1>0, <2>1, <2>2 DEF UnPaso, Mudo, red
  <2>3. CASE Manda(n, c)
    BY <1>0, <1>1, <2>1, <2>3 DEF UnPaso, MandaCopia, DeEnvio
  <2>4. QED
    BY <2>1, <2>2, <2>3
<1>2. CASE ~EnviarCopia(h)
  BY <1>0, <1>2, HilosQuietos DEF UnPaso, Mudo, red
<1>3. QED
  BY <1>1, <1>2

LEMMA PasoNodoRed ==
  ASSUME InvTipos, NEW n \in Nodos, DelNodo(n)
  PROVE  UnPaso
<1>0. cargada' = cargada
  BY CasosDelNodo DEF bloqueVars
<1>1. CASE Guardar(n)
  <2>1. PICK c \in Copia, r \in Resultados, x \in Resultado :
          /\ c = Head(aNodo[n]) /\ c.numero \in Bloques
          /\ x = [tipo |-> "RESULOPERACION", copia |-> c, res |-> r] /\ Contesta(n, x)
          /\ disco' = IF r = 1 THEN [disco EXCEPT ![n][c.numero] = Del(c)] ELSE disco
          /\ UNCHANGED cpfrom
    BY <1>1, HaceGuardar DEF InvTipos
  <2>2. x.copia = c /\ x.res = r
    BY <2>1
  <2>3. ContestaCopia(n)
    BY <1>0, <2>1, <2>2 DEF ContestaCopia
  <2>4. QED
    BY <2>3 DEF UnPaso
<1>2. CASE GuardarFuera(n) \/ Caer(n)
  BY <1>0, <1>2, HacePerder DEF UnPaso, PierdeTodo
<1>3. CASE ResultadoFallido(n)
  <2>1. /\ Lee(n) /\ Head(aFS[n]) \in Resultado /\ cargada[n] = SinCargar
        /\ UNCHANGED disco
    BY <1>3, HaceFallido DEF InvTipos
  <2>2. Head(aFS[n]) \in Contestado
    BY <2>1 DEF Contestado
  <2>3. LeeUna(n)
    BY <1>0, <2>1, <2>2 DEF LeeUna
  <2>4. QED
    BY <2>3 DEF UnPaso
<1>4. CASE Desconectar(n)
  BY <1>0, <1>4, DesconectarQuieto DEF UnPaso, Mudo, red
<1>5. QED
  BY <1>1, <1>2, <1>3, <1>4, CasosDelNodo

LEMMA PasoBloquesRed ==
  ASSUME InvTipos, Directorios, Cargadas, NEW n \in Nodos, PasoNodoBloques(n)
  PROVE  UnPaso
<1>1. CASE DelNodo(n)
  BY <1>1, PasoNodoRed
<1>2. CASE ResponderGet(n)
  <2>1. PICK g \in Get, x \in Traido :
          /\ g = Head(aNodo[n]) /\ x.dato = disco[n][g.numero] /\ x.para = g.para /\ Contesta(n, x)
          /\ UNCHANGED <<disco, cpfrom, bloqueVars>>
    BY <1>2, HaceResponder DEF InvTipos
  <2>2. ContestaGet(n)
    BY <2>1 DEF ContestaGet, bloqueVars
  <2>3. QED
    BY <2>2 DEF UnPaso
<1>3. CASE LeerGet(n)
  <2>1. PICK x \in Traido : x = Head(aFS[n]) /\ Lee(n) /\ UNCHANGED <<disco, cpfrom, cargada>>
    BY <1>3, HaceLeerGet DEF InvTipos
  <2>2. x \in Contestado /\ cargada[n] = SinCargar
    BY <1>3 DEF Contestado, LeerGet, Atiende
  <2>3. LeeUna(n)
    BY <2>1, <2>2 DEF LeeUna
  <2>4. QED
    BY <2>3 DEF UnPaso
<1>4. CASE GuardarCopia(n)
  <2>1. PICK c \in CopiaNueva, x \in Copiada :
           /\ c = Head(aNodo[n]) /\ c.numero \in Bloques
           /\ x.nombre = c.nombre /\ x.dir = c.dir /\ x.bloque = c.bloque /\ x.numero = c.numero
           /\ Contesta(n, x)
           /\ disco' = IF x.res = 1 THEN [disco EXCEPT ![n][c.numero] = c.dato] ELSE disco
           /\ UNCHANGED <<cpfrom, bloqueVars>>
    <3>1. TiposRed
      BY DEF InvTipos
    <3>2. QED
      BY <1>4, <3>1, HaceGuardarCopia
  <2>2. Del(x) = Del(c)
    BY <2>1 DEF Del
  <2>3. ContestaNueva(n)
    BY <2>1, <2>2 DEF ContestaNueva, bloqueVars
  <2>4. QED
    BY <2>3 DEF UnPaso
<1>5. CASE CopiaFallida(n)
  <2>1. /\ Lee(n) /\ UNCHANGED <<disco, cpfrom, cargada>> /\ aFS[n] # <<>>
        /\ cargada[n] = SinCargar
    BY <1>5 DEF CopiaFallida, Atiende, Lee, nodo, bloqueVars
  <2>2. Head(aFS[n]) \in Contestado
    BY <2>1, Primeros DEF InvTipos
  <2>3. LeeUna(n)
    BY <2>1, <2>2 DEF LeeUna
  <2>4. QED
    BY <2>3 DEF UnPaso
<1>6. CASE CargarRegistro(n) \/ CargarCopia(n)
  <2>1. UNCHANGED <<aNodo, aFS, disco, cpfrom>> /\ (cargada' = cargada \/ \E k : Empezada(n, k))
    BY <1>6, HaceCargar DEF red
  <2>2. QED
    BY <2>1 DEF UnPaso, Mudo, Carga
<1>7. CASE GrabarMetadata(n)
  <2>1. /\ Lee(n) /\ UNCHANGED <<disco, cpfrom>> /\ Head(aFS[n]) \in Resultado \cup Copiada
        /\ cargada[n].pc = "lee" /\ (cargada[n].de # "copia" => Head(aFS[n]) \in Resultado)
        /\ \E k \in Cargado : /\ k.pc = "graba" /\ k.de = cargada[n].de
                              /\ cargada' = [cargada EXCEPT ![n] = k]
    <3>1. TiposRed /\ TiposOrdenes
      BY DEF InvTipos
    <3>2. QED
      BY <1>7, <3>1, HaceGrabar
  <2>2. LeeUna(n)
    BY <2>1 DEF LeeUna, Contestado
  <2>3. QED
    BY <2>2 DEF UnPaso
<1>8. CASE Regrabar(n) \/ Releer(n) \/ Terminar(n)
  <2>1. Resalva(n)
    BY <1>8, HaceSalvar DEF InvTipos, Resalva, red
  <2>2. QED
    BY <2>1 DEF UnPaso
<1>9. QED
  BY <1>1, <1>2, <1>3, <1>4, <1>5, <1>6, <1>7, <1>8 DEF PasoNodoBloques, DelNodo

LEMMA PasoCpblockRed ==
  ASSUME InvTipos, NEW a \in Nombres, NEW d \in Dirs, NEW b \in 0..MaxBloques, NEW n \in Nodos,
         Cpblock(a, d, b, n)
  PROVE  UnPaso
<1>1. TiposRed /\ TiposOrdenes
  BY DEF InvTipos
<1>2. /\ UNCHANGED <<bitmap, cpfrom>>
      /\ \/ UNCHANGED deBloques
         \/ \E r \in metadata, g \in Get :
              /\ r.nombre = a /\ r.dir = d /\ r.bloque = b
              /\ g.numero = r.numero /\ g.para = IF r.copia = 0 THEN n ELSE SinNombre
              /\ orden.pc = "libre"
              /\ orden' = [pc |-> "espera", nombre |-> a, dir |-> d, bloque |-> b, nodo |-> n]
              /\ Manda(r.nodo, g) \/ UNCHANGED red
              /\ UNCHANGED <<disco, cargada>>
  BY <1>1, HaceCpblock
<1>3. CASE UNCHANGED deBloques
  BY <1>2, <1>3 DEF UnPaso, Mudo, deBloques, red
<1>4. CASE ~UNCHANGED deBloques
  <2>1. PICK r \in metadata, g \in Get :
              /\ r.nombre = a /\ r.dir = d /\ r.bloque = b
              /\ g.numero = r.numero /\ g.para = IF r.copia = 0 THEN n ELSE SinNombre
              /\ orden.pc = "libre"
              /\ orden' = [pc |-> "espera", nombre |-> a, dir |-> d, bloque |-> b, nodo |-> n]
              /\ Manda(r.nodo, g) \/ UNCHANGED red
              /\ UNCHANGED <<disco, cargada>>
    BY <1>2, <1>4
  <2>2. r.nodo \in Nodos /\ Del(r) = Del(orden')
    BY <1>1, <2>1 DEF TiposRed, Entrada, Del
  <2>3. CASE UNCHANGED red
    BY <1>2, <2>1, <2>3 DEF UnPaso, Mudo, red
  <2>4. CASE Manda(r.nodo, g)
    <3>1. g.para # SinNombre => r.copia = 0
      BY <2>1
    <3>2. MandaGet(r.nodo)
      BY <1>2, <2>1, <2>2, <2>4, <3>1 DEF MandaGet
    <3>3. QED
      BY <2>2, <3>2 DEF UnPaso
  <2>5. QED
    BY <2>1, <2>3, <2>4
<1>5. QED
  BY <1>3, <1>4

LEMMA PasoCopiarRed ==
  ASSUME InvTipos, UnaOrden, Copiar
  PROVE  UnPaso
<1>1. /\ ordenCp
      /\ UNCHANGED <<aFS, disco, cpfrom, cargada>>
      /\ \/ UNCHANGED aNodo
         \/ \E j \in Numeros :
              /\ j \notin bitmap[orden.nodo]
              /\ \E m \in CopiaNueva :
                   /\ cpblock.para \in Nodos /\ Manda(cpblock.para, m) /\ m.numero = j
                   /\ Del(m) = Del(orden) /\ m.nombre = orden.nombre /\ m.dato = cpblock.dato
  BY HaceCopiar DEF InvTipos
<1>2. CASE UNCHANGED aNodo
  BY <1>1, <1>2 DEF UnPaso, Mudo
<1>3. CASE ~UNCHANGED aNodo
  <2>1. PICK j \in Numeros :
              /\ j \notin bitmap[orden.nodo]
              /\ \E m \in CopiaNueva :
                   /\ cpblock.para \in Nodos /\ Manda(cpblock.para, m) /\ m.numero = j
                   /\ Del(m) = Del(orden) /\ m.nombre = orden.nombre /\ m.dato = cpblock.dato
    BY <1>1, <1>3
  <2>2. cpblock.para \in Nodos /\ cpblock.para = orden.nodo
    BY <1>1, <2>1, OrdenesPosibles DEF UnaOrden, Receptores
  <2>3. MandaNueva(cpblock.para)
    BY <1>1, <2>1, <2>2 DEF MandaNueva
  <2>4. QED
    BY <2>2, <2>3 DEF UnPaso
<1>4. QED
  BY <1>2, <1>3

LEMMA PasosRed ==
  ASSUME InvTipos, UnaOrden, Directorios, Cargadas, [NextBloques]_todo
  PROVE  UnPaso
<1>0. ASSUME UNCHANGED <<aNodo, aFS, disco, cpfrom, cargada>> PROVE UnPaso
  BY <1>0 DEF UnPaso, Mudo
<1>1. CASE UNCHANGED todo
  BY <1>0, <1>1 DEF todo, vars, bloqueVars, red, nodo
<1>2. ASSUME NEW n \in Nodos, PasoNodoBloques(n) \/ (Caer(n) /\ UNCHANGED bloqueVars)
      PROVE  UnPaso
  BY <1>2, PasoBloquesRed, PasoNodoRed DEF DelNodo
<1>3. ASSUME NEW a \in Nombres, NEW d \in Dirs, Rm(a, d) PROVE UnPaso
  BY <1>0, <1>3 DEF Rm, MorirOrden, Morir, red, nodo
<1>4. CASE Recontar \/ Quitar
  BY <1>0, <1>4 DEF Recontar, Quitar, red, nodo
<1>5. QED
  BY <1>1, <1>2, <1>3, <1>4, Pasos, PasoHiloRed, PasoCpblockRed, PasoCopiarRed

-----------------------------------------------------------------------------
(* A copy of a cpfrom between its send and its answer, and the registration  *)
(* of its answer.                                                            *)
LEMMA UnaCopiaSigue ==
  ASSUME InvTipos, UnaCopia, UnPaso
  PROVE  UnaCopia'
<1> USE DEF InvTipos
<1>a. cargada \in [Nodos -> {SinCargar} \cup Cargado]
  BY DEF TiposOrdenes
<1>0. ASSUME Unico("copia")', \A p \in Nodos : Hay("copia", p)' => Hay("copia", p),
             \A p \in Nodos : EnRegistro(p)' => EnRegistro(p),
             cpfrom' = cpfrom \/ (~cpfrom /\ \A p \in Nodos : ~EnRegistro(p))
      PROVE  UnaCopia'
  BY <1>0 DEF UnaCopia, Ninguno
<1>1. CASE Mudo
  <2>1. Unico("copia")' /\ \A p \in Nodos : Hay("copia", p)' => Hay("copia", p)
    BY <1>1 DEF Mudo, UnaCopia, Unico, Hay
  <2>2. QED
    BY <1>0, <1>1, <2>1 DEF Mudo, UnaCopia, EnRegistro
<1>2. ASSUME NEW n \in Nodos, MandaCopia(n) PROVE UnaCopia'
  <2>1. PICK c \in Copia : Manda(n, c)
    BY <1>2 DEF MandaCopia
  <2>2. c \in Mensaje /\ Ninguno("copia") /\ Unico("copia") /\ cpfrom'
    BY <1>2, Clases DEF MandaCopia, UnaCopia
  <2>3. Unico("copia")'
    BY <2>1, <2>2, ClaseMandada
  <2>4. \A p \in Nodos : ~EnRegistro(p)'
    BY <1>2 DEF MandaCopia, UnaCopia, EnRegistro
  <2>5. QED
    BY <2>2, <2>3, <2>4 DEF UnaCopia
<1>3. ASSUME NEW n \in Nodos, MandaGet(n) \/ MandaNueva(n) PROVE UnaCopia'
  <2>1. PICK m \in Mensaje : Manda(n, m) /\ Clase(m) # "copia"
    BY <1>3, Clases DEF MandaGet, MandaNueva
  <2>2. Unico("copia")' /\ \A p \in Nodos : Hay("copia", p)' => Hay("copia", p)
    BY <2>1, ClaseMandada DEF UnaCopia
  <2>3. UNCHANGED <<cpfrom, cargada>>
    BY <1>3 DEF MandaGet, MandaNueva
  <2>4. QED
    BY <1>0, <2>2, <2>3 DEF EnRegistro
<1>4. ASSUME NEW n \in Nodos, ContestaCopia(n) \/ ContestaGet(n) \/ ContestaNueva(n) PROVE UnaCopia'
  <2>1. PICK x \in Contestado : Contesta(n, x) /\ Clase(x) = Clase(Head(aNodo[n]))
    BY <1>4, Clases DEF ContestaCopia, ContestaGet, ContestaNueva
  <2>2. Unico("copia")' /\ \A p \in Nodos : Hay("copia", p)' => Hay("copia", p)
    BY <2>1, ClaseContestada DEF UnaCopia
  <2>3. UNCHANGED <<cpfrom, cargada>>
    BY <1>4 DEF ContestaCopia, ContestaGet, ContestaNueva
  <2>4. QED
    BY <1>0, <2>2, <2>3 DEF EnRegistro
<1>5. ASSUME NEW n \in Nodos, LeeUna(n) PROVE UnaCopia'
  <2>1. /\ Unico("copia")' /\ \A p \in Nodos : Hay("copia", p)' => Hay("copia", p)
        /\ Clase(Head(aFS[n])) = "copia" => Ninguno("copia")' /\ ~Ninguno("copia")
    BY <1>5, ClaseLeida DEF LeeUna, UnaCopia, Ninguno
  <2>2. CASE cargada[n] = SinCargar /\ cargada' = cargada
    <3>1. cpfrom' = cpfrom \/ Clase(Head(aFS[n])) = "copia"
      BY <1>5, <2>2, Clases DEF LeeUna, SinCargar
    <3>2. CASE cpfrom' = cpfrom
      BY <1>0, <2>1, <2>2, <3>2 DEF EnRegistro
    <3>3. CASE Clase(Head(aFS[n])) = "copia"
      <4>1. \A p \in Nodos : ~EnRegistro(p)'
        BY <2>1, <2>2, <3>3 DEF UnaCopia, EnRegistro
      <4>2. QED
        BY <2>1, <3>3, <4>1 DEF UnaCopia
    <3>4. QED
      BY <3>1, <3>2, <3>3
  <2>3. CASE ~(cargada[n] = SinCargar /\ cargada' = cargada)
    <3>1. PICK k \in Cargado : /\ k.pc = "graba" /\ k.de = cargada[n].de /\ cpfrom' = cpfrom
                               /\ cargada' = [cargada EXCEPT ![n] = k]
                               /\ cargada[n].de # "copia" => Head(aFS[n]) \in Resultado
      BY <1>5, <2>3 DEF LeeUna
    <3>2. cargada'[n] = k /\ \A p \in Nodos \ {n} : cargada'[p] = cargada[p]
      BY <1>a, <3>1
    <3>3. \A p \in Nodos \ {n} : EnRegistro(p)' <=> EnRegistro(p)
      BY <3>2 DEF EnRegistro
    <3>4. CASE k.de = "copia"
      <4>1. ~EnRegistro(n)'
        BY <3>2, <3>4 DEF EnRegistro
      <4>2. QED
        BY <1>0, <2>1, <3>1, <3>3, <4>1
    <3>5. CASE k.de # "copia"
      <4>1. Clase(Head(aFS[n])) = "copia"
        BY <3>1, <3>5, Clases
      <4>2. Ninguno("copia")' /\ cpfrom' /\ \A p \in Nodos : ~EnRegistro(p)
        BY <2>1, <3>1, <4>1 DEF UnaCopia
      <4>3. \A p \in Nodos : EnRegistro(p)' => p = n
        BY <3>3, <4>2
      <4>4. QED
        BY <2>1, <4>2, <4>3 DEF UnaCopia
    <3>6. QED
      BY <3>4, <3>5
  <2>4. QED
    BY <2>2, <2>3
<1>6. ASSUME NEW n \in Nodos, PierdeTodo(n) PROVE UnaCopia'
  <2>1. Unico("copia")' /\ \A p \in Nodos : Hay("copia", p)' => Hay("copia", p)
    BY <1>6, ClasePerdida DEF PierdeTodo, UnaCopia
  <2>2. QED
    BY <1>0, <1>6, <2>1 DEF PierdeTodo, EnRegistro
<1>7. ASSUME NEW n \in Nodos, Carga(n) PROVE UnaCopia'
  <2>1. PICK k : k.pc = "lee" /\ cargada' = [cargada EXCEPT ![n] = k]
    BY <1>7 DEF Carga, Empezada
  <2>2. cargada'[n] = k /\ \A p \in Nodos \ {n} : cargada'[p] = cargada[p]
    BY <1>a, <2>1
  <2>3. \A p \in Nodos : EnRegistro(p)' => EnRegistro(p)
    BY <2>1, <2>2 DEF EnRegistro
  <2>4. Unico("copia")' /\ \A p \in Nodos : Hay("copia", p)' => Hay("copia", p)
    BY <1>7 DEF Carga, UnaCopia, Unico, Hay
  <2>5. QED
    BY <1>0, <1>7, <2>3, <2>4 DEF Carga
<1>8. ASSUME NEW n \in Nodos, Resalva(n) PROVE UnaCopia'
  <2>1. Unico("copia")' /\ \A p \in Nodos : Hay("copia", p)' => Hay("copia", p)
    BY <1>8 DEF Resalva, UnaCopia, Unico, Hay
  <2>2. ASSUME NEW k, cargada' = [cargada EXCEPT ![n] = k], EnRegistro(n)' => EnRegistro(n)
        PROVE  \A p \in Nodos : EnRegistro(p)' => EnRegistro(p)
    <3>1. \A p \in Nodos \ {n} : cargada'[p] = cargada[p]
      BY <1>a, <2>2
    <3>2. QED
      BY <2>2, <3>1 DEF EnRegistro
  <2>3. CASE cpfrom' = cpfrom
    <3>1. PICK k : /\ cargada' = [cargada EXCEPT ![n] = k] /\ cargada[n].pc \in {"graba", "otra", "relee"}
                   /\ k = SinCargar \/ k.de = cargada[n].de
      BY <1>8 DEF Resalva
    <3>2. cargada'[n] = k
      BY <1>a, <3>1
    <3>3. EnRegistro(n)' => EnRegistro(n)
      BY <3>1, <3>2 DEF EnRegistro, SinCargar
    <3>4. QED
      BY <1>0, <2>1, <2>2, <2>3, <3>1, <3>3
  <2>4. CASE cpfrom' # cpfrom
    <3>1. /\ cargada[n].pc \in {"graba", "otra", "relee"} /\ cargada[n].de # "copia"
          /\ cpfrom' = FALSE /\ cargada' = [cargada EXCEPT ![n] = SinCargar]
      BY <1>8, <2>4 DEF Resalva
    <3>2. EnRegistro(n)
      BY <3>1 DEF EnRegistro
    <3>3. Ninguno("copia")' /\ \A p \in Nodos \ {n} : ~EnRegistro(p)
      BY <2>1, <3>2 DEF UnaCopia, Ninguno
    <3>4. cargada'[n] = SinCargar
      BY <1>a, <3>1
    <3>5. ~EnRegistro(n)'
      BY <3>4 DEF EnRegistro, SinCargar
    <3>6. \A p \in Nodos : ~EnRegistro(p)'
      BY <2>2, <3>1, <3>3, <3>5
    <3>7. QED
      BY <2>1, <3>3, <3>6 DEF UnaCopia
  <2>5. QED
    BY <2>3, <2>4
<1>9. QED
  BY <1>1, <1>2, <1>3, <1>4, <1>5, <1>6, <1>7, <1>8 DEF UnPaso

LEMMA CargadasSiguen ==
  ASSUME InvTipos, Cargadas, Directorios, UnPaso, terminados \subseteq terminados'
  PROVE  Cargadas'
<1> USE DEF InvTipos
<1>a. cargada \in [Nodos -> {SinCargar} \cup Cargado]
  BY DEF TiposOrdenes
<1>b. \A r, x : Registra(r, x) => Registra(r, x)'
  BY DEF Registra, EsPedido, MismoArchivo, Del
<1>0. ASSUME cargada' = cargada,
             \A p \in Nodos : aFS[p] # <<>> => aFS'[p] # <<>> /\ Head(aFS'[p]) = Head(aFS[p])
      PROVE  Cargadas'
  BY <1>0, <1>b DEF Cargadas
<1>1. CASE Mudo
  BY <1>0, <1>1 DEF Mudo
<1>2. ASSUME NEW n \in Nodos, MandaCopia(n) \/ MandaGet(n) \/ MandaNueva(n) PROVE Cargadas'
  BY <1>0, <1>2 DEF MandaCopia, MandaGet, MandaNueva, Manda
<1>3. ASSUME NEW n \in Nodos, ContestaCopia(n) \/ ContestaGet(n) \/ ContestaNueva(n) PROVE Cargadas'
  <2>1. PICK x \in Contestado : Contesta(n, x) /\ cargada' = cargada
    BY <1>3 DEF ContestaCopia, ContestaGet, ContestaNueva, Contestado
  <2>2. /\ aFS'[n] = Append(aFS[n], x) /\ \A p \in Nodos \ {n} : aFS'[p] = aFS[p]
        /\ aFS[n] \in Seq(Contestado)
    BY <2>1 DEF Contesta, TiposRed
  <2>3. aFS[n] # <<>> => aFS'[n] # <<>> /\ Head(aFS'[n]) = Head(aFS[n])
    BY <2>2
  <2>4. QED
    BY <1>0, <2>1, <2>2, <2>3
<1>4. ASSUME NEW n \in Nodos, cargada'[n].pc # "lee",
             \A p \in Nodos \ {n} : aFS'[p] = aFS[p] /\ cargada'[p] = cargada[p]
      PROVE  Cargadas'
  BY <1>4, <1>b DEF Cargadas
<1>5. ASSUME NEW n \in Nodos, LeeUna(n) PROVE Cargadas'
  <2>1. \A p \in Nodos \ {n} : aFS'[p] = aFS[p] /\ cargada'[p] = cargada[p]
    BY <1>5, <1>a DEF LeeUna, Lee, TiposRed
  <2>2. cargada'[n].pc # "lee"
    BY <1>5, <1>a DEF LeeUna, SinCargar
  <2>3. QED
    BY <1>4, <2>1, <2>2
<1>6. ASSUME NEW n \in Nodos, PierdeTodo(n) PROVE Cargadas'
  BY <1>0, <1>6 DEF PierdeTodo, Pierde
<1>7. ASSUME NEW n \in Nodos, Carga(n) PROVE Cargadas'
  <2>1. PICK k : Empezada(n, k)
    BY <1>7 DEF Carga
  <2>2. /\ aFS' = aFS /\ cargada'[n] = k
        /\ \A p \in Nodos \ {n} : cargada'[p] = cargada[p]
    BY <1>7, <1>a, <2>1 DEF Carga, Empezada
  <2>3. /\ aFS[n] # <<>> /\ k.nueva.nodo = n /\ Registra(k.nueva, Head(aFS[n]))
        /\ k.de # "copia" => Head(aFS[n]) \in Resultado
    BY <2>1 DEF Empezada
  <2>4. QED
    BY <1>b, <2>2, <2>3 DEF Cargadas
<1>8. ASSUME NEW n \in Nodos, Resalva(n) PROVE Cargadas'
  <2>1. \A p \in Nodos \ {n} : aFS'[p] = aFS[p] /\ cargada'[p] = cargada[p]
    BY <1>8, <1>a DEF Resalva
  <2>2. cargada'[n].pc # "lee"
    BY <1>8, <1>a DEF Resalva, SinCargar
  <2>3. QED
    BY <1>4, <2>1, <2>2
<1>9. QED
  BY <1>1, <1>2, <1>3, <1>5, <1>6, <1>7, <1>8 DEF UnPaso

-----------------------------------------------------------------------------
(* Where a message for node p comes from. *)
LEMMA MensajesNuevos ==
  ASSUME InvTipos, UnPaso, NEW p \in Nodos, NEW m \in ToSet(aNodo'[p]), m \notin ToSet(aNodo[p])
  PROVE  \/ m \in Copia /\ MandaCopia(p) /\ m.numero \notin bitmap[p]
            /\ \E h \in Hilos : EnviarCopia(h) /\ DeEnvio(h, m)
         \/ m \in Get /\ orden.pc = "libre" /\ bitmap' = bitmap /\ disco' = disco
            /\ Usados(aNodo[p])' = Usados(aNodo[p])
            /\ \E r \in metadata :
                 /\ r.nodo = p /\ Del(r) = Del(orden') /\ m.numero = r.numero
                 /\ m.para # SinNombre => r.copia = 0
         \/ m \in CopiaNueva /\ ordenCp /\ m.numero \notin bitmap[p] /\ cpblock.para \in Nodos
            /\ Del(m) = Del(orden) /\ m.nombre = orden.nombre /\ m.dato = cpblock.dato
<1> USE DEF InvTipos
<1> DEFINE Nuevo(n, x) == n = p /\ m = x /\ Manda(p, m)
<1>0. ASSUME NEW n \in Nodos, NEW x \in Mensaje, Manda(n, x) PROVE Nuevo(n, x)
  BY <1>0, Contenidos
<1>1. CASE Mudo
  BY <1>1 DEF Mudo
<1>2. ASSUME NEW n \in Nodos, MandaCopia(n)
      PROVE  m \in Copia /\ MandaCopia(p) /\ m.numero \notin bitmap[p]
             /\ \E h \in Hilos : EnviarCopia(h) /\ DeEnvio(h, m)
  <2>1. PICK h \in Hilos, c \in Copia :
          EnviarCopia(h) /\ DeEnvio(h, c) /\ c.numero \notin bitmap[n] /\ Manda(n, c)
    BY <1>2 DEF MandaCopia
  <2>2. Nuevo(n, c)
    BY <1>0, <2>1, Clases
  <2>3. QED
    BY <1>2, <2>1, <2>2
<1>3. ASSUME NEW n \in Nodos, MandaGet(n)
      PROVE  m \in Get /\ orden.pc = "libre" /\ bitmap' = bitmap /\ disco' = disco
             /\ Usados(aNodo[p])' = Usados(aNodo[p])
             /\ \E r \in metadata :
                  /\ r.nodo = p /\ Del(r) = Del(orden') /\ m.numero = r.numero
                  /\ m.para # SinNombre => r.copia = 0
  <2>1. PICK r \in metadata, g \in Get :
          /\ r.nodo = n /\ Del(r) = Del(orden') /\ g.numero = r.numero
          /\ g.para # SinNombre => r.copia = 0
          /\ Manda(n, g)
    BY <1>3 DEF MandaGet
  <2>2. Nuevo(n, g)
    BY <1>0, <2>1, Clases
  <2>3. Usados(aNodo[p])' = Usados(aNodo[p])
    <3>1. aNodo'[p] = Append(aNodo[p], m) /\ aNodo[p] \in Seq(Mensaje) /\ m \in Mensaje /\ ~Escribe(m)
      BY <2>2, Clases, Escriben DEF Manda, TiposRed
    <3>2. Usados(aNodo'[p]) = Usados(aNodo[p])
      BY <3>1, UsadosMas
    <3>3. QED
      BY <3>2 DEF Usados
  <2>4. QED
    BY <1>3, <2>1, <2>2, <2>3 DEF MandaGet
<1>4. ASSUME NEW n \in Nodos, MandaNueva(n)
      PROVE  m \in CopiaNueva /\ ordenCp /\ m.numero \notin bitmap[p] /\ cpblock.para \in Nodos
             /\ Del(m) = Del(orden) /\ m.nombre = orden.nombre /\ m.dato = cpblock.dato
  <2>1. PICK c \in CopiaNueva :
          /\ c.numero \notin bitmap[n] /\ cpblock.para \in Nodos
          /\ Del(c) = Del(orden) /\ c.nombre = orden.nombre /\ c.dato = cpblock.dato
          /\ Manda(n, c)
    BY <1>4 DEF MandaNueva
  <2>2. Nuevo(n, c)
    BY <1>0, <2>1, Clases
  <2>3. QED
    BY <1>4, <2>1, <2>2 DEF MandaNueva
<1>5. ASSUME NEW n \in Nodos, ContestaCopia(n) \/ ContestaGet(n) \/ ContestaNueva(n) PROVE FALSE
  <2>1. PICK x \in Contestado : Contesta(n, x)
    BY <1>5, Clases DEF ContestaCopia, ContestaGet, ContestaNueva
  <2>2. QED
    BY <2>1, Contenidos
<1>6. ASSUME NEW n \in Nodos, LeeUna(n) \/ PierdeTodo(n) \/ Carga(n) \/ Resalva(n) PROVE FALSE
  BY <1>6, Contenidos DEF LeeUna, PierdeTodo, Carga, Resalva
<1>7. QED
  BY <1>1, <1>2, <1>3, <1>4, <1>5, <1>6 DEF UnPaso

(* Where an answer of node p comes from. *)
LEMMA RespuestasNuevas ==
  ASSUME InvTipos, UnPaso, NEW p \in Nodos, NEW x \in ToSet(aFS'[p]), x \notin ToSet(aFS[p])
  PROVE  \/ x \in Resultado /\ x.copia \in ToSet(aNodo[p])
            /\ (x.res = 1 => disco'[p][x.copia.numero] = Del(x.copia))
         \/ x \in Traido /\ \E g \in ToSet(aNodo[p]) :
              g \in Get /\ x.dato = disco[p][g.numero] /\ x.para = g.para
         \/ x \in Copiada /\ \E c \in ToSet(aNodo[p]) :
              /\ c \in CopiaNueva /\ Del(x) = Del(c) /\ x.nombre = c.nombre
              /\ x.res = 1 => disco'[p][x.numero] = c.dato
<1> USE DEF InvTipos
<1>0. ASSUME NEW n \in Nodos, NEW y \in Contestado, Contesta(n, y)
      PROVE  n = p /\ x = y /\ Head(aNodo[p]) \in ToSet(aNodo[p])
  BY <1>0, Contenidos
<1>d. disco \in [Nodos -> [Bloques -> Contenido]]
  BY DEF TiposRed
<1>1. CASE Mudo
  BY <1>1 DEF Mudo
<1>2. ASSUME NEW n \in Nodos, MandaCopia(n) \/ MandaGet(n) \/ MandaNueva(n) PROVE FALSE
  <2>1. PICK m \in Mensaje : Manda(n, m)
    BY <1>2, Clases DEF MandaCopia, MandaGet, MandaNueva
  <2>2. QED
    BY <2>1, Contenidos
<1>3. ASSUME NEW n \in Nodos, ContestaCopia(n)
      PROVE  x \in Resultado /\ x.copia \in ToSet(aNodo[p])
             /\ (x.res = 1 => disco'[p][x.copia.numero] = Del(x.copia))
  <2>1. PICK c \in Copia, y \in Resultado :
          /\ c = Head(aNodo[n]) /\ y.copia = c /\ c.numero \in Bloques /\ Contesta(n, y)
          /\ disco' = IF y.res = 1 THEN [disco EXCEPT ![n][c.numero] = Del(c)] ELSE disco
    BY <1>3 DEF ContestaCopia
  <2>2. n = p /\ x = y /\ c \in ToSet(aNodo[p])
    BY <1>0, <2>1, Clases
  <2>3. x.res = 1 => disco'[p][c.numero] = Del(c)
    BY <1>d, <2>1, <2>2
  <2>4. QED
    BY <2>1, <2>2, <2>3
<1>4. ASSUME NEW n \in Nodos, ContestaGet(n)
      PROVE  x \in Traido /\ \E g \in ToSet(aNodo[p]) :
               g \in Get /\ x.dato = disco[p][g.numero] /\ x.para = g.para
  <2>1. PICK g \in Get, y \in Traido :
          g = Head(aNodo[n]) /\ y.dato = disco[n][g.numero] /\ y.para = g.para /\ Contesta(n, y)
    BY <1>4 DEF ContestaGet
  <2>2. n = p /\ x = y /\ g \in ToSet(aNodo[p])
    BY <1>0, <2>1, Clases
  <2>3. QED
    BY <2>1, <2>2
<1>5. ASSUME NEW n \in Nodos, ContestaNueva(n)
      PROVE  x \in Copiada /\ \E c \in ToSet(aNodo[p]) :
               /\ c \in CopiaNueva /\ Del(x) = Del(c) /\ x.nombre = c.nombre
               /\ x.res = 1 => disco'[p][x.numero] = c.dato
  <2>1. PICK c \in CopiaNueva, y \in Copiada :
          /\ c = Head(aNodo[n]) /\ c.numero \in Bloques
          /\ y.nombre = c.nombre /\ Del(y) = Del(c) /\ y.numero = c.numero /\ Contesta(n, y)
          /\ disco' = IF y.res = 1 THEN [disco EXCEPT ![n][c.numero] = c.dato] ELSE disco
    BY <1>5 DEF ContestaNueva
  <2>2. n = p /\ x = y /\ c \in ToSet(aNodo[p])
    BY <1>0, <2>1, Clases
  <2>3. x.res = 1 => disco'[p][x.numero] = c.dato
    BY <1>d, <2>1, <2>2
  <2>4. QED
    BY <2>1, <2>2, <2>3
<1>6. ASSUME NEW n \in Nodos, LeeUna(n) \/ PierdeTodo(n) \/ Carga(n) \/ Resalva(n) PROVE FALSE
  BY <1>6, Contenidos DEF LeeUna, PierdeTodo, Carga, Resalva
<1>7. QED
  BY <1>1, <1>2, <1>3, <1>4, <1>5, <1>6 DEF UnPaso

(* A block that is written is of a message for its node. *)
LEMMA Escrituras ==
  ASSUME InvTipos, UnPaso, NEW p \in Nodos, NEW j \in Bloques,
         disco'[p][j] # disco[p][j]
  PROVE  j \in Usados(aNodo[p])
<1> USE DEF InvTipos
<1>d. disco \in [Nodos -> [Bloques -> Contenido]]
  BY DEF TiposRed
<1>1. ASSUME disco' = disco PROVE FALSE
  BY <1>1
<1>2. ASSUME NEW n \in Nodos, NEW c \in Mensaje, c = Head(aNodo[n]), aNodo[n] # <<>>, Escribe(c),
             NEW y, disco' = disco \/ disco' = [disco EXCEPT ![n][Bloque(c)] = y]
      PROVE  j \in Usados(aNodo[p])
  <2>1. n = p /\ j = Bloque(c)
    BY <1>d, <1>2
  <2>2. aNodo[n] \in Seq(Mensaje)
    BY DEF TiposRed
  <2>3. Bloque(c) \in Usados(aNodo[n])
    BY <1>2, <2>2, UsadosMenos
  <2>4. QED
    BY <2>1, <2>3
<1>3. ASSUME NEW n \in Nodos, ContestaCopia(n) PROVE j \in Usados(aNodo[p])
  <2>1. PICK c \in Copia : /\ c = Head(aNodo[n]) /\ c.numero \in Bloques /\ aNodo[n] # <<>>
                           /\ disco' = disco \/ disco' = [disco EXCEPT ![n][c.numero] = Del(c)]
    BY <1>3 DEF ContestaCopia, Contesta
  <2>2. c \in Mensaje /\ Escribe(c) /\ Bloque(c) = c.numero
    BY <2>1, Clases, Escriben, Instancia DEF Bloques
  <2>3. QED
    BY <1>2, <2>1, <2>2
<1>4. ASSUME NEW n \in Nodos, ContestaNueva(n) PROVE j \in Usados(aNodo[p])
  <2>1. PICK c \in CopiaNueva : /\ c = Head(aNodo[n]) /\ c.numero \in Bloques /\ aNodo[n] # <<>>
                                /\ disco' = disco \/ disco' = [disco EXCEPT ![n][c.numero] = c.dato]
    BY <1>4 DEF ContestaNueva, Contesta
  <2>2. c \in Mensaje /\ Escribe(c) /\ Bloque(c) = c.numero
    BY <2>1, Clases, Escriben, Instancia DEF Bloques
  <2>3. QED
    BY <1>2, <2>1, <2>2
<1>5. QED
  BY <1>1, <1>3, <1>4 DEF UnPaso, Mudo, MandaCopia, MandaGet, MandaNueva, ContestaGet, LeeUna, PierdeTodo,
              Carga, Resalva

-----------------------------------------------------------------------------
(* The threads that store, next to the commands. *)
LEMMA HiloSigue ==
  ASSUME InvTipos, [NextBloques]_todo, NEW g \in Hilos
  PROVE  Queda(g) \/ Empieza(g) \/ Para(g) \/ Reparte(g) \/ Envia(g)
<1>0. ASSUME UNCHANGED <<cola, envio>> PROVE Queda(g)
  BY <1>0 DEF Queda
<1>1. CASE UNCHANGED todo
  BY <1>0, <1>1 DEF todo, vars, hilo
<1>2. ASSUME NEW n \in Nodos, DelNodo(n) PROVE Queda(g)
  BY <1>0, <1>2, HaceGuardar, HacePerder, HaceFallido, DesconectarQuieto, CasosDelNodo DEF InvTipos
<1>3. ASSUME NEW n \in Nodos, PasoNodoBloques(n) PROVE Queda(g)
  <2>1. CASE CargarRegistro(n) \/ CargarCopia(n)
    BY <1>0, <2>1, HaceCargar
  <2>2. CASE Regrabar(n) \/ Releer(n) \/ Terminar(n)
    BY <1>0, <2>2, HaceSalvar DEF InvTipos
  <2>3. CASE ResponderGet(n) \/ LeerGet(n) \/ GuardarCopia(n) \/ CopiaFallida(n) \/ GrabarMetadata(n)
    BY <1>0, <2>3 DEF ResponderGet, LeerGet, GuardarCopia, CopiaFallida, GrabarMetadata, hilo
  <2>4. CASE DelNodo(n)
    BY <1>2, <2>4
  <2>5. QED
    BY <1>3, <2>1, <2>2, <2>3, <2>4 DEF PasoNodoBloques, DelNodo
<1>4. ASSUME NEW a \in Nombres, NEW d \in Dirs, Rm(a, d) PROVE Queda(g)
  BY <1>0, <1>4 DEF Rm, MorirOrden, Morir, hilo
<1>5. ASSUME NEW a \in Nombres, NEW d \in Dirs, NEW b \in 0..MaxBloques, NEW n \in Nodos,
             Cpblock(a, d, b, n)
      PROVE  Queda(g)
  BY <1>0, <1>5, HaceCpblock DEF InvTipos
<1>6. CASE Recontar \/ Quitar \/ Copiar
  BY <1>0, <1>6 DEF Recontar, Quitar, Copiar, hilo
<1>7. QED
  BY <1>1, <1>2, <1>3, <1>4, <1>5, <1>6, Pasos, PasoUnHilo DEF InvTipos, DelNodo

(* A file is finished when its thread has sent all its copies. *)
LEMMA TerminadosPasos ==
  ASSUME InvTipos, [NextBloques]_todo
  PROVE  \/ terminados' = terminados
         \/ \E h \in Hilos : /\ terminados' = terminados \cup {envio[h].nombre}
                             /\ envio[h].pc = "envia" /\ Len(envio[h].enviados) = 2 * envio[h].nb
                             /\ envio'[h].pc = "libre" /\ cola' = cola
<1>1. CASE UNCHANGED todo
  BY <1>1 DEF todo, vars, fsArchivos
<1>2. ASSUME NEW n \in Nodos, DelNodo(n) PROVE terminados' = terminados
  BY <1>2, HaceGuardar, HacePerder, HaceFallido, DesconectarQuieto, CasosDelNodo DEF InvTipos
<1>3. ASSUME NEW n \in Nodos, PasoNodoBloques(n) PROVE terminados' = terminados
  <2>1. CASE CargarRegistro(n) \/ CargarCopia(n)
    BY <2>1, HaceCargar
  <2>2. CASE Regrabar(n) \/ Releer(n) \/ Terminar(n)
    BY <2>2, HaceSalvar DEF InvTipos
  <2>3. CASE ResponderGet(n) \/ LeerGet(n) \/ GuardarCopia(n) \/ CopiaFallida(n) \/ GrabarMetadata(n)
    BY <2>3 DEF ResponderGet, LeerGet, GuardarCopia, CopiaFallida, GrabarMetadata, fsArchivos
  <2>4. CASE DelNodo(n)
    BY <1>2, <2>4
  <2>5. QED
    BY <1>3, <2>1, <2>2, <2>3, <2>4 DEF PasoNodoBloques, DelNodo
<1>4. ASSUME NEW a \in Nombres, NEW d \in Dirs, Rm(a, d) PROVE terminados' = terminados
  BY <1>4 DEF Rm, MorirOrden, Morir, fsArchivos
<1>5. ASSUME NEW a \in Nombres, NEW d \in Dirs, NEW b \in 0..MaxBloques, NEW n \in Nodos,
             Cpblock(a, d, b, n)
      PROVE  terminados' = terminados
  BY <1>5, HaceCpblock DEF InvTipos
<1>6. CASE Recontar \/ Quitar \/ Copiar
  BY <1>6 DEF Recontar, Quitar, Copiar, fsArchivos
<1>7. ASSUME NEW h \in Hilos, PasoHilo(h)
      PROVE  \/ terminados' = terminados
             \/ /\ terminados' = terminados \cup {envio[h].nombre}
                /\ envio[h].pc = "envia" /\ Len(envio[h].enviados) = 2 * envio[h].nb
                /\ envio'[h].pc = "libre" /\ cola' = cola
  <2>1. CASE Cerrar(h)
    <3>1. CASE Morir
      BY <3>1 DEF Morir, fsArchivos
    <3>2. CASE ~Morir
      <4>1. /\ \/ envio[h].pc = "cierra"
               \/ envio[h].pc = "envia" /\ Len(envio[h].enviados) = 2 * envio[h].nb
            /\ terminados' = IF envio[h].pc = "envia" THEN terminados \cup {envio[h].nombre}
                             ELSE terminados
            /\ envio' = [envio EXCEPT ![h] = Libre(1)] /\ cola' = cola
        BY <2>1, <3>2 DEF Cerrar
      <4>2. envio'[h] = Libre(1)
        BY <4>1 DEF InvTipos, Base
      <4>3. QED
        BY <4>1, <4>2 DEF Libre
    <3>3. QED
      BY <3>1, <3>2
  <2>2. CASE EnviarCopia(h)
    BY <2>2 DEF EnviarCopia
  <2>3. CASE ~Cerrar(h) /\ ~EnviarCopia(h)
    BY <1>7, <2>3 DEF PasoHilo, Empezar, Repartir, SinLugar, CortarBasura, EnviarMuere, Morir,
                      fsArchivos
  <2>4. QED
    BY <2>1, <2>2, <2>3
<1>8. QED
  BY <1>1, <1>2, <1>3, <1>4, <1>5, <1>6, <1>7, Pasos DEF DelNodo

LEMMA CuantosEmpezados ==
  ASSUME Base, Colas, NEW g \in Hilos,
         Queda(g) \/ Empieza(g) \/ Para(g) \/ Reparte(g) \/ Envia(g)
  PROVE  /\ Empezados(g) \in 0..Len(Pedidos[g]) /\ Len(Pedidos[g]) \in Nat
         /\ \/ Empezados(g)' = Empezados(g) /\ ~Empieza(g)
            \/ /\ Empieza(g) /\ Empezados(g)' = Empezados(g) + 1
               /\ Empezados(g) + 1 \in 1..Len(Pedidos[g])
               /\ Head(cola[g]) = Pedidos[g][Empezados(g) + 1]
<1>1. /\ Empezados(g) \in 0..Len(Pedidos[g]) /\ Len(Pedidos[g]) \in Nat
      /\ \A i \in DOMAIN cola[g] : cola[g][i] = Pedidos[g][Empezados(g) + i]
      /\ Len(cola[g]) \in Nat /\ cola[g] \in Seq(Pedido)
  BY BaseCuentas DEF Colas
<1>2. CASE Empieza(g)
  <2>1. cola[g] # <<>> /\ cola'[g] = Tail(cola[g])
    BY <1>2 DEF Empieza
  <2>2. /\ Len(cola'[g]) = Len(cola[g]) - 1 /\ Head(cola[g]) = cola[g][1] /\ 1 \in DOMAIN cola[g]
        /\ Len(cola[g]) \in Nat \ {0}
    BY <1>1, <2>1, ColaDe
  <2> DEFINE p == Len(Pedidos[g])
             q == Len(cola[g])
  <2>3. Empezados(g) = p - q /\ Empezados(g)' = p - (q - 1)
    BY <2>2 DEF Empezados
  <2>4. p \in Nat /\ q \in Nat \ {0} /\ p - q \in 0..p
    BY <1>1, <2>2, <2>3
  <2> HIDE DEF p, q
  <2>5. p - (q - 1) = (p - q) + 1 /\ (p - q) + 1 \in 1..p
    BY <2>4
  <2>6. Head(cola[g]) = Pedidos[g][Empezados(g) + 1]
    BY <1>1, <2>2
  <2>7. QED
    BY <1>1, <1>2, <2>3, <2>5, <2>6 DEF p
<1>3. CASE ~Empieza(g)
  <2>1. cola'[g] = cola[g]
    BY <1>3 DEF Queda, Para, Reparte, Envia, Mismo
  <2>2. QED
    BY <1>1, <1>3, <2>1 DEF Empezados
<1>4. QED
  BY <1>2, <1>3

LEMMA ColasBloques ==
  ASSUME InvTipos, Colas, [NextBloques]_todo
  PROVE  Colas'
<1> SUFFICES ASSUME NEW g \in Hilos
  PROVE  /\ Empezados(g)' \in 0..Len(Pedidos[g])
         /\ \A i \in DOMAIN cola'[g] : cola'[g][i] = Pedidos[g][Empezados(g)' + i]
         /\ envio'[g].pc # "libre" =>
              /\ Empezados(g)' # 0
              /\ envio'[g].nombre = Pedidos[g][Empezados(g)'].nombre
              /\ envio'[g].dir = Pedidos[g][Empezados(g)'].dir
              /\ envio'[g].nb \in Pedidos[g][Empezados(g)'].bloques
  BY DEF Colas
<1>1. QED
  BY HiloSigue, ColaSigue DEF InvTipos

(* A copy on its way to node n or back. *)
LEMMA EstaVolando ==
  ASSUME NEW n \in Nodos, NEW c
  PROVE  c \in Volantes(n) <=> \/ c \in ToSet(aNodo[n]) /\ c.tipo = "SETBLOQUE"
                               \/ \E x \in ToSet(aFS[n]) : x.tipo = "RESULOPERACION" /\ x.copia = c
BY DEF Volantes

LEMMA SinVolantes ==
  ASSUME Ninguno("copia"), NEW n \in Nodos
  PROVE  Volantes(n) = {}
<1>1. ~Tiene("copia", aNodo[n]) /\ ~Tiene("copia", aFS[n])
  BY DEF Ninguno, Hay
<1>2. /\ \A m \in ToSet(aNodo[n]) : m.tipo # "SETBLOQUE"
      /\ \A x \in ToSet(aFS[n]) : x.tipo # "RESULOPERACION"
  BY <1>1 DEF Tiene, Clase, ToSet
<1>3. QED
  BY <1>2 DEF Volantes

LEMMA VolantesPasos ==
  ASSUME InvTipos, UnPaso, NEW p \in Nodos, NEW c \in Volantes(p)', c \notin Volantes(p)
  PROVE  c \in Copia /\ \E h \in Hilos : EnviarCopia(h) /\ DeEnvio(h, c)
<1>1. CASE c \in ToSet(aNodo'[p]) /\ c.tipo = "SETBLOQUE"
  <2>1. c \notin ToSet(aNodo[p])
    BY <1>1, EstaVolando
  <2>2. c \notin Get /\ c \notin CopiaNueva
    BY <1>1 DEF Get, CopiaNueva
  <2>3. QED
    BY <1>1, <2>1, <2>2, MensajesNuevos
<1>2. CASE \E x \in ToSet(aFS'[p]) : x.tipo = "RESULOPERACION" /\ x.copia = c
  <2>1. PICK x \in ToSet(aFS'[p]) : x.tipo = "RESULOPERACION" /\ x.copia = c
    BY <1>2
  <2>2. x \notin ToSet(aFS[p])
    BY <2>1, EstaVolando
  <2>3. x \notin Traido /\ x \notin Copiada
    BY <2>1 DEF Traido, Copiada
  <2>4. x \in Resultado /\ x.copia \in ToSet(aNodo[p])
    BY <2>2, <2>3, RespuestasNuevas
  <2>5. c \in Volantes(p)
    BY <2>1, <2>4, EstaVolando DEF Resultado, Copia
  <2>6. QED
    BY <2>5
<1>3. QED
  BY <1>1, <1>2 DEF Volantes

-----------------------------------------------------------------------------
(* The files that began and ended stay so. *)
LEMMA EmpezadosSiguen ==
  ASSUME InvTipos, Colas, [NextBloques]_todo, NEW a
  PROVE  /\ \A d : Empezado(a, d) => Empezado(a, d)'
         /\ Acabado(a) => Acabado(a)'
<1>1. ASSUME NEW h \in Hilos
      PROVE  /\ Empezados(h) \in Nat
             /\ \/ Empezados(h)' = Empezados(h) /\ ~Empieza(h)
                \/ Empezados(h)' = Empezados(h) + 1
             /\ Queda(h) \/ Empieza(h) \/ Para(h) \/ Reparte(h) \/ Envia(h)
  BY HiloSigue, CuantosEmpezados DEF InvTipos
<1>2. ASSUME NEW d, Empezado(a, d) PROVE Empezado(a, d)'
  <2>0. PICK h \in Hilos :
          \E i \in 1..Empezados(h) : Pedidos[h][i].nombre = a /\ Pedidos[h][i].dir = d
    BY <1>2 DEF Empezado
  <2>1. PICK i \in 1..Empezados(h) : Pedidos[h][i].nombre = a /\ Pedidos[h][i].dir = d
    BY <2>0
  <2>2. i \in 1..(Empezados(h)')
    BY <1>1, <2>1
  <2>3. QED
    BY <2>1, <2>2 DEF Empezado
<1>3. ASSUME Acabado(a) PROVE Acabado(a)'
  <2>0. PICK h \in Hilos : \E i \in 1..Empezados(h) :
          Pedidos[h][i].nombre = a /\ (i = Empezados(h) => envio[h].pc = "libre")
    BY <1>3 DEF Acabado
  <2>1. PICK i \in 1..Empezados(h) :
          Pedidos[h][i].nombre = a /\ (i = Empezados(h) => envio[h].pc = "libre")
    BY <2>0
  <2>2. i \in 1..(Empezados(h)')
    BY <1>1, <2>1
  <2>3. ASSUME i = Empezados(h)' PROVE envio'[h].pc = "libre"
    <3>1. i = Empezados(h) /\ ~Empieza(h)
      BY <1>1, <2>1, <2>3
    <3>2. QED
      BY <1>1, <2>1, <3>1 DEF Queda, Para, Reparte, Envia, Mismo
  <2>4. QED
    BY <2>1, <2>2, <2>3 DEF Acabado
<1>4. QED
  BY <1>2, <1>3

LEMMA EsEmpezado ==
  ASSUME InvTipos, Colas, NEW h \in Hilos, envio[h].pc # "libre"
  PROVE  Empezado(envio[h].nombre, envio[h].dir)
<1>1. /\ Empezados(h) \in 1..Len(Pedidos[h]) /\ Empezados(h) \in 1..Empezados(h)
      /\ envio[h].nombre = Pedidos[h][Empezados(h)].nombre
      /\ envio[h].dir = Pedidos[h][Empezados(h)].dir
  BY BaseEsDeUnPedido, BaseCuentas DEF InvTipos
<1>2. QED
  BY <1>1 DEF Empezado

LEMMA DeEmpezadosSiguen ==
  ASSUME InvTipos, UnaOrden, Colas, Directorios, Cargadas, DeEmpezados, [NextBloques]_todo
  PROVE  DeEmpezados'
<1>1. ASSUME NEW a \in terminados' PROVE Acabado(a)'
  <2>1. CASE a \in terminados
    BY <2>1, EmpezadosSiguen DEF DeEmpezados
  <2>2. CASE a \notin terminados
    <3>1. PICK h \in Hilos : a = envio[h].nombre /\ envio[h].pc = "envia" /\ envio'[h].pc = "libre"
                             /\ cola' = cola
      BY <2>2, TerminadosPasos
    <3>2. Empezados(h)' = Empezados(h)
      BY <3>1 DEF Empezados
    <3>3. Empezados(h) \in 1..Empezados(h) /\ a = Pedidos[h][Empezados(h)].nombre
      BY <3>1, BaseEsDeUnPedido, BaseCuentas DEF InvTipos
    <3>4. QED
      BY <3>1, <3>2, <3>3 DEF Acabado
  <2>3. QED
    BY <2>1, <2>2
<1>2. ASSUME NEW n \in Nodos, NEW c \in Volantes(n)' PROVE Empezado(c.nombre, c.dir)'
  <2>1. Empezado(c.nombre, c.dir)
    <3>1. CASE c \in Volantes(n)
      BY <3>1 DEF DeEmpezados
    <3>2. CASE c \notin Volantes(n)
      <4>1. PICK h \in Hilos : EnviarCopia(h) /\ DeEnvio(h, c)
        BY <3>2, PasosRed, VolantesPasos
      <4>2. envio[h].pc # "libre"
        BY <4>1 DEF EnviarCopia
      <4>3. QED
        BY <4>1, <4>2, EsEmpezado DEF DeEnvio
    <3>3. QED
      BY <3>1, <3>2
  <2>2. QED
    BY <2>1, EmpezadosSiguen
<1>3. QED
  BY <1>1, <1>2 DEF DeEmpezados

(* archivos_actuales changes with a send and with an answer. *)
LEMMA ActualesPasos ==
  ASSUME InvTipos, [NextBloques]_todo
  PROVE  \/ actuales' = actuales
         \/ \E h \in Hilos, n \in Nodos :
              envio[h].pc # "libre" /\ Anotar(n, envio[h].nombre, envio[h].dir)
         \/ \E n \in Nodos : \E a : actuales' = [actuales EXCEPT ![n][a] = Sin]
<1>1. CASE UNCHANGED todo
  BY <1>1 DEF todo, vars, fsDatos
<1>2. ASSUME NEW n \in Nodos, DelNodo(n)
      PROVE  actuales' = actuales \/ \E a : actuales' = [actuales EXCEPT ![n][a] = Sin]
  BY <1>2, HaceGuardar, HacePerder, HaceFallido, DesconectarQuieto, CasosDelNodo DEF InvTipos
<1>3. ASSUME NEW n \in Nodos, PasoNodoBloques(n)
      PROVE  actuales' = actuales \/ \E a : actuales' = [actuales EXCEPT ![n][a] = Sin]
  <2>1. CASE CargarRegistro(n) \/ CargarCopia(n)
    BY <2>1, HaceCargar
  <2>2. CASE Regrabar(n) \/ Releer(n) \/ Terminar(n)
    BY <2>2, HaceSalvar DEF InvTipos
  <2>3. CASE ResponderGet(n) \/ LeerGet(n) \/ GuardarCopia(n) \/ CopiaFallida(n) \/ GrabarMetadata(n)
    BY <2>3 DEF ResponderGet, LeerGet, GuardarCopia, CopiaFallida, GrabarMetadata, fsDatos
  <2>4. CASE DelNodo(n)
    BY <1>2, <2>4
  <2>5. QED
    BY <1>3, <2>1, <2>2, <2>3, <2>4 DEF PasoNodoBloques, DelNodo
<1>4. ASSUME NEW a \in Nombres, NEW d \in Dirs, Rm(a, d) PROVE actuales' = actuales
  BY <1>4 DEF Rm, MorirOrden, Morir, fsDatos
<1>5. ASSUME NEW a \in Nombres, NEW d \in Dirs, NEW b \in 0..MaxBloques, NEW n \in Nodos,
             Cpblock(a, d, b, n)
      PROVE  actuales' = actuales
  BY <1>5, HaceCpblock DEF InvTipos
<1>6. CASE Recontar \/ Quitar \/ Copiar
  BY <1>6 DEF Recontar, Quitar, Copiar, fsDatos
<1>7. ASSUME NEW h \in Hilos, PasoHilo(h)
      PROVE  \/ actuales' = actuales
             \/ \E n \in Nodos : envio[h].pc # "libre" /\ Anotar(n, envio[h].nombre, envio[h].dir)
  <2>1. CASE EnviarCopia(h)
    <3>1. PICK n \in Nodos, c \in Copia :
            c.nombre = envio[h].nombre /\ c.dir = envio[h].dir /\ Anotar(n, c.nombre, c.dir)
      BY <2>1, HaceEnviar DEF InvTipos
    <3>2. envio[h].pc # "libre"
      BY <2>1 DEF EnviarCopia
    <3>3. QED
      BY <3>1, <3>2
  <2>2. CASE ~EnviarCopia(h)
    BY <1>7, <2>2, HilosQuietos
  <2>3. QED
    BY <2>1, <2>2
<1>8. QED
  BY <1>1, <1>2, <1>3, <1>4, <1>5, <1>6, <1>7, Pasos DEF DelNodo

LEMMA DirectoriosBloques ==
  ASSUME InvTipos, Colas, Directorios, [NextBloques]_todo
  PROVE  Directorios'
<1> SUFFICES ASSUME NEW n \in Nodos, NEW a \in Nombres, actuales'[n][a] # Sin
             PROVE  EsPedido(a, actuales'[n][a])
  BY DEF Directorios, EsPedido
<1>0. actuales \in [Nodos -> [Nombres -> Dirs \cup {Sin}]]
  BY DEF InvTipos, Base
<1>1. ASSUME actuales'[n][a] = actuales[n][a] PROVE EsPedido(a, actuales'[n][a])
  BY <1>1 DEF Directorios
<1>2. ASSUME NEW h \in Hilos, NEW p \in Nodos, envio[h].pc # "libre",
             Anotar(p, envio[h].nombre, envio[h].dir)
      PROVE  EsPedido(a, actuales'[n][a])
  <2>1. EsPedido(envio[h].nombre, envio[h].dir)
    BY <1>2, BaseEsDeUnPedido DEF InvTipos
  <2>2. CASE actuales'[n][a] = actuales[n][a]
    BY <1>1, <2>2
  <2>3. CASE actuales'[n][a] # actuales[n][a]
    <3>1. actuales' = [actuales EXCEPT ![p][envio[h].nombre] = envio[h].dir]
      BY <1>2, <2>3 DEF Anotar
    <3>2. p = n /\ envio[h].nombre = a /\ actuales'[n][a] = envio[h].dir
      BY <1>0, <2>3, <3>1
    <3>3. QED
      BY <2>1, <3>2
  <2>4. QED
    BY <2>2, <2>3
<1>3. ASSUME NEW p \in Nodos, NEW b, actuales' = [actuales EXCEPT ![p][b] = Sin]
      PROVE  actuales'[n][a] = actuales[n][a]
  BY <1>0, <1>3
<1>4. QED
  BY <1>1, <1>2, <1>3, ActualesPasos

(* A file that is stored once is of one thread, which ends it once. *)
LEMMA UnaVez ==
  ASSUME InvTipos, Colas, NEW h \in Hilos, envio[h].pc # "libre", PedidaUnaVez(envio[h].nombre)
  PROVE  /\ \A g \in Hilos : envio[g].pc # "libre" /\ envio[g].nombre = envio[h].nombre => g = h
         /\ ~Acabado(envio[h].nombre)
         /\ \A g \in Hilos : \A i \in 1..Empezados(g) :
              Pedidos[g][i].nombre = envio[h].nombre => g = h /\ i = Empezados(h)
<1>1. ASSUME NEW g \in Hilos, envio[g].pc # "libre"
      PROVE  Empezados(g) \in DOMAIN Pedidos[g] /\ envio[g].nombre = Pedidos[g][Empezados(g)].nombre
  BY <1>1, BaseEsDeUnPedido DEF InvTipos
<1>2. ASSUME NEW g \in Hilos, NEW i \in 1..Empezados(g) PROVE i \in DOMAIN Pedidos[g]
  BY <1>2, BaseCuentas DEF Colas, InvTipos
<1>3. ASSUME NEW g \in Hilos, NEW i \in DOMAIN Pedidos[g], Pedidos[g][i].nombre = envio[h].nombre
      PROVE  g = h /\ i = Empezados(h)
  BY <1>1, <1>3 DEF PedidaUnaVez
<1>4. \A g \in Hilos : envio[g].pc # "libre" /\ envio[g].nombre = envio[h].nombre => g = h
  BY <1>1, <1>3
<1>5. ~Acabado(envio[h].nombre)
  BY <1>2, <1>3 DEF Acabado
<1>6. QED
  BY <1>2, <1>3, <1>4, <1>5

LEMMA RecienteMandada ==
  ASSUME InvTipos, UnaOrden, Colas, Directorios, Cargadas, DeEmpezados, [NextBloques]_todo, NEW p \in Nodos,
         NEW c \in Volantes(p)', c \notin Volantes(p), PedidaUnaVez(c.nombre)
  PROVE  /\ \A g \in Hilos : envio'[g].pc # "libre" /\ envio'[g].nombre = c.nombre =>
              LET k == Len(envio'[g].enviados)
              IN k # 0 /\ c.bloque = (k - 1) \div 2 /\ c.copia = (k - 1) % 2
         /\ c.nombre \in terminados' => EsLaUltima(c)
<1>1. PICK h \in Hilos : EnviarCopia(h) /\ DeEnvio(h, c)
  BY PasosRed, VolantesPasos
<1>2. c.nombre = envio[h].nombre /\ envio[h].pc # "libre"
  BY <1>1 DEF DeEnvio, EnviarCopia
<1>3. PICK e \in EnCurso :
        /\ envio' = [envio EXCEPT ![h] = e]
        /\ e.enviados = Append(envio[h].enviados,
                               <<datanodes[IndiceDe(envio[h]) + 1],
                                 PrimerLibre(datanodes[IndiceDe(envio[h]) + 1])>>)
  BY <1>1, BaseEnviada DEF InvTipos
<1>4. envio'[h] = e /\ \A g \in Hilos \ {h} : envio'[g] = envio[g]
  BY <1>3 DEF InvTipos, Base
<1>5. envio[h].enviados \in Seq(Nodos \X Numeros) /\ Len(envio[h].enviados) \in Nat
  BY <1>2, BaseAlmacena DEF InvTipos, EnCurso
<1>6. Len(e.enviados) = Len(envio[h].enviados) + 1
  BY <1>3, <1>5
<1>7. ASSUME NEW g \in Hilos, envio'[g].pc # "libre", envio'[g].nombre = c.nombre
      PROVE  LET k == Len(envio'[g].enviados)
             IN k # 0 /\ c.bloque = (k - 1) \div 2 /\ c.copia = (k - 1) % 2
  <2>1. g = h
    BY <1>2, <1>4, <1>7, UnaVez
  <2>2. Len(envio'[g].enviados) # 0 /\ Len(envio'[g].enviados) - 1 = Len(envio[h].enviados)
    BY <1>4, <1>5, <1>6, <2>1
  <2>3. QED
    BY <1>1, <2>2 DEF DeEnvio
<1>8. c.nombre \notin terminados'
  <2>1. terminados' = terminados
    BY <1>1, HaceEnviar DEF InvTipos
  <2>2. QED
    BY <1>2, <2>1, UnaVez DEF DeEmpezados
<1>9. QED
  BY <1>7, <1>8

(* A copy that was sent waits for its answer: nothing else is sent. *)
LEMMA RecienteQueda ==
  ASSUME InvTipos, UnaOrden, InvEnvios, [NextBloques]_todo, NEW p \in Nodos,
         NEW c \in Volantes(p), PedidaUnaVez(c.nombre)
  PROVE  /\ \A g \in Hilos : envio'[g].pc # "libre" /\ envio'[g].nombre = c.nombre =>
              LET k == Len(envio'[g].enviados)
              IN k # 0 /\ c.bloque = (k - 1) \div 2 /\ c.copia = (k - 1) % 2
         /\ c.nombre \in terminados' => EsLaUltima(c)
<1> USE DEF InvEnvios
<1>0. cpfrom
  BY SinVolantes DEF UnaCopia
<1>1. \A g \in Hilos : ~EnviarCopia(g)
  BY <1>0, HaceEnviar DEF InvTipos
<1>2. PICK h \in Hilos : \E i \in 1..Empezados(h) :
        Pedidos[h][i].nombre = c.nombre /\ Pedidos[h][i].dir = c.dir
  BY DEF DeEmpezados, Empezado
<1>3. PICK i \in 1..Empezados(h) : Pedidos[h][i].nombre = c.nombre /\ Pedidos[h][i].dir = c.dir
  BY <1>2
<1>4. i \in DOMAIN Pedidos[h] /\ Empezados(h) \in Nat
  BY BaseCuentas DEF Colas, InvTipos
<1>5. ASSUME NEW g \in Hilos, envio'[g].pc # "libre", envio'[g].nombre = c.nombre
      PROVE  envio[g].pc # "libre" /\ envio[g].nombre = c.nombre /\ envio'[g].enviados = envio[g].enviados
  <2>1. CASE Empieza(g)
    <3>1. /\ Empezados(g) + 1 \in 1..Len(Pedidos[g]) /\ Empezados(g) \in Nat
          /\ Head(cola[g]) = Pedidos[g][Empezados(g) + 1]
      BY <2>1, CuantosEmpezados DEF InvTipos
    <3>2. Empezados(g) + 1 \in DOMAIN Pedidos[g]
      BY <3>1, BaseCuentas DEF InvTipos
    <3>3. Pedidos[g][Empezados(g) + 1].nombre = c.nombre
      BY <1>5, <2>1, <3>1 DEF Empieza
    <3>4. g = h /\ i = Empezados(g) + 1
      BY <1>3, <1>4, <3>2, <3>3 DEF PedidaUnaVez
    <3>5. QED
      BY <1>4, <3>1, <3>4
  <2>2. CASE ~Empieza(g)
    BY <1>1, <1>5, <2>2, HiloSigue DEF Queda, Para, Reparte, Mismo, Envia
  <2>3. QED
    BY <2>1, <2>2
<1>6. ASSUME c.nombre \in terminados', c.nombre \notin terminados PROVE EsLaUltima(c)
  <2>1. PICK g \in Hilos : /\ c.nombre = envio[g].nombre /\ envio[g].pc = "envia"
                           /\ Len(envio[g].enviados) = 2 * envio[g].nb
    BY <1>6, TerminadosPasos
  <2>2. LET k == Len(envio[g].enviados)
        IN k # 0 /\ c.bloque = (k - 1) \div 2 /\ c.copia = (k - 1) % 2
    BY <2>1 DEF Reciente
  <2>3. envio[g].nb \in Nat \ {0}
    BY <2>1, BaseAlmacena, Largo DEF InvTipos, EnCurso
  <2>4. c.bloque + 1 = envio[g].nb /\ c.copia = 1
    <3>1. \A b \in Nat \ {0} : (2 * b - 1) \div 2 = b - 1 /\ (2 * b - 1) % 2 = 1 /\ (b - 1) + 1 = b
      OBVIOUS
    <3>2. c.bloque = (2 * envio[g].nb - 1) \div 2 /\ c.copia = (2 * envio[g].nb - 1) % 2
      BY <2>1, <2>2, Zenon
    <3>3. QED
      BY <2>3, <3>1, <3>2
  <2>5. g = h /\ i = Empezados(g)
    BY <1>3, <2>1, UnaVez
  <2>6. envio[g].nb \in Pedidos[g][Empezados(g)].bloques
    BY <2>1, BaseEsDeUnPedido DEF InvTipos
  <2>7. QED
    BY <1>3, <1>4, <2>4, <2>5, <2>6 DEF EsLaUltima
<1>7. QED
  BY <1>5, <1>6 DEF Reciente

LEMMA RecienteSigue ==
  ASSUME InvTipos, UnaOrden, InvEnvios, [NextBloques]_todo
  PROVE  Reciente'
<1>1. ASSUME NEW p \in Nodos, NEW c \in Volantes(p)', PedidaUnaVez(c.nombre)
      PROVE  /\ \A g \in Hilos : envio'[g].pc # "libre" /\ envio'[g].nombre = c.nombre =>
                  LET k == Len(envio'[g].enviados)
                  IN k # 0 /\ c.bloque = (k - 1) \div 2 /\ c.copia = (k - 1) % 2
             /\ c.nombre \in terminados' => EsLaUltima(c)
  BY <1>1, RecienteMandada, RecienteQueda DEF InvEnvios
<1>2. QED
  BY <1>1 DEF Reciente, PedidaUnaVez, EsLaUltima

LEMMA EnviosSiguen ==
  ASSUME InvTipos, UnaOrden, InvEnvios, [NextBloques]_todo
  PROVE  InvEnvios'
<1>1. Colas' /\ Directorios' /\ DeEmpezados' /\ Reciente'
  BY ColasBloques, DirectoriosBloques, DeEmpezadosSiguen, RecienteSigue DEF InvEnvios
<1>2. UnaCopia' /\ Cargadas'
  <2>1. UnPaso
    BY PasosRed DEF InvEnvios
  <2>2. terminados \subseteq terminados'
    BY TerminadosPasos
  <2>3. QED
    BY <2>1, <2>2, UnaCopiaSigue, CargadasSiguen DEF InvEnvios
<1>3. QED
  BY <1>1, <1>2 DEF InvEnvios

-----------------------------------------------------------------------------
(* What a step may do to the metadata, the bitmaps and the command of the    *)
(* console while nothing failed: a new entry is of an answer.                *)
Efectos ==
  /\ SinDudas
  /\ orden.pc = "espera" => \A p \in Nodos : bitmap[p] \subseteq bitmap'[p]
  /\ orden' # orden => Ninguno("get")
  /\ ordenCp' => /\ orden' = orden
                 /\ \/ ordenCp /\ cpblock' = cpblock
                    \/ \E n \in Nodos : \E x \in ToSet(aFS[n]) :
                         x \in Traido /\ cpblock' = [dato |-> x.dato, para |-> x.para]
  /\ \A r \in metadata : r \in metadata' /\ Borrandose(r) => Borrandose(r)'
  /\ \A r \in metadata' : r \in metadata \/ \E x \in ToSet(aFS[r.nodo]) : Registra(r, x)

LEMMA SinEfectos ==
  ASSUME SinDudas', UNCHANGED <<metadata, orden, ordenCp, cpblock, revividos>>,
         erroneos' = {} => erroneos = {}, \A p \in Nodos : bitmap[p] \subseteq bitmap'[p]
  PROVE  Efectos
BY DEF Efectos, SinDudas, Borrandose

LEMMA EfectosHilo ==
  ASSUME InvTipos, SinDudas', NEW h \in Hilos, PasoHilo(h), UNCHANGED bloqueVars
  PROVE  Efectos
<1>0. UNCHANGED <<orden, ordenCp, cpblock, revividos>>
  BY DEF bloqueVars
<1>1. CASE EnviarCopia(h)
  <2>1. PICK n \in Nodos, c \in Copia :
           /\ erroneos' = {} => bitmap' = Marcar(n, c.numero) /\ erroneos = {}
           /\ UNCHANGED metadata
    BY <1>1, HaceEnviar DEF InvTipos
  <2>2. \A p \in Nodos : bitmap[p] \subseteq bitmap'[p]
    BY <2>1 DEF SinDudas, Marcar, InvTipos, Base
  <2>3. QED
    BY <1>0, <2>1, <2>2, SinEfectos
<1>2. CASE ~EnviarCopia(h)
  BY <1>0, <1>2, HilosQuietos, SinEfectos
<1>3. QED
  BY <1>1, <1>2

LEMMA EfectosNodo ==
  ASSUME InvTipos, SinDudas', NEW n \in Nodos, DelNodo(n)
  PROVE  Efectos
<1>1. UNCHANGED <<orden, ordenCp, cpblock, revividos>>
  BY CasosDelNodo DEF bloqueVars
<1>2. UNCHANGED <<bitmap, erroneos, metadata>>
  BY CasosDelNodo, HaceGuardar, HacePerder, HaceFallido, DesconectarQuieto DEF InvTipos
<1>3. QED
  BY <1>1, <1>2, SinEfectos

LEMMA EfectosNodoBloques ==
  ASSUME InvTipos, Cargadas, SinDudas', NEW n \in Nodos, PasoNodoBloques(n)
  PROVE  Efectos
<1>1. CASE DelNodo(n)
  BY <1>1, EfectosNodo
<1>2. CASE ResponderGet(n) \/ GuardarCopia(n) \/ CopiaFallida(n)
           \/ CargarRegistro(n) \/ CargarCopia(n)
  <2>1. UNCHANGED <<bitmap, erroneos, metadata, orden, ordenCp, cpblock, revividos>>
    BY <1>2, HaceCargar DEF ResponderGet, GuardarCopia, CopiaFallida, fsDatos, fsArchivos, bloqueVars
  <2>2. QED
    BY <2>1, SinEfectos
<1>3. CASE LeerGet(n)
  <2>1. PICK x \in Traido :
           /\ x = Head(aFS[n]) /\ Lee(n) /\ cpblock' = [dato |-> x.dato, para |-> x.para]
           /\ UNCHANGED <<bitmap, erroneos, metadata, orden, revividos>>
    BY <1>3, HaceLeerGet DEF InvTipos
  <2>2. x \in ToSet(aFS[n])
    BY <2>1, Contenidos DEF InvTipos
  <2>3. QED
    BY <2>1, <2>2 DEF Efectos, SinDudas, Borrandose
<1>4. CASE GrabarMetadata(n)
  <2>1. PICK x \in Resultado \cup Copiada, r \in Entrada :
           /\ x = Head(aFS[n]) /\ Lee(n) /\ r.nodo = n /\ Registra(r, x)
           /\ revividos' = {} => metadata' \subseteq metadata \cup {r} /\ revividos = {}
           /\ UNCHANGED <<bitmap, erroneos, orden, cpblock, ordenCp>>
    <3>1. TiposRed /\ TiposOrdenes
      BY DEF InvTipos
    <3>2. QED
      BY <1>4, <3>1, HaceGrabar
  <2>2. x \in ToSet(aFS[n])
    BY <2>1, Contenidos DEF InvTipos
  <2>3. SinDudas /\ metadata' \subseteq metadata \cup {r}
    BY <2>1 DEF SinDudas
  <2>4. \A s \in metadata' : s \in metadata \/ \E y \in ToSet(aFS[s.nodo]) : Registra(s, y)
    BY <2>1, <2>2, <2>3
  <2>5. QED
    BY <2>1, <2>3, <2>4 DEF Efectos, Borrandose
<1>5. CASE Regrabar(n) \/ Releer(n) \/ Terminar(n)
  <2>1. /\ UNCHANGED <<bitmap, erroneos, orden, cpblock, ordenCp>>
        /\ revividos' = {} => metadata' \subseteq metadata /\ revividos = {}
    BY <1>5, HaceSalvar DEF InvTipos
  <2>2. SinDudas /\ metadata' \subseteq metadata
    BY <2>1 DEF SinDudas
  <2>3. QED
    BY <2>1, <2>2 DEF Efectos, Borrandose
<1>6. QED
  BY <1>1, <1>2, <1>3, <1>4, <1>5 DEF PasoNodoBloques, DelNodo

LEMMA EfectosConsola ==
  ASSUME InvTipos, UnaOrden, SinDudas', Recontar \/ Quitar \/ \E a \in Nombres, d \in Dirs : Rm(a, d)
  PROVE  Efectos
<1>1. /\ orden.pc \in {"libre", "recuenta", "quita"} /\ ordenCp' = ordenCp
      /\ UNCHANGED <<erroneos, revividos>> /\ metadata' \subseteq metadata
  BY DEF Rm, Ordenar, MorirOrden, Morir, Recontar, Quitar, fsArchivos
<1>2. Ninguno("get") /\ ~ordenCp' /\ SinDudas
  BY <1>1 DEF UnaOrden, SinDudas
<1>3. ASSUME NEW r \in metadata, r \in metadata', Borrandose(r) PROVE Borrandose(r)'
  <2>1. CASE Recontar
    BY <1>3, <2>1 DEF Recontar, Borrandose, InvTipos, TiposOrdenes, OrdenRm
  <2>2. CASE Quitar
    BY <1>3, <2>2 DEF Quitar, Borrandose, DeArchivo
  <2>3. CASE \E a \in Nombres, d \in Dirs : Rm(a, d)
    BY <1>3, <2>3 DEF Rm, Ordenar, Borrandose
  <2>4. QED
    BY <2>1, <2>2, <2>3
<1>4. QED
  BY <1>1, <1>2, <1>3 DEF Efectos

LEMMA EfectosCpblock ==
  ASSUME InvTipos, UnaOrden, SinDudas', NEW a \in Nombres, NEW d \in Dirs, NEW b \in 0..MaxBloques,
         NEW n \in Nodos, Cpblock(a, d, b, n)
  PROVE  Efectos
<1>0. TiposRed /\ TiposOrdenes
  BY DEF InvTipos
<1>1. UNCHANGED <<bitmap, erroneos>>
      /\ \/ UNCHANGED deBloques
         \/ orden.pc = "libre" /\ UNCHANGED <<metadata, cpblock, ordenCp, revividos>>
  BY <1>0, HaceCpblock
<1>2. CASE UNCHANGED deBloques
  BY <1>1, <1>2, SinEfectos DEF deBloques
<1>3. CASE orden.pc = "libre" /\ UNCHANGED <<metadata, cpblock, ordenCp, revividos>>
  <2>1. Ninguno("get") /\ ~ordenCp
    BY <1>3 DEF UnaOrden
  <2>2. QED
    BY <1>1, <1>3, <2>1 DEF Efectos, SinDudas, Borrandose
<1>4. QED
  BY <1>1, <1>2, <1>3

LEMMA EfectosCopiar ==
  ASSUME InvTipos, UnaOrden, SinDudas', Copiar
  PROVE  Efectos
<1>1. /\ orden \in OrdenCp /\ ordenCp /\ ordenCp' = FALSE
      /\ UNCHANGED <<erroneos, metadata, revividos>>
      /\ bitmap' = bitmap \/ \E j : bitmap' = Marcar(orden.nodo, j)
  BY HaceCopiar DEF InvTipos
<1>2. Ninguno("get") /\ orden.pc = "espera"
  BY <1>1 DEF UnaOrden, OrdenCp
<1>3. \A p \in Nodos : bitmap[p] \subseteq bitmap'[p]
  BY <1>1 DEF Marcar, InvTipos, Base
<1>4. QED
  BY <1>1, <1>2, <1>3 DEF Efectos, SinDudas, Borrandose

LEMMA HaceEfectos ==
  ASSUME InvTipos, UnaOrden, Cargadas, SinDudas', [NextBloques]_todo
  PROVE  Efectos
<1>1. CASE UNCHANGED todo
  BY <1>1, SinEfectos DEF todo, vars, bloqueVars, fsDatos, fsArchivos
<1>2. ASSUME NEW n \in Nodos, PasoNodoBloques(n) \/ (Caer(n) /\ UNCHANGED bloqueVars)
      PROVE  Efectos
  BY <1>2, EfectosNodoBloques, EfectosNodo DEF DelNodo
<1>3. QED
  BY <1>1, <1>2, Pasos, EfectosHilo, EfectosConsola, EfectosCpblock, EfectosCopiar

-----------------------------------------------------------------------------
(* What blocks hold and messages bring, step by step. *)
Seguro == InvBits /\ InvEnvios /\ Datos /\ UnPaso /\ Efectos

LEMMA EsSeguro ==
  ASSUME Seguro
  PROVE  /\ InvTipos /\ UnaOrden /\ TiposRed /\ EnCamino /\ Registrados /\ CopiaDicha /\ PideBien
         /\ Escrita /\ CopiaEscrita /\ TraeBien /\ EnLaConsola /\ CopiasLegibles
         /\ SinNombre \notin Nodos /\ SinDudas
BY OrdenesPosibles DEF Seguro, InvBits, InvTipos, Bits, Datos, Efectos

(* While a block is asked for or brought the command stays. *)
LEMMA MismaOrden ==
  ASSUME Seguro, NEW p \in Nodos,
         \/ \E m \in ToSet(aNodo[p]) : Clase(m) = "get"
         \/ \E x \in ToSet(aFS[p]) : Clase(x) = "get"
  PROVE  orden' = orden /\ orden.pc = "espera"
<1>1. ~Ninguno("get")
  BY SinGets
<1>2. QED
  BY <1>1, EsSeguro DEF Seguro, Efectos, UnaOrden

(* A block that no message is to write stays as it is. *)
LEMMA Intacto ==
  ASSUME Seguro, NEW p \in Nodos, NEW j \in Bloques, j \notin Usados(aNodo[p])
  PROVE  disco'[p][j] = disco[p][j]
BY Escrituras, EsSeguro DEF Seguro

(* The block of an answer was already written. *)
LEMMA YaEscrito ==
  ASSUME Seguro, NEW p \in Nodos, NEW x \in ToSet(aFS[p]), x \in Resultado \cup Copiada
  PROVE  disco'[p][Bloque(x)] = disco[p][Bloque(x)]
<1>1. Escribe(x) /\ Bloque(x) \in Bloques
  BY Escriben, Instancia DEF Resultado, Copiada, Copia, Numeros, Bloques
<1>2. Bloque(x) \in Usados(aFS[p])
  BY <1>1 DEF Usados
<1>3. Bloque(x) \notin Usados(aNodo[p])
  BY <1>2, EsSeguro DEF EnCamino, Sueltos
<1>4. QED
  BY <1>1, <1>3, Intacto

(* No block that was marked is sent to be written. *)
LEMMA SinMarcados ==
  ASSUME Seguro, NEW p \in Nodos, NEW j \in bitmap[p], j \notin Usados(aNodo[p])
  PROVE  j \notin Usados(aNodo'[p])
<1> SUFFICES ASSUME NEW m \in ToSet(aNodo'[p]), Escribe(m), Bloque(m) = j PROVE FALSE
  BY DEF Usados
<1>1. m \notin ToSet(aNodo[p])
  BY DEF Usados
<1>2. \/ m \in Copia /\ m.numero \notin bitmap[p]
      \/ m \in Get
      \/ m \in CopiaNueva /\ m.numero \notin bitmap[p]
  BY <1>1, MensajesNuevos, EsSeguro DEF Seguro
<1>3. QED
  BY <1>2, Escriben

LEMMA CopiaDichaSigue ==
  ASSUME Seguro, NEW p \in Nodos, NEW m \in ToSet(aNodo'[p]), m.tipo = "SETBLOQUECPTO",
         PedidaUnaVez(m.nombre)
  PROVE  m.dato = Del(m)
<1>1. CASE m \in ToSet(aNodo[p])
  BY <1>1, EsSeguro DEF CopiaDicha
<1>2. CASE m \notin ToSet(aNodo[p])
  <2>1. m \notin Copia /\ m \notin Get
    BY DEF Copia, Get
  <2>2. /\ ordenCp /\ cpblock.para \in Nodos
        /\ Del(m) = Del(orden) /\ m.nombre = orden.nombre /\ m.dato = cpblock.dato
    BY <1>2, <2>1, MensajesNuevos, EsSeguro DEF Seguro
  <2>3. cpblock.para # SinNombre /\ PedidaUnaVez(orden.nombre)
    BY <2>2, EsSeguro
  <2>4. QED
    BY <2>2, <2>3, EsSeguro DEF EnLaConsola
<1>3. QED
  BY <1>1, <1>2

LEMMA PideBienSigue ==
  ASSUME Seguro, NEW p \in Nodos, NEW m \in ToSet(aNodo'[p]), m.tipo = "GETBLOQUE",
         m.para # SinNombre, PedidaUnaVez(orden'.nombre)
  PROVE  disco'[p][m.numero] = Del(orden') /\ m.numero \in bitmap'[p] \ Usados(aNodo'[p])
<1>1. CASE m \in ToSet(aNodo[p])
  <2>1. Clase(m) = "get"
    BY DEF Clase
  <2>2. orden' = orden /\ orden.pc = "espera"
    BY <1>1, <2>1, MismaOrden
  <2>3. disco[p][m.numero] = Del(orden) /\ m.numero \in bitmap[p] \ Usados(aNodo[p])
    BY <1>1, <2>2, EsSeguro DEF PideBien
  <2>4. m.numero \in bitmap'[p] /\ m.numero \in Bloques
    BY <2>2, <2>3, EsSeguro DEF Seguro, Efectos, InvTipos, Base, Bloques
  <2>5. disco'[p][m.numero] = disco[p][m.numero] /\ m.numero \notin Usados(aNodo'[p])
    BY <2>3, <2>4, Intacto, SinMarcados
  <2>6. QED
    BY <2>2, <2>3, <2>4, <2>5 DEF Del
<1>2. CASE m \notin ToSet(aNodo[p])
  <2>1. m \notin Copia /\ m \notin CopiaNueva
    BY DEF Copia, CopiaNueva
  <2>2. /\ orden.pc = "libre" /\ bitmap' = bitmap /\ disco' = disco
        /\ Usados(aNodo[p])' = Usados(aNodo[p])
        /\ \E r \in metadata : /\ r.nodo = p /\ Del(r) = Del(orden') /\ m.numero = r.numero
                               /\ m.para # SinNombre => r.copia = 0
    BY <1>2, <2>1, MensajesNuevos, EsSeguro DEF Seguro
  <2>3. PICK r \in metadata : /\ r.nodo = p /\ Del(r) = Del(orden') /\ m.numero = r.numero
                              /\ r.copia = 0
    BY <2>2
  <2>4. r \in Vigentes /\ ~Borrandose(r) /\ ~EsLaUltima(r)
    BY <2>2, <2>3 DEF Vigentes, Borrandose, EsLaUltima
  <2>5. r.nombre = orden'.nombre
    BY <2>3 DEF Del
  <2>6. Legible(r)
    BY <2>4, <2>5, EsSeguro DEF CopiasLegibles
  <2>7. r.numero \in bitmap[p] \ EnUso(p)
    BY <2>3, <2>4, EsSeguro DEF Registrados
  <2>8. disco[p][m.numero] = Del(orden')
    BY <2>3, <2>6 DEF Legible, Del
  <2>9. m.numero \in bitmap'[p] /\ m.numero \notin Usados(aNodo[p])'
    BY <2>2, <2>3, <2>7 DEF EnUso
  <2>10. m.numero \notin Usados(aNodo'[p])
    BY <2>9 DEF Usados
  <2>11. QED
    BY <2>2, <2>8, <2>9, <2>10
<1>3. QED
  BY <1>1, <1>2

LEMMA EscritaSigue ==
  ASSUME Seguro, NEW p \in Nodos, NEW x \in ToSet(aFS'[p]), x.tipo = "RESULOPERACION", x.res = 1
  PROVE  disco'[p][x.copia.numero] = Del(x.copia)
<1>1. CASE x \in ToSet(aFS[p])
  <2>1. x \in Contestado
    BY <1>1, Primeros, Elementos, EsSeguro
  <2>2. x \in Resultado
    BY <2>1, QueContestado
  <2>3. Bloque(x) = x.copia.numero
    BY <2>2, Escriben
  <2>4. QED
    BY <1>1, <2>2, <2>3, YaEscrito, EsSeguro DEF Escrita
<1>2. CASE x \notin ToSet(aFS[p])
  <2>1. x \notin Traido /\ x \notin Copiada
    BY DEF Traido, Copiada
  <2>2. QED
    BY <1>2, <2>1, RespuestasNuevas, EsSeguro DEF Seguro
<1>3. QED
  BY <1>1, <1>2

LEMMA CopiaEscritaSigue ==
  ASSUME Seguro, NEW p \in Nodos, NEW x \in ToSet(aFS'[p]), x.tipo = "RESPUESTASETBLOQUECPTO",
         x.res = 1, PedidaUnaVez(x.nombre)
  PROVE  disco'[p][x.numero] = Del(x)
<1>1. CASE x \in ToSet(aFS[p])
  <2>1. x \in Contestado
    BY <1>1, Primeros, Elementos, EsSeguro
  <2>2. x \in Copiada
    BY <2>1, QueContestado
  <2>3. Bloque(x) = x.numero
    BY <2>2, Escriben
  <2>4. QED
    BY <1>1, <2>2, <2>3, YaEscrito, EsSeguro DEF CopiaEscrita
<1>2. CASE x \notin ToSet(aFS[p])
  <2>1. x \notin Traido /\ x \notin Resultado
    BY DEF Traido, Resultado
  <2>2. PICK c \in ToSet(aNodo[p]) :
          c \in CopiaNueva /\ Del(x) = Del(c) /\ x.nombre = c.nombre /\ disco'[p][x.numero] = c.dato
    BY <1>2, <2>1, RespuestasNuevas, EsSeguro DEF Seguro
  <2>3. c.tipo = "SETBLOQUECPTO"
    BY <2>2 DEF CopiaNueva
  <2>4. c.dato = Del(c)
    BY <2>2, <2>3, EsSeguro DEF CopiaDicha
  <2>5. QED
    BY <2>2, <2>4
<1>3. QED
  BY <1>1, <1>2

LEMMA TraeBienSigue ==
  ASSUME Seguro, NEW p \in Nodos, NEW x \in ToSet(aFS'[p]), x.tipo = "RESPUESTAGETBLOQUE",
         x.para # SinNombre, PedidaUnaVez(orden'.nombre)
  PROVE  x.dato = Del(orden')
<1>1. CASE x \in ToSet(aFS[p])
  <2>1. Clase(x) = "get"
    BY DEF Clase
  <2>2. orden' = orden
    BY <1>1, <2>1, MismaOrden
  <2>3. QED
    BY <1>1, <2>2, EsSeguro DEF TraeBien
<1>2. CASE x \notin ToSet(aFS[p])
  <2>1. x \notin Resultado /\ x \notin Copiada
    BY DEF Resultado, Copiada
  <2>2. PICK g \in ToSet(aNodo[p]) : g \in Get /\ x.dato = disco[p][g.numero] /\ x.para = g.para
    BY <1>2, <2>1, RespuestasNuevas, EsSeguro DEF Seguro
  <2>3. g.tipo = "GETBLOQUE" /\ Clase(g) = "get"
    BY <2>2 DEF Get, Clase
  <2>4. orden' = orden
    BY <2>3, MismaOrden
  <2>5. disco[p][g.numero] = Del(orden)
    BY <2>2, <2>3, <2>4, EsSeguro DEF PideBien
  <2>6. QED
    BY <2>2, <2>4, <2>5
<1>3. QED
  BY <1>1, <1>2

LEMMA EnLaConsolaSigue ==
  ASSUME Seguro, ordenCp', cpblock'.para # SinNombre, PedidaUnaVez(orden'.nombre)
  PROVE  cpblock'.dato = Del(orden')
<1>1. /\ orden' = orden
      /\ \/ ordenCp /\ cpblock' = cpblock
         \/ \E n \in Nodos : \E x \in ToSet(aFS[n]) :
              x \in Traido /\ cpblock' = [dato |-> x.dato, para |-> x.para]
  BY DEF Seguro, Efectos
<1>2. CASE ordenCp /\ cpblock' = cpblock
  BY <1>1, <1>2, EsSeguro DEF EnLaConsola
<1>3. ASSUME NEW n \in Nodos, NEW x \in ToSet(aFS[n]), x \in Traido,
             cpblock' = [dato |-> x.dato, para |-> x.para]
      PROVE  cpblock'.dato = Del(orden')
  <2>1. x.tipo = "RESPUESTAGETBLOQUE" /\ x.para # SinNombre /\ cpblock'.dato = x.dato
    BY <1>3 DEF Traido
  <2>2. QED
    BY <1>1, <2>1, EsSeguro DEF TraeBien
<1>4. QED
  BY <1>1, <1>2, <1>3

(* A new entry is of a copy that was written, or of the last one of a file    *)
(* that was closed.                                                          *)
LEMMA LegiblesNuevas ==
  ASSUME Seguro, NEW r, r.nodo \in Nodos, NEW x \in ToSet(aFS[r.nodo]), Registra(r, x),
         PedidaUnaVez(r.nombre)
  PROVE  EsLaUltima(r) \/ Legible(r)'
<1> DEFINE p == r.nodo
<1> p \in Nodos
  OBVIOUS
<1>1. CASE x \in Copiada /\ x.res = 1 /\ MismoArchivo(r, x) /\ Del(r) = Del(x) /\ r.numero = x.numero
  <2>1. x.tipo = "RESPUESTASETBLOQUECPTO" /\ x.nombre = r.nombre /\ Bloque(x) = r.numero
    BY <1>1, Escriben DEF Copiada, MismoArchivo
  <2>2. disco[p][r.numero] = Del(r)
    BY <1>1, <2>1, EsSeguro DEF CopiaEscrita
  <2>3. disco'[p][r.numero] = disco[p][r.numero]
    BY <1>1, <2>1, YaEscrito
  <2>4. QED
    BY <2>2, <2>3 DEF Legible, Del
<1>2. CASE /\ x \in Resultado /\ r.nombre = x.copia.nombre /\ r.bloque = x.copia.bloque
           /\ r.copia = x.copia.copia /\ r.numero = x.copia.numero
           /\ EsPedido(r.nombre, r.dir)
           /\ x.res = 1 \/ x.copia.nombre \in terminados
  <2>1. x.tipo = "RESULOPERACION" /\ x.copia \in Copia /\ Bloque(x) = r.numero
    BY <1>2, Escriben DEF Resultado
  <2>2. x.copia \in Volantes(p)
    BY <2>1, EstaVolando
  <2>3. r.dir = x.copia.dir
    <3>1. EsPedido(r.nombre, r.dir)
      BY <1>2
    <3>2. PICK g \in Hilos : \E i \in DOMAIN Pedidos[g] :
                               Pedidos[g][i].nombre = r.nombre /\ Pedidos[g][i].dir = r.dir
      BY <3>1 DEF EsPedido
    <3>3. PICK h \in Hilos : \E i \in 1..Empezados(h) :
                               Pedidos[h][i].nombre = r.nombre /\ Pedidos[h][i].dir = x.copia.dir
      BY <1>2, <2>2 DEF Seguro, InvEnvios, DeEmpezados, Empezado
    <3>4. \A i \in 1..Empezados(h) : i \in DOMAIN Pedidos[h]
      BY BaseCuentas, EsSeguro DEF InvTipos, Seguro, InvEnvios, Colas
    <3>5. QED
      BY <3>2, <3>3, <3>4 DEF PedidaUnaVez
  <2>4. CASE x.res = 1
    <3>1. disco[p][r.numero] = Del(r)
      BY <1>2, <2>1, <2>3, <2>4, EsSeguro DEF Escrita, Del
    <3>2. disco'[p][r.numero] = disco[p][r.numero]
      BY <1>2, <2>1, YaEscrito
    <3>3. QED
      BY <3>1, <3>2 DEF Legible, Del
  <2>5. CASE x.copia.nombre \in terminados
    <3>1. EsLaUltima(x.copia)
      BY <1>2, <2>2, <2>5 DEF Seguro, InvEnvios, Reciente
    <3>2. QED
      BY <1>2, <2>3, <3>1 DEF EsLaUltima
  <2>6. QED
    BY <1>2, <2>4, <2>5
<1>3. QED
  BY <1>1, <1>2 DEF Registra

LEMMA LegiblesSiguen ==
  ASSUME Seguro, TiposRed', NEW r \in metadata', ~Borrandose(r)', PedidaUnaVez(r.nombre)
  PROVE  EsLaUltima(r) \/ Legible(r)'
<1>0. r.nodo \in Nodos /\ r.numero \in Bloques
  BY DEF TiposRed, Entrada
<1>1. CASE r \in metadata
  <2>1. ~Borrandose(r)
    BY <1>1 DEF Seguro, Efectos
  <2>2. EsLaUltima(r) \/ Legible(r)
    BY <1>1, <2>1, EsSeguro DEF CopiasLegibles
  <2>3. r.numero \notin EnUso(r.nodo)
    BY <1>1, <2>1, EsSeguro DEF Registrados, Vigentes
  <2>4. disco'[r.nodo][r.numero] = disco[r.nodo][r.numero]
    BY <1>0, <2>3, Intacto DEF EnUso
  <2>5. QED
    BY <2>2, <2>4 DEF Legible
<1>2. CASE r \notin metadata
  BY <1>0, <1>2, LegiblesNuevas DEF Seguro, Efectos
<1>3. QED
  BY <1>1, <1>2

LEMMA DatosSiguen ==
  ASSUME InvDatos, [NextBloques]_todo
  PROVE  Datos'
<1> SUFFICES ASSUME SinDudas'
             PROVE  /\ CopiaDicha' /\ PideBien' /\ Escrita' /\ CopiaEscrita' /\ TraeBien'
                    /\ EnLaConsola' /\ CopiasLegibles'
  BY DEF Datos
<1>1. InvTipos /\ UnaOrden /\ Cargadas /\ Directorios
  BY DEF InvDatos, InvBits, InvTipos, InvEnvios
<1>2. Seguro /\ TiposRed'
  BY <1>1, PasosRed, HaceEfectos, TiposSiguen DEF Seguro, InvDatos, InvTipos
<1>3. \A a : PedidaUnaVez(a)' <=> PedidaUnaVez(a)
  BY DEF PedidaUnaVez
<1>4. CopiaDicha'
  BY <1>2, <1>3, CopiaDichaSigue DEF CopiaDicha, Del
<1>5. PideBien'
  BY <1>2, <1>3, PideBienSigue DEF PideBien, Del, Usados
<1>6. Escrita'
  BY <1>2, <1>3, EscritaSigue DEF Escrita, Del
<1>7. CopiaEscrita'
  BY <1>2, <1>3, CopiaEscritaSigue DEF CopiaEscrita, Del
<1>8. TraeBien'
  BY <1>2, <1>3, TraeBienSigue DEF TraeBien, Del
<1>9. EnLaConsola'
  BY <1>2, <1>3, EnLaConsolaSigue DEF EnLaConsola, Del
<1>10. CopiasLegibles'
  <2>1. ASSUME NEW r \in metadata', ~Borrandose(r)', PedidaUnaVez(r.nombre), ~EsLaUltima(r)
        PROVE  Legible(r)'
    BY <1>2, <2>1, LegiblesSiguen
  <2>2. QED
    BY <1>3, <2>1 DEF CopiasLegibles, Borrandose, Legible, EsLaUltima
<1>11. QED
  BY <1>4, <1>5, <1>6, <1>7, <1>8, <1>9, <1>10

LEMMA DatosAlPrincipio ==
  ASSUME InitBloques
  PROVE  InvEnvios /\ Datos
<1>0. /\ Init /\ metadata = {} /\ terminados = {}
      /\ \A n \in Nodos : aNodo[n] = <<>> /\ aFS[n] = <<>> /\ cargada[n] = SinCargar
      /\ ordenCp = FALSE
  BY DEF InitBloques, Init
<1>1. Colas /\ Directorios
  BY <1>0, AlPrincipio2, AlPrincipio3 DEF IInv2, IInv3
<1>2. \A n \in Nodos : ToSet(aNodo[n]) = {} /\ ToSet(aFS[n]) = {}
  BY <1>0 DEF ToSet
<1>3. \A n \in Nodos : \A k : ~Hay(k, n)
  BY <1>0 DEF Hay, Tiene
<1>4. UnaCopia
  <2>1. \A n \in Nodos : ~Hay("copia", n)
    BY <1>3
  <2>2. Unico("copia")
    BY <1>0, <2>1 DEF Unico, UnoDe, Hay
  <2>3. QED
    BY <1>0, <2>1, <2>2 DEF UnaCopia, Ninguno, EnRegistro, SinCargar
<1>5. \A n \in Nodos : Volantes(n) = {}
  BY <1>2 DEF Volantes
<1>a. \A n \in Nodos : cargada[n].pc = "no"
  BY <1>0 DEF SinCargar
<1>6. DeEmpezados /\ Reciente /\ Cargadas
  BY <1>0, <1>5, <1>a DEF DeEmpezados, Reciente, Cargadas
<1>7. Datos
  BY <1>0, <1>2 DEF Datos, CopiaDicha, PideBien, Escrita, CopiaEscrita, TraeBien, EnLaConsola,
                    CopiasLegibles
<1>8. QED
  BY <1>1, <1>4, <1>6, <1>7 DEF InvEnvios

(* The inductive invariant: what is marked, who sends which copy, and what   *)
(* every block and every message holds.                                      *)
LEMMA DatosInductivos ==
  SpecBloques => []InvDatos
<1>1. InitBloques => InvDatos
  BY TiposAlPrincipio, BitsAlPrincipio, DatosAlPrincipio DEF InvDatos, InvBits, InvTipos
<1>2. InvDatos /\ [NextBloques]_todo => InvDatos'
  <2> SUFFICES ASSUME InvDatos, [NextBloques]_todo PROVE InvDatos'
    OBVIOUS
  <2>1. InvTipos /\ UnaOrden /\ Bits /\ InvEnvios /\ Cargadas
    BY DEF InvDatos, InvBits, InvTipos, InvEnvios
  <2>2. InvTipos' /\ UnaOrden' /\ Bits' /\ InvEnvios' /\ Datos'
    BY <2>1, TiposSiguen, OrdenSigue, BitsSiguen, EnviosSiguen, DatosSiguen
  <2>3. QED
    BY <2>2 DEF InvDatos, InvBits, InvTipos
<1>3. QED
  BY <1>1, <1>2, PTL DEF SpecBloques

(* BitsDeCopias: while no send failed and nothing removed was saved again, a *)
(* registered copy has its block marked, however rm, cpblock and the several *)
(* saves of the registrations are interleaved.                               *)
THEOREM CopiasMarcadas ==
  SpecBloques => []BitsDeCopias
<1>1. InvDatos => BitsDeCopias
  BY DEF InvDatos, InvBits, Bits, BitsDeCopias, Registrados, Vigentes
<1>2. QED
  BY <1>1, DatosInductivos, PTL

(* CopiasLegibles: a registered copy holds the block it says, whoever stores, *)
(* removes and copies files at the same time (1757, 3452, 3959, 4284).       *)
THEOREM CopiasSeLeen ==
  SpecBloques => []CopiasLegibles
<1>1. InvDatos => CopiasLegibles
  BY DEF InvDatos, Datos, CopiasLegibles
<1>2. QED
  BY <1>1, DatosInductivos, PTL
=============================================================================
