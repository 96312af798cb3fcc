---------------------------- MODULE FsLeer_proof ----------------------------
(***************************************************************************)
(* The reads of FsLeer, for any datanodes, files, commands and failures:   *)
(* the types, the sums of md5, the first cpto and the order of cat.        *)
(***************************************************************************)
EXTENDS FsLeer, FiniteSetTheorems, FunctionTheorems, WellFoundedInduction, TLAPS

(* The answers that have not begun: the one a thread is printing has let the *)
(* next request go.                                                          *)
porLeer == [f \in Fds |-> IF f \in imprime THEN Tail(aFS[f]) ELSE aFS[f]]

(* What a request and its answer have in common. *)
Carta(m) == [op |-> m.op, a |-> m.a, i |-> m.i, falta |-> m.falta, orden |-> m.orden]
Mensajes(q, f) == {q[f][j] : j \in DOMAIN q[f]}
Cartas(p, q) == {Carta(m) : m \in UNION {Mensajes(p, f) \cup Mensajes(q, f) : f \in Fds}}
EnViaje == Cartas(aNodo, porLeer)

(* Two messages that need the same mutex. *)
MismoTurno(x, y) == (x = "md5") <=> (y = "md5")

(* One request of each mutex at most is on its way. *)
Exclusivas(p, q) ==
  \A f, g \in Fds :
    /\ \A j \in DOMAIN p[f], k \in DOMAIN p[g] :
         MismoTurno(p[f][j].op, p[g][k].op) => f = g /\ j = k
    /\ \A j \in DOMAIN q[f], k \in DOMAIN q[g] :
         MismoTurno(q[f][j].op, q[g][k].op) => f = g /\ j = k
    /\ \A j \in DOMAIN p[f], k \in DOMAIN q[g] :
         ~MismoTurno(p[f][j].op, q[g][k].op)

Pide(op) == consola.pc \in {"elige", "manda"} /\ consola.op = op
EnMd5 == consola.pc # "libre" /\ consola.op = "md5"

(* Whoever needs a mutex holds it while its request is on its way. *)
Fichas ==
  /\ Exclusivas(aNodo, porLeer)
  /\ ~mutexMd5 \/ (consola.pc = "manda" /\ consola.op = "md5") => \A c \in EnViaje : c.op # "md5"
  /\ ~mutexCpto => \A c \in EnViaje : c.op = "md5"
  /\ \A f, g \in imprime : f = g
  /\ \A f \in imprime : aFS[f] # <<>> /\ Head(aFS[f]).op = "cat"

-----------------------------------------------------------------------------
(* Types, with what the fields of the console and of a message have to do    *)
(* with each other.                                                          *)
Sitios == Nodos \X (0..Total)

FormaConsola ==
  \/ consola = Libre
  \/ /\ consola \in [pc : {"elige", "manda", "suma", "avisa"}, op : Ops, a : Archivos, i : Nat,
                     flag : BOOLEAN, lugar : Sitios \cup {Sin}, fd : Nat]
     /\ consola.i < Cantidad(consola.a) /\ hechos > 0
     /\ consola.pc = "manda" => consola.fd \in Fds
     /\ consola.pc = "manda" \/ consola.i > 0 => consola.lugar \in Sitios
     /\ consola.pc = "suma" => consola.op = "md5" /\ consola.i = Cantidad(consola.a) - 1
     /\ consola.pc = "avisa" => consola.op = "cpto"
     /\ consola.op = "cpto" => Len(cptos) > 0 /\ consola.a = cptos[Len(cptos)][2]

Bien(c) ==
  /\ c.i < Cantidad(c.a) /\ c.falta = Cantidad(c.a) - c.i /\ c.orden <= hechos
  /\ c.op = "cpto" => c.orden \in DOMAIN cptos /\ c.a = cptos[c.orden][2]

Lleno(a) == [0..(Cantidad(a) - 1) -> Datos]

FormaComandos ==
  /\ hechos \in 0..MaxComandos
  /\ cptos \in Seq((Rutas \cup {Otra}) \X Archivos) /\ Len(cptos) <= hechos
  /\ ruta \in [a : Rutas \cup {Otra}, liberada : BOOLEAN]
  /\ foto \subseteq Nodos /\ cuenta \in [Nodos -> Nat]

FormaCerrojos ==
  /\ mutexMd5 \in BOOLEAN /\ mutexCpto \in BOOLEAN /\ ordenMd5 \in BOOLEAN
  /\ imprime \subseteq Fds
  /\ fs \in {"vivo", "muerto"} /\ fallos \in 0..MaxFallos
  /\ pantalla.orden \in Nat /\ pantalla.i \in Nat
  /\ raro \subseteq {"basura", "ajeno", "ruta", "md5"}

FormaDestino ==
  /\ anterior \in [md5 : Nat, cpto : Nat]
  /\ destino \in [Rutas \cup {Otra} -> [Archivos -> Contenidos]]
  /\ \A d \in Rutas \cup {Otra}, a \in Archivos : destino[d][a] \in {Nada} \cup Lleno(a)

FormaRed ==
  /\ socket \in [Nodos -> Nat] /\ \A n \in Nodos : socket[n] # 0 => socket[n] \in Fds
  /\ quien \in [Fds -> Nodos \cup {Nadie}] /\ viva \subseteq Fds
  /\ \A f, g \in Fds : quien[f] = quien[g] /\ quien[f] # Nadie => f = g
  /\ \A f \in Fds : quien[f] = Nadie => f \notin viva

FormaMensajes ==
  /\ aNodo \in [Fds -> Seq(Pedido)] /\ aFS \in [Fds -> Seq(Respuesta)]
  /\ \A f \in Fds : f \notin viva => aNodo[f] = <<>>
  /\ \A c \in EnViaje : Bien(c)

Formas ==
  FormaConsola /\ FormaComandos /\ FormaCerrojos /\ FormaDestino /\ FormaRed /\ FormaMensajes

(* inicializar_lista sets the counts to 0, and each block adds one at most. *)
CuentaJusta ==
  \A n \in Nodos : cuenta[n] <= IF consola.pc = "libre" THEN MaxBloques
                                ELSE IF consola.pc = "elige" THEN consola.i ELSE consola.i + 1

-----------------------------------------------------------------------------
(* md5: how many blocks temporal_md5 has. *)
Escritos == IF consola.pc = "elige" /\ mutexMd5 THEN consola.i - 1 ELSE consola.i

TurnoMd5 ==
  /\ ~EnMd5 => ~mutexMd5 /\ ~ordenMd5 /\ temporal = Nada /\ anterior.md5 = 0
  /\ EnMd5 =>
       /\ consola.pc = "elige" /\ mutexMd5 => consola.i > 0
       /\ consola.pc = "manda" => mutexMd5
       /\ ordenMd5 => /\ consola.pc = "suma" /\ ~mutexMd5 /\ anterior.md5 = 0
                      /\ temporal \in Lleno(consola.a)
                      /\ raro = {} => temporal = Bloques(consola.a)
       /\ ~ordenMd5 => /\ anterior.md5 <= Escritos
                       /\ Escritos = 0 => temporal = Nada
                       /\ Escritos > 0 => temporal \in Lleno(consola.a)
                       /\ raro = {} /\ Escritos > 0 =>
                            /\ anterior.md5 = Escritos
                            /\ \A j \in 0..(Escritos - 1) : temporal[j] = <<consola.a, j>>
  /\ \A c \in EnViaje : c.op = "md5" => /\ EnMd5 /\ consola.pc # "manda" /\ ~ordenMd5
                                        /\ c.a = consola.a /\ c.i = Escritos

-----------------------------------------------------------------------------
(* What a request says of the block is true, unless something went wrong. *)
Verdad ==
  raro = {} =>
    /\ \A f \in Fds : \A m \in Mensajes(aNodo, f) : EsCopia(quien[f], m.num, m.a, m.i)
    /\ \A f \in Fds : \A m \in Mensajes(aFS, f) : m.dato = <<m.a, m.i>>
    /\ consola.pc = "manda" => EsCopia(consola.lugar[1], consola.lugar[2], consola.a, consola.i)

-----------------------------------------------------------------------------
(* cpto: the blocks asked for, by all the commands and by the first. *)
Tope == IF consola.pc \in {"elige", "manda"} /\ consola.op = "cpto"
        THEN (hechos - 1) * MaxBloques + consola.i ELSE hechos * MaxBloques

SinPasarse ==
  /\ anterior.cpto <= Tope
  /\ \A c \in EnViaje : c.op = "cpto" => anterior.cpto < Tope

(* Nobody of cpto is waiting for an answer that was lost. *)
CptoLibre(op) == ~mutexCpto \/ \E c \in EnViaje : c.op = op

Pedidos1 == IF Pide("cpto") THEN consola.i ELSE Cantidad(cptos[1][2])

TurnoCpto ==
  /\ Len(cptos) = 0 => anterior.cpto = 0
  /\ Len(cptos) = 1 =>
       /\ \A c \in EnViaje : c.op = "cpto" => c.i = anterior.cpto /\ Pedidos1 = c.i + 1
       /\ CptoLibre("cat") => anterior.cpto = Pedidos1
       /\ raro = {} => \A j \in 0..(anterior.cpto - 1) :
                         /\ destino[cptos[1][1]][cptos[1][2]] # Nada
                         /\ destino[cptos[1][1]][cptos[1][2]][j] = <<cptos[1][2], j>>

-----------------------------------------------------------------------------
(* cat: the last block that left its turn, and the blocks that may follow.   *)
Ultimos == IF imprime = {} THEN {pantalla} ELSE {Head(aFS[f]) : f \in imprime}

Sigue(p, q) == IF q.orden = p.orden THEN q.i = p.i + 1
               ELSE q.i = 0 /\ q.orden > p.orden /\ p.falta = 1

AlDia(p) == IF Pide("cat") /\ consola.i > 0 THEN p.orden = hechos /\ p.i = consola.i - 1
            ELSE p.falta = 1 /\ p.orden <= hechos /\ (Pide("cat") => p.orden < hechos)

Faltan(r) == r.falta = Cantidad(r.a) - r.i

TurnoCat ==
  /\ \A f \in imprime : Sigue(pantalla, Head(aFS[f])) /\ Faltan(Head(aFS[f]))
  /\ \A c \in EnViaje : c.op = "cat" => AlDia(c) /\ \A u \in Ultimos : Sigue(u, c)
  /\ CptoLibre("cpto") => \A u \in Ultimos : AlDia(u)

IInv ==
  /\ Formas /\ CuentaJusta /\ Fichas /\ TurnoMd5 /\ Verdad /\ SinPasarse /\ TurnoCpto /\ TurnoCat
  /\ Md5Correcto

-----------------------------------------------------------------------------
(* The queues: what a message more or less does to what is on its way. *)
Colas(M) == [Fds -> Seq(M)]
AgregaEn(p, r, f, x) == r[f] = Append(p[f], x) /\ \A g \in Fds \ {f} : r[g] = p[g]
QuitaEn(p, r, f) == r[f] = Tail(p[f]) /\ \A g \in Fds \ {f} : r[g] = p[g]
VaciaEn(p, r, f) == r[f] = <<>> /\ \A g \in Fds \ {f} : r[g] = p[g]

(* Where a message was before the first of f went. *)
Antes(f, g, j) == IF g = f THEN j + 1 ELSE j

LEMMA MensAgrega ==
  ASSUME NEW M, NEW p \in Colas(M), NEW r \in Colas(M), NEW f \in Fds, NEW x \in M,
         AgregaEn(p, r, f, x)
  PROVE  /\ \A g \in Fds : \A j \in DOMAIN r[g] :
              \/ j \in DOMAIN p[g] /\ r[g][j] = p[g][j]
              \/ g = f /\ j = Len(p[f]) + 1 /\ r[g][j] = x
         /\ \A g \in Fds : Mensajes(r, g) \subseteq Mensajes(p, g) \cup (IF g = f THEN {x} ELSE {})
<1>1. ASSUME NEW g \in Fds, NEW j \in DOMAIN r[g]
      PROVE  \/ j \in DOMAIN p[g] /\ r[g][j] = p[g][j]
             \/ g = f /\ j = Len(p[f]) + 1 /\ r[g][j] = x
  <2>1. CASE g = f
    <3>1. PICK s, t : s = p[f] /\ t = r[f]
      OBVIOUS
    <3>2. s \in Seq(M) /\ t = Append(s, x) /\ j \in DOMAIN t
      BY <1>1, <2>1, <3>1 DEF AgregaEn, Colas
    <3>3. (j \in DOMAIN s /\ t[j] = s[j]) \/ (j = Len(s) + 1 /\ t[j] = x)
      BY <3>2
    <3>4. QED
      BY <2>1, <3>1, <3>3
  <2>2. CASE g # f
    BY <1>1, <2>2 DEF AgregaEn
  <2>3. QED
    BY <2>1, <2>2
<1>2. QED
  BY <1>1 DEF Mensajes

LEMMA MensQuita ==
  ASSUME NEW M, NEW p \in Colas(M), NEW r \in Colas(M), NEW f \in Fds,
         p[f] # <<>>, QuitaEn(p, r, f)
  PROVE  /\ \A g \in Fds : \A j \in DOMAIN r[g] :
              j \in Nat /\ Antes(f, g, j) \in DOMAIN p[g] /\ r[g][j] = p[g][Antes(f, g, j)]
         /\ \A g \in Fds : \A j, k \in Nat : Antes(f, g, j) = Antes(f, g, k) => j = k
         /\ \A j \in Nat : j \in DOMAIN r[f] => Antes(f, f, j) # 1
         /\ \A g \in Fds : Mensajes(r, g) \subseteq Mensajes(p, g)
         /\ 1 \in DOMAIN p[f] /\ Head(p[f]) = p[f][1] /\ Head(p[f]) \in Mensajes(p, f)
         /\ Head(p[f]) \in M
<1>1. ASSUME NEW g \in Fds, NEW j \in DOMAIN r[g]
      PROVE  j \in Nat /\ Antes(f, g, j) \in DOMAIN p[g] /\ r[g][j] = p[g][Antes(f, g, j)]
  <2>1. CASE g = f
    <3>1. PICK s, t : s = p[f] /\ t = r[f]
      OBVIOUS
    <3>2. s \in Seq(M) /\ s # <<>> /\ t = Tail(s) /\ j \in DOMAIN t
      BY <1>1, <2>1, <3>1 DEF QuitaEn, Colas
    <3>3. j \in Nat /\ j + 1 \in DOMAIN s /\ t[j] = s[j + 1]
      BY <3>2
    <3>4. QED
      BY <2>1, <3>1, <3>3 DEF Antes
  <2>2. CASE g # f
    <3>1. r[g] = p[g] /\ p[g] \in Seq(M)
      BY <2>2 DEF QuitaEn, Colas
    <3>2. PICK s : s = p[g]
      OBVIOUS
    <3>3. s \in Seq(M) /\ j \in DOMAIN s /\ r[g][j] = s[j]
      BY <1>1, <3>1, <3>2
    <3>4. j \in Nat
      BY <3>3
    <3>5. QED
      BY <2>2, <3>2, <3>3, <3>4 DEF Antes
  <2>3. QED
    BY <2>1, <2>2
<1>2. 1 \in DOMAIN p[f] /\ Head(p[f]) = p[f][1] /\ Head(p[f]) \in M
  <2>1. PICK s : s = p[f]
    OBVIOUS
  <2>2. s \in Seq(M) /\ s # <<>>
    BY <2>1 DEF Colas
  <2>3. 1 \in DOMAIN s /\ Head(s) = s[1] /\ Head(s) \in M
    BY <2>2
  <2>4. QED
    BY <2>1, <2>3
<1>3. \A g \in Fds : \A j, k \in Nat : Antes(f, g, j) = Antes(f, g, k) => j = k
  BY DEF Antes
<1>4. \A j \in Nat : j \in DOMAIN r[f] => Antes(f, f, j) # 1
  <2>1. PICK s, t : s = p[f] /\ t = r[f]
    OBVIOUS
  <2>2. s \in Seq(M) /\ s # <<>> /\ t = Tail(s)
    BY <2>1 DEF Colas, QuitaEn
  <2>3. \A j \in Nat : j \in DOMAIN t => j + 1 # 1
    BY <2>2
  <2>4. QED
    BY <2>1, <2>3 DEF Antes
<1>5. QED
  BY <1>1, <1>2, <1>3, <1>4 DEF Mensajes

LEMMA EsCarta ==
  ASSUME NEW p, NEW q
  PROVE  /\ \A f \in Fds : \A m \in Mensajes(p, f) \cup Mensajes(q, f) : Carta(m) \in Cartas(p, q)
         /\ \A c \in Cartas(p, q) : \E g \in Fds : \E m \in Mensajes(p, g) \cup Mensajes(q, g) :
              c = Carta(m)
         /\ \A f \in Fds : \A j \in DOMAIN p[f] : Carta(p[f][j]) \in Cartas(p, q)
         /\ \A f \in Fds : \A j \in DOMAIN q[f] : Carta(q[f][j]) \in Cartas(p, q)
  BY DEF Cartas, Mensajes

LEMMA OpDeCarta == \A m : Carta(m).op = m.op
  BY DEF Carta

LEMMA CartasDentro ==
  ASSUME NEW p, NEW q, NEW r, NEW s, NEW X,
         \A g \in Fds : \A m \in Mensajes(r, g) \cup Mensajes(s, g) :
           m \in Mensajes(p, g) \cup Mensajes(q, g) \/ Carta(m) \in X
  PROVE  Cartas(r, s) \subseteq Cartas(p, q) \cup X
  BY DEF Cartas

(* A request is sent: nobody of its turn was on its way. *)
LEMMA AlMandar ==
  ASSUME NEW M, NEW N, NEW p \in Colas(M), NEW r \in Colas(M),
         NEW q \in Colas(N), NEW f \in Fds, NEW x \in M, AgregaEn(p, r, f, x),
         Exclusivas(p, q), \A c \in Cartas(p, q) : ~MismoTurno(c.op, x.op)
  PROVE  Exclusivas(r, q) /\ Cartas(r, q) \subseteq Cartas(p, q) \cup {Carta(x)}
<1>1. \A g \in Fds : \A j \in DOMAIN r[g] :
        \/ j \in DOMAIN p[g] /\ r[g][j] = p[g][j]
        \/ g = f /\ j = Len(p[f]) + 1 /\ r[g][j] = x
  BY MensAgrega
<1>2. \A g \in Fds : Mensajes(r, g) \subseteq Mensajes(p, g) \cup (IF g = f THEN {x} ELSE {})
  BY MensAgrega
<1>3. \A g \in Fds : /\ \A j \in DOMAIN p[g] : ~MismoTurno(p[g][j].op, x.op)
                     /\ \A j \in DOMAIN q[g] : ~MismoTurno(q[g][j].op, x.op)
  BY EsCarta, OpDeCarta
<1>4. Exclusivas(r, q)
  BY <1>1, <1>3 DEF Exclusivas, MismoTurno
<1>5. QED
  BY <1>2, <1>4, CartasDentro

(* The answer takes the place of the request. *)
LEMMA AlContestar ==
  ASSUME NEW M, NEW N, NEW p \in Colas(M), NEW r \in Colas(M),
         NEW q \in Colas(N), NEW s \in Colas(N), NEW f \in Fds, NEW x \in N,
         p[f] # <<>>, QuitaEn(p, r, f), AgregaEn(q, s, f, x), Carta(x) = Carta(Head(p[f])),
         Exclusivas(p, q)
  PROVE  Exclusivas(r, s) /\ Cartas(r, s) \subseteq Cartas(p, q)
<1>1. /\ \A g \in Fds : \A j \in DOMAIN r[g] :
           j \in Nat /\ Antes(f, g, j) \in DOMAIN p[g] /\ r[g][j] = p[g][Antes(f, g, j)]
      /\ \A g \in Fds : \A j, k \in Nat : Antes(f, g, j) = Antes(f, g, k) => j = k
      /\ \A j \in Nat : j \in DOMAIN r[f] => Antes(f, f, j) # 1
  BY MensQuita
<1>2. /\ \A g \in Fds : Mensajes(r, g) \subseteq Mensajes(p, g)
      /\ 1 \in DOMAIN p[f] /\ Head(p[f]) = p[f][1] /\ Head(p[f]) \in Mensajes(p, f)
  BY MensQuita
<1>3. \A g \in Fds : \A j \in DOMAIN s[g] :
        \/ j \in DOMAIN q[g] /\ s[g][j] = q[g][j]
        \/ g = f /\ j = Len(q[f]) + 1 /\ s[g][j] = x
  BY MensAgrega
<1>4. \A g \in Fds : Mensajes(s, g) \subseteq Mensajes(q, g) \cup (IF g = f THEN {x} ELSE {})
  BY MensAgrega
<1>5. x.op = p[f][1].op
  BY <1>2 DEF Carta
<1>6. ASSUME NEW g \in Fds, NEW h \in Fds
      PROVE  /\ \A j \in DOMAIN r[g], k \in DOMAIN r[h] :
                  MismoTurno(r[g][j].op, r[h][k].op) => g = h /\ j = k
             /\ \A j \in DOMAIN s[g], k \in DOMAIN s[h] :
                  MismoTurno(s[g][j].op, s[h][k].op) => g = h /\ j = k
             /\ \A j \in DOMAIN r[g], k \in DOMAIN s[h] :
                  ~MismoTurno(r[g][j].op, s[h][k].op)
  <2>1. ASSUME NEW j \in DOMAIN r[g], NEW k \in DOMAIN r[h], MismoTurno(r[g][j].op, r[h][k].op)
        PROVE  g = h /\ j = k
    BY <1>1, <2>1 DEF Exclusivas
  <2>2. ASSUME NEW j \in DOMAIN s[g], NEW k \in DOMAIN s[h], MismoTurno(s[g][j].op, s[h][k].op)
        PROVE  g = h /\ j = k
    BY <1>2, <1>3, <1>5, <2>2 DEF Exclusivas, MismoTurno
  <2>3. ASSUME NEW j \in DOMAIN r[g], NEW k \in DOMAIN s[h], MismoTurno(r[g][j].op, s[h][k].op)
        PROVE  FALSE
    BY <1>1, <1>2, <1>3, <1>5, <2>3 DEF Exclusivas
  <2>4. QED
    BY <2>1, <2>2, <2>3
<1>7. Exclusivas(r, s)
  BY <1>6 DEF Exclusivas
<1>8. Carta(x) \in Cartas(p, q)
  BY <1>2, EsCarta
<1>9. Cartas(r, s) \subseteq Cartas(p, q) \cup {Carta(x)}
  BY <1>2, <1>4, CartasDentro
<1>10. QED
  BY <1>7, <1>8, <1>9

(* An answer is read: nobody of its turn is left. *)
LEMMA AlLeer ==
  ASSUME NEW M, NEW N, NEW p \in Colas(M),
         NEW q \in Colas(N), NEW s \in Colas(N), NEW f \in Fds,
         q[f] # <<>>, QuitaEn(q, s, f), Exclusivas(p, q)
  PROVE  /\ Exclusivas(p, s) /\ Cartas(p, s) \subseteq Cartas(p, q)
         /\ Carta(Head(q[f])) \in Cartas(p, q)
         /\ \A c \in Cartas(p, s) : ~MismoTurno(c.op, Head(q[f]).op)
<1>1. /\ \A g \in Fds : \A j \in DOMAIN s[g] :
           j \in Nat /\ Antes(f, g, j) \in DOMAIN q[g] /\ s[g][j] = q[g][Antes(f, g, j)]
      /\ \A g \in Fds : \A j, k \in Nat : Antes(f, g, j) = Antes(f, g, k) => j = k
      /\ \A j \in Nat : j \in DOMAIN s[f] => Antes(f, f, j) # 1
  BY MensQuita
<1>2. /\ \A g \in Fds : Mensajes(s, g) \subseteq Mensajes(q, g)
      /\ 1 \in DOMAIN q[f] /\ Head(q[f]) = q[f][1] /\ Head(q[f]) \in Mensajes(q, f)
  BY MensQuita
<1>3. ASSUME NEW g \in Fds, NEW h \in Fds
      PROVE  /\ \A j \in DOMAIN s[g], k \in DOMAIN s[h] :
                  MismoTurno(s[g][j].op, s[h][k].op) => g = h /\ j = k
             /\ \A j \in DOMAIN p[g], k \in DOMAIN s[h] :
                  ~MismoTurno(p[g][j].op, s[h][k].op)
             /\ \A j \in DOMAIN s[g] : ~MismoTurno(s[g][j].op, q[f][1].op)
             /\ \A j \in DOMAIN p[g] : ~MismoTurno(p[g][j].op, q[f][1].op)
  <2>1. ASSUME NEW j \in DOMAIN s[g], NEW k \in DOMAIN s[h], MismoTurno(s[g][j].op, s[h][k].op)
        PROVE  g = h /\ j = k
    BY <1>1, <2>1 DEF Exclusivas
  <2>2. ASSUME NEW j \in DOMAIN p[g], NEW k \in DOMAIN s[h], MismoTurno(p[g][j].op, s[h][k].op)
        PROVE  FALSE
    BY <1>1, <2>2 DEF Exclusivas
  <2>3. ASSUME NEW j \in DOMAIN s[g], MismoTurno(s[g][j].op, q[f][1].op)
        PROVE  FALSE
    BY <1>1, <1>2, <2>3 DEF Exclusivas
  <2>4. ASSUME NEW j \in DOMAIN p[g], MismoTurno(p[g][j].op, q[f][1].op)
        PROVE  FALSE
    BY <1>2, <2>4 DEF Exclusivas
  <2>5. QED
    BY <2>1, <2>2, <2>3, <2>4
<1>4. Exclusivas(p, s)
  BY <1>3 DEF Exclusivas
<1>5. Cartas(p, s) \subseteq Cartas(p, q) \cup {}
  BY <1>2, CartasDentro
<1>6. \A c \in Cartas(p, s) : ~MismoTurno(c.op, q[f][1].op)
  <2>1. ASSUME NEW c \in Cartas(p, s) PROVE ~MismoTurno(c.op, q[f][1].op)
    <3>1. PICK g \in Fds : \E m \in Mensajes(p, g) \cup Mensajes(s, g) : c = Carta(m)
      BY EsCarta
    <3>2. QED
      BY <1>3, <3>1, OpDeCarta DEF Mensajes
  <2>2. QED
    BY <2>1
<1>7. QED
  BY <1>2, <1>4, <1>5, <1>6, EsCarta

(* What a datanode had not read is lost. *)
LEMMA AlPerder ==
  ASSUME NEW p, NEW r, NEW q, NEW f \in Fds, VaciaEn(p, r, f), Exclusivas(p, q)
  PROVE  Exclusivas(r, q) /\ Cartas(r, q) \subseteq Cartas(p, q)
<1>1. \A g \in Fds : \A j \in DOMAIN r[g] : j \in DOMAIN p[g] /\ r[g][j] = p[g][j]
  BY DEF VaciaEn
<1>2. Exclusivas(r, q)
  BY <1>1 DEF Exclusivas
<1>3. \A g \in Fds : Mensajes(r, g) \subseteq Mensajes(p, g)
  BY <1>1 DEF Mensajes
<1>4. Cartas(r, q) \subseteq Cartas(p, q) \cup {}
  BY <1>3, CartasDentro
<1>5. QED
  BY <1>2, <1>4

-----------------------------------------------------------------------------
(* The files and the places. *)

(* The largest of some numbers is one of them. *)
LEMMA Maximo ==
  ASSUME NEW S \in SUBSET Nat, S # {}, IsFiniteSet(S)
  PROVE  Max(S) \in S /\ \A y \in S : Max(S) >= y
<1> DEFINE Sobre(x) == {y \in S : y > x}
           F == {Sobre(x) : x \in S}
<1>1. F \subseteq FiniteSubsetsOf(Nat) /\ F # {}
  <2>1. ASSUME NEW x \in S PROVE IsFiniteSet(Sobre(x))
    <3>1. Sobre(x) \in SUBSET S
      OBVIOUS
    <3>2. QED
      BY <3>1, FS_Subset
  <2>2. QED
    BY <2>1 DEF FiniteSubsetsOf
<1>2. PICK T \in F : \A U \in F : ~(<<U, T>> \in StrictSubsetOrdering(Nat))
  BY <1>1, FS_StrictSubsetOrderingWellFounded, WFMin
<1>3. PICK x \in S : T = Sobre(x)
  BY <1>2
<1>4. \A y \in S : x >= y
  <2> SUFFICES ASSUME NEW y \in S, y > x PROVE FALSE
    OBVIOUS
  <2>1. Sobre(y) \in F /\ Sobre(y) \subseteq Sobre(x) /\ Sobre(y) # Sobre(x)
    <3>1. \A z \in S : z > y => z > x
      OBVIOUS
    <3>2. y \in Sobre(x) /\ y \notin Sobre(y)
      OBVIOUS
    <3>3. QED
      BY <3>1, <3>2
  <2>2. <<Sobre(y), Sobre(x)>> \in StrictSubsetOrdering(Nat)
    BY <2>1 DEF StrictSubsetOrdering
  <2>3. QED
    BY <1>2, <1>3, <2>1, <2>2
<1>5. QED
  BY <1>4 DEF Max

(* The smallest of some descriptors is one of them. *)
LEMMA Minimo ==
  ASSUME NEW S \in SUBSET Nat, S # {}, IsFiniteSet(S)
  PROVE  Min(S) \in S
<1> DEFINE Bajo(x) == {y \in S : y < x}
           F == {Bajo(x) : x \in S}
<1>1. F \subseteq FiniteSubsetsOf(Nat) /\ F # {}
  <2>1. ASSUME NEW x \in S PROVE IsFiniteSet(Bajo(x))
    <3>1. Bajo(x) \in SUBSET S
      OBVIOUS
    <3>2. QED
      BY <3>1, FS_Subset
  <2>2. QED
    BY <2>1 DEF FiniteSubsetsOf
<1>2. PICK T \in F : \A U \in F : ~(<<U, T>> \in StrictSubsetOrdering(Nat))
  BY <1>1, FS_StrictSubsetOrderingWellFounded, WFMin
<1>3. PICK x \in S : T = Bajo(x)
  BY <1>2
<1>4. \A y \in S : x <= y
  <2> SUFFICES ASSUME NEW y \in S, y < x PROVE FALSE
    OBVIOUS
  <2>1. Bajo(y) \in F /\ Bajo(y) \subseteq Bajo(x) /\ Bajo(y) # Bajo(x)
    <3>1. \A z \in S : z < y => z < x
      OBVIOUS
    <3>2. y \in Bajo(x) /\ y \notin Bajo(y)
      OBVIOUS
    <3>3. QED
      BY <3>1, <3>2
  <2>2. <<Bajo(y), Bajo(x)>> \in StrictSubsetOrdering(Nat)
    BY <2>1 DEF StrictSubsetOrdering
  <2>3. QED
    BY <1>2, <1>3, <2>1, <2>2
<1>5. QED
  BY <1>4 DEF Min

LEMMA Cotas ==
  /\ MaxBloques \in Nat
  /\ \A a \in Archivos : /\ Cantidad(a) \in Nat \ {0} /\ Cantidad(a) <= MaxBloques
                         /\ DOMAIN Copias[a] = 0..(Cantidad(a) - 1)
<1> DEFINE S == {Cantidad(a) : a \in Archivos}
           f == [a \in Archivos |-> Cantidad(a)]
<1>1. S \in SUBSET Nat /\ S # {} /\ \A a \in Archivos : Cantidad(a) \in Nat \ {0}
  BY Instancia
<1>2. f \in Surjection(Archivos, S)
  BY DEF Surjection
<1>3. IsFiniteSet(S)
  BY <1>2, FS_Surjection, Instancia
<1>4. Max(S) \in S /\ \A y \in S : Max(S) >= y
  BY <1>1, <1>3, Maximo
<1>5. MaxBloques \in Nat /\ \A a \in Archivos : MaxBloques >= Cantidad(a)
  BY <1>1, <1>4 DEF MaxBloques
<1>6. \A a \in Archivos : Copias[a] \in [0..(Cantidad(a) - 1) -> [0..2 -> Lugares]]
  BY Instancia
<1>7. ASSUME NEW a \in Archivos PROVE MaxBloques >= Cantidad(a) <=> Cantidad(a) <= MaxBloques
  BY <1>1, <1>5
<1>8. QED
  BY <1>1, <1>5, <1>6, <1>7

LEMMA Copia ==
  ASSUME NEW a \in Archivos, NEW i \in 0..(Cantidad(a) - 1)
  PROVE  /\ i \in DOMAIN Copias[a] /\ <<a, i>> \in Datos
         /\ \A k \in 0..2 : Copias[a][i][k] \in Lugares
<1>1. Copias[a] \in [0..(Cantidad(a) - 1) -> [0..2 -> Lugares]]
  BY Instancia
<1>2. i \in DOMAIN Copias[a]
  BY <1>1
<1>3. <<a, i>> \in Datos
  BY <1>2 DEF Datos
<1>4. QED
  BY <1>1, <1>2, <1>3

(* What a datanode reads at the place of a copy is the block. *)
LEMMA Leida ==
  ASSUME NEW n, NEW j
  PROVE  /\ Contenido(n, j) \in Datos
         /\ \A a \in Archivos : \A i \in 0..(Cantidad(a) - 1) :
              EsCopia(n, j, a, i) => Contenido(n, j) = <<a, i>>
<1> DEFINE D == UNION {{<<a, i>> : i \in DOMAIN Copias[a]} : a \in Archivos}
           P(d) == EsCopia(n, j, d[1], d[2])
           Hay == \E a \in Archivos : \E i \in DOMAIN Copias[a] : EsCopia(n, j, a, i)
<1>1. ASSUME Hay PROVE Contenido(n, j) \in D /\ P(Contenido(n, j))
  <2>1. \E d \in D : P(d)
    <3>1. PICK a \in Archivos : \E i \in DOMAIN Copias[a] : EsCopia(n, j, a, i)
      BY <1>1
    <3>2. PICK i \in DOMAIN Copias[a] : EsCopia(n, j, a, i)
      BY <3>1
    <3>3. <<a, i>> \in D
      OBVIOUS
    <3>4. <<a, i>>[1] = a /\ <<a, i>>[2] = i
      OBVIOUS
    <3>5. P(<<a, i>>)
      BY <3>2, <3>4
    <3> HIDE DEF D, P
    <3>6. QED
      BY <3>3, <3>5
  <2>2. Contenido(n, j) = CHOOSE d \in D : P(d)
    BY <1>1 DEF Contenido
  <2> HIDE DEF D, P
  <2>3. QED
    BY <2>1, <2>2
<1>2. Contenido(n, j) \in Datos
  <2>1. CASE Hay
    BY <1>1, <2>1 DEF Datos
  <2>2. CASE ~Hay
    BY <2>2 DEF Contenido, Datos
  <2>3. QED
    BY <2>1, <2>2
<1>3. ASSUME NEW a \in Archivos, NEW i \in 0..(Cantidad(a) - 1), EsCopia(n, j, a, i)
      PROVE  Contenido(n, j) = <<a, i>>
  <2>1. i \in DOMAIN Copias[a]
    BY Copia
  <2>2. Contenido(n, j) \in D /\ P(Contenido(n, j))
    BY <1>1, <1>3, <2>1
  <2>3. PICK b \in Archivos : \E h \in DOMAIN Copias[b] : Contenido(n, j) = <<b, h>>
    BY <2>2
  <2>4. PICK h \in DOMAIN Copias[b] : Contenido(n, j) = <<b, h>>
    BY <2>3
  <2>5. EsCopia(n, j, b, h)
    BY <2>2, <2>4
  <2>6. PICK k \in 0..2 : Copias[a][i][k] = <<n, j>>
    BY <1>3 DEF EsCopia
  <2>7. PICK l \in 0..2 : Copias[b][h][l] = <<n, j>>
    BY <2>5 DEF EsCopia
  <2>8. <<n, j>> # Sin
    BY DEF Sin
  <2>9. a = b /\ i = h
    <3>1. \A c, e \in Archivos : \A p \in DOMAIN Copias[c], q \in DOMAIN Copias[e] :
            \A u, v \in 0..2 :
              Copias[c][p][u] = Copias[e][q][v] /\ Copias[c][p][u] # Sin => c = e /\ p = q
      BY Instancia
    <3>2. Copias[a][i][k] = Copias[b][h][l] /\ Copias[a][i][k] # Sin
      BY <2>6, <2>7, <2>8
    <3>3. QED
      BY <2>1, <3>1, <3>2
  <2>10. QED
    BY <2>4, <2>9
<1>4. QED
  BY <1>2, <1>3

LEMMA HayDescriptor ==
  ASSUME NEW q \in [Fds -> Nodos \cup {Nadie}], NEW n \in Nodos, \A f \in Fds : q[f] # n,
         \A f, g \in Fds : q[f] = q[g] /\ q[f] # Nadie => f = g
  PROVE  Min({g \in Fds : q[g] = Nadie}) \in Fds /\ q[Min({g \in Fds : q[g] = Nadie})] = Nadie
<1> DEFINE L == {g \in Fds : q[g] = Nadie}
<1>1. Cardinality(Nodos) \in Nat /\ IsFiniteSet(Nodos) /\ Nadie \notin Nodos
  BY Instancia, FS_CardinalityType
<1>2. IsFiniteSet(Fds) /\ Cardinality(Fds) = Cardinality(Nodos) /\ Fds \subseteq Nat
  <2>1. PICK c \in Nat : c = Cardinality(Nodos)
    BY <1>1
  <2>2. IsFiniteSet(1..c) /\ Cardinality(1..c) = IF 1 > c THEN 0 ELSE c - 1 + 1
    BY FS_Interval
  <2>3. Cardinality(1..c) = c
    BY <2>1, <2>2
  <2>4. QED
    BY <2>1, <2>2, <2>3 DEF Fds
<1>3. L # {}
  <2> SUFFICES ASSUME L = {} PROVE FALSE
    OBVIOUS
  <2>1. q \in [Fds -> Nodos \ {n}]
    OBVIOUS
  <2>2. IsFiniteSet(Nodos \ {n}) /\ Cardinality(Nodos \ {n}) = Cardinality(Nodos) - 1
    BY <1>1, FS_RemoveElement
  <2>3. PICK T : T = Nodos \ {n}
    OBVIOUS
  <2>4. IsFiniteSet(T) /\ Cardinality(T) < Cardinality(Fds) /\ q \in [Fds -> T]
    BY <1>1, <1>2, <2>1, <2>2, <2>3
  <2>5. \A f, g \in Fds : q[f] = q[g] => f = g
    OBVIOUS
  <2>6. q \in Injection(Fds, T)
    BY <2>4, <2>5 DEF Injection, IsInjective
  <2>7. Cardinality(Fds) <= Cardinality(T) /\ Cardinality(T) \in Nat /\ Cardinality(Fds) \in Nat
    BY <1>1, <1>2, <2>4, <2>6, FS_Injection, FS_CardinalityType
  <2>8. QED
    BY <2>4, <2>7
<1>4. L \in SUBSET Nat /\ IsFiniteSet(L)
  <2>1. L \in SUBSET Fds
    OBVIOUS
  <2>2. QED
    BY <1>2, <2>1, FS_Subset
<1>5. Min(L) \in L
  BY <1>3, <1>4, Minimo
<1>6. QED
  BY <1>5

(* What solicitar_bloques may ask for: a copy of the block, or a request     *)
(* that it never set.                                                        *)
LEMMA Elegida ==
  ASSUME FormaConsola, consola.pc = "elige",
         NEW flag, NEW c, c = Copias[consola.a][consola.i],
         NEW l0, l0 = Eleccion(c, flag), NEW l \in Posibles(l0), l # <<"muere">>
  PROVE  /\ l \in Sitios
         /\ l0 # <<"basura">> => EsCopia(l[1], l[2], consola.a, consola.i)
<1>1. /\ consola.a \in Archivos /\ consola.i \in 0..(Cantidad(consola.a) - 1) /\ consola.i \in Nat
      /\ consola.i > 0 => consola.lugar \in Sitios
  BY Cotas DEF FormaConsola, Libre
<1>2. \A k \in 0..2 : c[k] \in Lugares
  BY <1>1, Copia
<1>3. Total \in Nat /\ Total > 0
  BY Instancia
<1>4. CASE l0 # <<"basura">>
  <2>1. l = l0
    BY <1>4 DEF Posibles
  <2>2. (l0 = c[0] /\ c[0] # Sin) \/ (l0 = c[1] /\ c[1] # Sin) \/ (l0 = c[2] /\ c[2] # Sin)
    BY <1>4, <2>1 DEF Eleccion
  <2>3. PICK k \in 0..2 : l0 = c[k] /\ c[k] # Sin
    BY <2>2
  <2>4. l0 \in Nodos \X (0..(Total - 1))
    BY <1>2, <2>3 DEF Lugares
  <2>5. l0 \in Sitios
    BY <1>3, <2>4 DEF Sitios
  <2>6. c[k] = <<l[1], l[2]>>
    BY <2>1, <2>3, <2>4
  <2>7. QED
    BY <2>1, <2>5, <2>6 DEF EsCopia
<1>5. CASE l0 = <<"basura">>
  <2>1. consola.i # 0 /\ (l = <<consola.lugar[1], 0>> \/ l = <<consola.lugar[1], Total>>)
    BY <1>5 DEF Posibles
  <2>2. consola.lugar[1] \in Nodos
    BY <1>1, <2>1 DEF Sitios
  <2>3. QED
    BY <1>3, <1>5, <2>1, <2>2 DEF Sitios
<1>6. QED
  BY <1>4, <1>5

-----------------------------------------------------------------------------
(* What each action does to the messages on their way. *)
Nueva == [op |-> consola.op, a |-> consola.a, i |-> consola.i,
          falta |-> Cantidad(consola.a) - consola.i,
          orden |-> IF consola.op = "cpto" THEN Len(cptos) ELSE hechos]

SinTocar == UNCHANGED <<aNodo, aFS, imprime>>

LEMMA EnColas ==
  ASSUME Formas, Fichas
  PROVE  /\ aNodo \in Colas(Pedido) /\ aFS \in Colas(Respuesta) /\ porLeer \in Colas(Respuesta)
         /\ \A f \in Fds : porLeer[f] = IF f \in imprime THEN Tail(aFS[f]) ELSE aFS[f]
<1>1. \A f \in Fds : porLeer[f] = IF f \in imprime THEN Tail(aFS[f]) ELSE aFS[f]
  BY DEF porLeer
<1>2. ASSUME NEW f \in Fds PROVE porLeer[f] \in Seq(Respuesta)
  <2>1. PICK s : s = aFS[f]
    OBVIOUS
  <2>2. s \in Seq(Respuesta)
    BY <2>1 DEF Formas, FormaComandos, FormaCerrojos, FormaMensajes
  <2>3. CASE f \in imprime
    <3>1. s # <<>>
      BY <2>1, <2>3 DEF Fichas
    <3>2. Tail(s) \in Seq(Respuesta)
      BY <2>2, <3>1
    <3>3. QED
      BY <1>1, <2>1, <2>3, <3>2
  <2>4. CASE f \notin imprime
    BY <1>1, <2>1, <2>2, <2>4
  <2>5. QED
    BY <2>3, <2>4
<1>3. porLeer \in [Fds -> Seq(Respuesta)]
  BY <1>2 DEF porLeer
<1>4. QED
  BY <1>1, <1>3 DEF Formas, FormaComandos, FormaCerrojos, FormaMensajes, Colas

LEMMA ViajaIgual == SinTocar => porLeer' = porLeer /\ EnViaje' = EnViaje
  BY DEF SinTocar, porLeer, EnViaje, Cartas

LEMMA ViajaMandar ==
  ASSUME Formas, Fichas, Mandar
  PROVE  /\ Exclusivas(aNodo', porLeer') /\ EnViaje' \subseteq EnViaje \cup {Nueva}
         /\ aNodo' \in Colas(Pedido) /\ Bien(Nueva)
         /\ \/ aNodo' = aNodo
            \/ /\ consola.fd \in viva
               /\ \A f \in Fds : Mensajes(aNodo', f) \subseteq
                    Mensajes(aNodo, f) \cup {m \in Pedido : /\ f = consola.fd /\ Carta(m) = Nueva
                                                            /\ m.num = consola.lugar[2]}
               /\ \A f \in Fds : f # consola.fd => aNodo'[f] = aNodo[f]
<1> DEFINE x == [op |-> consola.op, a |-> consola.a, i |-> consola.i, num |-> consola.lugar[2],
                 falta |-> Cantidad(consola.a) - consola.i,
                 orden |-> IF consola.op = "cpto" THEN Len(cptos) ELSE hechos]
<1>1. /\ consola.pc = "manda" /\ consola.op \in Ops /\ consola.a \in Archivos /\ consola.i \in Nat
      /\ consola.i < Cantidad(consola.a) /\ consola.lugar \in Sitios /\ consola.fd \in Fds
      /\ consola.op = "cpto" => Len(cptos) > 0 /\ consola.a = cptos[Len(cptos)][2]
  BY DEF Mandar, Formas, FormaComandos, FormaCerrojos, FormaMensajes, FormaConsola, Libre
<1>2. /\ hechos \in 0..MaxComandos /\ Len(cptos) \in Nat /\ Len(cptos) <= hechos
      /\ MaxComandos \in Nat
  <2>1. cptos \in Seq((Rutas \cup {Otra}) \X Archivos)
    BY DEF Formas, FormaComandos, FormaCerrojos, FormaMensajes
  <2>2. Len(cptos) \in Nat
    BY <2>1
  <2>3. QED
    BY <2>2, Instancia DEF Formas, FormaComandos, FormaCerrojos, FormaMensajes
<1>3. MaxBloques \in Nat /\ Cantidad(consola.a) \in Nat \ {0} /\ Cantidad(consola.a) <= MaxBloques
  BY <1>1, Cotas
<1>4. x \in Pedido
  <2>1. consola.lugar[2] \in 0..Total
    BY <1>1 DEF Sitios
  <2>2. PICK k : k = Cantidad(consola.a)
    OBVIOUS
  <2>3. consola.i \in 0..MaxBloques /\ k - consola.i \in 1..MaxBloques
    BY <1>1, <1>3, <2>2
  <2>4. Len(cptos) \in 0..MaxComandos
    BY <1>2
  <2>5. QED
    BY <1>1, <1>2, <2>1, <2>2, <2>3, <2>4 DEF Pedido
<1>5. Carta(x) = Nueva
  BY DEF Carta, Nueva
<1>6. Bien(Nueva)
  <2>1. Len(cptos) > 0 => Len(cptos) \in DOMAIN cptos
    <3>1. cptos \in Seq((Rutas \cup {Otra}) \X Archivos)
      BY DEF Formas, FormaComandos, FormaCerrojos, FormaMensajes
    <3>2. QED
      BY <3>1
  <2>2. QED
    BY <1>1, <1>2, <2>1 DEF Bien, Nueva
<1>7. \A c \in EnViaje : ~MismoTurno(c.op, x.op)
  BY <1>1 DEF Mandar, TomarCpto, Fichas, MismoTurno
<1>8. porLeer' = porLeer /\ aNodo \in Colas(Pedido) /\ porLeer \in Colas(Respuesta)
  BY EnColas DEF Mandar, porLeer, red
<1>9. Exclusivas(aNodo, porLeer)
  BY DEF Fichas
<1>10. CASE aNodo' = aNodo
  BY <1>6, <1>8, <1>9, <1>10 DEF EnViaje
<1>11. CASE consola.fd \in viva
  <2>1. aNodo' = [aNodo EXCEPT ![consola.fd] = Append(@, x)]
    BY <1>11 DEF Mandar
  <2>2. AgregaEn(aNodo, aNodo', consola.fd, x)
    BY <1>1, <1>8, <2>1 DEF AgregaEn, Colas
  <2>3. aNodo' \in Colas(Pedido)
    <3>1. PICK s : s = aNodo[consola.fd]
      OBVIOUS
    <3>2. s \in Seq(Pedido)
      BY <1>1, <1>8, <3>1 DEF Colas
    <3>3. Append(s, x) \in Seq(Pedido)
      BY <1>4, <3>2
    <3> HIDE DEF x
    <3>4. QED
      BY <1>1, <1>8, <2>1, <3>1, <3>3 DEF Colas
  <2> HIDE DEF x
  <2>4. Exclusivas(aNodo', porLeer) /\ Cartas(aNodo', porLeer) \subseteq Cartas(aNodo, porLeer) \cup {Carta(x)}
    BY <1>1, <1>4, <1>7, <1>8, <1>9, <2>2, <2>3, AlMandar DEF EnViaje
  <2>5. \A f \in Fds : Mensajes(aNodo', f) \subseteq
                         Mensajes(aNodo, f) \cup (IF f = consola.fd THEN {x} ELSE {})
    BY <1>1, <1>4, <1>8, <2>2, <2>3, MensAgrega
  <2>6. x.num = consola.lugar[2]
    BY DEF x
  <2>7. QED
    BY <1>4, <1>5, <1>6, <1>8, <1>11, <2>2, <2>3, <2>4, <2>5, <2>6 DEF EnViaje, AgregaEn
<1>12. QED
  BY <1>10, <1>11 DEF Mandar

LEMMA ViajaContestar ==
  ASSUME Formas, Fichas, NEW f \in Fds, Contestar(f)
  PROVE  /\ Exclusivas(aNodo', porLeer') /\ EnViaje' \subseteq EnViaje
         /\ aNodo' \in Colas(Pedido) /\ aFS' \in Colas(Respuesta)
         /\ \A g \in Fds : Mensajes(aNodo', g) \subseteq Mensajes(aNodo, g)
         /\ \A g \in Fds : Mensajes(aFS', g) \subseteq Mensajes(aFS, g) \cup
              {r \in Respuesta : \E m \in Mensajes(aNodo, f) : /\ Carta(m) = Carta(r)
                                                               /\ r.dato = Contenido(quien[f], m.num)}
         /\ \A g \in imprime : Head(aFS'[g]) = Head(aFS[g]) /\ aFS'[g] # <<>>
         /\ \A g \in Fds : aNodo[g] = <<>> => aNodo'[g] = <<>>
<1> DEFINE p == Head(aNodo[f])
           x == [op |-> p.op, a |-> p.a, i |-> p.i, falta |-> p.falta, orden |-> p.orden,
                 dato |-> Contenido(quien[f], p.num)]
<1>1. /\ aNodo \in Colas(Pedido) /\ aFS \in Colas(Respuesta) /\ porLeer \in Colas(Respuesta)
      /\ \A g \in Fds : porLeer[g] = IF g \in imprime THEN Tail(aFS[g]) ELSE aFS[g]
  BY EnColas
<1>2. /\ aNodo[f] # <<>> /\ aNodo' = [aNodo EXCEPT ![f] = Tail(@)]
      /\ aFS' = [aFS EXCEPT ![f] = Append(@, x)] /\ imprime' = imprime
  BY DEF Contestar, mutexes
<1>3. p \in Pedido /\ p \in Mensajes(aNodo, f)
  <2>1. PICK s : s = aNodo[f]
    OBVIOUS
  <2>2. s \in Seq(Pedido) /\ s # <<>>
    BY <1>1, <1>2, <2>1 DEF Colas
  <2>3. Head(s) \in Pedido /\ 1 \in DOMAIN s /\ Head(s) = s[1]
    BY <2>2
  <2>4. QED
    BY <2>1, <2>3 DEF Mensajes
<1>4. x \in Respuesta /\ Carta(x) = Carta(p) /\ x.dato = Contenido(quien[f], p.num)
  BY <1>3, Leida DEF Pedido, Respuesta, Carta
<1> HIDE DEF p, x
<1>5. aNodo' \in Colas(Pedido) /\ QuitaEn(aNodo, aNodo', f)
  <2>1. PICK s : s = aNodo[f]
    OBVIOUS
  <2>2. s \in Seq(Pedido) /\ s # <<>>
    BY <1>1, <1>2, <2>1 DEF Colas
  <2>3. Tail(s) \in Seq(Pedido)
    BY <2>2
  <2>4. QED
    BY <1>1, <1>2, <2>1, <2>3 DEF Colas, QuitaEn
<1>6. aFS' \in Colas(Respuesta) /\ AgregaEn(aFS, aFS', f, x)
  <2>1. PICK s : s = aFS[f]
    OBVIOUS
  <2>2. s \in Seq(Respuesta)
    BY <1>1, <2>1 DEF Colas
  <2>3. Append(s, x) \in Seq(Respuesta)
    BY <1>4, <2>2
  <2>4. QED
    BY <1>1, <1>2, <2>1, <2>3 DEF Colas, AgregaEn
<1>7. porLeer' \in Colas(Respuesta) /\ AgregaEn(porLeer, porLeer', f, x)
  <2>1. \A g \in Fds : porLeer'[g] = IF g \in imprime THEN Tail(aFS'[g]) ELSE aFS'[g]
    BY <1>2 DEF porLeer
  <2>2. PICK s : s = aFS[f]
    OBVIOUS
  <2>3. s \in Seq(Respuesta)
    BY <1>1, <2>2 DEF Colas
  <2>4. aFS'[f] = Append(s, x)
    BY <1>6, <2>2 DEF AgregaEn
  <2>5. f \in imprime => s # <<>>
    BY <2>2 DEF Fichas
  <2>6. s # <<>> => Tail(Append(s, x)) = Append(Tail(s), x)
    BY <1>4, <2>3
  <2>7. porLeer'[f] = Append(porLeer[f], x)
    BY <1>1, <2>1, <2>2, <2>4, <2>5, <2>6
  <2>8. AgregaEn(porLeer, porLeer', f, x)
    BY <1>1, <1>6, <2>1, <2>7 DEF AgregaEn
  <2>9. PICK t : t = porLeer[f]
    OBVIOUS
  <2>10. t \in Seq(Respuesta)
    BY <1>1, <2>9 DEF Colas
  <2>11. Append(t, x) \in Seq(Respuesta)
    BY <1>4, <2>10
  <2>12. \A g \in Fds : porLeer'[g] \in Seq(Respuesta)
    BY <1>1, <2>7, <2>8, <2>9, <2>11 DEF AgregaEn, Colas
  <2>13. porLeer' \in [Fds -> Seq(Respuesta)]
    BY <2>12 DEF porLeer
  <2>14. QED
    BY <2>8, <2>13 DEF Colas
<1>8. Exclusivas(aNodo', porLeer') /\ Cartas(aNodo', porLeer') \subseteq Cartas(aNodo, porLeer)
  <2>1. Exclusivas(aNodo, porLeer) /\ Carta(x) = Carta(Head(aNodo[f]))
    BY <1>4 DEF Fichas, p
  <2>2. PICK u, v, r, w : u = aNodo /\ v = porLeer /\ r = aNodo' /\ w = porLeer'
    OBVIOUS
  <2>3. /\ u \in Colas(Pedido) /\ r \in Colas(Pedido) /\ v \in Colas(Respuesta)
        /\ w \in Colas(Respuesta) /\ u[f] # <<>> /\ QuitaEn(u, r, f) /\ AgregaEn(v, w, f, x)
        /\ Exclusivas(u, v) /\ Carta(x) = Carta(Head(u[f]))
    BY <1>1, <1>2, <1>5, <1>7, <2>1, <2>2
  <2>4. Exclusivas(r, w) /\ Cartas(r, w) \subseteq Cartas(u, v)
    BY <1>4, <2>3, AlContestar
  <2>5. QED
    BY <2>2, <2>4
<1>9. \A g \in Fds : Mensajes(aNodo', g) \subseteq Mensajes(aNodo, g)
  BY <1>1, <1>2, <1>5, MensQuita
<1>10. \A g \in Fds : Mensajes(aFS', g) \subseteq Mensajes(aFS, g) \cup (IF g = f THEN {x} ELSE {})
  BY <1>1, <1>4, <1>6, MensAgrega
<1>11. \A g \in imprime : Head(aFS'[g]) = Head(aFS[g]) /\ aFS'[g] # <<>>
  <2>1. ASSUME NEW g \in imprime PROVE Head(aFS'[g]) = Head(aFS[g]) /\ aFS'[g] # <<>>
    <3>1. PICK s : s = aFS[g]
      OBVIOUS
    <3>2. s \in Seq(Respuesta) /\ s # <<>> /\ g \in Fds
      BY <1>1, <3>1 DEF Colas, Formas, FormaComandos, FormaCerrojos, FormaMensajes, Fichas
    <3>3. Head(Append(s, x)) = Head(s) /\ Append(s, x) # <<>>
      BY <1>4, <3>2
    <3>4. QED
      BY <1>6, <3>1, <3>2, <3>3 DEF AgregaEn
  <2>2. QED
    BY <2>1
<1>12. \A g \in Fds : aNodo[g] = <<>> => aNodo'[g] = <<>>
  BY <1>2, <1>5 DEF QuitaEn
<1>13. QED
  BY <1>3, <1>4, <1>5, <1>6, <1>8, <1>9, <1>10, <1>11, <1>12 DEF EnViaje

Lectura(f) == LeerMd5(f) \/ LeerCpto(f) \/ LeerCat(f)

(* The first answer of a connection that is not being printed. *)
LEMMA Primera ==
  ASSUME Formas, NEW f \in Fds, aFS[f] # <<>>
  PROVE  /\ Head(aFS[f]) \in Respuesta /\ Head(aFS[f]) \in Mensajes(aFS, f)
         /\ Tail(aFS[f]) \in Seq(Respuesta)
<1>1. PICK s : s = aFS[f]
  OBVIOUS
<1>2. s \in Seq(Respuesta) /\ s # <<>>
  BY <1>1 DEF Formas, FormaComandos, FormaCerrojos, FormaMensajes
<1>3. Head(s) \in Respuesta /\ 1 \in DOMAIN s /\ Head(s) = s[1] /\ Tail(s) \in Seq(Respuesta)
  BY <1>2
<1>4. QED
  BY <1>1, <1>3 DEF Mensajes

LEMMA ColaMenos ==
  ASSUME Formas, NEW f \in Fds, aFS[f] # <<>>, aFS' = [aFS EXCEPT ![f] = Tail(@)]
  PROVE  /\ aFS' \in Colas(Respuesta) /\ QuitaEn(aFS, aFS', f)
         /\ \A g \in Fds : Mensajes(aFS', g) \subseteq Mensajes(aFS, g)
<1>1. aFS \in Colas(Respuesta) /\ Tail(aFS[f]) \in Seq(Respuesta)
  BY Primera DEF Formas, FormaComandos, FormaCerrojos, FormaMensajes, Colas
<1>2. aFS' \in Colas(Respuesta) /\ QuitaEn(aFS, aFS', f)
  BY <1>1 DEF Colas, QuitaEn
<1>3. PICK q, r : q = aFS /\ r = aFS'
  OBVIOUS
<1>4. q \in Colas(Respuesta) /\ r \in Colas(Respuesta) /\ QuitaEn(q, r, f) /\ q[f] # <<>>
  BY <1>1, <1>2, <1>3
<1>5. \A g \in Fds : Mensajes(r, g) \subseteq Mensajes(q, g)
  BY <1>4, MensQuita
<1>6. QED
  BY <1>2, <1>3, <1>5

LEMMA ViajaLeer ==
  ASSUME Formas, Fichas, NEW f \in Fds, Lectura(f)
  PROVE  /\ Exclusivas(aNodo', porLeer') /\ EnViaje' \subseteq EnViaje /\ aNodo' = aNodo
         /\ aFS[f] # <<>> /\ f \notin imprime
         /\ aFS' \in Colas(Respuesta)
         /\ \A g \in Fds : Mensajes(aFS', g) \subseteq Mensajes(aFS, g)
         /\ \A g \in imprime : aFS'[g] = aFS[g]
         /\ Head(aFS[f]) \in Respuesta /\ Head(aFS[f]) \in Mensajes(aFS, f)
         /\ Carta(Head(aFS[f])) \in EnViaje
         /\ \A c \in EnViaje' : ~MismoTurno(c.op, Head(aFS[f]).op)
<1>1. /\ aNodo \in Colas(Pedido) /\ aFS \in Colas(Respuesta) /\ porLeer \in Colas(Respuesta)
      /\ \A g \in Fds : porLeer[g] = IF g \in imprime THEN Tail(aFS[g]) ELSE aFS[g]
  BY EnColas
<1>2. aFS[f] # <<>> /\ aNodo' = aNodo
  BY DEF Lectura, LeerMd5, LeerCpto, LeerCat, Leer, red
<1>3. f \notin imprime
  <2>1. CASE LeerMd5(f)
    BY <2>1 DEF LeerMd5, Fichas
  <2>2. CASE LeerCpto(f)
    BY <2>2 DEF LeerCpto
  <2>3. CASE LeerCat(f)
    BY <2>3 DEF LeerCat
  <2>4. QED
    BY <2>1, <2>2, <2>3 DEF Lectura
<1>4. Head(aFS[f]) \in Respuesta /\ Head(aFS[f]) \in Mensajes(aFS, f) /\ Tail(aFS[f]) \in Seq(Respuesta)
  BY <1>2, Primera
<1>5. /\ aFS' \in Colas(Respuesta) /\ \A g \in Fds : Mensajes(aFS', g) \subseteq Mensajes(aFS, g)
      /\ \A g \in imprime : aFS'[g] = aFS[g]
      /\ \/ imprime' = imprime /\ QuitaEn(aFS, aFS', f)
         \/ aFS' = aFS /\ imprime' = {f} /\ imprime = {}
  <2>1. CASE LeerMd5(f) \/ LeerCpto(f)
    <3>1. aFS' = [aFS EXCEPT ![f] = Tail(@)] /\ imprime' = imprime
      BY <2>1 DEF LeerMd5, LeerCpto, Leer
    <3>2. /\ aFS' \in Colas(Respuesta) /\ QuitaEn(aFS, aFS', f)
          /\ \A g \in Fds : Mensajes(aFS', g) \subseteq Mensajes(aFS, g)
      BY <1>2, <3>1, ColaMenos
    <3>3. \A g \in imprime : g \in Fds
      BY DEF Formas, FormaComandos, FormaCerrojos, FormaMensajes
    <3>4. QED
      BY <1>3, <3>1, <3>2, <3>3 DEF QuitaEn
  <2>2. CASE LeerCat(f)
    BY <1>1, <2>2 DEF LeerCat, EmpezarImpresion, red
  <2>3. QED
    BY <2>1, <2>2 DEF Lectura
<1>6. porLeer' \in Colas(Respuesta) /\ QuitaEn(porLeer, porLeer', f)
  <2>1. \A g \in Fds : porLeer'[g] = IF g \in imprime' THEN Tail(aFS'[g]) ELSE aFS'[g]
    BY DEF porLeer
  <2>2. QuitaEn(porLeer, porLeer', f)
    BY <1>1, <1>3, <1>5, <2>1 DEF QuitaEn
  <2>3. \A g \in Fds : porLeer'[g] \in Seq(Respuesta)
    BY <1>1, <1>3, <1>4, <2>2 DEF QuitaEn, Colas
  <2>4. porLeer' \in [Fds -> Seq(Respuesta)]
    BY <2>3 DEF porLeer
  <2>5. QED
    BY <2>2, <2>4 DEF Colas
<1>7. /\ Exclusivas(aNodo, porLeer') /\ Cartas(aNodo, porLeer') \subseteq Cartas(aNodo, porLeer)
      /\ Carta(Head(aFS[f])) \in Cartas(aNodo, porLeer)
      /\ \A c \in Cartas(aNodo, porLeer') : ~MismoTurno(c.op, Head(aFS[f]).op)
  <2>1. PICK p, q, s : p = aNodo /\ q = porLeer /\ s = porLeer'
    OBVIOUS
  <2>2. /\ p \in Colas(Pedido) /\ q \in Colas(Respuesta) /\ s \in Colas(Respuesta)
        /\ q[f] # <<>> /\ QuitaEn(q, s, f) /\ Exclusivas(p, q) /\ q[f] = aFS[f]
    BY <1>1, <1>2, <1>3, <1>6, <2>1 DEF Fichas
  <2>3. /\ Exclusivas(p, s) /\ Cartas(p, s) \subseteq Cartas(p, q)
        /\ Carta(Head(q[f])) \in Cartas(p, q)
        /\ \A c \in Cartas(p, s) : ~MismoTurno(c.op, Head(q[f]).op)
    BY <2>2, AlLeer
  <2>4. QED
    BY <2>1, <2>2, <2>3
<1>8. QED
  BY <1>2, <1>3, <1>4, <1>5, <1>7 DEF EnViaje

LEMMA ViajaImprimir ==
  ASSUME Formas, Fichas, NEW f \in Fds, Imprimir(f)
  PROVE  /\ Exclusivas(aNodo', porLeer') /\ EnViaje' = EnViaje /\ aNodo' = aNodo
         /\ aFS' \in Colas(Respuesta) /\ imprime' = {} /\ imprime = {f}
         /\ \A g \in Fds : Mensajes(aFS', g) \subseteq Mensajes(aFS, g)
         /\ Head(aFS[f]) \in Respuesta /\ Head(aFS[f]) \in Mensajes(aFS, f)
<1>1. /\ aFS[f] # <<>> /\ aNodo' = aNodo /\ f \in imprime /\ imprime' = imprime \ {f}
      /\ aFS' = [aFS EXCEPT ![f] = Tail(@)]
  BY DEF Imprimir, Leer
<1>2. imprime = {f} /\ imprime' = {}
  BY <1>1 DEF Fichas
<1>3. /\ aFS' \in Colas(Respuesta) /\ QuitaEn(aFS, aFS', f)
      /\ \A g \in Fds : Mensajes(aFS', g) \subseteq Mensajes(aFS, g)
  BY <1>1, ColaMenos
<1>4. porLeer' = porLeer
  BY <1>2, <1>3 DEF porLeer, QuitaEn
<1>5. QED
  BY <1>1, <1>2, <1>3, <1>4, Primera DEF EnViaje, Fichas

LEMMA ViajaPerder ==
  ASSUME Formas, Fichas, NEW f \in Fds, Caer(f) \/ ContestarFuera(f)
  PROVE  /\ Exclusivas(aNodo', porLeer') /\ EnViaje' \subseteq EnViaje
         /\ aNodo' \in Colas(Pedido) /\ aFS' = aFS /\ imprime' = imprime
         /\ \A g \in Fds : Mensajes(aNodo', g) \subseteq Mensajes(aNodo, g)
         /\ viva' = viva \ {f} /\ aNodo'[f] = <<>> /\ \A g \in Fds : g # f => aNodo'[g] = aNodo[g]
<1>1. /\ aNodo' = [aNodo EXCEPT ![f] = <<>>] /\ aFS' = aFS /\ imprime' = imprime
      /\ viva' = viva \ {f}
  BY DEF Caer, ContestarFuera, mutexes
<1>2. aNodo \in Colas(Pedido) /\ porLeer' = porLeer
  BY <1>1 DEF Formas, FormaComandos, FormaCerrojos, FormaMensajes, Colas, porLeer
<1>3. <<>> \in Seq(Pedido)
  OBVIOUS
<1>4. aNodo' \in Colas(Pedido) /\ VaciaEn(aNodo, aNodo', f)
  BY <1>1, <1>2, <1>3 DEF Colas, VaciaEn
<1>5. Exclusivas(aNodo', porLeer) /\ Cartas(aNodo', porLeer) \subseteq Cartas(aNodo, porLeer)
  BY <1>4, AlPerder DEF Fichas
<1>6. \A g \in Fds : Mensajes(aNodo', g) \subseteq Mensajes(aNodo, g)
  BY <1>4 DEF VaciaEn, Mensajes
<1>7. QED
  BY <1>1, <1>2, <1>4, <1>5, <1>6 DEF EnViaje, VaciaEn

(* The actions that leave the messages alone. *)
Callada ==
  \/ Comenzar \/ Elegir \/ MandarMuere \/ Sumar \/ Avisar
  \/ \E f \in Fds : LeerCptoMuere(f) \/ Desconectar(f)
  \/ \E n \in Nodos : Volver(n)

LEMMA Quieta == Callada \/ UNCHANGED vars => SinTocar
<1>1. ASSUME Comenzar PROVE SinTocar
  BY <1>1 DEF Comenzar, SinTocar, mutexes, red
<1>2. ASSUME Elegir PROVE SinTocar
  BY <1>2 DEF Elegir, SinTocar, Morir, mutexes, red
<1>3. ASSUME MandarMuere PROVE SinTocar
  BY <1>3 DEF MandarMuere, SinTocar, Morir, mutexes, red
<1>4. ASSUME Sumar PROVE SinTocar
  BY <1>4 DEF Sumar, SinTocar, red
<1>5. ASSUME Avisar PROVE SinTocar
  BY <1>5 DEF Avisar, SinTocar, mutexes, red
<1>6. ASSUME NEW f \in Fds, LeerCptoMuere(f) \/ Desconectar(f) PROVE SinTocar
  BY <1>6 DEF LeerCptoMuere, Desconectar, SinTocar, Morir, mutexes, red
<1>7. ASSUME NEW n \in Nodos, Volver(n) PROVE SinTocar
  BY <1>7 DEF Volver, SinTocar, mutexes
<1>8. ASSUME UNCHANGED vars PROVE SinTocar
  BY <1>8 DEF vars, SinTocar, mutexes, red
<1>9. QED
  BY <1>1, <1>2, <1>3, <1>4, <1>5, <1>6, <1>7, <1>8 DEF Callada

LEMMA Clases ==
  ASSUME [Next]_vars
  PROVE  \/ Callada \/ UNCHANGED vars \/ Mandar
         \/ \E f \in Fds : \/ Contestar(f) \/ Lectura(f) \/ Imprimir(f)
                           \/ Caer(f) \/ ContestarFuera(f)
<1>1. ASSUME PasoConsola PROVE Callada \/ Mandar
  BY <1>1 DEF PasoConsola, Callada
<1>2. ASSUME NEW f \in Fds, PasoHilo(f) PROVE Callada \/ Lectura(f) \/ Imprimir(f)
  BY <1>2 DEF PasoHilo, Callada, Lectura
<1>3. ASSUME NEW n \in Nodos, Volver(n) PROVE Callada
  BY <1>3 DEF Callada
<1>4. QED
  BY <1>1, <1>2, <1>3 DEF Next, PasoNodo

-----------------------------------------------------------------------------
(* The types in each step. *)
Ajena ==
  \/ MandarMuere \/ UNCHANGED vars
  \/ \E f \in Fds : PasoHilo(f) \/ PasoNodo(f) \/ Caer(f)
  \/ \E n \in Nodos : Volver(n)

LEMMA Pasos ==
  ASSUME [Next]_vars
  PROVE  Comenzar \/ Elegir \/ Mandar \/ Sumar \/ Avisar \/ Ajena
  BY DEF Next, PasoConsola, Ajena

LEMMA AjenaNoPide ==
  ASSUME Ajena
  PROVE  UNCHANGED <<consola, hechos, foto, cuenta, cptos, ruta, suma>>
<1>1. ASSUME MandarMuere PROVE UNCHANGED <<consola, hechos, foto, cuenta, cptos, ruta, suma>>
  BY <1>1 DEF MandarMuere, Morir, historia
<1>2. ASSUME UNCHANGED vars PROVE UNCHANGED <<consola, hechos, foto, cuenta, cptos, ruta, suma>>
  BY <1>2 DEF vars, historia
<1>3. ASSUME NEW f \in Fds, PasoHilo(f)
      PROVE  UNCHANGED <<consola, hechos, foto, cuenta, cptos, ruta, suma>>
  <2>1. CASE LeerMd5(f)
    BY <2>1 DEF LeerMd5, Leer
  <2>2. CASE LeerCpto(f)
    BY <2>2 DEF LeerCpto, Leer
  <2>3. CASE LeerCptoMuere(f)
    BY <2>3 DEF LeerCptoMuere, Morir, historia
  <2>4. CASE LeerCat(f)
    BY <2>4 DEF LeerCat, archivos, historia
  <2>5. CASE Imprimir(f)
    BY <2>5 DEF Imprimir, Leer
  <2>6. CASE Desconectar(f)
    BY <2>6 DEF Desconectar, historia
  <2>7. QED
    BY <1>3, <2>1, <2>2, <2>3, <2>4, <2>5, <2>6 DEF PasoHilo
<1>4. ASSUME NEW f \in Fds, PasoNodo(f)
      PROVE  UNCHANGED <<consola, hechos, foto, cuenta, cptos, ruta, suma>>
  BY <1>4 DEF PasoNodo, Contestar, ContestarFuera, historia
<1>5. ASSUME NEW f \in Fds, Caer(f)
      PROVE  UNCHANGED <<consola, hechos, foto, cuenta, cptos, ruta, suma>>
  BY <1>5 DEF Caer, historia
<1>6. ASSUME NEW n \in Nodos, Volver(n)
      PROVE  UNCHANGED <<consola, hechos, foto, cuenta, cptos, ruta, suma>>
  BY <1>6 DEF Volver, historia
<1>7. QED
  BY <1>1, <1>2, <1>3, <1>4, <1>5, <1>6 DEF Ajena

(* What Comenzar, Elegir and Mandar leave at the console. *)
LEMMA HaceComenzar ==
  ASSUME FormaComandos, Comenzar
  PROVE  \E c \in [op : Ops, a : Archivos, ruta : Rutas \cup {Otra}] :
           /\ consola = Libre \/ consola.pc = "libre"
           /\ consola' = [pc |-> "elige", op |-> c.op, a |-> c.a, i |-> 0, flag |-> FALSE,
                          lugar |-> Sin, fd |-> 0]
           /\ hechos' = hechos + 1 /\ hechos' \in 0..MaxComandos
           /\ foto' = Conectados /\ cuenta' = SinContar
           /\ c.op = "cpto" => /\ ruta' = [a |-> c.ruta, liberada |-> FALSE]
                               /\ cptos' = Append(cptos, <<c.ruta, c.a>>)
           /\ c.op # "cpto" => ruta' = ruta /\ cptos' = cptos
<1>1. Comandos \subseteq [op : Ops, a : Archivos, ruta : Rutas \cup {Otra}] /\ MaxComandos \in Nat
  BY Instancia
<1>2. hechos' = hechos + 1 /\ hechos' \in 0..MaxComandos
  BY <1>1 DEF Comenzar, FormaComandos
<1>3. QED
  BY <1>1, <1>2 DEF Comenzar, Contados

LEMMA HaceElegir ==
  ASSUME FormaConsola, FormaRed, FormaComandos, Elegir
  PROVE  \/ fs' = "muerto" /\ UNCHANGED <<consola, hechos, foto, cuenta, mutexes, archivos, ruta,
                                          red, fallos, historia>>
         \/ \E flag \in BOOLEAN, l \in Sitios :
              /\ consola' = [consola EXCEPT !.pc = "manda", !.flag = flag, !.lugar = l,
                                            !.fd = socket[l[1]]]
              /\ socket[l[1]] \in Fds /\ TomarMd5
              /\ cuenta' \in [Nodos -> Nat] /\ \A n \in Nodos : cuenta'[n] <= cuenta[n] + 1
              /\ \/ raro' = raro /\ EsCopia(l[1], l[2], consola.a, consola.i)
                 \/ raro' = raro \cup {"basura"}
              /\ UNCHANGED <<hechos, foto, mutexCpto, ordenMd5, imprime, archivos, ruta, red,
                             fs, fallos, suma, pantalla, cptos>>
<1> DEFINE c == Copias[consola.a][consola.i]
           flag == consola.flag \/ c[2] # Sin
           l0 == Eleccion(c, flag)
<1>1. PICK l \in Posibles(l0) :
        IF l = <<"muere">> \/ (l # <<"muere">> /\ socket[l[1]] = 0)
        THEN ~(consola.op = "md5" /\ mutexMd5) /\ Morir
        ELSE /\ TomarMd5
             /\ consola' = [consola EXCEPT !.pc = "manda", !.flag = flag, !.lugar = l,
                                           !.fd = socket[l[1]]]
             /\ cuenta' = IF l0 # <<"basura">> /\ l[1] \in foto
                          THEN [cuenta EXCEPT ![l[1]] = @ + 1] ELSE cuenta
             /\ raro' = IF l0 = <<"basura">> THEN raro \cup {"basura"} ELSE raro
             /\ UNCHANGED <<hechos, foto, mutexCpto, ordenMd5, imprime, archivos, ruta, red,
                            fs, fallos, suma, pantalla, cptos>>
  BY DEF Elegir
<1>2. consola.pc = "elige"
  BY DEF Elegir
<1>3. CASE l = <<"muere">> \/ socket[l[1]] = 0
  BY <1>1, <1>3 DEF Morir
<1>4. CASE l # <<"muere">> /\ socket[l[1]] # 0
  <2>1. l \in Sitios /\ (l0 # <<"basura">> => EsCopia(l[1], l[2], consola.a, consola.i))
    BY <1>2, <1>4, Elegida
  <2>2. l[1] \in Nodos /\ socket[l[1]] \in Fds
    BY <1>4, <2>1 DEF Sitios, FormaRed
  <2>3. flag \in BOOLEAN
    BY <1>2 DEF FormaConsola, Libre
  <2>4. /\ TomarMd5
        /\ consola' = [consola EXCEPT !.pc = "manda", !.flag = flag, !.lugar = l,
                                      !.fd = socket[l[1]]]
        /\ cuenta' = IF l0 # <<"basura">> /\ l[1] \in foto
                     THEN [cuenta EXCEPT ![l[1]] = @ + 1] ELSE cuenta
        /\ raro' = IF l0 = <<"basura">> THEN raro \cup {"basura"} ELSE raro
        /\ UNCHANGED <<hechos, foto, mutexCpto, ordenMd5, imprime, archivos, ruta, red,
                       fs, fallos, suma, pantalla, cptos>>
    BY <1>1, <1>4
  <2>5. cuenta' \in [Nodos -> Nat] /\ \A n \in Nodos : cuenta'[n] <= cuenta[n] + 1
    <3>1. cuenta \in [Nodos -> Nat]
      BY DEF FormaComandos
    <3>2. PICK n \in Nodos : n = l[1]
      BY <2>2
    <3>3. CASE cuenta' = cuenta
      BY <3>1, <3>3
    <3>4. CASE cuenta' = [cuenta EXCEPT ![n] = @ + 1]
      BY <3>1, <3>4
    <3>5. QED
      BY <2>4, <3>2, <3>3, <3>4
  <2> HIDE DEF flag, l0
  <2>6. QED
    BY <2>1, <2>2, <2>3, <2>4, <2>5
<1>5. QED
  BY <1>3, <1>4

LEMMA HaceMandar ==
  ASSUME FormaConsola, Mandar
  PROVE  /\ consola.pc = "manda" /\ consola.op \in Ops /\ consola.a \in Archivos
         /\ consola.i \in Nat /\ consola.i < Cantidad(consola.a)
         /\ consola' = IF consola.i + 1 < Cantidad(consola.a)
                       THEN [consola EXCEPT !.pc = "elige", !.i = @ + 1]
                       ELSE IF consola.op = "cat" THEN Libre
                       ELSE [consola EXCEPT !.pc = IF consola.op = "md5" THEN "suma" ELSE "avisa"]
         /\ consola.i + 1 < Cantidad(consola.a) \/ consola.i = Cantidad(consola.a) - 1
         /\ UNCHANGED <<hechos, foto, cuenta, cptos, ruta, suma>>
<1>1. /\ consola.pc = "manda" /\ consola.op \in Ops /\ consola.a \in Archivos
      /\ consola.i \in Nat /\ consola.i < Cantidad(consola.a)
  BY DEF Mandar, FormaConsola, Libre
<1>2. PICK k \in Nat : k = Cantidad(consola.a)
  BY <1>1, Cotas
<1>3. /\ k - consola.i > 1 <=> consola.i + 1 < k
      /\ consola.i + 1 < k \/ consola.i = k - 1
  BY <1>1, <1>2
<1>4. /\ Despues(consola.op) = "libre" <=> consola.op = "cat"
      /\ consola.op # "cat" => Despues(consola.op) = IF consola.op = "md5" THEN "suma" ELSE "avisa"
  BY <1>1 DEF Despues, Ops
<1>5. /\ UNCHANGED <<hechos, foto, cuenta, cptos, ruta, suma>>
      /\ consola' = IF Cantidad(consola.a) - consola.i > 1
                    THEN [consola EXCEPT !.pc = "elige", !.i = @ + 1]
                    ELSE IF Despues(consola.op) = "libre" THEN Libre
                    ELSE [consola EXCEPT !.pc = Despues(consola.op)]
  BY DEF Mandar
<1>6. QED
  BY <1>1, <1>2, <1>3, <1>4, <1>5

(* The same, field by field. *)
LEMMA TrasMandar ==
  ASSUME FormaConsola, Mandar
  PROVE  \/ /\ consola.i + 1 < Cantidad(consola.a) /\ consola'.pc = "elige"
            /\ consola'.op = consola.op /\ consola'.a = consola.a /\ consola'.i = consola.i + 1
         \/ /\ consola.i = Cantidad(consola.a) - 1 /\ consola.op = "cat"
            /\ consola' = Libre /\ consola'.pc = "libre"
         \/ /\ consola.i = Cantidad(consola.a) - 1 /\ consola.op # "cat"
            /\ consola'.pc = IF consola.op = "md5" THEN "suma" ELSE "avisa"
            /\ consola'.op = consola.op /\ consola'.a = consola.a /\ consola'.i = consola.i
<1>1. PICK b, d : b = consola /\ d = consola'
  OBVIOUS
<1>2. b \in [pc : {"elige", "manda", "suma", "avisa"}, op : Ops, a : Archivos, i : Nat,
             flag : BOOLEAN, lugar : Sitios \cup {Sin}, fd : Nat]
  BY <1>1 DEF Mandar, FormaConsola, Libre
<1>3. /\ d = IF b.i + 1 < Cantidad(b.a) THEN [b EXCEPT !.pc = "elige", !.i = @ + 1]
             ELSE IF b.op = "cat" THEN Libre
             ELSE [b EXCEPT !.pc = IF b.op = "md5" THEN "suma" ELSE "avisa"]
      /\ b.i + 1 < Cantidad(b.a) \/ b.i = Cantidad(b.a) - 1
  BY <1>1, HaceMandar
<1>4. CASE b.i + 1 < Cantidad(b.a)
  BY <1>1, <1>2, <1>3, <1>4
<1>5. CASE ~(b.i + 1 < Cantidad(b.a)) /\ b.op = "cat"
  BY <1>1, <1>2, <1>3, <1>5 DEF Libre
<1>6. CASE ~(b.i + 1 < Cantidad(b.a)) /\ b.op # "cat"
  BY <1>1, <1>2, <1>3, <1>6
<1>7. QED
  BY <1>4, <1>5, <1>6

LEMMA ConsolaSigue ==
  ASSUME FormaConsola, FormaComandos, FormaRed, [Next]_vars
  PROVE  FormaConsola' /\ FormaComandos'
<1> DEFINE T == [pc : {"elige", "manda", "suma", "avisa"}, op : Ops, a : Archivos, i : Nat,
                 flag : BOOLEAN, lugar : Sitios \cup {Sin}, fd : Nat]
           Meta == FormaConsola' /\ FormaComandos'
<1> SUFFICES Meta
  OBVIOUS
<1>1. ASSUME Comenzar PROVE Meta
  <2>1. PICK c \in [op : Ops, a : Archivos, ruta : Rutas \cup {Otra}] :
           /\ consola' = [pc |-> "elige", op |-> c.op, a |-> c.a, i |-> 0, flag |-> FALSE,
                          lugar |-> Sin, fd |-> 0]
           /\ hechos' = hechos + 1 /\ hechos' \in 0..MaxComandos
           /\ foto' = Conectados /\ cuenta' = SinContar
           /\ c.op = "cpto" => /\ ruta' = [a |-> c.ruta, liberada |-> FALSE]
                               /\ cptos' = Append(cptos, <<c.ruta, c.a>>)
           /\ c.op # "cpto" => ruta' = ruta /\ cptos' = cptos
    BY <1>1, HaceComenzar
  <2>2. c.op \in Ops /\ c.a \in Archivos /\ c.ruta \in Rutas \cup {Otra}
    OBVIOUS
  <2>3. consola' \in T
    BY <2>1, <2>2
  <2>4. /\ consola'.pc = "elige" /\ consola'.op = c.op /\ consola'.a = c.a /\ consola'.i = 0
    BY <2>1
  <2>5. hechos \in Nat /\ hechos' > 0 /\ Len(cptos) \in Nat /\ Len(cptos) <= hechos
        /\ cptos \in Seq((Rutas \cup {Otra}) \X Archivos)
    BY <2>1 DEF FormaComandos
  <2>6. /\ cptos' \in Seq((Rutas \cup {Otra}) \X Archivos) /\ Len(cptos') <= hechos'
        /\ c.op = "cpto" => Len(cptos') > 0 /\ cptos'[Len(cptos')] = <<c.ruta, c.a>>
    <3>1. CASE c.op = "cpto"
      <4>1. PICK s, x : s = cptos /\ x = <<c.ruta, c.a>>
        OBVIOUS
      <4>2. s \in Seq((Rutas \cup {Otra}) \X Archivos) /\ x \in (Rutas \cup {Otra}) \X Archivos
        BY <2>2, <2>5, <4>1
      <4>3. /\ Append(s, x) \in Seq((Rutas \cup {Otra}) \X Archivos)
            /\ Len(Append(s, x)) = Len(s) + 1 /\ Append(s, x)[Len(Append(s, x))] = x
        BY <4>2
      <4>4. cptos' = Append(s, x)
        BY <2>1, <3>1, <4>1
      <4>5. PICK l, h, k : l = Len(s) /\ h = hechos /\ k = Len(Append(s, x))
        OBVIOUS
      <4>6. l \in Nat /\ h \in Nat /\ l <= h /\ k = l + 1
        BY <2>5, <4>1, <4>3, <4>5
      <4>7. k <= h + 1 /\ k > 0
        BY <4>6
      <4>8. QED
        BY <2>1, <4>1, <4>3, <4>4, <4>5, <4>7
    <3>2. CASE c.op # "cpto"
      BY <2>1, <2>5, <3>2
    <3>3. QED
      BY <3>1, <3>2
  <2>7. Cantidad(consola'.a) \in Nat /\ 0 < Cantidad(consola'.a)
    BY <2>2, <2>4, Cotas
  <2>8. FormaConsola'
    <3>1. c.op = "cpto" => Len(cptos') > 0 /\ cptos'[Len(cptos')][2] = c.a
      BY <2>6
    <3>2. consola'.i < Cantidad(consola'.a) /\ ~(consola'.i > 0)
      BY <2>4, <2>7
    <3>3. /\ consola'.i < Cantidad(consola'.a) /\ hechos' > 0
          /\ consola'.pc = "manda" => consola'.fd \in Fds
          /\ consola'.pc = "manda" \/ consola'.i > 0 => consola'.lugar \in Sitios
          /\ consola'.pc = "suma" => consola'.op = "md5" /\ consola'.i = Cantidad(consola'.a) - 1
          /\ consola'.pc = "avisa" => consola'.op = "cpto"
          /\ consola'.op = "cpto" => Len(cptos') > 0 /\ consola'.a = cptos'[Len(cptos')][2]
      BY <2>4, <2>5, <2>6, <3>1, <3>2
    <3> HIDE DEF T
    <3>4. QED
      BY <2>3, <3>3 DEF FormaConsola, T
  <2>9. ruta' \in [a : Rutas \cup {Otra}, liberada : BOOLEAN]
    <3>1. [a |-> c.ruta, liberada |-> FALSE] \in [a : Rutas \cup {Otra}, liberada : BOOLEAN]
      BY <2>2
    <3>2. CASE c.op = "cpto"
      BY <2>1, <3>1, <3>2
    <3>3. CASE c.op # "cpto"
      BY <2>1, <3>3 DEF FormaComandos
    <3>4. QED
      BY <3>2, <3>3
  <2>10. foto' \subseteq Nodos /\ cuenta' \in [Nodos -> Nat]
    BY <2>1 DEF Conectados, SinContar
  <2>11. QED
    BY <2>1, <2>6, <2>8, <2>9, <2>10 DEF FormaComandos
<1>2. ASSUME Elegir PROVE Meta
  <2>1. CASE UNCHANGED <<consola, hechos, foto, cuenta, mutexes, archivos, ruta,
                                          red, fallos, historia>>
    BY <2>1 DEF FormaConsola, FormaComandos, historia
  <2>2. ASSUME NEW flag \in BOOLEAN, NEW l \in Sitios,
               consola' = [consola EXCEPT !.pc = "manda", !.flag = flag, !.lugar = l,
                                          !.fd = socket[l[1]]],
               socket[l[1]] \in Fds, cuenta' \in [Nodos -> Nat],
               UNCHANGED <<hechos, foto, ruta, cptos>>
        PROVE  Meta
    <3>1. consola.pc = "elige" /\ consola \in T
      BY <1>2 DEF Elegir, FormaConsola, Libre
    <3>2. PICK fd : fd = socket[l[1]]
      OBVIOUS
    <3>3. fd \in Nat /\ fd \in Fds
      BY <2>2, <3>2 DEF Fds
    <3>4. consola' = [consola EXCEPT !.pc = "manda", !.flag = flag, !.lugar = l, !.fd = fd]
      BY <2>2, <3>2
    <3>5. /\ consola' \in T /\ consola'.pc = "manda" /\ consola'.fd = fd /\ consola'.lugar = l
          /\ consola'.op = consola.op /\ consola'.a = consola.a /\ consola'.i = consola.i
      BY <3>1, <3>3, <3>4
    <3>6. FormaConsola'
      BY <2>2, <3>1, <3>3, <3>5 DEF FormaConsola, Libre
    <3>7. QED
      BY <2>2, <3>6 DEF FormaComandos
  <2>3. QED
    BY <1>2, <2>1, <2>2, HaceElegir
<1>3. ASSUME Mandar PROVE Meta
  <2>1. /\ consola.pc = "manda" /\ consola.op \in Ops /\ consola.a \in Archivos
        /\ consola.i \in Nat /\ consola.i < Cantidad(consola.a)
        /\ consola' = IF consola.i + 1 < Cantidad(consola.a)
                      THEN [consola EXCEPT !.pc = "elige", !.i = @ + 1]
                      ELSE IF consola.op = "cat" THEN Libre
                      ELSE [consola EXCEPT !.pc = IF consola.op = "md5" THEN "suma" ELSE "avisa"]
        /\ consola.i + 1 < Cantidad(consola.a) \/ consola.i = Cantidad(consola.a) - 1
        /\ UNCHANGED <<hechos, foto, cuenta, cptos, ruta, suma>>
    BY <1>3, HaceMandar
  <2>2. consola \in T /\ consola.lugar \in Sitios
    BY <2>1 DEF FormaConsola, Libre
  <2>3. CASE consola.i + 1 < Cantidad(consola.a)
    <3>1. PICK j : j = consola.i + 1 /\ consola' = [consola EXCEPT !.pc = "elige", !.i = j]
      BY <2>1, <2>3
    <3>2. /\ consola' \in T /\ consola'.pc = "elige" /\ consola'.lugar = consola.lugar
          /\ consola'.op = consola.op /\ consola'.a = consola.a /\ consola'.i = consola.i + 1
      <4>1. j \in Nat
        BY <2>1, <3>1
      <4>2. QED
        BY <2>2, <3>1, <4>1
    <3>3. QED
      BY <2>1, <2>2, <2>3, <3>2 DEF FormaConsola, FormaComandos, Libre
  <2>4. CASE ~(consola.i + 1 < Cantidad(consola.a)) /\ consola.op = "cat"
    BY <2>1, <2>4 DEF FormaConsola, FormaComandos, Libre
  <2>5. CASE ~(consola.i + 1 < Cantidad(consola.a)) /\ consola.op # "cat"
    <3>1. PICK pc \in {"suma", "avisa"} : /\ pc = IF consola.op = "md5" THEN "suma" ELSE "avisa"
                                          /\ consola' = [consola EXCEPT !.pc = pc]
      BY <2>1, <2>5
    <3>2. /\ consola' \in T /\ consola'.pc = pc /\ consola'.lugar = consola.lugar
          /\ consola'.op = consola.op /\ consola'.a = consola.a /\ consola'.i = consola.i
      BY <2>2, <3>1
    <3>3. pc = "suma" => consola.op = "md5" /\ consola.i = Cantidad(consola.a) - 1
      BY <2>1, <2>5, <3>1
    <3>4. pc = "avisa" => consola.op = "cpto"
      BY <2>1, <2>5, <3>1 DEF Ops
    <3>5. QED
      BY <2>1, <2>2, <3>1, <3>2, <3>3, <3>4 DEF FormaConsola, FormaComandos, Libre
  <2>6. QED
    BY <2>3, <2>4, <2>5
<1>4. ASSUME Sumar PROVE Meta
  BY <1>4 DEF Sumar, FormaConsola, FormaComandos
<1>5. ASSUME Avisar PROVE Meta
  <2>1. consola' = Libre /\ ruta' = [ruta EXCEPT !.liberada = TRUE]
        /\ UNCHANGED <<hechos, foto, cuenta, cptos>>
    BY <1>5 DEF Avisar, historia
  <2>2. QED
    BY <2>1 DEF FormaConsola, FormaComandos
<1>6. ASSUME Ajena PROVE Meta
  <2>1. UNCHANGED <<consola, hechos, foto, cuenta, cptos, ruta, suma>>
    BY <1>6, AjenaNoPide
  <2>2. QED
    BY <2>1 DEF FormaConsola, FormaComandos
<1> HIDE DEF Meta
<1>7. QED
  BY <1>1, <1>2, <1>3, <1>4, <1>5, <1>6, Pasos

LEMMA CerrojosSiguen ==
  ASSUME Formas, Fichas, [Next]_vars
  PROVE  FormaCerrojos'
<1>1. Instancia
  BY Instancia
<1>2. ASSUME Comenzar \/ Avisar \/ MandarMuere \/ UNCHANGED vars PROVE FormaCerrojos'
  BY <1>2 DEF Comenzar, Avisar, MandarMuere, Morir, vars, mutexes, historia, Formas, FormaCerrojos
<1>3. ASSUME Elegir PROVE FormaCerrojos'
  <2>1. CASE fs' = "muerto" /\ UNCHANGED <<consola, hechos, foto, cuenta, mutexes, archivos, ruta,
                                           red, fallos, historia>>
    BY <2>1 DEF mutexes, historia, Formas, FormaCerrojos
  <2>2. ASSUME TomarMd5, raro' = raro \/ raro' = raro \cup {"basura"},
               UNCHANGED <<mutexCpto, ordenMd5, imprime, fs, fallos, pantalla>>
        PROVE  FormaCerrojos'
    BY <2>2 DEF Formas, FormaCerrojos, TomarMd5
  <2>3. QED
    BY <1>3, <2>1, <2>2, HaceElegir DEF Formas
<1>4. ASSUME Mandar PROVE FormaCerrojos'
  BY <1>4 DEF Mandar, TomarCpto, Formas, FormaCerrojos
<1>5. ASSUME Sumar PROVE FormaCerrojos'
  BY <1>5 DEF Sumar, Formas, FormaCerrojos
<1>6. ASSUME NEW f \in Fds, Contestar(f) \/ ContestarFuera(f) \/ Desconectar(f) PROVE FormaCerrojos'
  BY <1>6 DEF Contestar, ContestarFuera, Desconectar, mutexes, historia, Formas, FormaCerrojos
<1>7. ASSUME NEW n \in Nodos, Volver(n) PROVE FormaCerrojos'
  BY <1>7 DEF Volver, mutexes, historia, Formas, FormaCerrojos
<1>8. ASSUME NEW f \in Fds, Caer(f) PROVE FormaCerrojos'
  BY <1>1, <1>8 DEF Caer, mutexes, historia, Formas, FormaCerrojos, Instancia
<1>9. ASSUME NEW f \in Fds, LeerMd5(f) \/ LeerCptoMuere(f) PROVE FormaCerrojos'
  BY <1>9 DEF LeerMd5, Leer, LeerCptoMuere, Morir, mutexes, historia, Formas, FormaCerrojos
<1>10. ASSUME NEW f \in Fds, LeerCpto(f) PROVE FormaCerrojos'
  BY <1>10 DEF LeerCpto, Leer, Escribir, Formas, FormaCerrojos
<1>11. ASSUME NEW f \in Fds, LeerCat(f) PROVE FormaCerrojos'
  BY <1>11 DEF LeerCat, EmpezarImpresion, historia, Formas, FormaCerrojos
<1>12. ASSUME NEW f \in Fds, Imprimir(f) PROVE FormaCerrojos'
  <2>1. Head(aFS[f]) \in Respuesta
    BY <1>12, ViajaImprimir
  <2>2. /\ pantalla' = [a |-> Head(aFS[f]).a, orden |-> Head(aFS[f]).orden, i |-> Head(aFS[f]).i,
                        falta |-> Head(aFS[f]).falta, dato |-> Head(aFS[f]).dato,
                        veces |-> IF EsUltimo(Head(aFS[f])) THEN 2 ELSE 1]
        /\ UNCHANGED <<mutexMd5, mutexCpto, ordenMd5, fs, raro, fallos>> /\ imprime' = imprime \ {f}
    BY <1>12 DEF Imprimir, Leer
  <2>3. pantalla'.orden \in Nat /\ pantalla'.i \in Nat
    BY <2>1, <2>2, Cotas, Instancia DEF Respuesta
  <2>4. QED
    BY <2>2, <2>3 DEF Formas, FormaCerrojos
<1>13. QED
  BY <1>2, <1>3, <1>4, <1>5, <1>6, <1>7, <1>8, <1>9, <1>10, <1>11, <1>12
     DEF Next, PasoConsola, PasoHilo, PasoNodo

LEMMA RedIgual ==
  ASSUME [Next]_vars, \A f \in Fds : ~Desconectar(f) /\ ~ContestarFuera(f) /\ ~Caer(f),
         \A n \in Nodos : ~Volver(n)
  PROVE  UNCHANGED <<socket, quien, viva>>
<1> DEFINE Meta == UNCHANGED <<socket, quien, viva>>
<1>1. ASSUME Comenzar \/ Elegir \/ Sumar \/ Avisar \/ MandarMuere \/ UNCHANGED vars PROVE Meta
  BY <1>1 DEF Comenzar, Elegir, Sumar, Avisar, MandarMuere, Morir, vars, red
<1>2. ASSUME Mandar PROVE Meta
  BY <1>2 DEF Mandar
<1>3. ASSUME NEW f \in Fds, LeerMd5(f) \/ LeerCpto(f) \/ Imprimir(f) PROVE Meta
  BY <1>3 DEF LeerMd5, LeerCpto, Imprimir, Leer
<1>4. ASSUME NEW f \in Fds, LeerCat(f) \/ LeerCptoMuere(f) \/ Contestar(f) PROVE Meta
  BY <1>4 DEF LeerCat, LeerCptoMuere, Morir, red, Contestar
<1> HIDE DEF Meta
<1>5. Meta
  BY <1>1, <1>2, <1>3, <1>4 DEF Next, PasoConsola, PasoHilo, PasoNodo
<1>6. QED
  BY <1>5 DEF Meta

LEMMA HaceVolver ==
  ASSUME FormaRed, NEW n \in Nodos, Volver(n)
  PROVE  \E f \in Fds : /\ quien[f] = Nadie /\ quien' = [quien EXCEPT ![f] = n]
                        /\ viva' = viva \cup {f} /\ socket' = [socket EXCEPT ![n] = f]
<1>1. /\ \A f \in Fds : quien[f] # n
      /\ quien' = [quien EXCEPT ![Min({g \in Fds : quien[g] = Nadie})] = n]
      /\ viva' = viva \cup {Min({g \in Fds : quien[g] = Nadie})}
      /\ socket' = [socket EXCEPT ![n] = Min({g \in Fds : quien[g] = Nadie})]
  BY DEF Volver
<1>2. /\ Min({g \in Fds : quien[g] = Nadie}) \in Fds
      /\ quien[Min({g \in Fds : quien[g] = Nadie})] = Nadie
  BY <1>1, HayDescriptor DEF FormaRed
<1>3. PICK f : f = Min({g \in Fds : quien[g] = Nadie})
  OBVIOUS
<1>4. QED
  BY <1>1, <1>2, <1>3

LEMMA RedSigue ==
  ASSUME FormaRed, [Next]_vars
  PROVE  FormaRed'
<1>1. ASSUME NEW f \in Fds, ContestarFuera(f) \/ Caer(f) PROVE FormaRed'
  BY <1>1 DEF ContestarFuera, Caer, FormaRed
<1>2. ASSUME NEW f \in Fds, Desconectar(f) PROVE FormaRed'
  BY <1>2 DEF Desconectar, FormaRed
<1>3. ASSUME NEW n \in Nodos, Volver(n) PROVE FormaRed'
  <2>1. PICK f \in Fds : /\ quien[f] = Nadie /\ quien' = [quien EXCEPT ![f] = n]
                         /\ viva' = viva \cup {f} /\ socket' = [socket EXCEPT ![n] = f]
    BY <1>3, HaceVolver
  <2>2. \A g \in Fds : quien[g] # n
    BY <1>3 DEF Volver
  <2>3. n # Nadie
    BY Instancia
  <2>4. f \in Nat
    BY DEF Fds
  <2>5. QED
    BY <2>1, <2>2, <2>3, <2>4 DEF FormaRed
<1>4. CASE UNCHANGED <<socket, quien, viva>>
  BY <1>4 DEF FormaRed
<1>5. QED
  BY <1>1, <1>2, <1>3, <1>4, RedIgual

LEMMA BienSigue ==
  ASSUME NEW c, Bien(c), FormaComandos, [Next]_vars, c.orden \in Nat
  PROVE  Bien(c)'
<1>1. hechos' = hechos /\ cptos' = cptos => Bien(c)'
  BY DEF Bien
<1>2. ASSUME Comenzar PROVE Bien(c)'
  <2>1. hechos' = hechos + 1 /\ hechos \in Nat /\ cptos \in Seq((Rutas \cup {Otra}) \X Archivos)
    BY <1>2 DEF Comenzar, FormaComandos
  <2>2. c.orden <= hechos'
    BY <2>1 DEF Bien
  <2>3. cptos' = cptos \/ \E x \in (Rutas \cup {Otra}) \X Archivos : cptos' = Append(cptos, x)
    <3>1. PICK e \in [op : Ops, a : Archivos, ruta : Rutas \cup {Otra}] :
           /\ e.op = "cpto" => cptos' = Append(cptos, <<e.ruta, e.a>>)
           /\ e.op # "cpto" => cptos' = cptos
      BY <1>2, HaceComenzar
    <3>2. <<e.ruta, e.a>> \in (Rutas \cup {Otra}) \X Archivos
      OBVIOUS
    <3>3. QED
      BY <3>1, <3>2
  <2>4. \A k \in DOMAIN cptos : k \in DOMAIN cptos' /\ cptos'[k] = cptos[k]
    <3>1. PICK X, q, r : X = (Rutas \cup {Otra}) \X Archivos /\ q = cptos /\ r = cptos'
      OBVIOUS
    <3>2. q \in Seq(X) /\ (r = q \/ \E x \in X : r = Append(q, x))
      BY <2>1, <2>3, <3>1
    <3>3. \A k \in DOMAIN q : k \in DOMAIN r /\ r[k] = q[k]
      BY <3>2
    <3>4. QED
      BY <3>1, <3>3
  <2>5. c.op = "cpto" => c.orden \in DOMAIN cptos' /\ c.a = cptos'[c.orden][2]
    <3>1. c.op = "cpto" => c.orden \in DOMAIN cptos /\ c.a = cptos[c.orden][2]
      BY DEF Bien
    <3>2. QED
      BY <2>4, <3>1
  <2>6. c.i < Cantidad(c.a) /\ c.falta = Cantidad(c.a) - c.i
    BY DEF Bien
  <2>7. QED
    BY <2>2, <2>5, <2>6 DEF Bien
<1>3. CASE Elegir
  BY <1>1, <1>3 DEF Elegir, Morir, historia
<1>4. CASE Mandar
  BY <1>1, <1>4, HaceMandar DEF Mandar
<1>5. CASE Sumar \/ Avisar
  BY <1>1, <1>5 DEF Sumar, Avisar, historia
<1>6. CASE Ajena
  BY <1>1, <1>6, AjenaNoPide
<1>7. QED
  BY <1>2, <1>3, <1>4, <1>5, <1>6, Pasos

LEMMA CartaT ==
  ASSUME Formas, Fichas, NEW c \in EnViaje
  PROVE  /\ c.op \in Ops /\ c.a \in Archivos /\ c.i \in Nat /\ c.falta \in Nat /\ c.orden \in Nat
         /\ Bien(c)
<1>1. aNodo \in Colas(Pedido) /\ porLeer \in Colas(Respuesta)
  BY EnColas
<1>2. PICK f \in Fds : \E m \in Mensajes(aNodo, f) \cup Mensajes(porLeer, f) : c = Carta(m)
  BY EsCarta DEF EnViaje
<1>3. PICK m \in Mensajes(aNodo, f) \cup Mensajes(porLeer, f) : c = Carta(m)
  BY <1>2
<1>4. m \in Pedido \/ m \in Respuesta
  <2>1. PICK s, t : s = aNodo[f] /\ t = porLeer[f]
    OBVIOUS
  <2>2. s \in Seq(Pedido) /\ t \in Seq(Respuesta)
    BY <1>1, <2>1 DEF Colas
  <2>3. (\E j \in DOMAIN s : m = s[j]) \/ (\E j \in DOMAIN t : m = t[j])
    BY <1>3, <2>1 DEF Mensajes
  <2>4. QED
    BY <2>2, <2>3
<1>5. MaxBloques \in Nat /\ MaxComandos \in Nat
  BY Cotas, Instancia
<1>6. m.op \in Ops /\ m.a \in Archivos /\ m.i \in Nat /\ m.falta \in Nat /\ m.orden \in Nat
  BY <1>4, <1>5 DEF Pedido, Respuesta
<1>7. QED
  BY <1>3, <1>6 DEF Carta, Formas, FormaMensajes

LEMMA MensajesSiguen ==
  ASSUME Formas, Fichas, [Next]_vars
  PROVE  FormaMensajes'
<1> DEFINE Todas == \A c \in EnViaje' : c \in EnViaje \/ (c = Nueva /\ Bien(Nueva) /\ Nueva.orden \in Nat)
<1>1. ASSUME Todas PROVE (\A c \in EnViaje : Bien(c))'
  <2>1. ASSUME NEW c \in EnViaje' PROVE Bien(c)'
    <3>1. Bien(c) /\ c.orden \in Nat
      BY <1>1, <2>1, CartaT
    <3>2. QED
      BY <3>1, BienSigue DEF Formas
  <2>2. QED
    BY <2>1
<1>2. ASSUME Callada \/ UNCHANGED vars PROVE FormaMensajes'
  <2>1. SinTocar /\ EnViaje' = EnViaje
    BY <1>2, Quieta, ViajaIgual
  <2>2. \A f \in Fds : f \notin viva' => f \notin viva
    <3>1. CASE \E n \in Nodos : Volver(n)
      BY <3>1, HaceVolver DEF Formas
    <3>2. CASE \A n \in Nodos : ~Volver(n)
      <4>1. ASSUME NEW f \in Fds, Desconectar(f) PROVE viva' = viva
        BY <4>1 DEF Desconectar
      <4>2. ASSUME Comenzar \/ Elegir \/ Sumar \/ Avisar \/ MandarMuere \/ UNCHANGED vars
            PROVE  viva' = viva
        BY <4>2 DEF Comenzar, Elegir, Sumar, Avisar, MandarMuere, Morir, vars, red
      <4>3. ASSUME NEW f \in Fds, LeerCptoMuere(f) PROVE viva' = viva
        BY <4>3 DEF LeerCptoMuere, Morir, red
      <4>4. QED
        BY <1>2, <3>2, <4>1, <4>2, <4>3 DEF Callada
    <3>3. QED
      BY <3>1, <3>2
  <2>3. QED
    BY <1>1, <2>1, <2>2 DEF SinTocar, Formas, FormaMensajes
<1>3. ASSUME Mandar PROVE FormaMensajes'
  <2>1. /\ EnViaje' \subseteq EnViaje \cup {Nueva} /\ aNodo' \in Colas(Pedido) /\ Bien(Nueva)
        /\ \/ aNodo' = aNodo
           \/ consola.fd \in viva /\ \A f \in Fds : f # consola.fd => aNodo'[f] = aNodo[f]
    BY <1>3, ViajaMandar
  <2>2. viva' = viva /\ aFS' = aFS
    BY <1>3 DEF Mandar
  <2>3. hechos \in Nat /\ Len(cptos) \in Nat
    BY DEF Formas, FormaComandos
  <2>4. Todas
    BY <2>1, <2>3 DEF Nueva
  <2>5. QED
    BY <1>1, <2>1, <2>2, <2>4 DEF Colas, Formas, FormaMensajes
<1>4. ASSUME NEW f \in Fds, Contestar(f) PROVE FormaMensajes'
  <2>1. /\ EnViaje' \subseteq EnViaje /\ aNodo' \in Colas(Pedido) /\ aFS' \in Colas(Respuesta)
        /\ \A g \in Fds : aNodo[g] = <<>> => aNodo'[g] = <<>>
    BY <1>4, ViajaContestar
  <2>2. viva' = viva
    BY <1>4 DEF Contestar
  <2>3. QED
    BY <1>1, <2>1, <2>2 DEF Colas, Formas, FormaMensajes
<1>5. ASSUME NEW f \in Fds, Lectura(f) PROVE FormaMensajes'
  <2>1. EnViaje' \subseteq EnViaje /\ aNodo' = aNodo /\ aFS' \in Colas(Respuesta)
    BY <1>5, ViajaLeer
  <2>2. viva' = viva
    BY <1>5 DEF Lectura, LeerMd5, LeerCpto, LeerCat, Leer, red
  <2>3. QED
    BY <1>1, <2>1, <2>2 DEF Colas, Formas, FormaMensajes
<1>6. ASSUME NEW f \in Fds, Imprimir(f) PROVE FormaMensajes'
  <2>1. EnViaje' = EnViaje /\ aNodo' = aNodo /\ aFS' \in Colas(Respuesta)
    BY <1>6, ViajaImprimir
  <2>2. viva' = viva
    BY <1>6 DEF Imprimir, Leer
  <2>3. QED
    BY <1>1, <2>1, <2>2 DEF Colas, Formas, FormaMensajes
<1>7. ASSUME NEW f \in Fds, Caer(f) \/ ContestarFuera(f) PROVE FormaMensajes'
  <2>1. /\ EnViaje' \subseteq EnViaje /\ aNodo' \in Colas(Pedido) /\ aFS' = aFS
        /\ viva' = viva \ {f} /\ aNodo'[f] = <<>> /\ \A g \in Fds : g # f => aNodo'[g] = aNodo[g]
    BY <1>7, ViajaPerder
  <2>2. QED
    BY <1>1, <2>1 DEF Colas, Formas, FormaMensajes
<1>8. QED
  BY <1>2, <1>3, <1>4, <1>5, <1>6, <1>7, Clases

LEMMA AbiertoLleno ==
  ASSUME NEW a \in Archivos, NEW x \in {Nada} \cup Lleno(a), NEW v, NEW y \in Datos
  PROVE  /\ Abierto(x, Cantidad(a)) \in Lleno(a)
         /\ [Abierto(x, Cantidad(a)) EXCEPT ![v] = y] \in Lleno(a)
         /\ v \in 0..(Cantidad(a) - 1) => [Abierto(x, Cantidad(a)) EXCEPT ![v] = y][v] = y
         /\ \A j \in 0..(Cantidad(a) - 1) :
              j # v => [Abierto(x, Cantidad(a)) EXCEPT ![v] = y][j] = Abierto(x, Cantidad(a))[j]
         /\ x # Nada => Abierto(x, Cantidad(a)) = x
<1>1. Nada \in Datos
  BY DEF Datos
<1>2. Abierto(x, Cantidad(a)) \in Lleno(a)
  BY <1>1 DEF Abierto, Lleno
<1>3. PICK z \in Lleno(a) : z = Abierto(x, Cantidad(a))
  BY <1>2
<1>4. [z EXCEPT ![v] = y] \in Lleno(a)
  BY DEF Lleno
<1>5. v \in 0..(Cantidad(a) - 1) => [z EXCEPT ![v] = y][v] = y
  BY DEF Lleno
<1>6. \A j \in 0..(Cantidad(a) - 1) : j # v => [z EXCEPT ![v] = y][j] = z[j]
  BY DEF Lleno
<1>7. x # Nada => Abierto(x, Cantidad(a)) = x
  BY DEF Abierto
<1>8. QED
  BY <1>3, <1>4, <1>5, <1>6, <1>7

LEMMA DatoT ==
  ASSUME NEW r \in Respuesta
  PROVE  r.op \in Ops /\ r.a \in Archivos /\ r.i \in Nat /\ r.falta \in Nat /\ r.orden \in Nat
         /\ r.dato \in Datos
  BY Cotas, Instancia DEF Respuesta

LEMMA LlenoEs == \A a \in Archivos : Lleno(a) \in SUBSET Contenidos
  BY DEF Lleno, Contenidos

(* What a block of a cpto changes. *)
LEMMA HaceCpto ==
  ASSUME Formas, Fichas, NEW f \in Fds, LeerCpto(f)
  PROVE  \E d \in Rutas \cup {Otra} :
           LET r == Head(aFS[f])
               x == destino[d][r.a]
               v == anterior.cpto
               z == IF v < Cantidad(r.a) THEN [Abierto(x, Cantidad(r.a)) EXCEPT ![v] = r.dato]
                    ELSE Abierto(x, Cantidad(r.a))
           IN /\ destino' = [destino EXCEPT ![d][r.a] = z]
              /\ z \in Lleno(r.a) /\ x \in {Nada} \cup Lleno(r.a)
              /\ anterior' = [md5 |-> Desde(x, anterior.md5), cpto |-> v + 1]
              /\ raro' = raro \cup (IF d # cptos[r.orden][1] THEN {"ruta"} ELSE {})
                              \cup (IF x = Nada /\ anterior.md5 > 0 THEN {"md5"} ELSE {})
              /\ r \in Respuesta /\ r.op = "cpto"
<1>1. PICK d \in Destinos : Escribir(Head(aFS[f]), d)
  BY DEF LeerCpto
<1>2. d \in Rutas \cup {Otra}
  BY DEF Destinos, Formas, FormaComandos
<1>3. Head(aFS[f]) \in Respuesta /\ Head(aFS[f]).op = "cpto"
  BY ViajaLeer DEF Lectura, LeerCpto
<1>4. PICK r \in Respuesta : r = Head(aFS[f])
  BY <1>3
<1>5. r.a \in Archivos /\ r.dato \in Datos
  BY DatoT
<1>6. PICK x : x = destino[d][r.a]
  OBVIOUS
<1>7. x \in {Nada} \cup Lleno(r.a)
  BY <1>2, <1>5, <1>6 DEF Formas, FormaDestino
<1>8. PICK v : v = anterior.cpto
  OBVIOUS
<1>9. PICK z : z = IF v < Cantidad(r.a) THEN [Abierto(x, Cantidad(r.a)) EXCEPT ![v] = r.dato]
                   ELSE Abierto(x, Cantidad(r.a))
  OBVIOUS
<1>10. z \in Lleno(r.a)
  BY <1>5, <1>7, <1>9, AbiertoLleno
<1>11. /\ destino' = [destino EXCEPT ![d][r.a] = z]
       /\ anterior' = [md5 |-> Desde(x, anterior.md5), cpto |-> v + 1]
       /\ raro' = raro \cup (IF d # cptos[r.orden][1] THEN {"ruta"} ELSE {})
                       \cup (IF x = Nada /\ anterior.md5 > 0 THEN {"md5"} ELSE {})
  BY <1>1, <1>4, <1>6, <1>8, <1>9 DEF Escribir
<1>12. QED
  BY <1>2, <1>3, <1>4, <1>6, <1>7, <1>8, <1>9, <1>10, <1>11

LEMMA DestinoIgual ==
  ASSUME [Next]_vars, \A f \in Fds : ~LeerCpto(f)
  PROVE  destino' = destino /\ anterior'.cpto = anterior.cpto
         /\ ((\A f \in Fds : ~LeerMd5(f)) => anterior' = anterior /\ (temporal' = temporal \/ Sumar))
<1> DEFINE Meta == UNCHANGED <<destino, anterior, temporal>>
<1>1. ASSUME Comenzar \/ Elegir \/ Avisar \/ MandarMuere \/ Mandar \/ UNCHANGED vars PROVE Meta
  BY <1>1 DEF Comenzar, Elegir, Mandar, Avisar, MandarMuere, Morir, vars, archivos
<1>2. ASSUME Sumar PROVE UNCHANGED <<destino, anterior>>
  BY <1>2 DEF Sumar
<1>3. ASSUME NEW f \in Fds, LeerMd5(f)
      PROVE  destino' = destino /\ anterior'.cpto = anterior.cpto
  BY <1>3 DEF LeerMd5
<1>4. ASSUME NEW f \in Fds, LeerCat(f) \/ LeerCptoMuere(f) \/ Contestar(f) \/ ContestarFuera(f)
                              \/ Imprimir(f) \/ Desconectar(f) \/ Caer(f) PROVE Meta
  BY <1>4 DEF LeerCat, LeerCptoMuere, Morir, archivos, Contestar, ContestarFuera, Imprimir,
              Desconectar, Caer
<1>5. ASSUME NEW n \in Nodos, Volver(n) PROVE Meta
  BY <1>5 DEF Volver, archivos
<1>6. Meta \/ Sumar \/ \E f \in Fds : LeerMd5(f)
  <2> HIDE DEF Meta
  <2>1. QED
    BY <1>1, <1>4, <1>5 DEF Next, PasoConsola, PasoHilo, PasoNodo
<1>7. QED
  BY <1>2, <1>3, <1>6

LEMMA DestinoSigue ==
  ASSUME Formas, Fichas, [Next]_vars
  PROVE  FormaDestino'
<1>1. ASSUME NEW f \in Fds, LeerCpto(f) PROVE FormaDestino'
  <2>1. PICK r : r = Head(aFS[f])
    OBVIOUS
  <2>2. \E d \in Rutas \cup {Otra} : \E z \in Lleno(r.a) :
          /\ destino' = [destino EXCEPT ![d][r.a] = z]
          /\ \E x \in {Nada} \cup Lleno(r.a) : anterior' = [md5 |-> Desde(x, anterior.md5), cpto |-> anterior.cpto + 1]
          /\ r \in Respuesta
    BY <1>1, <2>1, HaceCpto
  <2>3. PICK d \in Rutas \cup {Otra}, z \in Lleno(r.a), x \in {Nada} \cup Lleno(r.a) :
          /\ destino' = [destino EXCEPT ![d][r.a] = z]
          /\ anterior' = [md5 |-> Desde(x, anterior.md5), cpto |-> anterior.cpto + 1]
          /\ r \in Respuesta
    BY <2>2
  <2>4. r.a \in Archivos /\ z \in Contenidos
    BY <2>3, DatoT, LlenoEs
  <2>5. anterior' \in [md5 : Nat, cpto : Nat]
    BY <2>3 DEF Desde, Formas, FormaDestino
  <2>6. destino' \in [Rutas \cup {Otra} -> [Archivos -> Contenidos]]
    BY <2>3, <2>4 DEF Formas, FormaDestino
  <2>7. \A e \in Rutas \cup {Otra}, a \in Archivos :
          destino'[e][a] = IF e = d /\ a = r.a THEN z ELSE destino[e][a]
    BY <2>3, <2>4 DEF Formas, FormaDestino
  <2>8. QED
    BY <2>4, <2>5, <2>6, <2>7 DEF Formas, FormaDestino
<1>2. ASSUME NEW f \in Fds, LeerMd5(f), \A g \in Fds : ~LeerCpto(g) PROVE FormaDestino'
  <2>1. destino' = destino
    BY <1>2, DestinoIgual
  <2>2. \E v : v = Desde(temporal, anterior.md5)
               /\ anterior' = [anterior EXCEPT !.md5 = IF EsUltimo(Head(aFS[f])) THEN 0 ELSE v + 1]
    BY <1>2 DEF LeerMd5
  <2>3. anterior' \in [md5 : Nat, cpto : Nat]
    BY <2>2 DEF Desde, Formas, FormaDestino
  <2>4. QED
    BY <2>1, <2>3 DEF Formas, FormaDestino
<1>3. CASE \A f \in Fds : ~LeerCpto(f) /\ ~LeerMd5(f)
  BY <1>3, DestinoIgual DEF Formas, FormaDestino
<1>4. QED
  BY <1>1, <1>2, <1>3

LEMMA FormasSiguen ==
  ASSUME Formas, Fichas, [Next]_vars
  PROVE  Formas'
  BY ConsolaSigue, CerrojosSiguen, DestinoSigue, RedSigue, MensajesSiguen DEF Formas

-----------------------------------------------------------------------------
(* The turns: whoever waits for an answer keeps its mutex taken. *)
LEMMA SoloMd5Aparte == \A o \in Ops : o # "md5" => o \in {"cat", "cpto"}
  BY DEF Ops

LEMMA FichasSiguen ==
  ASSUME Formas, Fichas, TurnoMd5, [Next]_vars
  PROVE  Fichas'
<1>1. ASSUME Callada \/ UNCHANGED vars PROVE Fichas'
  <2>1. /\ UNCHANGED <<aNodo, aFS, imprime>> /\ EnViaje' = EnViaje /\ porLeer' = porLeer
    BY <1>1, Quieta, ViajaIgual DEF SinTocar
  <2>2. CASE Elegir
    <3>1. CASE UNCHANGED <<consola, hechos, foto, cuenta, mutexes, archivos, ruta,
                           red, fallos, historia>>
      BY <2>1, <3>1 DEF Fichas, mutexes
    <3>2. ASSUME NEW flag \in BOOLEAN, NEW l \in Sitios,
                 consola' = [consola EXCEPT !.pc = "manda", !.flag = flag, !.lugar = l,
                                            !.fd = socket[l[1]]],
                 TomarMd5, mutexCpto' = mutexCpto
          PROVE  Fichas'
      <4>1. consola.pc = "elige" /\ consola'.op = consola.op
        BY <2>2, <3>2 DEF Elegir, Formas, FormaConsola, Libre
      <4>2. CASE consola.op = "md5"
        BY <2>1, <3>2, <4>1, <4>2 DEF Fichas, TomarMd5
      <4>3. CASE consola.op # "md5"
        BY <2>1, <3>2, <4>1, <4>3 DEF Fichas, TomarMd5
      <4>4. QED
        BY <4>2, <4>3
    <3>3. QED
      BY <2>2, <3>1, <3>2, HaceElegir DEF Formas
  <2>3. ASSUME mutexMd5' = mutexMd5, mutexCpto' = mutexCpto, consola' = consola \/ consola'.pc # "manda"
        PROVE  Fichas'
    BY <2>1, <2>3 DEF Fichas
  <2>4. CASE Comenzar
    <3>1. consola'.pc = "elige"
      BY <2>4, HaceComenzar DEF Formas
    <3>2. QED
      BY <2>3, <2>4, <3>1 DEF Comenzar, mutexes
  <2>5. CASE Sumar \/ Avisar
    BY <2>3, <2>5 DEF Sumar, Avisar, mutexes, Libre
  <2>6. CASE MandarMuere \/ UNCHANGED vars
    BY <2>3, <2>6 DEF MandarMuere, Morir, vars, mutexes
  <2>7. ASSUME NEW f \in Fds, LeerCptoMuere(f) \/ Desconectar(f) PROVE Fichas'
    BY <2>3, <2>7 DEF LeerCptoMuere, Desconectar, Morir, mutexes
  <2>8. ASSUME NEW n \in Nodos, Volver(n) PROVE Fichas'
    BY <2>3, <2>8 DEF Volver, mutexes
  <2>9. QED
    BY <1>1, <2>2, <2>4, <2>5, <2>6, <2>7, <2>8 DEF Callada
<1>2. ASSUME Mandar PROVE Fichas'
  <2>1. Exclusivas(aNodo', porLeer') /\ EnViaje' \subseteq EnViaje \cup {Nueva}
    BY <1>2, ViajaMandar
  <2>2. /\ UNCHANGED <<aFS, imprime, mutexMd5>> /\ consola.pc = "manda" /\ TomarCpto
    BY <1>2 DEF Mandar
  <2>3. consola'.pc # "manda"
    BY <1>2, TrasMandar DEF Formas
  <2>4. Nueva.op = consola.op
    BY DEF Nueva
  <2>5. CASE consola.op = "md5"
    <3>1. mutexMd5 /\ mutexCpto' = mutexCpto
      BY <2>2, <2>5 DEF TurnoMd5, EnMd5, TomarCpto
    <3>2. QED
      BY <2>1, <2>2, <2>3, <2>4, <2>5, <3>1 DEF Fichas
  <2>6. CASE consola.op # "md5"
    <3>1. mutexCpto' = TRUE
      BY <2>2, <2>6 DEF TomarCpto
    <3>2. QED
      BY <2>1, <2>2, <2>3, <2>4, <2>6, <3>1 DEF Fichas
  <2>7. QED
    BY <2>5, <2>6
<1>3. ASSUME NEW f \in Fds, Contestar(f) PROVE Fichas'
  <2>1. /\ Exclusivas(aNodo', porLeer') /\ EnViaje' \subseteq EnViaje
        /\ \A g \in imprime : Head(aFS'[g]) = Head(aFS[g]) /\ aFS'[g] # <<>>
    BY <1>3, ViajaContestar
  <2>2. UNCHANGED <<consola, mutexMd5, mutexCpto, imprime>>
    BY <1>3 DEF Contestar, mutexes
  <2>3. QED
    BY <2>1, <2>2 DEF Fichas
<1>4. ASSUME NEW f \in Fds, Lectura(f) PROVE Fichas'
  <2>1. /\ Exclusivas(aNodo', porLeer') /\ EnViaje' \subseteq EnViaje
        /\ aFS[f] # <<>> /\ f \notin imprime
        /\ \A g \in imprime : aFS'[g] = aFS[g]
        /\ Head(aFS[f]) \in Respuesta
        /\ \A c \in EnViaje' : ~MismoTurno(c.op, Head(aFS[f]).op)
    BY <1>4, ViajaLeer
  <2>2. CASE LeerMd5(f)
    <3>1. /\ Head(aFS[f]).op = "md5" /\ UNCHANGED <<consola, mutexCpto, imprime>>
      BY <2>2 DEF LeerMd5, Leer
    <3>2. \A c \in EnViaje' : c.op # "md5"
      BY <2>1, <3>1 DEF MismoTurno
    <3>3. QED
      BY <2>1, <3>1, <3>2 DEF Fichas
  <2>3. CASE LeerCpto(f)
    <3>1. /\ Head(aFS[f]).op = "cpto" /\ UNCHANGED <<consola, mutexMd5, imprime>>
      BY <2>3 DEF LeerCpto, Leer
    <3>2. \A c \in EnViaje' : c.op = "md5"
      BY <2>1, <3>1 DEF MismoTurno
    <3>3. QED
      BY <2>1, <3>1, <3>2 DEF Fichas
  <2>4. CASE LeerCat(f)
    <3>1. /\ Head(aFS[f]).op = "cat" /\ UNCHANGED <<consola, mutexMd5, aFS>> /\ imprime' = {f}
      BY <2>4 DEF LeerCat, EmpezarImpresion, red
    <3>2. \A c \in EnViaje' : c.op = "md5"
      BY <2>1, <3>1 DEF MismoTurno
    <3>3. QED
      BY <2>1, <3>1, <3>2 DEF Fichas
  <2>5. QED
    BY <1>4, <2>2, <2>3, <2>4 DEF Lectura
<1>5. ASSUME NEW f \in Fds, Imprimir(f) PROVE Fichas'
  <2>1. Exclusivas(aNodo', porLeer') /\ EnViaje' = EnViaje /\ imprime' = {}
    BY <1>5, ViajaImprimir
  <2>2. UNCHANGED <<consola, mutexMd5, mutexCpto>>
    BY <1>5 DEF Imprimir, Leer
  <2>3. QED
    BY <2>1, <2>2 DEF Fichas
<1>6. ASSUME NEW f \in Fds, Caer(f) \/ ContestarFuera(f) PROVE Fichas'
  <2>1. /\ Exclusivas(aNodo', porLeer') /\ EnViaje' \subseteq EnViaje
        /\ aFS' = aFS /\ imprime' = imprime
    BY <1>6, ViajaPerder
  <2>2. UNCHANGED <<consola, mutexMd5, mutexCpto>>
    BY <1>6 DEF Caer, ContestarFuera, mutexes
  <2>3. QED
    BY <2>1, <2>2 DEF Fichas
<1>7. QED
  BY <1>1, <1>2, <1>3, <1>4, <1>5, <1>6, Clases

-----------------------------------------------------------------------------
(* What the steps leave alone, for the invariants that follow. *)
Quietos == UNCHANGED <<mutexMd5, mutexCpto, ordenMd5, temporal, anterior, destino, raro>>

LEMMA SinLecturas ==
  ASSUME Ajena, \A f \in Fds : ~Lectura(f)
  PROVE  Quietos
<1>1. ASSUME MandarMuere PROVE Quietos
  BY <1>1 DEF MandarMuere, Morir, Quietos, mutexes, archivos, historia
<1>2. ASSUME UNCHANGED vars PROVE Quietos
  BY <1>2 DEF vars, Quietos, mutexes, archivos, historia
<1>3. ASSUME NEW f \in Fds, LeerCptoMuere(f) PROVE Quietos
  BY <1>3 DEF LeerCptoMuere, Morir, Quietos, mutexes, archivos, historia
<1>4. ASSUME NEW f \in Fds, Imprimir(f) PROVE Quietos
  BY <1>4 DEF Imprimir, Leer, Quietos, archivos
<1>5. ASSUME NEW f \in Fds, Desconectar(f) PROVE Quietos
  BY <1>5 DEF Desconectar, Quietos, mutexes, archivos, historia
<1>6. ASSUME NEW f \in Fds, PasoNodo(f) \/ Caer(f) PROVE Quietos
  BY <1>6 DEF PasoNodo, Contestar, ContestarFuera, Caer, Quietos, mutexes, archivos, historia
<1>7. ASSUME NEW n \in Nodos, Volver(n) PROVE Quietos
  BY <1>7 DEF Volver, Quietos, mutexes, archivos, historia
<1>8. QED
  BY <1>1, <1>2, <1>3, <1>4, <1>5, <1>6, <1>7 DEF Ajena, PasoHilo, Lectura

LEMMA ViajaAjena ==
  ASSUME Formas, Fichas, Ajena
  PROVE  EnViaje' \subseteq EnViaje
<1>1. ASSUME NEW f \in Fds, PasoNodo(f) PROVE EnViaje' \subseteq EnViaje
  BY <1>1, ViajaContestar, ViajaPerder DEF PasoNodo
<1>2. ASSUME NEW f \in Fds, Caer(f) PROVE EnViaje' \subseteq EnViaje
  BY <1>2, ViajaPerder
<1>3. ASSUME NEW f \in Fds, PasoHilo(f) PROVE EnViaje' \subseteq EnViaje
  <2>1. CASE Lectura(f)
    BY <2>1, ViajaLeer
  <2>2. CASE Imprimir(f)
    BY <2>2, ViajaImprimir
  <2>3. CASE LeerCptoMuere(f) \/ Desconectar(f)
    BY <2>3, Quieta, ViajaIgual DEF Callada
  <2>4. QED
    BY <1>3, <2>1, <2>2, <2>3 DEF PasoHilo, Lectura
<1>4. CASE MandarMuere \/ UNCHANGED vars \/ \E n \in Nodos : Volver(n)
  BY <1>4, Quieta, ViajaIgual DEF Callada
<1>5. QED
  BY <1>1, <1>2, <1>3, <1>4 DEF Ajena

(* What went wrong stays so. *)
LEMMA RaroCrece ==
  ASSUME Formas, Fichas, [Next]_vars
  PROVE  raro \subseteq raro'
<1>1. ASSUME Comenzar \/ Sumar \/ Avisar PROVE raro' = raro
  BY <1>1 DEF Comenzar, Sumar, Avisar, historia
<1>2. ASSUME Elegir PROVE raro \subseteq raro'
  BY <1>2, HaceElegir DEF Formas, historia
<1>3. ASSUME Mandar PROVE raro \subseteq raro'
  BY <1>3 DEF Mandar
<1>4. ASSUME NEW f \in Fds, Lectura(f) PROVE raro \subseteq raro'
  <2>1. CASE LeerMd5(f)
    BY <2>1 DEF LeerMd5
  <2>2. CASE LeerCpto(f)
    BY <2>2, HaceCpto
  <2>3. CASE LeerCat(f)
    BY <2>3 DEF LeerCat, historia
  <2>4. QED
    BY <1>4, <2>1, <2>2, <2>3 DEF Lectura
<1>5. ASSUME Ajena, \A f \in Fds : ~Lectura(f) PROVE raro \subseteq raro'
  BY <1>5, SinLecturas DEF Quietos
<1>6. QED
  BY <1>1, <1>2, <1>3, <1>4, <1>5, Pasos

LEMMA CuentaSigue ==
  ASSUME Formas, CuentaJusta, [Next]_vars
  PROVE  CuentaJusta'
<1> DEFINE M == MaxBloques
<1>1. M \in Nat /\ cuenta \in [Nodos -> Nat]
  BY Cotas DEF Formas, FormaComandos
<1>2. ASSUME Comenzar PROVE CuentaJusta'
  <2>1. cuenta' = SinContar /\ consola'.pc = "elige" /\ consola'.i = 0
    BY <1>2, HaceComenzar DEF Formas
  <2>2. QED
    BY <2>1 DEF CuentaJusta, SinContar
<1>3. ASSUME Elegir PROVE CuentaJusta'
  <2>1. CASE UNCHANGED <<consola, cuenta>>
    BY <2>1 DEF CuentaJusta
  <2>2. ASSUME NEW flag, NEW l, NEW fd,
               consola' = [consola EXCEPT !.pc = "manda", !.flag = flag, !.lugar = l, !.fd = fd],
               \A n \in Nodos : cuenta'[n] <= cuenta[n] + 1, cuenta' \in [Nodos -> Nat]
        PROVE  CuentaJusta'
    <3>1. consola.pc = "elige" /\ consola.i \in Nat /\ consola'.i = consola.i /\ consola'.pc = "manda"
      BY <1>3, <2>2 DEF Elegir, Formas, FormaConsola, Libre
    <3>2. \A n \in Nodos : cuenta[n] <= consola.i
      BY <3>1 DEF CuentaJusta
    <3>3. \A n \in Nodos : cuenta'[n] <= consola.i + 1
      BY <1>1, <2>2, <3>1, <3>2
    <3>4. QED
      BY <3>1, <3>3 DEF CuentaJusta
  <2>3. QED
    BY <1>3, <2>1, <2>2, HaceElegir DEF Formas
<1>4. ASSUME consola.pc \in {"manda", "suma", "avisa"}, cuenta' = cuenta,
             \/ consola'.pc = "elige" /\ consola'.i = consola.i + 1
             \/ consola' = Libre
             \/ consola'.pc \in {"suma", "avisa"} /\ consola'.i = consola.i
      PROVE  CuentaJusta'
  <2>1. \A n \in Nodos : cuenta[n] <= consola.i + 1
    BY <1>4 DEF CuentaJusta
  <2>2. consola.i \in Nat /\ consola.i < Cantidad(consola.a) /\ consola.a \in Archivos
    BY <1>4 DEF Formas, FormaConsola, Libre
  <2>3. consola.i + 1 <= M
    BY <2>2, Cotas
  <2>4. \A n \in Nodos : cuenta[n] <= M
    BY <1>1, <2>1, <2>2, <2>3
  <2>5. QED
    BY <1>4, <2>1, <2>4 DEF CuentaJusta, Libre
<1>5. ASSUME Mandar PROVE CuentaJusta'
  <2>1. consola.pc = "manda" /\ cuenta' = cuenta
    BY <1>5, HaceMandar DEF Formas
  <2>2. QED
    BY <1>4, <1>5, <2>1, TrasMandar DEF Formas
<1>6. ASSUME Sumar \/ Avisar PROVE CuentaJusta'
  BY <1>4, <1>6 DEF Sumar, Avisar
<1>7. ASSUME Ajena PROVE CuentaJusta'
  BY <1>7, AjenaNoPide DEF CuentaJusta
<1>8. QED
  BY <1>2, <1>3, <1>5, <1>6, <1>7, Pasos

-----------------------------------------------------------------------------
(* md5. *)
LEMMA EnMd5Es ==
  ASSUME Formas, EnMd5
  PROVE  /\ consola.pc \in {"elige", "manda", "suma"} /\ consola.op = "md5"
         /\ consola.a \in Archivos /\ consola.i \in Nat /\ consola.i < Cantidad(consola.a)
         /\ consola.pc = "suma" => consola.i = Cantidad(consola.a) - 1
  BY DEF EnMd5, Formas, FormaConsola, Libre

LEMMA LlenoNoVacio ==
  \A a \in Archivos : \A x \in Lleno(a) : x # Nada /\ DOMAIN x = 0..(Cantidad(a) - 1)
<1>1. ASSUME NEW a \in Archivos, NEW x \in Lleno(a)
      PROVE  x # Nada /\ DOMAIN x = 0..(Cantidad(a) - 1)
  <2>1. Cantidad(a) \in Nat \ {0}
    BY Cotas
  <2>2. DOMAIN x = 0..(Cantidad(a) - 1)
    BY DEF Lleno
  <2>3. 0 \in DOMAIN x
    BY <2>1, <2>2
  <2>4. 0 \notin DOMAIN Nada
    BY DEF Nada, Sin
  <2>5. QED
    BY <2>2, <2>3, <2>4
<1>2. QED
  BY <1>1

(* The answer of a md5: the block that follows. *)
LEMMA TurnoLeerMd5 ==
  ASSUME Formas, Fichas, TurnoMd5, Verdad, NEW f \in Fds, LeerMd5(f)
  PROVE  TurnoMd5'
<1> DEFINE r == Head(aFS[f])
           e == Escritos
           v == Desde(temporal, anterior.md5)
           n == Cantidad(consola.a)
           a == consola.a
<1>1. /\ EnViaje' \subseteq EnViaje /\ r \in Respuesta /\ r \in Mensajes(aFS, f)
      /\ Carta(r) \in EnViaje /\ \A c \in EnViaje' : ~MismoTurno(c.op, r.op)
  BY ViajaLeer DEF Lectura
<1>2. /\ r.op = "md5" /\ mutexMd5' = FALSE /\ consola' = consola /\ raro' = raro
      /\ temporal' = [Abierto(temporal, Cantidad(r.a)) EXCEPT ![v] = r.dato]
      /\ anterior' = [anterior EXCEPT !.md5 = IF EsUltimo(r) THEN 0 ELSE v + 1]
      /\ ordenMd5' = (ordenMd5 \/ EsUltimo(r))
  BY DEF LeerMd5, Leer
<1>3. /\ EnMd5 /\ consola.pc # "manda" /\ ~ordenMd5 /\ r.a = a /\ r.i = e
      /\ r.falta = Cantidad(r.a) - r.i /\ r.i < Cantidad(r.a)
  <2>1. Carta(r).op = "md5" /\ Carta(r).a = r.a /\ Carta(r).i = r.i /\ Carta(r).falta = r.falta
    BY <1>2 DEF Carta
  <2>2. Bien(Carta(r))
    BY <1>1 DEF Formas, FormaMensajes
  <2>3. QED
    BY <1>1, <2>1, <2>2 DEF TurnoMd5, Bien
<1>4. /\ consola.pc \in {"elige", "suma"} /\ a \in Archivos /\ consola.i \in Nat /\ consola.i < n
      /\ consola.pc = "suma" => consola.i = n - 1
  BY <1>3, EnMd5Es
<1>5. mutexMd5
  BY <1>1, <1>2, OpDeCarta DEF Fichas
<1>6. n \in Nat /\ n > 0
  BY <1>4, Cotas
<1>7. e \in Nat /\ IF consola.pc = "elige" THEN e = consola.i - 1 ELSE e = consola.i
  BY <1>3, <1>4, <1>5 DEF TurnoMd5, Escritos
<1>8. /\ anterior.md5 \in Nat /\ anterior.md5 <= e /\ (e = 0 => temporal = Nada)
      /\ e > 0 => temporal \in Lleno(a)
      /\ raro = {} /\ e > 0 => anterior.md5 = e /\ \A j \in 0..(e - 1) : temporal[j] = <<a, j>>
  BY <1>3 DEF TurnoMd5, Formas, FormaDestino
<1>9. v \in Nat /\ v <= e /\ (raro = {} => v = e)
  BY <1>4, <1>7, <1>8, LlenoNoVacio DEF Desde
<1>10. r.dato \in Datos /\ (raro = {} => r.dato = <<a, e>>)
  BY <1>1, <1>3, DatoT DEF Verdad
<1>11. temporal \in {Nada} \cup Lleno(a)
  BY <1>7, <1>8
<1>12. /\ temporal' \in Lleno(a)
       /\ v \in 0..(n - 1) => temporal'[v] = r.dato
       /\ \A j \in 0..(n - 1) : j # v /\ temporal # Nada => temporal'[j] = temporal[j]
  <2>1. temporal' = [Abierto(temporal, n) EXCEPT ![v] = r.dato]
    BY <1>2, <1>3
  <2>2. PICK y, w, x, d, b : y = temporal' /\ w = v /\ x = temporal /\ d = r.dato /\ b = a
    OBVIOUS
  <2>3. b \in Archivos /\ x \in {Nada} \cup Lleno(b) /\ d \in Datos
    BY <1>4, <1>10, <1>11, <2>2
  <2>4. y = [Abierto(x, Cantidad(b)) EXCEPT ![w] = d]
    BY <2>1, <2>2
  <2>5. /\ [Abierto(x, Cantidad(b)) EXCEPT ![w] = d] \in Lleno(b)
        /\ w \in 0..(Cantidad(b) - 1) => [Abierto(x, Cantidad(b)) EXCEPT ![w] = d][w] = d
        /\ \A j \in 0..(Cantidad(b) - 1) :
             j # w => [Abierto(x, Cantidad(b)) EXCEPT ![w] = d][j] = Abierto(x, Cantidad(b))[j]
        /\ x # Nada => Abierto(x, Cantidad(b)) = x
    BY <2>3, AbiertoLleno
  <2>6. /\ y \in Lleno(b) /\ (w \in 0..(Cantidad(b) - 1) => y[w] = d)
        /\ \A j \in 0..(Cantidad(b) - 1) : x # Nada /\ j # w => y[j] = x[j]
    BY <2>4, <2>5
  <2>7. QED
    BY <2>2, <2>6
<1>13. e \in 0..(n - 1)
  BY <1>3, <1>6, <1>7
<1>14. ASSUME raro = {} PROVE \A j \in 0..e : temporal'[j] = <<a, j>>
  <2>1. ASSUME NEW j \in 0..e, j # e PROVE temporal'[j] = <<a, j>>
    <3>1. e > 0 /\ j \in 0..(e - 1) /\ j \in 0..(n - 1)
      BY <1>13, <2>1, <1>6, <1>7
    <3>2. temporal # Nada /\ v = e
      BY <1>4, <1>8, <1>9, <1>14, <3>1, LlenoNoVacio
    <3>3. QED
      BY <1>8, <1>12, <1>14, <2>1, <3>1, <3>2
  <2>2. temporal'[e] = <<a, e>>
    BY <1>9, <1>10, <1>12, <1>13, <1>14
  <2>3. QED
    BY <2>1, <2>2
<1>15. \A c \in EnViaje' : c.op # "md5"
  BY <1>1, <1>2 DEF MismoTurno
<1>16. anterior'.md5 = IF EsUltimo(r) THEN 0 ELSE v + 1
  BY <1>2 DEF Formas, FormaDestino
<1>17. EsUltimo(r) <=> e = n - 1
  BY <1>3, <1>6, <1>7 DEF EsUltimo
<1> HIDE DEF r, e, v, n, a
<1>18. CASE consola.pc = "suma"
  <2>1. e = n - 1 /\ ordenMd5' /\ anterior'.md5 = 0
    BY <1>2, <1>4, <1>7, <1>16, <1>17, <1>18
  <2>2. raro = {} => temporal' = Bloques(consola.a)
    <3>1. DOMAIN temporal' = 0..(n - 1)
      BY <1>4, <1>12, LlenoNoVacio DEF n, a
    <3>2. PICK y : y = temporal'
      OBVIOUS
    <3>3. y \in Lleno(a)
      BY <1>12, <3>2
    <3>4. raro = {} => \A j \in 0..(n - 1) : y[j] = <<a, j>>
      BY <1>14, <2>1, <3>2
    <3>5. raro = {} => y = [j \in 0..(n - 1) |-> <<a, j>>]
      BY <3>3, <3>4 DEF Lleno, n, a
    <3>6. QED
      BY <3>2, <3>5 DEF Bloques, n, a
  <2>3. EnMd5'
    BY <1>2, <1>3 DEF EnMd5
  <2>4. temporal' \in Lleno(consola'.a) /\ (raro' = {} => temporal' = Bloques(consola'.a))
    BY <1>2, <1>12, <2>2 DEF a
  <2>5. QED
    BY <1>2, <1>15, <1>18, <2>1, <2>3, <2>4 DEF TurnoMd5
<1>19. CASE consola.pc = "elige"
  <2>1. e = consola.i - 1 /\ e < n - 1 /\ e + 1 = consola.i
    BY <1>4, <1>6, <1>7, <1>19 DEF n
  <2>2. ~EsUltimo(r)
    BY <1>7, <1>17, <2>1, <1>6
  <2>3. ~ordenMd5' /\ anterior'.md5 = v + 1
    BY <1>2, <1>3, <1>16, <2>2
  <2>4. PICK y : y = Escritos'
    OBVIOUS
  <2>5. y = consola.i
    BY <1>2, <2>4 DEF Escritos
  <2>6. y > 0 /\ v + 1 <= y /\ (raro = {} => v + 1 = y) /\ \A j \in 0..(y - 1) : j \in 0..e
    BY <1>7, <1>9, <2>1, <2>5
  <2>7. EnMd5' /\ consola'.pc = "elige"
    BY <1>2, <1>3, <1>19 DEF EnMd5
  <2>8. /\ anterior'.md5 <= y /\ y > 0 /\ temporal' \in Lleno(consola'.a)
        /\ raro' = {} => /\ anterior'.md5 = y
                         /\ \A j \in 0..(y - 1) : temporal'[j] = <<consola'.a, j>>
    BY <1>2, <1>12, <1>14, <2>3, <2>6 DEF a
  <2>9. QED
    BY <1>2, <1>15, <2>3, <2>4, <2>7, <2>8 DEF TurnoMd5
<1>20. QED
  BY <1>4, <1>18, <1>19

(* Nothing of md5 moves. *)
LEMMA TurnoMd5Igual ==
  ASSUME TurnoMd5, UNCHANGED <<consola, mutexMd5, ordenMd5, temporal>>,
         anterior'.md5 = anterior.md5, raro \subseteq raro', EnViaje' \subseteq EnViaje
  PROVE  TurnoMd5'
<1>1. EnMd5' = EnMd5 /\ Escritos' = Escritos
  BY DEF EnMd5, Escritos
<1>2. raro' = {} => raro = {}
  OBVIOUS
<1>3. QED
  BY <1>1, <1>2 DEF TurnoMd5

(* Nobody is in a md5, before and after. *)
LEMMA TurnoMd5Fuera ==
  ASSUME TurnoMd5, ~EnMd5, ~EnMd5', UNCHANGED <<mutexMd5, ordenMd5, temporal, anterior>>,
         \A c \in EnViaje' : c.op = "md5" => c \in EnViaje
  PROVE  TurnoMd5'
  BY DEF TurnoMd5

LEMMA TurnoLeerCpto ==
  ASSUME Formas, Fichas, TurnoMd5, [Next]_vars, NEW f \in Fds, LeerCpto(f)
  PROVE  TurnoMd5'
<1>1. /\ EnViaje' \subseteq EnViaje
  BY ViajaLeer DEF Lectura
<1>2. UNCHANGED <<consola, mutexMd5, ordenMd5, temporal>>
  BY DEF LeerCpto, Leer
<1>3. \E x : /\ anterior' = [md5 |-> Desde(x, anterior.md5), cpto |-> anterior.cpto + 1]
             /\ raro' = raro' \cup (IF x = Nada /\ anterior.md5 > 0 THEN {"md5"} ELSE {})
             /\ raro \subseteq raro'
  <2>1. PICK d : LET r == Head(aFS[f])
                     x == destino[d][r.a]
                 IN /\ anterior' = [md5 |-> Desde(x, anterior.md5), cpto |-> anterior.cpto + 1]
                    /\ raro' = raro \cup (IF d # cptos[r.orden][1] THEN {"ruta"} ELSE {})
                              \cup (IF x = Nada /\ anterior.md5 > 0 THEN {"md5"} ELSE {})
    BY HaceCpto
  <2>2. PICK x : x = destino[d][Head(aFS[f]).a]
    OBVIOUS
  <2>3. /\ anterior' = [md5 |-> Desde(x, anterior.md5), cpto |-> anterior.cpto + 1]
        /\ raro' = raro' \cup (IF x = Nada /\ anterior.md5 > 0 THEN {"md5"} ELSE {})
        /\ raro \subseteq raro'
    BY <2>1, <2>2
  <2>4. QED
    BY <2>3
<1>4. PICK x : /\ anterior' = [md5 |-> Desde(x, anterior.md5), cpto |-> anterior.cpto + 1]
               /\ raro' = raro' \cup (IF x = Nada /\ anterior.md5 > 0 THEN {"md5"} ELSE {})
               /\ raro \subseteq raro'
  BY <1>3
<1>5. anterior.md5 \in Nat
  BY DEF Formas, FormaDestino
<1>6. /\ anterior'.md5 \in {0, anterior.md5} /\ anterior'.md5 <= anterior.md5 /\ anterior'.md5 \in Nat
      /\ raro' = {} => anterior'.md5 = anterior.md5 /\ raro = {}
  BY <1>4, <1>5 DEF Desde
<1>7. EnMd5' = EnMd5 /\ Escritos' = Escritos
  BY <1>2 DEF EnMd5, Escritos
<1>8. /\ EnMd5 => Escritos \in Int
      /\ EnMd5' /\ ~ordenMd5' => anterior'.md5 <= Escritos'
  <2>1. ASSUME EnMd5 PROVE Escritos \in Int
    BY <2>1, EnMd5Es DEF Escritos
  <2>2. ASSUME EnMd5, ~ordenMd5 PROVE anterior'.md5 <= Escritos
    <3>1. anterior.md5 <= Escritos
      BY <2>2 DEF TurnoMd5
    <3>2. QED
      BY <1>5, <1>6, <2>1, <2>2, <3>1
  <2>3. QED
    BY <1>2, <1>7, <2>1, <2>2
<1>9. EnMd5' /\ ordenMd5' => anterior'.md5 = 0
  BY <1>2, <1>6, <1>7 DEF TurnoMd5
<1>10. ~EnMd5' => anterior'.md5 = 0
  BY <1>6, <1>7 DEF TurnoMd5
<1>11. QED
  BY <1>1, <1>2, <1>6, <1>7, <1>8, <1>9, <1>10 DEF TurnoMd5

LEMMA TurnoMd5Sigue ==
  ASSUME Formas, Fichas, TurnoMd5, Verdad, [Next]_vars
  PROVE  TurnoMd5'
<1>1. raro \subseteq raro'
  BY RaroCrece
<1>2. ASSUME Comenzar PROVE TurnoMd5'
  <2>1. /\ consola.pc = "libre" /\ consola'.pc = "elige" /\ consola'.i = 0
        /\ UNCHANGED <<mutexMd5, ordenMd5, temporal, anterior>> /\ EnViaje' = EnViaje
    <3>1. consola.pc = "libre" /\ UNCHANGED <<mutexMd5, ordenMd5, temporal, anterior>>
      BY <1>2 DEF Comenzar, mutexes, archivos
    <3>2. consola'.pc = "elige" /\ consola'.i = 0
      BY <1>2, HaceComenzar DEF Formas
    <3>3. EnViaje' = EnViaje
      BY <1>2, Quieta, ViajaIgual DEF Callada
    <3>4. QED
      BY <3>1, <3>2, <3>3
  <2>2. ~EnMd5 /\ ~mutexMd5 /\ ~ordenMd5 /\ temporal = Nada /\ anterior.md5 = 0
        /\ \A c \in EnViaje : c.op # "md5"
    BY <2>1 DEF TurnoMd5, EnMd5
  <2>3. PICK e : e = Escritos'
    OBVIOUS
  <2>4. e = 0
    BY <2>1, <2>2, <2>3 DEF Escritos
  <2>5. QED
    BY <2>1, <2>2, <2>3, <2>4 DEF TurnoMd5
<1>3. ASSUME Elegir PROVE TurnoMd5'
  <2>1. EnViaje' = EnViaje
    BY <1>3, Quieta, ViajaIgual DEF Callada
  <2>2. CASE UNCHANGED <<consola, hechos, foto, cuenta, mutexes, archivos, ruta,
                         red, fallos, historia>>
    BY <2>1, <2>2, TurnoMd5Igual DEF mutexes, archivos, historia
  <2>3. ASSUME NEW flag, NEW l, NEW fd, TomarMd5, UNCHANGED <<ordenMd5, archivos>>,
               consola' = [consola EXCEPT !.pc = "manda", !.flag = flag, !.lugar = l, !.fd = fd]
        PROVE  TurnoMd5'
    <3>1. /\ consola.pc = "elige" /\ consola.op \in Ops
          /\ consola'.pc = "manda" /\ consola'.op = consola.op
          /\ consola'.a = consola.a /\ consola'.i = consola.i
      BY <1>3, <2>3 DEF Elegir, Formas, FormaConsola, Libre
    <3>2. UNCHANGED <<ordenMd5, temporal, anterior>>
      BY <2>3 DEF archivos
    <3>3. CASE consola.op # "md5"
      BY <2>1, <2>3, <3>1, <3>2, <3>3, TurnoMd5Fuera DEF EnMd5, TomarMd5
    <3>4. CASE consola.op = "md5"
      <4>1. ~mutexMd5 /\ mutexMd5' = TRUE /\ EnMd5 /\ EnMd5'
        BY <2>3, <3>1, <3>4 DEF TomarMd5, EnMd5
      <4>2. Escritos' = Escritos
        BY <3>1, <4>1 DEF Escritos
      <4>3. ~ordenMd5 /\ \A c \in EnViaje : c.op # "md5"
        BY <3>1, <4>1 DEF TurnoMd5, Fichas
      <4>4. raro' = {} => raro = {}
        BY <1>1
      <4>5. QED
        BY <2>1, <3>1, <3>2, <4>1, <4>2, <4>3, <4>4 DEF TurnoMd5
    <3>5. QED
      BY <3>3, <3>4
  <2>4. QED
    BY <1>3, <2>2, <2>3, HaceElegir DEF Formas
<1>4. ASSUME Mandar PROVE TurnoMd5'
  <2>1. /\ EnViaje' \subseteq EnViaje \cup {Nueva}
        /\ UNCHANGED <<mutexMd5, ordenMd5, temporal, anterior>> /\ consola.pc = "manda"
    BY <1>4, ViajaMandar DEF Mandar, archivos
  <2>2. Nueva.op = consola.op /\ Nueva.a = consola.a /\ Nueva.i = consola.i
    BY DEF Nueva
  <2>3. CASE consola.op # "md5"
    <3>1. ~EnMd5 /\ ~EnMd5'
      BY <1>4, <2>3, TrasMandar DEF Formas, EnMd5
    <3>2. QED
      BY <2>1, <2>2, <2>3, <3>1, TurnoMd5Fuera
  <2>4. CASE consola.op = "md5"
    <3>1. /\ EnMd5 /\ mutexMd5 /\ ~ordenMd5 /\ consola.i \in Nat
          /\ \A c \in EnViaje : c.op # "md5"
      BY <2>1, <2>4, EnMd5Es DEF EnMd5, TurnoMd5, Fichas
    <3>2. /\ consola'.pc \in {"elige", "suma"} /\ consola'.op = "md5" /\ consola'.a = consola.a
          /\ consola'.pc = "elige" => consola'.i = consola.i + 1
          /\ consola'.pc = "suma" => consola'.i = consola.i
      BY <1>4, <2>4, TrasMandar DEF Formas
    <3>3. PICK e, i, j : e = Escritos' /\ i = consola.i /\ j = consola'.i
      OBVIOUS
    <3>4. e = i /\ Escritos = i
      BY <2>1, <3>1, <3>2, <3>3 DEF Escritos
    <3>5. EnMd5' /\ (consola'.pc = "elige" => j > 0)
      BY <3>1, <3>2, <3>3 DEF EnMd5
    <3>6. raro' = {} => raro = {}
      BY <1>1
    <3>7. \A c \in EnViaje' : c.op = "md5" => c.a = consola.a /\ c.i = i
      BY <2>1, <2>2, <3>1, <3>3
    <3>8. QED
      BY <2>1, <3>1, <3>2, <3>3, <3>4, <3>5, <3>6, <3>7 DEF TurnoMd5
  <2>5. QED
    BY <2>3, <2>4
<1>5. ASSUME Sumar PROVE TurnoMd5'
  <2>1. /\ EnViaje' = EnViaje /\ UNCHANGED <<mutexMd5, anterior>> /\ consola' = Libre
        /\ ordenMd5' = FALSE /\ temporal' = Nada /\ ordenMd5 /\ consola.pc = "suma"
    BY <1>5, Quieta, ViajaIgual DEF Callada, Sumar
  <2>2. EnMd5 /\ ~EnMd5'
    BY <2>1 DEF EnMd5, Formas, FormaConsola, Libre
  <2>3. QED
    BY <2>1, <2>2 DEF TurnoMd5
<1>6. ASSUME Avisar PROVE TurnoMd5'
  <2>1. /\ EnViaje' = EnViaje /\ UNCHANGED <<mutexMd5, ordenMd5, temporal, anterior>>
        /\ consola' = Libre /\ consola.pc = "avisa"
    BY <1>6, Quieta, ViajaIgual DEF Callada, Avisar, mutexes, archivos
  <2>2. ~EnMd5 /\ ~EnMd5'
    BY <2>1 DEF EnMd5, Formas, FormaConsola, Libre
  <2>3. QED
    BY <2>1, <2>2, TurnoMd5Fuera
<1>7. ASSUME Ajena PROVE TurnoMd5'
  <2>1. EnViaje' \subseteq EnViaje /\ consola' = consola
    BY <1>7, ViajaAjena, AjenaNoPide
  <2>2. ASSUME NEW f \in Fds, LeerCat(f) PROVE TurnoMd5'
    BY <1>1, <2>1, <2>2, TurnoMd5Igual DEF LeerCat, archivos
  <2>3. CASE \A f \in Fds : ~Lectura(f)
    BY <1>1, <1>7, <2>1, <2>3, SinLecturas, TurnoMd5Igual DEF Quietos
  <2>4. QED
    BY <2>2, <2>3, TurnoLeerMd5, TurnoLeerCpto DEF Lectura
<1>8. QED
  BY <1>2, <1>3, <1>4, <1>5, <1>6, <1>7, Pasos

LEMMA Md5Sigue ==
  ASSUME Formas, Fichas, TurnoMd5, Md5Correcto, [Next]_vars
  PROVE  Md5Correcto'
<1>1. raro \subseteq raro'
  BY RaroCrece
<1>2. ASSUME Sumar PROVE Md5Correcto'
  <2>1. /\ suma' = [a |-> consola.a, datos |-> temporal] /\ ordenMd5 /\ consola.pc = "suma"
    BY <1>2 DEF Sumar
  <2>2. EnMd5
    BY <2>1 DEF EnMd5, Formas, FormaConsola, Libre
  <2>3. raro = {} => temporal = Bloques(consola.a)
    BY <2>1, <2>2 DEF TurnoMd5
  <2>4. suma'.a = consola.a /\ suma'.datos = temporal
    BY <2>1
  <2>5. QED
    BY <1>1, <2>3, <2>4 DEF Md5Correcto
<1>3. ASSUME suma' = suma PROVE Md5Correcto'
  BY <1>1, <1>3 DEF Md5Correcto
<1>4. ASSUME Comenzar \/ Avisar \/ Mandar PROVE suma' = suma
  BY <1>4 DEF Comenzar, Avisar, Mandar, historia
<1>5. ASSUME Elegir PROVE suma' = suma
  BY <1>5 DEF Elegir, Morir, historia
<1>6. QED
  BY <1>2, <1>3, <1>4, <1>5, AjenaNoPide, Pasos

-----------------------------------------------------------------------------
(* The blocks that travel are the ones that were asked for. *)
Pedidas(p, q) == \A f \in Fds : \A m \in Mensajes(p, f) : EsCopia(q[f], m.num, m.a, m.i)
Traidas(s) == \A f \in Fds : \A m \in Mensajes(s, f) : m.dato = <<m.a, m.i>>
LaElegida == consola.pc = "manda" => EsCopia(consola.lugar[1], consola.lugar[2], consola.a, consola.i)

LEMMA VerdadEs == Verdad <=> (raro = {} => Pedidas(aNodo, quien) /\ Traidas(aFS) /\ LaElegida)
  BY DEF Verdad, Pedidas, Traidas, LaElegida

LEMMA PedidasMenos ==
  ASSUME NEW p, NEW q, NEW r, NEW s, Pedidas(p, q),
         \A f \in Fds : Mensajes(r, f) \subseteq Mensajes(p, f),
         \A f \in Fds : s[f] = q[f] \/ r[f] = <<>>
  PROVE  Pedidas(r, s)
<1>1. \A f \in Fds : r[f] = <<>> => Mensajes(r, f) = {}
  BY DEF Mensajes
<1>2. QED
  BY <1>1 DEF Pedidas

LEMMA QuienIgual ==
  ASSUME Ajena, \A f \in Fds : ~Desconectar(f), \A n \in Nodos : ~Volver(n)
  PROVE  quien' = quien
<1>1. ASSUME MandarMuere PROVE quien' = quien
  BY <1>1 DEF MandarMuere, Morir, red
<1>2. ASSUME UNCHANGED vars PROVE quien' = quien
  BY <1>2 DEF vars, red
<1>3. ASSUME NEW f \in Fds, PasoHilo(f) PROVE quien' = quien
  BY <1>3 DEF PasoHilo, LeerMd5, LeerCpto, LeerCptoMuere, LeerCat, Imprimir, Leer, Morir, red
<1>4. ASSUME NEW f \in Fds, PasoNodo(f) \/ Caer(f) PROVE quien' = quien
  BY <1>4 DEF PasoNodo, Contestar, ContestarFuera, Caer
<1>5. QED
  BY <1>1, <1>2, <1>3, <1>4 DEF Ajena

LEMMA VerdadSigue ==
  ASSUME Formas, Fichas, Verdad, [Next]_vars
  PROVE  Verdad'
<1> SUFFICES ASSUME raro' = {}
             PROVE  Pedidas(aNodo', quien') /\ Traidas(aFS') /\ LaElegida'
  BY VerdadEs DEF Verdad, Pedidas, Traidas, LaElegida
<1>1. raro = {}
  BY RaroCrece
<1>2. Pedidas(aNodo, quien) /\ Traidas(aFS) /\ LaElegida
  BY <1>1, VerdadEs
<1>3. ASSUME Comenzar \/ Sumar \/ Avisar
      PROVE  Pedidas(aNodo', quien') /\ Traidas(aFS') /\ LaElegida'
  <2>1. UNCHANGED <<aNodo, aFS, quien>>
    BY <1>3 DEF Comenzar, Sumar, Avisar, red
  <2>2. consola'.pc # "manda"
    <3>1. CASE Comenzar
      BY <3>1, HaceComenzar DEF Formas
    <3>2. CASE Sumar \/ Avisar
      BY <3>2 DEF Sumar, Avisar, Libre
    <3>3. QED
      BY <1>3, <3>1, <3>2
  <2>3. QED
    BY <1>2, <2>1, <2>2 DEF LaElegida
<1>4. ASSUME Elegir PROVE Pedidas(aNodo', quien') /\ Traidas(aFS') /\ LaElegida'
  <2>1. CASE UNCHANGED <<consola, hechos, foto, cuenta, mutexes, archivos, ruta,
                         red, fallos, historia>>
    BY <1>2, <2>1 DEF LaElegida, red
  <2>2. ASSUME NEW flag, NEW l, NEW fd,
               consola' = [consola EXCEPT !.pc = "manda", !.flag = flag, !.lugar = l, !.fd = fd],
               \/ raro' = raro /\ EsCopia(l[1], l[2], consola.a, consola.i)
               \/ raro' = raro \cup {"basura"},
               UNCHANGED red
        PROVE  Pedidas(aNodo', quien') /\ Traidas(aFS') /\ LaElegida'
    <3>1. EsCopia(l[1], l[2], consola.a, consola.i)
      BY <2>2
    <3>2. consola'.lugar = l /\ consola'.a = consola.a /\ consola'.i = consola.i
      BY <1>4, <2>2 DEF Elegir, Formas, FormaConsola, Libre
    <3>3. QED
      BY <1>2, <2>2, <3>1, <3>2 DEF LaElegida, red
  <2>3. QED
    BY <1>4, <2>1, <2>2, HaceElegir DEF Formas
<1>5. ASSUME Mandar PROVE Pedidas(aNodo', quien') /\ Traidas(aFS') /\ LaElegida'
  <2>1. UNCHANGED <<aFS, quien>> /\ consola.pc = "manda"
        /\ (consola.fd \in viva => quien[consola.fd] = consola.lugar[1])
    BY <1>5 DEF Mandar
  <2>2. LaElegida'
    BY <1>5, TrasMandar DEF Formas, LaElegida
  <2>3. EsCopia(consola.lugar[1], consola.lugar[2], consola.a, consola.i)
    BY <1>2, <2>1 DEF LaElegida
  <2>4. CASE aNodo' = aNodo
    BY <1>2, <2>1, <2>2, <2>4
  <2>5. CASE /\ consola.fd \in viva
             /\ \A f \in Fds : Mensajes(aNodo', f) \subseteq
                  Mensajes(aNodo, f) \cup {m \in Pedido : /\ f = consola.fd /\ Carta(m) = Nueva
                                                          /\ m.num = consola.lugar[2]}
    <3>1. ASSUME NEW f \in Fds, NEW m \in Mensajes(aNodo', f)
          PROVE  EsCopia(quien[f], m.num, m.a, m.i)
      <4>1. CASE m \in Mensajes(aNodo, f)
        BY <1>2, <4>1 DEF Pedidas
      <4>2. CASE f = consola.fd /\ Carta(m) = Nueva /\ m.num = consola.lugar[2]
        <5>1. m.a = consola.a /\ m.i = consola.i
          BY <4>2 DEF Carta, Nueva
        <5>2. quien[f] = consola.lugar[1]
          BY <2>1, <2>5, <4>2
        <5>3. QED
          BY <2>3, <4>2, <5>1, <5>2
      <4>3. QED
        BY <2>5, <3>1, <4>1, <4>2
    <3>2. QED
      BY <1>2, <2>1, <2>2, <3>1 DEF Pedidas
  <2>6. QED
    BY <1>5, <2>4, <2>5, ViajaMandar
<1>6. ASSUME Ajena PROVE Pedidas(aNodo', quien') /\ Traidas(aFS') /\ LaElegida'
  <2>1. LaElegida'
    BY <1>2, <1>6, AjenaNoPide DEF LaElegida
  <2>2. ASSUME NEW f \in Fds, Contestar(f) PROVE Pedidas(aNodo', quien') /\ Traidas(aFS')
    <3>1. /\ \A g \in Fds : Mensajes(aNodo', g) \subseteq Mensajes(aNodo, g)
          /\ \A g \in Fds : Mensajes(aFS', g) \subseteq Mensajes(aFS, g) \cup
              {r \in Respuesta : \E m \in Mensajes(aNodo, f) : /\ Carta(m) = Carta(r)
                                                               /\ r.dato = Contenido(quien[f], m.num)}
      BY <2>2, ViajaContestar
    <3>2. quien' = quien
      BY <2>2 DEF Contestar
    <3>3. ASSUME NEW g \in Fds, NEW r \in Mensajes(aFS', g) PROVE r.dato = <<r.a, r.i>>
      <4>1. CASE r \in Mensajes(aFS, g)
        BY <1>2, <4>1 DEF Traidas
      <4>2. ASSUME NEW m \in Mensajes(aNodo, f), Carta(m) = Carta(r),
                   r.dato = Contenido(quien[f], m.num)
            PROVE  r.dato = <<r.a, r.i>>
        <5>1. m.a = r.a /\ m.i = r.i
          BY <4>2 DEF Carta
        <5>2. EsCopia(quien[f], m.num, m.a, m.i)
          BY <1>2 DEF Pedidas
        <5>3. Carta(m) \in EnViaje /\ Carta(m).a = m.a /\ Carta(m).i = m.i
          BY EsCarta DEF EnViaje, Carta
        <5>4. Bien(Carta(m)) /\ m.a \in Archivos /\ m.i \in Nat
          BY <5>3, CartaT
        <5>5. m.i < Cantidad(m.a)
          BY <5>3, <5>4 DEF Bien
        <5>6. m.i \in 0..(Cantidad(m.a) - 1)
          BY <5>4, <5>5, Cotas
        <5>7. Contenido(quien[f], m.num) = <<m.a, m.i>>
          BY <5>2, <5>4, <5>6, Leida
        <5>8. QED
          BY <4>2, <5>1, <5>7
      <4>3. QED
        BY <3>1, <3>3, <4>1, <4>2
    <3>4. QED
      BY <1>2, <3>1, <3>2, <3>3, PedidasMenos DEF Traidas
  <2>3. ASSUME NEW f \in Fds, Lectura(f) \/ Imprimir(f) PROVE Pedidas(aNodo', quien') /\ Traidas(aFS')
    <3>1. aNodo' = aNodo /\ \A g \in Fds : Mensajes(aFS', g) \subseteq Mensajes(aFS, g)
      BY <2>3, ViajaLeer, ViajaImprimir
    <3>2. quien' = quien
      BY <2>3 DEF Lectura, LeerMd5, LeerCpto, LeerCat, Imprimir, Leer, red
    <3>3. QED
      BY <1>2, <3>1, <3>2 DEF Traidas
  <2>4. ASSUME NEW f \in Fds, Caer(f) \/ ContestarFuera(f) PROVE Pedidas(aNodo', quien') /\ Traidas(aFS')
    <3>1. aFS' = aFS /\ \A g \in Fds : Mensajes(aNodo', g) \subseteq Mensajes(aNodo, g)
      BY <2>4, ViajaPerder
    <3>2. quien' = quien
      BY <2>4 DEF Caer, ContestarFuera
    <3>3. QED
      BY <1>2, <3>1, <3>2, PedidasMenos
  <2>5. ASSUME NEW f \in Fds, Desconectar(f) PROVE Pedidas(aNodo', quien') /\ Traidas(aFS')
    <3>1. /\ aNodo' = aNodo /\ aFS' = aFS /\ f \notin viva /\ quien' = [quien EXCEPT ![f] = Nadie]
      BY <2>5 DEF Desconectar
    <3>2. aNodo'[f] = <<>> /\ \A g \in Fds : g # f => quien'[g] = quien[g]
      BY <3>1 DEF Formas, FormaMensajes, FormaRed
    <3>3. \A g \in Fds : Mensajes(aNodo', g) \subseteq Mensajes(aNodo, g)
      BY <3>1
    <3>4. \A g \in Fds : quien'[g] = quien[g] \/ aNodo'[g] = <<>>
      BY <3>2
    <3>5. Pedidas(aNodo', quien')
      BY <1>2, <3>3, <3>4, PedidasMenos
    <3>6. QED
      BY <1>2, <3>1, <3>5
  <2>6. ASSUME NEW n \in Nodos, Volver(n) PROVE Pedidas(aNodo', quien') /\ Traidas(aFS')
    <3>1. PICK f \in Fds : quien[f] = Nadie /\ quien' = [quien EXCEPT ![f] = n]
      BY <2>6, HaceVolver DEF Formas
    <3>2. aNodo' = aNodo /\ aFS' = aFS
      BY <2>6 DEF Volver
    <3>3. aNodo'[f] = <<>> /\ \A g \in Fds : g # f => quien'[g] = quien[g]
      BY <3>1, <3>2 DEF Formas, FormaMensajes, FormaRed
    <3>4. QED
      BY <1>2, <3>2, <3>3, PedidasMenos
  <2>7. CASE MandarMuere \/ UNCHANGED vars \/ \E f \in Fds : LeerCptoMuere(f)
    <3>1. aNodo' = aNodo /\ aFS' = aFS /\ quien' = quien
      BY <2>7 DEF MandarMuere, LeerCptoMuere, Morir, vars, red
    <3>2. QED
      BY <1>2, <2>1, <3>1
  <2>8. QED
    BY <1>6, <2>1, <2>2, <2>3, <2>4, <2>5, <2>6, <2>7 DEF Ajena, PasoHilo, PasoNodo, Lectura
<1>7. QED
  BY <1>3, <1>4, <1>5, <1>6, Pasos

-----------------------------------------------------------------------------
(* cpto: no more blocks are written than were asked for. *)
LEMMA PorMas ==
  ASSUME NEW h \in Nat, NEW M \in Nat
  PROVE  /\ h * M \in Nat /\ (h + 1) * M = h * M + M
         /\ h > 0 => (h - 1) * M \in Nat /\ (h - 1) * M + M = h * M
<1>1. \A i, j \in Nat : i * j \in Nat
  OBVIOUS
<1>2. h * M \in Nat /\ (h + 1) * M = h * M + M
  BY <1>1
<1>3. h > 0 => h - 1 \in Nat /\ (h - 1) * M + M = h * M
  OBVIOUS
<1>4. QED
  BY <1>1, <1>2, <1>3

LEMMA TopeT ==
  ASSUME Formas
  PROVE  /\ Tope \in Nat /\ anterior.cpto \in Nat /\ hechos \in Nat
         /\ Tope <= hechos * MaxBloques
<1>1. PICK h, M : h = hechos /\ M = MaxBloques
  OBVIOUS
<1>2. h \in Nat /\ M \in Nat
  BY <1>1, Cotas DEF Formas, FormaComandos
<1>3. /\ h * M \in Nat /\ (h + 1) * M = h * M + M
      /\ h > 0 => (h - 1) * M \in Nat /\ (h - 1) * M + M = h * M
  BY <1>2, PorMas
<1>4. Pide("cpto") => /\ h > 0 /\ consola.i \in Nat /\ consola.i < Cantidad(consola.a)
                      /\ consola.a \in Archivos
  BY <1>1 DEF Pide, Formas, FormaConsola, Libre
<1>5. Pide("cpto") => consola.i <= M /\ consola.i \in Nat
  BY <1>1, <1>4, Cotas
<1>6. Tope = IF Pide("cpto") THEN (h - 1) * M + consola.i ELSE h * M
  BY <1>1 DEF Tope, Pide
<1>7. Tope \in Nat /\ Tope <= h * M
  <2>1. PICK x, y, i : x = (h - 1) * M /\ y = h * M /\ i = consola.i
    OBVIOUS
  <2>2. CASE Pide("cpto")
    <3>1. x \in Nat /\ x + M = y
      BY <1>3, <1>4, <2>1, <2>2
    <3>2. i \in Nat /\ i <= M /\ Tope = x + i
      BY <1>5, <1>6, <2>1, <2>2
    <3>3. QED
      BY <1>2, <2>1, <3>1, <3>2
  <2>3. CASE ~Pide("cpto")
    BY <1>3, <1>6, <2>3
  <2>4. QED
    BY <2>2, <2>3
<1>8. QED
  BY <1>1, <1>2, <1>7 DEF Formas, FormaDestino

(* The same, for the next state. *)
TopeBien == Tope \in Nat /\ anterior.cpto \in Nat

LEMMA TopeSiempre == Formas => TopeBien
  BY TopeT DEF TopeBien

LEMMA TopeIgual ==
  ASSUME hechos' = hechos, Pide("cpto")' <=> Pide("cpto"), Pide("cpto") => consola'.i = consola.i
  PROVE  Tope' = Tope
  BY DEF Tope, Pide

LEMMA SinPasarseSigue ==
  ASSUME Formas, Fichas, SinPasarse, Formas', [Next]_vars
  PROVE  SinPasarse'
<1>1. /\ Tope \in Nat /\ Tope' \in Nat /\ anterior.cpto \in Nat /\ anterior'.cpto \in Nat
      /\ anterior.cpto <= Tope
  <2>1. Tope \in Nat /\ anterior.cpto \in Nat /\ anterior.cpto <= Tope
    BY TopeT DEF SinPasarse
  <2>2. TopeBien'
    BY TopeSiempre, PTL
  <2>3. QED
    BY <2>1, <2>2 DEF TopeBien
<1>2. ASSUME anterior' = anterior, Tope' >= Tope,
             Tope' > Tope \/ \A c \in EnViaje' : c.op = "cpto" => c \in EnViaje
      PROVE  SinPasarse'
  <2>1. PICK x, t, u : x = anterior.cpto /\ t = Tope /\ u = Tope'
    OBVIOUS
  <2>2. x \in Nat /\ t \in Nat /\ u \in Nat /\ x <= t /\ t <= u
    BY <1>1, <1>2, <2>1
  <2>3. CASE u > t
    BY <1>2, <2>1, <2>2, <2>3 DEF SinPasarse
  <2>4. CASE \A c \in EnViaje' : c.op = "cpto" => c \in EnViaje
    <3>1. \A c \in EnViaje' : c.op = "cpto" => x < t
      BY <2>1, <2>4 DEF SinPasarse
    <3>2. \A c \in EnViaje' : c.op = "cpto" => x < u
      BY <2>2, <3>1
    <3>3. QED
      BY <1>2, <2>1, <2>2, <3>2 DEF SinPasarse
  <2>5. QED
    BY <1>2, <2>1, <2>3, <2>4
<1>3. ASSUME Comenzar PROVE SinPasarse'
  <2>1. /\ anterior' = anterior /\ consola.pc = "libre" /\ hechos' = hechos + 1
    BY <1>3 DEF Comenzar, archivos
  <2>2. consola'.pc = "elige" /\ consola'.i = 0
    BY <1>3, HaceComenzar DEF Formas
  <2>3. EnViaje' = EnViaje
    BY <1>3, Quieta, ViajaIgual DEF Callada
  <2>4. PICK h, M, t, u : h = hechos /\ M = MaxBloques /\ t = Tope /\ u = Tope'
    OBVIOUS
  <2>5. h \in Nat /\ M \in Nat
    BY <2>4, TopeT, Cotas
  <2>6. t = h * M
    BY <2>1, <2>4 DEF Tope
  <2>7. u = (hechos' - 1) * M + 0 \/ u = hechos' * M
    BY <2>2, <2>4 DEF Tope
  <2>8. u >= t
    <3>1. PICK k : k = hechos'
      OBVIOUS
    <3>2. k = h + 1 /\ k - 1 = h
      BY <2>1, <2>4, <2>5, <3>1
    <3>3. u = h * M + 0 \/ u = (h + 1) * M
      BY <2>7, <3>1, <3>2
    <3>4. h * M \in Nat /\ (h + 1) * M = h * M + M
      BY <2>5, PorMas
    <3>5. PICK x, y : x = h * M /\ y = (h + 1) * M
      OBVIOUS
    <3>6. QED
      BY <2>5, <2>6, <3>3, <3>4, <3>5
  <2>9. QED
    BY <1>2, <2>1, <2>3, <2>4, <2>8
<1>4. ASSUME Elegir PROVE SinPasarse'
  <2>1. EnViaje' = EnViaje
    BY <1>4, Quieta, ViajaIgual DEF Callada
  <2>2. CASE UNCHANGED <<consola, hechos, foto, cuenta, mutexes, archivos, ruta,
                         red, fallos, historia>>
    <3>1. anterior' = anterior /\ Tope' = Tope
      BY <2>2, TopeIgual DEF archivos, Pide
    <3>2. QED
      BY <1>1, <1>2, <2>1, <3>1
  <2>3. ASSUME NEW flag, NEW l, NEW fd,
               consola' = [consola EXCEPT !.pc = "manda", !.flag = flag, !.lugar = l, !.fd = fd],
               UNCHANGED <<hechos, archivos>>
        PROVE  SinPasarse'
    <3>1. consola.pc = "elige" /\ consola'.pc = "manda" /\ consola'.op = consola.op /\ consola'.i = consola.i
      BY <1>4, <2>3 DEF Elegir, Formas, FormaConsola, Libre
    <3>2. anterior' = anterior /\ Tope' = Tope
      BY <2>3, <3>1, TopeIgual DEF archivos, Pide
    <3>3. QED
      BY <1>1, <1>2, <2>1, <3>2
  <2>4. QED
    BY <1>4, <2>2, <2>3, HaceElegir DEF Formas
<1>5. ASSUME Mandar PROVE SinPasarse'
  <2>1. /\ anterior' = anterior /\ EnViaje' \subseteq EnViaje \cup {Nueva} /\ consola.pc = "manda"
        /\ hechos' = hechos /\ Nueva.op = consola.op
    BY <1>5, ViajaMandar DEF Mandar, archivos, Nueva
  <2>2. CASE consola.op # "cpto"
    <3>1. ~Pide("cpto") /\ ~Pide("cpto")'
      BY <1>5, <2>2, TrasMandar DEF Formas, Pide
    <3>2. Tope' = Tope
      BY <2>1, <3>1, TopeIgual
    <3>3. QED
      BY <1>1, <1>2, <2>1, <2>2, <3>2
  <2>3. CASE consola.op = "cpto"
    <3>1. PICK h, M, i, t, u : h = hechos /\ M = MaxBloques /\ i = consola.i /\ t = Tope /\ u = Tope'
      OBVIOUS
    <3>2. i \in Nat /\ i < Cantidad(consola.a) /\ consola.a \in Archivos /\ h > 0
      BY <2>1, <3>1 DEF Formas, FormaConsola, Libre
    <3>3. h \in Nat /\ M \in Nat /\ i + 1 <= M
      BY <3>1, <3>2, TopeT, Cotas
    <3>4. t = (h - 1) * M + i
      BY <2>1, <2>3, <3>1 DEF Tope
    <3>5. u = (h - 1) * M + (i + 1) \/ u = h * M
      BY <1>5, <2>1, <2>3, <3>1, TrasMandar DEF Tope, Formas
    <3>6. /\ (h - 1) * M \in Nat /\ (h - 1) * M + M = h * M
      BY <3>2, <3>3, PorMas
    <3>7. PICK x, y : x = (h - 1) * M /\ y = h * M
      OBVIOUS
    <3>8. u > t
      BY <3>2, <3>3, <3>4, <3>5, <3>6, <3>7
    <3>9. QED
      BY <1>1, <1>2, <2>1, <3>1, <3>8
  <2>4. QED
    BY <2>2, <2>3
<1>6. ASSUME Sumar \/ Avisar PROVE SinPasarse'
  <2>1. /\ anterior' = anterior /\ EnViaje' = EnViaje /\ hechos' = hechos
        /\ consola.pc \in {"suma", "avisa"} /\ consola' = Libre
    BY <1>6, Quieta, ViajaIgual DEF Sumar, Avisar, archivos, Callada
  <2>2. ~Pide("cpto") /\ ~Pide("cpto")'
    BY <2>1 DEF Pide, Libre
  <2>3. Tope' = Tope
    BY <2>1, <2>2, TopeIgual
  <2>4. QED
    BY <1>1, <1>2, <2>1, <2>3
<1>7. ASSUME Ajena PROVE SinPasarse'
  <2>1. EnViaje' \subseteq EnViaje
    BY <1>7, ViajaAjena
  <2>2. Tope' = Tope
    BY <1>7, AjenaNoPide, TopeIgual DEF Pide
  <2>3. ASSUME NEW f \in Fds, LeerMd5(f) \/ LeerCat(f) PROVE SinPasarse'
    <3>1. anterior'.cpto = anterior.cpto
      BY <2>3 DEF LeerMd5, LeerCat, archivos, Formas, FormaDestino
    <3>2. QED
      BY <2>1, <2>2, <3>1 DEF SinPasarse
  <2>4. ASSUME NEW f \in Fds, LeerCpto(f) PROVE SinPasarse'
    <3>1. /\ Carta(Head(aFS[f])) \in EnViaje
          /\ \A c \in EnViaje' : ~MismoTurno(c.op, Head(aFS[f]).op)
      BY <2>4, ViajaLeer DEF Lectura
    <3>2. Head(aFS[f]).op = "cpto"
      BY <2>4 DEF LeerCpto
    <3>3. \A c \in EnViaje' : c.op # "cpto"
      BY <3>1, <3>2 DEF MismoTurno
    <3>4. anterior.cpto < Tope
      BY <3>1, <3>2, OpDeCarta DEF SinPasarse
    <3>5. anterior'.cpto = anterior.cpto + 1
      BY <2>4 DEF LeerCpto, Escribir
    <3>6. PICK x, t : x = anterior.cpto /\ t = Tope
      OBVIOUS
    <3>7. x + 1 <= t
      BY <1>1, <3>4, <3>6
    <3>8. QED
      BY <2>2, <3>3, <3>5, <3>6, <3>7 DEF SinPasarse
  <2>5. CASE \A f \in Fds : ~Lectura(f)
    <3>1. anterior' = anterior
      BY <1>7, <2>5, SinLecturas DEF Quietos
    <3>2. QED
      BY <2>1, <2>2, <3>1 DEF SinPasarse
  <2>6. QED
    BY <2>3, <2>4, <2>5 DEF Lectura
<1>8. QED
  BY <1>3, <1>4, <1>5, <1>6, <1>7, Pasos

-----------------------------------------------------------------------------
(* The first cpto. *)
LEMMA CptoIgual ==
  ASSUME mutexCpto' = mutexCpto, \A c \in EnViaje' : c.op # "md5" => c \in EnViaje
  PROVE  /\ CptoLibre("cat")' => CptoLibre("cat")
         /\ CptoLibre("cpto")' => CptoLibre("cpto")
  BY DEF CptoLibre

LEMMA TurnoCptoIgual ==
  ASSUME TurnoCpto, cptos' = cptos, destino' = destino, anterior'.cpto = anterior.cpto,
         raro \subseteq raro', Pide("cpto")' <=> Pide("cpto"), Pide("cpto") => consola'.i = consola.i,
         \A c \in EnViaje' : c.op = "cpto" => c \in EnViaje,
         CptoLibre("cat")' => CptoLibre("cat")
  PROVE  TurnoCpto'
<1>1. Pedidos1' = Pedidos1
  BY DEF Pedidos1
<1>2. raro' = {} => raro = {}
  OBVIOUS
<1>3. QED
  BY <1>1, <1>2 DEF TurnoCpto

LEMMA TurnoMandarCpto ==
  ASSUME Formas, Fichas, TurnoCpto, Mandar, consola.op = "cpto", raro \subseteq raro'
  PROVE  TurnoCpto'
<1> DEFINE i == consola.i
<1>1. /\ EnViaje' \subseteq EnViaje \cup {Nueva} /\ Nueva.i = i /\ Nueva.op = "cpto"
      /\ consola.pc = "manda" /\ UNCHANGED <<cptos, destino, anterior>>
      /\ ~mutexCpto /\ mutexCpto' = TRUE
  BY ViajaMandar DEF Mandar, Nueva, TomarCpto, archivos
<1>2. Pide("cpto") /\ Pedidos1 = i
  BY <1>1 DEF Pide, Pedidos1
<1>3. \A c \in EnViaje : c.op = "md5"
  BY <1>1 DEF Fichas
<1>4. ~CptoLibre("cat")'
  BY <1>1, <1>3 DEF CptoLibre
<1>5. /\ i \in Nat /\ Len(cptos) > 0 /\ consola.a = cptos[Len(cptos)][2]
      /\ consola.a \in Archivos
  BY <1>1 DEF Formas, FormaConsola, Libre
<1>6. Cantidad(consola.a) \in Nat
  BY <1>5, Cotas
<1>7. Len(cptos) = 1 => anterior.cpto = i
  BY <1>1, <1>2 DEF TurnoCpto, CptoLibre
<1>8. Len(cptos) = 1 => Pedidos1' = i + 1
  <2>1. CASE consola'.pc = "elige" /\ consola'.op = consola.op /\ consola'.i = i + 1
    BY <2>1 DEF Pedidos1, Pide
  <2>2. CASE consola.i = Cantidad(consola.a) - 1 /\ consola'.pc = "avisa"
    <3>1. Pedidos1' = Cantidad(cptos[1][2])
      BY <1>1, <2>2 DEF Pedidos1, Pide
    <3>2. Cantidad(consola.a) = i + 1
      BY <1>5, <1>6, <2>2
    <3>3. QED
      BY <1>5, <3>1, <3>2
  <2>3. QED
    BY <2>1, <2>2, TrasMandar DEF Formas
<1>9. raro' = {} => raro = {}
  OBVIOUS
<1> HIDE DEF i
<1>10. \A c \in EnViaje' : c.op = "cpto" => c.i = i
  BY <1>1, <1>3
<1>11. QED
  BY <1>1, <1>4, <1>5, <1>7, <1>8, <1>9, <1>10 DEF TurnoCpto

LEMMA TurnoLeerCptoCpto ==
  ASSUME Formas, Fichas, TurnoCpto, Verdad, NEW f \in Fds, LeerCpto(f)
  PROVE  TurnoCpto'
<1>1. PICK r : r = Head(aFS[f])
  OBVIOUS
<1>2. /\ r \in Respuesta /\ Carta(r) \in EnViaje /\ r \in Mensajes(aFS, f)
      /\ \A c \in EnViaje' : ~MismoTurno(c.op, r.op)
  BY <1>1, ViajaLeer DEF Lectura
<1>3. /\ r.op = "cpto" /\ UNCHANGED <<consola, cptos>>
  BY <1>1 DEF LeerCpto, Leer
<1>4. \A c \in EnViaje' : c.op # "cpto"
  BY <1>2, <1>3 DEF MismoTurno
<1>5. /\ Carta(r).op = r.op /\ Carta(r).a = r.a /\ Carta(r).i = r.i /\ Carta(r).orden = r.orden
  BY DEF Carta
<1>6. r.orden \in DOMAIN cptos /\ r.a = cptos[r.orden][2] /\ r.i < Cantidad(r.a)
      /\ r.i \in Nat /\ r.a \in Archivos /\ r.orden \in Nat /\ r.dato \in Datos
  <2>1. Bien(Carta(r))
    BY <1>2, CartaT
  <2>2. QED
    BY <1>2, <1>3, <1>5, <2>1, DatoT DEF Bien
<1>7. Len(cptos) # 0
  <2>1. PICK s : s = cptos
    OBVIOUS
  <2>2. s \in Seq((Rutas \cup {Otra}) \X Archivos) /\ r.orden \in DOMAIN s
    BY <1>6, <2>1 DEF Formas, FormaComandos
  <2>3. Len(s) # 0
    BY <2>2
  <2>4. QED
    BY <2>1, <2>3
<1>8. CASE Len(cptos) = 1
  <2>1. r.i = anterior.cpto /\ Pedidos1 = r.i + 1 /\ Pedidos1' = Pedidos1
    BY <1>2, <1>3, <1>5, <1>8 DEF TurnoCpto, Pedidos1, Pide
  <2>2. r.orden = 1
    <3>1. PICK s : s = cptos
      OBVIOUS
    <3>2. s \in Seq((Rutas \cup {Otra}) \X Archivos) /\ r.orden \in DOMAIN s /\ Len(s) = 1
      BY <1>6, <1>8, <3>1 DEF Formas, FormaComandos
    <3>3. QED
      BY <3>2
  <2>3. PICK d \in Rutas \cup {Otra} :
           LET s == Head(aFS[f])
               x == destino[d][s.a]
               v == anterior.cpto
               z == IF v < Cantidad(s.a) THEN [Abierto(x, Cantidad(s.a)) EXCEPT ![v] = s.dato]
                    ELSE Abierto(x, Cantidad(s.a))
           IN /\ destino' = [destino EXCEPT ![d][s.a] = z]
              /\ z \in Lleno(s.a) /\ x \in {Nada} \cup Lleno(s.a)
              /\ anterior' = [md5 |-> Desde(x, anterior.md5), cpto |-> v + 1]
              /\ raro' = raro \cup (IF d # cptos[s.orden][1] THEN {"ruta"} ELSE {})
                              \cup (IF x = Nada /\ anterior.md5 > 0 THEN {"md5"} ELSE {})
              /\ s \in Respuesta /\ s.op = "cpto"
    BY HaceCpto
  <2>4. PICK x, v, z :
          /\ x = destino[d][r.a] /\ v = anterior.cpto
          /\ z = IF v < Cantidad(r.a) THEN [Abierto(x, Cantidad(r.a)) EXCEPT ![v] = r.dato]
                 ELSE Abierto(x, Cantidad(r.a))
          /\ destino' = [destino EXCEPT ![d][r.a] = z]
          /\ z \in Lleno(r.a) /\ x \in {Nada} \cup Lleno(r.a)
          /\ anterior'.cpto = v + 1
          /\ raro' = raro \cup (IF d # cptos[r.orden][1] THEN {"ruta"} ELSE {})
                          \cup (IF x = Nada /\ anterior.md5 > 0 THEN {"md5"} ELSE {})
    BY <1>1, <2>3
  <2>5. v \in Nat /\ v = r.i /\ v < Cantidad(r.a)
    BY <1>6, <2>1, <2>4
  <2>6. anterior'.cpto = Pedidos1'
    BY <2>1, <2>4, <2>5
  <2>7. ASSUME raro' = {}
        PROVE  \A j \in 0..v : /\ destino'[cptos[1][1]][cptos[1][2]] # Nada
                               /\ destino'[cptos[1][1]][cptos[1][2]][j] = <<cptos[1][2], j>>
    <3>1. raro = {} /\ d = cptos[1][1] /\ r.a = cptos[1][2]
      BY <1>6, <2>2, <2>4, <2>7
    <3>2. r.dato = <<r.a, v>>
      BY <1>2, <2>5, <3>1 DEF Verdad
    <3>3. destino'[d][r.a] = z
      BY <1>6, <2>4 DEF Formas, FormaDestino
    <3>4. z = [Abierto(x, Cantidad(r.a)) EXCEPT ![v] = r.dato]
      BY <2>4, <2>5
    <3>5. PICK a, y : a = r.a /\ y = r.dato
      OBVIOUS
    <3>6. a \in Archivos /\ y \in Datos /\ x \in {Nada} \cup Lleno(a)
      BY <1>6, <2>4, <3>5
    <3>7. /\ [Abierto(x, Cantidad(a)) EXCEPT ![v] = y] \in Lleno(a)
          /\ v \in 0..(Cantidad(a) - 1) => [Abierto(x, Cantidad(a)) EXCEPT ![v] = y][v] = y
          /\ \A j \in 0..(Cantidad(a) - 1) :
               j # v => [Abierto(x, Cantidad(a)) EXCEPT ![v] = y][j] = Abierto(x, Cantidad(a))[j]
          /\ x # Nada => Abierto(x, Cantidad(a)) = x
      BY <3>6, AbiertoLleno
    <3>8. /\ z \in Lleno(a)
          /\ v \in 0..(Cantidad(a) - 1) => z[v] = y
          /\ \A j \in 0..(Cantidad(a) - 1) : j # v /\ x # Nada => z[j] = x[j]
      BY <3>4, <3>5, <3>7
    <3>9. Cantidad(a) \in Nat
      BY <3>6, Cotas
    <3>10. v \in 0..(Cantidad(a) - 1)
      BY <2>5, <3>5, <3>9
    <3>11. z # Nada /\ z[v] = <<a, v>>
      BY <3>2, <3>5, <3>6, <3>8, <3>10, LlenoNoVacio
    <3>12. ASSUME NEW j \in 0..v, j # v PROVE z[j] = <<a, j>>
      <4>1. j \in 0..(v - 1) /\ j \in 0..(Cantidad(a) - 1)
        BY <2>5, <3>9, <3>10, <3>12
      <4>2. x # Nada /\ x[j] = <<a, j>>
        BY <1>8, <2>4, <3>1, <3>5, <4>1 DEF TurnoCpto
      <4>3. QED
        BY <3>8, <3>12, <4>1, <4>2
    <3>13. \A j \in 0..v : z # Nada /\ z[j] = <<a, j>>
      BY <3>11, <3>12
    <3>14. QED
      BY <3>1, <3>3, <3>5, <3>13
  <2>8. \A j \in 0..(anterior'.cpto - 1) : j \in 0..v
    BY <2>4, <2>5
  <2>9. QED
    BY <1>3, <1>4, <1>8, <2>6, <2>7, <2>8 DEF TurnoCpto
<1>9. CASE Len(cptos) # 1
  BY <1>3, <1>7, <1>9 DEF TurnoCpto
<1>10. QED
  BY <1>8, <1>9

LEMMA TurnoCptoSigue ==
  ASSUME Formas, Fichas, TurnoCpto, Verdad, [Next]_vars
  PROVE  TurnoCpto'
<1>1. raro \subseteq raro'
  BY RaroCrece
<1>2. ASSUME Comenzar PROVE TurnoCpto'
  <2>1. /\ UNCHANGED <<destino, anterior, mutexCpto>> /\ consola.pc = "libre" /\ ~Pide("cpto")
    BY <1>2 DEF Comenzar, archivos, mutexes, Pide
  <2>2. EnViaje' = EnViaje
    BY <1>2, Quieta, ViajaIgual DEF Callada
  <2>3. PICK c \in [op : Ops, a : Archivos, ruta : Rutas \cup {Otra}] :
           /\ consola'.pc = "elige" /\ consola'.op = c.op /\ consola'.i = 0
           /\ c.op = "cpto" => cptos' = Append(cptos, <<c.ruta, c.a>>)
           /\ c.op # "cpto" => cptos' = cptos
    BY <1>2, HaceComenzar DEF Formas
  <2>4. CASE c.op # "cpto"
    <3>1. ~Pide("cpto")'
      BY <2>3, <2>4 DEF Pide
    <3>2. CptoLibre("cat")' => CptoLibre("cat")
      BY <2>1, <2>2, CptoIgual
    <3>3. QED
      BY <1>1, <2>1, <2>2, <2>3, <2>4, <3>1, <3>2, TurnoCptoIgual
  <2>5. CASE c.op = "cpto"
    <3>1. PICK s, t : s = cptos /\ t = cptos'
      OBVIOUS
    <3>2. s \in Seq((Rutas \cup {Otra}) \X Archivos)
      BY <3>1 DEF Formas, FormaComandos
    <3>3. PICK e : e = <<c.ruta, c.a>>
      OBVIOUS
    <3>4. t = Append(s, e)
      BY <2>3, <2>5, <3>1, <3>3
    <3>5. Len(t) = Len(s) + 1 /\ Len(s) \in Nat
      BY <3>2, <3>4
    <3>6. Pedidos1' = 0
      BY <2>3, <2>5 DEF Pedidos1, Pide
    <3>7. CASE Len(s) = 0
      <4>1. anterior.cpto = 0
        BY <3>1, <3>7 DEF TurnoCpto
      <4>2. DOMAIN s = {}
        BY <3>2, <3>7
      <4>3. \A m \in EnViaje : m.op # "cpto"
        BY <3>1, <4>2 DEF Formas, FormaMensajes, Bien
      <4>4. Len(t) = 1
        BY <3>5, <3>7
      <4>5. \A j : j \notin 0..(0 - 1)
        OBVIOUS
      <4>6. QED
        BY <2>1, <2>2, <3>1, <3>6, <4>1, <4>3, <4>4, <4>5 DEF TurnoCpto
    <3>8. CASE Len(s) # 0
      <4>1. Len(t) # 1 /\ Len(t) # 0
        BY <3>5, <3>8
      <4>2. QED
        BY <3>1, <4>1 DEF TurnoCpto
    <3>9. QED
      BY <3>7, <3>8
  <2>6. QED
    BY <2>4, <2>5
<1>3. ASSUME Elegir PROVE TurnoCpto'
  <2>1. EnViaje' = EnViaje
    BY <1>3, Quieta, ViajaIgual DEF Callada
  <2>2. CASE UNCHANGED <<consola, hechos, foto, cuenta, mutexes, archivos, ruta,
                         red, fallos, historia>>
    <3>1. CptoLibre("cat")' => CptoLibre("cat")
      BY <2>1, <2>2, CptoIgual DEF mutexes
    <3>2. QED
      BY <1>1, <2>1, <2>2, <3>1, TurnoCptoIgual DEF archivos, historia, Pide
  <2>3. ASSUME NEW flag, NEW l, NEW fd, UNCHANGED <<mutexCpto, archivos, cptos>>,
               consola' = [consola EXCEPT !.pc = "manda", !.flag = flag, !.lugar = l, !.fd = fd]
        PROVE  TurnoCpto'
    <3>1. consola.pc = "elige" /\ consola'.pc = "manda" /\ consola'.op = consola.op /\ consola'.i = consola.i
      BY <1>3, <2>3 DEF Elegir, Formas, FormaConsola, Libre
    <3>2. CptoLibre("cat")' => CptoLibre("cat")
      BY <2>1, <2>3, CptoIgual
    <3>3. QED
      BY <1>1, <2>1, <2>3, <3>1, <3>2, TurnoCptoIgual DEF archivos, Pide
  <2>4. QED
    BY <1>3, <2>2, <2>3, HaceElegir DEF Formas
<1>4. ASSUME Mandar, consola.op # "cpto" PROVE TurnoCpto'
  <2>1. /\ EnViaje' \subseteq EnViaje \cup {Nueva} /\ Nueva.op = consola.op
        /\ consola.pc = "manda" /\ UNCHANGED <<cptos, destino, anterior>> /\ TomarCpto
    BY <1>4, ViajaMandar DEF Mandar, Nueva, archivos
  <2>2. ~Pide("cpto") /\ ~Pide("cpto")'
    BY <1>4, TrasMandar DEF Formas, Pide
  <2>3. consola.op \in Ops
    BY <1>4, HaceMandar DEF Formas
  <2>4. CASE consola.op = "md5"
    <3>1. CptoLibre("cat")' => CptoLibre("cat")
      BY <2>1, <2>4, CptoIgual DEF TomarCpto
    <3>2. QED
      BY <1>1, <2>1, <2>2, <2>4, <3>1, TurnoCptoIgual
  <2>5. CASE consola.op = "cat"
    <3>1. CptoLibre("cat")
      BY <2>1, <2>5 DEF TomarCpto, CptoLibre
    <3>2. QED
      BY <1>1, <2>1, <2>2, <2>5, <3>1, TurnoCptoIgual
  <2>6. QED
    BY <1>4, <2>3, <2>4, <2>5, SoloMd5Aparte
<1>5. ASSUME Sumar \/ Avisar PROVE TurnoCpto'
  <2>1. /\ EnViaje' = EnViaje /\ UNCHANGED <<cptos, destino, anterior, mutexCpto>>
        /\ consola.pc \in {"suma", "avisa"} /\ consola' = Libre
    BY <1>5, Quieta, ViajaIgual DEF Sumar, Avisar, archivos, historia, mutexes, Callada
  <2>2. ~Pide("cpto") /\ ~Pide("cpto")'
    BY <2>1 DEF Pide, Libre
  <2>3. CptoLibre("cat")' => CptoLibre("cat")
    BY <2>1, CptoIgual
  <2>4. QED
    BY <1>1, <2>1, <2>2, <2>3, TurnoCptoIgual
<1>6. ASSUME Ajena PROVE TurnoCpto'
  <2>1. EnViaje' \subseteq EnViaje
    BY <1>6, ViajaAjena
  <2>2. cptos' = cptos /\ consola' = consola /\ (Pide("cpto")' <=> Pide("cpto"))
    BY <1>6, AjenaNoPide DEF Pide
  <2>3. ASSUME NEW f \in Fds, LeerMd5(f) PROVE TurnoCpto'
    <3>1. anterior'.cpto = anterior.cpto /\ UNCHANGED <<mutexCpto, destino>>
      BY <2>3 DEF LeerMd5, Formas, FormaDestino
    <3>2. CptoLibre("cat")' => CptoLibre("cat")
      BY <2>1, <3>1, CptoIgual
    <3>3. QED
      BY <1>1, <2>1, <2>2, <3>1, <3>2, TurnoCptoIgual
  <2>4. ASSUME NEW f \in Fds, LeerCat(f) PROVE TurnoCpto'
    <3>1. UNCHANGED <<anterior, destino>> /\ Head(aFS[f]).op = "cat"
      BY <2>4 DEF LeerCat, archivos
    <3>2. Carta(Head(aFS[f])) \in EnViaje
      BY <2>4, ViajaLeer DEF Lectura
    <3>3. CptoLibre("cat")
      BY <3>1, <3>2, OpDeCarta DEF CptoLibre
    <3>4. QED
      BY <1>1, <2>1, <2>2, <3>1, <3>3, TurnoCptoIgual
  <2>5. CASE \A f \in Fds : ~Lectura(f)
    <3>1. UNCHANGED <<anterior, destino, mutexCpto>>
      BY <1>6, <2>5, SinLecturas DEF Quietos
    <3>2. CptoLibre("cat")' => CptoLibre("cat")
      BY <2>1, <3>1, CptoIgual
    <3>3. QED
      BY <1>1, <2>1, <2>2, <3>1, <3>2, TurnoCptoIgual
  <2>6. QED
    BY <2>3, <2>4, <2>5, TurnoLeerCptoCpto DEF Lectura
<1>7. QED
  BY <1>1, <1>2, <1>3, <1>4, <1>5, <1>6, TurnoMandarCpto, Pasos

-----------------------------------------------------------------------------
(* cat. *)
LEMMA UltimosT ==
  ASSUME Formas, Fichas, NEW u \in Ultimos
  PROVE  u.orden \in Nat /\ u.i \in Nat
<1>1. CASE imprime = {}
  BY <1>1 DEF Ultimos, Formas, FormaCerrojos
<1>2. CASE imprime # {}
  <2>1. PICK f \in imprime : u = Head(aFS[f])
    BY <1>2 DEF Ultimos
  <2>2. f \in Fds /\ aFS[f] # <<>>
    BY DEF Formas, FormaCerrojos, Fichas
  <2>3. u \in Respuesta
    BY <2>1, <2>2, Primera
  <2>4. QED
    BY <2>3, DatoT
<1>3. QED
  BY <1>1, <1>2

LEMMA UltimosIgual ==
  ASSUME imprime' = imprime, pantalla' = pantalla, \A g \in imprime : Head(aFS'[g]) = Head(aFS[g])
  PROVE  Ultimos' = Ultimos
  BY DEF Ultimos

LEMMA AlDiaIgual ==
  ASSUME NEW p, hechos' = hechos, Pide("cat")' <=> Pide("cat"), Pide("cat") => consola'.i = consola.i
  PROVE  AlDia(p)' <=> AlDia(p)
  BY DEF AlDia

LEMMA TurnoCatIgual ==
  ASSUME TurnoCat, imprime' = imprime, pantalla' = pantalla,
         \A g \in imprime : Head(aFS'[g]) = Head(aFS[g]), hechos' = hechos,
         Pide("cat")' <=> Pide("cat"), Pide("cat") => consola'.i = consola.i,
         \A c \in EnViaje' : c.op = "cat" => c \in EnViaje,
         CptoLibre("cpto")' => CptoLibre("cpto")
  PROVE  TurnoCat'
<1>1. Ultimos' = Ultimos
  BY UltimosIgual
<1>2. \A p : AlDia(p)' <=> AlDia(p)
  BY AlDiaIgual
<1>3. QED
  BY <1>1, <1>2 DEF TurnoCat, Sigue

LEMMA TurnoComenzarCat ==
  ASSUME Formas, Fichas, TurnoCat, Comenzar
  PROVE  TurnoCat'
<1>1. /\ UNCHANGED <<imprime, pantalla, aFS, mutexCpto>> /\ ~Pide("cat") /\ hechos' = hechos + 1
  BY DEF Comenzar, mutexes, red, Pide
<1>2. EnViaje' = EnViaje /\ Ultimos' = Ultimos
  BY <1>1, Quieta, ViajaIgual, UltimosIgual DEF Callada
<1>3. consola'.i = 0 /\ hechos \in Nat
  BY HaceComenzar DEF Formas, FormaComandos
<1>4. CptoLibre("cpto")' <=> CptoLibre("cpto")
  BY <1>1, <1>2 DEF CptoLibre
<1>5. ASSUME NEW p, p.orden \in Nat, AlDia(p) PROVE AlDia(p)'
  <2>1. p.falta = 1 /\ p.orden <= hechos
    BY <1>1, <1>5 DEF AlDia
  <2>2. p.orden < hechos' /\ p.orden <= hechos'
    BY <1>1, <1>3, <1>5, <2>1
  <2>3. ~(consola'.i > 0)
    BY <1>3
  <2>4. QED
    BY <2>1, <2>2, <2>3 DEF AlDia
<1>6. \A u \in Ultimos : AlDia(u) => AlDia(u)'
  BY <1>5, UltimosT
<1>7. \A c \in EnViaje : AlDia(c) => AlDia(c)'
  BY <1>5, CartaT
<1>8. QED
  BY <1>1, <1>2, <1>4, <1>6, <1>7 DEF TurnoCat, Sigue

LEMMA TurnoMandarCat ==
  ASSUME Formas, Fichas, TurnoCat, Mandar, consola.op = "cat"
  PROVE  TurnoCat'
<1> DEFINE i == consola.i
<1>1. /\ EnViaje' \subseteq EnViaje \cup {Nueva} /\ Nueva.i = i /\ Nueva.op = "cat"
      /\ Nueva.falta = Cantidad(consola.a) - i /\ Nueva.orden = hechos
      /\ consola.pc = "manda" /\ UNCHANGED <<imprime, pantalla, aFS, hechos>>
      /\ ~mutexCpto /\ mutexCpto' = TRUE
  BY ViajaMandar DEF Mandar, Nueva, TomarCpto
<1>2. Pide("cat") /\ CptoLibre("cpto")
  BY <1>1 DEF Pide, CptoLibre
<1>3. \A c \in EnViaje : c.op = "md5"
  BY <1>1 DEF Fichas
<1>4. ~CptoLibre("cpto")'
  BY <1>1, <1>3 DEF CptoLibre
<1>5. i \in Nat /\ hechos \in Nat /\ consola.a \in Archivos
  BY <1>1 DEF Formas, FormaConsola, FormaComandos, Libre
<1>6. Cantidad(consola.a) \in Nat
  BY <1>5, Cotas
<1>7. Ultimos' = Ultimos
  BY <1>1, UltimosIgual
<1>8. PICK x : x = Nueva
  OBVIOUS
<1>9. ASSUME NEW u \in Ultimos PROVE Sigue(u, x)
  <2>1. u.orden \in Nat /\ u.i \in Nat /\ AlDia(u)
    BY <1>2, UltimosT DEF TurnoCat
  <2>2. CASE i = 0
    <3>1. u.falta = 1 /\ u.orden < hechos
      BY <1>2, <2>1, <2>2 DEF AlDia
    <3>2. QED
      BY <1>1, <1>5, <1>8, <2>1, <2>2, <3>1 DEF Sigue
  <2>3. CASE i > 0
    <3>1. u.orden = hechos /\ u.i = i - 1
      BY <1>2, <2>1, <2>3 DEF AlDia
    <3>2. QED
      BY <1>1, <1>5, <1>8, <2>1, <2>3, <3>1 DEF Sigue
  <2>4. QED
    BY <1>5, <2>2, <2>3
<1>10. AlDia(x)'
  <2>1. CASE consola'.pc = "elige" /\ consola'.op = consola.op /\ consola'.i = i + 1
    <3>1. Pide("cat")' /\ consola'.i > 0 /\ consola'.i - 1 = i
      BY <1>5, <2>1 DEF Pide
    <3>2. QED
      BY <1>1, <1>8, <3>1 DEF AlDia
  <2>2. CASE consola.i = Cantidad(consola.a) - 1 /\ consola'.pc = "libre"
    <3>1. ~Pide("cat")' /\ Cantidad(consola.a) - i = 1
      BY <1>5, <1>6, <2>2 DEF Pide
    <3>2. QED
      BY <1>1, <1>5, <1>8, <3>1 DEF AlDia
  <2>3. QED
    BY <2>1, <2>2, TrasMandar DEF Formas
<1> HIDE DEF i
<1>11. QED
  BY <1>1, <1>3, <1>4, <1>7, <1>9, <1>10, <1>8 DEF TurnoCat, Sigue

LEMMA TurnoLeerCat ==
  ASSUME Formas, Fichas, TurnoCat, NEW f \in Fds, LeerCat(f)
  PROVE  TurnoCat'
<1>1. PICK r : r = Head(aFS[f])
  OBVIOUS
<1>2. /\ Carta(r) \in EnViaje /\ \A c \in EnViaje' : ~MismoTurno(c.op, r.op)
      /\ EnViaje' \subseteq EnViaje
  BY <1>1, ViajaLeer DEF Lectura
<1>3. /\ r.op = "cat" /\ imprime = {} /\ imprime' = {f}
      /\ UNCHANGED <<consola, hechos, pantalla, aFS>>
  BY <1>1 DEF LeerCat, EmpezarImpresion, historia, red
<1>4. \A c \in EnViaje' : c.op # "cat"
  BY <1>2, <1>3 DEF MismoTurno
<1>5. Ultimos = {pantalla} /\ Ultimos' = {r}
  BY <1>1, <1>3 DEF Ultimos
<1>6. Carta(r).op = r.op /\ Carta(r).i = r.i /\ Carta(r).falta = r.falta /\ Carta(r).orden = r.orden
  BY DEF Carta
<1>7. AlDia(Carta(r)) /\ Sigue(pantalla, Carta(r))
  BY <1>2, <1>3, <1>5, <1>6 DEF TurnoCat
<1>8. AlDia(r)' /\ Sigue(pantalla, r)
  <2>1. AlDia(r) /\ Sigue(pantalla, r)
    BY <1>6, <1>7 DEF AlDia, Sigue
  <2>2. AlDia(r)' <=> AlDia(r)
    BY <1>3, AlDiaIgual DEF Pide
  <2>3. QED
    BY <2>1, <2>2
<1>9. Faltan(r)
  <2>1. Bien(Carta(r)) /\ Carta(r).a = r.a
    BY <1>2 DEF Formas, FormaMensajes, Carta
  <2>2. QED
    BY <1>6, <2>1 DEF Bien, Faltan
<1>10. QED
  BY <1>1, <1>3, <1>4, <1>5, <1>8, <1>9 DEF TurnoCat, Sigue

LEMMA TurnoImprimir ==
  ASSUME Formas, Fichas, TurnoCat, NEW f \in Fds, Imprimir(f)
  PROVE  TurnoCat'
<1>1. PICK r, p : r = Head(aFS[f]) /\ p = pantalla'
  OBVIOUS
<1>2. EnViaje' = EnViaje /\ imprime' = {} /\ imprime = {f}
  BY ViajaImprimir
<1>3. /\ UNCHANGED <<consola, hechos, mutexCpto>>
      /\ p.orden = r.orden /\ p.i = r.i /\ p.falta = r.falta
  BY <1>1 DEF Imprimir, Leer
<1>4. Ultimos = {r} /\ Ultimos' = {p}
  BY <1>1, <1>2 DEF Ultimos
<1>5. \A c : (AlDia(c)' <=> AlDia(c)) /\ (Sigue(p, c) <=> Sigue(r, c))
  BY <1>3, AlDiaIgual DEF Pide, Sigue
<1>6. AlDia(p) <=> AlDia(r)
  BY <1>3 DEF AlDia
<1>7. CptoLibre("cpto")' <=> CptoLibre("cpto")
  BY <1>2, <1>3 DEF CptoLibre
<1>8. QED
  BY <1>2, <1>4, <1>5, <1>6, <1>7 DEF TurnoCat, Sigue

LEMMA TurnoCatSigue ==
  ASSUME Formas, Fichas, TurnoCat, [Next]_vars
  PROVE  TurnoCat'
<1>1. ASSUME Elegir PROVE TurnoCat'
  <2>1. EnViaje' = EnViaje
    BY <1>1, Quieta, ViajaIgual DEF Callada
  <2>2. CASE UNCHANGED <<consola, hechos, foto, cuenta, mutexes, archivos, ruta,
                         red, fallos, historia>>
    <3>1. CptoLibre("cpto")' => CptoLibre("cpto")
      BY <2>1, <2>2, CptoIgual DEF mutexes
    <3>2. QED
      BY <2>1, <2>2, <3>1, TurnoCatIgual DEF mutexes, historia, red, Pide
  <2>3. ASSUME NEW flag, NEW l, NEW fd, UNCHANGED <<mutexCpto, imprime, red, hechos, pantalla>>,
               consola' = [consola EXCEPT !.pc = "manda", !.flag = flag, !.lugar = l, !.fd = fd]
        PROVE  TurnoCat'
    <3>1. consola.pc = "elige" /\ consola'.pc = "manda" /\ consola'.op = consola.op /\ consola'.i = consola.i
      BY <1>1, <2>3 DEF Elegir, Formas, FormaConsola, Libre
    <3>2. CptoLibre("cpto")' => CptoLibre("cpto")
      BY <2>1, <2>3, CptoIgual
    <3>3. QED
      BY <2>1, <2>3, <3>1, <3>2, TurnoCatIgual DEF red, Pide
  <2>4. QED
    BY <1>1, <2>2, <2>3, HaceElegir DEF Formas
<1>2. ASSUME Mandar, consola.op # "cat" PROVE TurnoCat'
  <2>1. /\ EnViaje' \subseteq EnViaje \cup {Nueva} /\ Nueva.op = consola.op
        /\ consola.pc = "manda" /\ UNCHANGED <<imprime, pantalla, aFS, hechos>> /\ TomarCpto
    BY <1>2, ViajaMandar DEF Mandar, Nueva
  <2>2. ~Pide("cat") /\ ~Pide("cat")'
    BY <1>2, TrasMandar DEF Formas, Pide
  <2>3. consola.op \in Ops
    BY <1>2, HaceMandar DEF Formas
  <2>4. CASE consola.op = "md5"
    <3>1. CptoLibre("cpto")' => CptoLibre("cpto")
      BY <2>1, <2>4, CptoIgual DEF TomarCpto
    <3>2. QED
      BY <2>1, <2>2, <2>4, <3>1, TurnoCatIgual
  <2>5. CASE consola.op = "cpto"
    <3>1. CptoLibre("cpto")
      BY <2>1, <2>5 DEF TomarCpto, CptoLibre
    <3>2. QED
      BY <2>1, <2>2, <2>5, <3>1, TurnoCatIgual
  <2>6. QED
    BY <1>2, <2>3, <2>4, <2>5, SoloMd5Aparte
<1>3. ASSUME Sumar \/ Avisar PROVE TurnoCat'
  <2>1. /\ EnViaje' = EnViaje /\ UNCHANGED <<imprime, pantalla, aFS, hechos, mutexCpto>>
        /\ consola.pc \in {"suma", "avisa"} /\ consola' = Libre
    BY <1>3, Quieta, ViajaIgual DEF Sumar, Avisar, historia, mutexes, red, Callada
  <2>2. ~Pide("cat") /\ ~Pide("cat")'
    BY <2>1 DEF Pide, Libre
  <2>3. CptoLibre("cpto")' => CptoLibre("cpto")
    BY <2>1, CptoIgual
  <2>4. QED
    BY <2>1, <2>2, <2>3, TurnoCatIgual
<1>4. ASSUME Ajena PROVE TurnoCat'
  <2>1. EnViaje' \subseteq EnViaje
    BY <1>4, ViajaAjena
  <2>2. hechos' = hechos /\ consola' = consola /\ (Pide("cat")' <=> Pide("cat"))
    BY <1>4, AjenaNoPide DEF Pide
  <2>3. ASSUME NEW f \in Fds, LeerMd5(f) \/ LeerCpto(f) PROVE TurnoCat'
    <3>1. UNCHANGED <<imprime, pantalla>>
      BY <2>3 DEF LeerMd5, LeerCpto
    <3>2. \A g \in imprime : aFS'[g] = aFS[g]
      BY <2>3, ViajaLeer DEF Lectura
    <3>3. CptoLibre("cpto")' => CptoLibre("cpto")
      <4>1. CASE LeerMd5(f)
        BY <2>1, <4>1, CptoIgual DEF LeerMd5
      <4>2. CASE LeerCpto(f)
        <5>1. Head(aFS[f]).op = "cpto" /\ Carta(Head(aFS[f])) \in EnViaje
          BY <4>2, ViajaLeer DEF Lectura, LeerCpto
        <5>2. QED
          BY <5>1, OpDeCarta DEF CptoLibre
      <4>3. QED
        BY <2>3, <4>1, <4>2
    <3>4. QED
      BY <2>1, <2>2, <3>1, <3>2, <3>3, TurnoCatIgual
  <2>4. ASSUME \A f \in Fds : ~Lectura(f) /\ ~Imprimir(f) PROVE TurnoCat'
    <3>1. mutexCpto' = mutexCpto
      BY <1>4, <2>4, SinLecturas DEF Quietos
    <3>2. CptoLibre("cpto")' => CptoLibre("cpto")
      BY <2>1, <3>1, CptoIgual
    <3>3. CASE Callada \/ UNCHANGED vars
      <4>1. UNCHANGED <<imprime, aFS>>
        BY <3>3, Quieta DEF SinTocar
      <4>2. pantalla' = pantalla
        BY <1>4, <2>4 DEF Ajena, PasoHilo, PasoNodo, Lectura, MandarMuere, LeerCptoMuere, Morir,
                          Desconectar, Contestar, ContestarFuera, Caer, Volver, historia, vars
      <4>3. QED
        BY <2>1, <2>2, <3>2, <4>1, <4>2, TurnoCatIgual
    <3>4. ASSUME NEW f \in Fds, Contestar(f) PROVE TurnoCat'
      <4>1. \A g \in imprime : Head(aFS'[g]) = Head(aFS[g])
        BY <3>4, ViajaContestar
      <4>2. UNCHANGED <<imprime, pantalla>>
        BY <3>4 DEF Contestar, mutexes, historia
      <4>3. QED
        BY <2>1, <2>2, <3>2, <4>1, <4>2, TurnoCatIgual
    <3>5. ASSUME NEW f \in Fds, Caer(f) \/ ContestarFuera(f) PROVE TurnoCat'
      <4>1. UNCHANGED <<imprime, pantalla, aFS>>
        BY <3>5 DEF Caer, ContestarFuera, mutexes, historia
      <4>2. QED
        BY <2>1, <2>2, <3>2, <4>1, TurnoCatIgual
    <3>6. QED
      BY <1>4, <2>4, <3>3, <3>4, <3>5 DEF Ajena, PasoHilo, PasoNodo, Lectura, Callada
  <2>5. QED
    BY <2>3, <2>4, TurnoLeerCat, TurnoImprimir DEF Lectura
<1>5. QED
  BY <1>1, <1>2, <1>3, <1>4, TurnoComenzarCat, TurnoMandarCat, Pasos

-----------------------------------------------------------------------------
(* The invariant holds at the start. *)
LEMMA QuienInicial ==
  ASSUME Init
  PROVE  /\ quien \in [Fds -> Nodos] /\ \A n \in Nodos : \E f \in Fds : quien[f] = n
         /\ \A f, g \in Fds : quien[f] = quien[g] => f = g
         /\ socket \in [Nodos -> Fds]
<1> DEFINE Une(q) == \A n \in Nodos : \E f \in Fds : q[f] = n
<1>1. IsFiniteSet(Nodos)
  BY Instancia
<1>2. Cardinality(Nodos) \in Nat /\ ExistsBijection(1..Cardinality(Nodos), Nodos)
  BY <1>1, FS_CardinalityType
<1>3. Bijection(1..Cardinality(Nodos), Nodos) # {}
  BY <1>2, Fun_ExistsBij
<1>4. \E q \in [Fds -> Nodos] : Une(q)
  <2>1. PICK q : q \in Bijection(1..Cardinality(Nodos), Nodos)
    BY <1>3
  <2>2. q \in [1..Cardinality(Nodos) -> Nodos]
        /\ \A n \in Nodos : \E f \in 1..Cardinality(Nodos) : q[f] = n
    BY <2>1 DEF Bijection, Injection, Surjection
  <2>3. QED
    BY <2>2 DEF Fds
<1>5. quien = CHOOSE q \in [Fds -> Nodos] : Une(q)
  BY DEF Init
<1>6. quien \in [Fds -> Nodos] /\ Une(quien)
  BY <1>4, <1>5
<1>7. quien \in Surjection(Fds, Nodos)
  BY <1>6 DEF Surjection
<1>8. IsFiniteSet(Fds) /\ Cardinality(Fds) = Cardinality(Nodos)
  BY <1>2, FS_Interval DEF Fds
<1>9. quien \in Injection(Fds, Nodos)
  BY <1>7, <1>8, FS_SurjSameCardinalityImpliesInj
<1>10. \A f, g \in Fds : quien[f] = quien[g] => f = g
  BY <1>9, Fun_InjectionProperties
<1>11. socket \in [Nodos -> Fds]
  <2>1. socket = [n \in Nodos |-> CHOOSE f \in Fds : quien[f] = n]
    BY DEF Init
  <2>2. \A n \in Nodos : (CHOOSE f \in Fds : quien[f] = n) \in Fds
    BY <1>6
  <2>3. QED
    BY <2>1, <2>2
<1>12. QED
  BY <1>6, <1>10, <1>11

LEMMA NadaEnViaje ==
  ASSUME Init
  PROVE  /\ aNodo = [f \in Fds |-> <<>>] /\ aFS = [f \in Fds |-> <<>>] /\ imprime = {}
         /\ \A f \in Fds : Mensajes(aNodo, f) = {} /\ Mensajes(aFS, f) = {}
         /\ EnViaje = {} /\ Exclusivas(aNodo, porLeer)
<1>1. aNodo = [f \in Fds |-> <<>>] /\ aFS = [f \in Fds |-> <<>>] /\ imprime = {}
  BY DEF Init
<1>2. porLeer = [f \in Fds |-> <<>>]
  BY <1>1 DEF porLeer
<1>3. \A f \in Fds : Mensajes(aNodo, f) = {} /\ Mensajes(aFS, f) = {} /\ Mensajes(porLeer, f) = {}
  BY <1>1, <1>2 DEF Mensajes
<1>4. EnViaje = {}
  BY <1>3 DEF EnViaje, Cartas
<1>5. Exclusivas(aNodo, porLeer)
  BY <1>1, <1>2 DEF Exclusivas
<1>6. QED
  BY <1>1, <1>3, <1>4, <1>5

LEMMA InitFormas == Init => Formas
<1> SUFFICES ASSUME Init PROVE Formas
  OBVIOUS
<1>1. FormaConsola
  BY DEF Init, FormaConsola
<1>2. FormaComandos
  <2>1. hechos = 0 /\ cptos = <<>> /\ ruta = [a |-> Otra, liberada |-> TRUE] /\ foto = {}
        /\ cuenta = SinContar
    BY DEF Init
  <2>2. 0 \in 0..MaxComandos
    BY Instancia
  <2>3. cptos \in Seq((Rutas \cup {Otra}) \X Archivos) /\ Len(cptos) = 0
    BY <2>1
  <2>4. cuenta \in [Nodos -> Nat]
    BY <2>1 DEF SinContar
  <2>5. QED
    BY <2>1, <2>2, <2>3, <2>4 DEF FormaComandos
<1>3. FormaCerrojos
  <2>1. 0 \in 0..MaxFallos
    BY Instancia
  <2>2. QED
    BY <2>1 DEF Init, FormaCerrojos
<1>4. FormaDestino
  <2>1. /\ anterior = [md5 |-> 0, cpto |-> 0]
        /\ destino = [r \in Rutas \cup {Otra} |-> [a \in Archivos |-> Nada]]
    BY DEF Init
  <2>2. Nada \in Contenidos
    BY DEF Contenidos
  <2>3. destino \in [Rutas \cup {Otra} -> [Archivos -> Contenidos]]
    BY <2>1, <2>2
  <2>4. \A d \in Rutas \cup {Otra}, a \in Archivos : destino[d][a] = Nada
    BY <2>1
  <2>5. QED
    BY <2>1, <2>3, <2>4 DEF FormaDestino
<1>5. FormaRed
  <2>1. /\ quien \in [Fds -> Nodos] /\ \A f, g \in Fds : quien[f] = quien[g] => f = g
        /\ socket \in [Nodos -> Fds]
    BY QuienInicial
  <2>2. viva = Fds /\ Nadie \notin Nodos
    BY Instancia DEF Init
  <2>3. \A f \in Fds : f \in Nat
    BY DEF Fds
  <2>4. QED
    BY <2>1, <2>2, <2>3 DEF FormaRed
<1>6. FormaMensajes
  <2>1. aNodo = [f \in Fds |-> <<>>] /\ aFS = [f \in Fds |-> <<>>] /\ EnViaje = {}
    BY NadaEnViaje
  <2>2. \A M : <<>> \in Seq(M)
    OBVIOUS
  <2>3. QED
    BY <2>1, <2>2 DEF FormaMensajes
<1>7. QED
  BY <1>1, <1>2, <1>3, <1>4, <1>5, <1>6 DEF Formas

LEMMA InitIInv == Init => IInv
<1> SUFFICES ASSUME Init PROVE IInv
  OBVIOUS
<1>1. Formas
  BY InitFormas
<1>2. /\ EnViaje = {} /\ Exclusivas(aNodo, porLeer)
      /\ \A f \in Fds : Mensajes(aNodo, f) = {} /\ Mensajes(aFS, f) = {}
  BY NadaEnViaje
<1>3. /\ consola = Libre /\ hechos = 0 /\ cuenta = SinContar /\ mutexMd5 = FALSE
      /\ mutexCpto = FALSE /\ ordenMd5 = FALSE /\ imprime = {} /\ temporal = Nada
      /\ anterior.md5 = 0 /\ anterior.cpto = 0 /\ suma = Nada /\ cptos = <<>>
      /\ pantalla.orden = 0 /\ pantalla.falta = 1
  BY DEF Init
<1>4. consola.pc = "libre"
  BY <1>3 DEF Libre
<1>5. CuentaJusta
  <2>1. MaxBloques \in Nat
    BY Cotas
  <2>2. \A n \in Nodos : cuenta[n] = 0
    BY <1>3 DEF SinContar
  <2>3. QED
    BY <1>4, <2>1, <2>2 DEF CuentaJusta
<1>6. Fichas
  BY <1>2, <1>3 DEF Fichas
<1>7. TurnoMd5
  BY <1>2, <1>3, <1>4 DEF TurnoMd5, EnMd5
<1>8. Verdad
  BY <1>2, <1>4 DEF Verdad
<1>9. SinPasarse
  <2>1. Tope \in Nat
    BY <1>1, TopeT
  <2>2. QED
    BY <1>2, <1>3, <2>1 DEF SinPasarse
<1>10. TurnoCpto
  <2>1. Len(cptos) = 0
    BY <1>3
  <2>2. QED
    BY <1>3, <2>1 DEF TurnoCpto
<1>11. TurnoCat
  <2>1. Ultimos = {pantalla} /\ ~Pide("cat")
    BY <1>3, <1>4 DEF Ultimos, Pide
  <2>2. AlDia(pantalla)
    BY <1>3, <2>1 DEF AlDia
  <2>3. QED
    BY <1>2, <1>3, <2>1, <2>2 DEF TurnoCat
<1>12. Md5Correcto
  BY <1>3 DEF Md5Correcto
<1>13. QED
  BY <1>1, <1>5, <1>6, <1>7, <1>8, <1>9, <1>10, <1>11, <1>12 DEF IInv

LEMMA IInvSigue == IInv /\ [Next]_vars => IInv'
<1> SUFFICES ASSUME IInv, [Next]_vars PROVE IInv'
  OBVIOUS
<1>1. /\ Formas /\ CuentaJusta /\ Fichas /\ TurnoMd5 /\ Verdad /\ SinPasarse /\ TurnoCpto
      /\ TurnoCat /\ Md5Correcto
  BY DEF IInv
<1>2. Formas' /\ Fichas'
  BY <1>1, FormasSiguen, FichasSiguen
<1>3. CuentaJusta' /\ TurnoMd5' /\ Verdad'
  BY <1>1, CuentaSigue, TurnoMd5Sigue, VerdadSigue
<1>4. SinPasarse' /\ TurnoCpto' /\ TurnoCat'
  BY <1>1, <1>2, SinPasarseSigue, TurnoCptoSigue, TurnoCatSigue
<1>5. Md5Correcto'
  BY <1>1, Md5Sigue
<1>6. QED
  BY <1>2, <1>3, <1>4, <1>5 DEF IInv

LEMMA Inductivo == Spec => []IInv
  BY InitIInv, IInvSigue, PTL DEF Spec

-----------------------------------------------------------------------------
LEMMA MulCrece ==
  ASSUME NEW h \in Nat, NEW k \in Nat, NEW M \in Nat, h <= k
  PROVE  h * M <= k * M
<1>1. PICK d \in Nat : k = h + d
  <2>1. k - h \in Nat /\ k = h + (k - h)
    OBVIOUS
  <2>2. QED
    BY <2>1
<1>2. d * M \in Nat /\ h * M \in Nat
  BY PorMas
<1>3. k * M = h * M + d * M
  BY <1>1
<1>4. PICK x, y, z : x = h * M /\ y = d * M /\ z = k * M
  OBVIOUS
<1>5. QED
  BY <1>2, <1>3, <1>4

LEMMA IInvTypeOK == IInv => TypeOK
<1> SUFFICES ASSUME IInv PROVE TypeOK
  OBVIOUS
<1>1. Formas /\ CuentaJusta /\ TurnoMd5 /\ SinPasarse
  BY DEF IInv
<1>2. /\ FormaConsola /\ FormaComandos /\ FormaCerrojos /\ FormaDestino /\ FormaRed /\ FormaMensajes
  BY <1>1 DEF Formas
<1>3. consola.pc \in {"libre", "elige", "manda", "suma", "avisa"}
  BY <1>2 DEF FormaConsola, Libre
<1>4. consola.pc # "libre" => /\ consola.i \in Nat /\ consola.i + 1 <= MaxBloques
                              /\ consola.i < Cantidad(consola.a) /\ consola.a \in Archivos
  <2>1. consola.pc # "libre" => /\ consola.i \in Nat /\ consola.a \in Archivos
                                /\ consola.i < Cantidad(consola.a)
    BY <1>2 DEF FormaConsola, Libre
  <2>2. QED
    BY <2>1, Cotas
<1>5. cuenta \in [Nodos -> 0..MaxBloques]
  <2>1. MaxBloques \in Nat /\ cuenta \in [Nodos -> Nat]
    BY <1>2, Cotas DEF FormaComandos
  <2>2. ASSUME NEW n \in Nodos PROVE cuenta[n] <= MaxBloques
    <3>1. PICK c, i, M : c = cuenta[n] /\ i = consola.i /\ M = MaxBloques
      OBVIOUS
    <3>2. c \in Nat /\ M \in Nat
      BY <2>1, <3>1
    <3>3. c <= M \/ (consola.pc # "libre" /\ (c <= i \/ c <= i + 1))
      BY <1>1, <3>1 DEF CuentaJusta
    <3>4. QED
      BY <1>4, <3>1, <3>2, <3>3
  <2>3. QED
    BY <2>1, <2>2
<1>6. temporal \in Contenidos
  <2>1. Nada \in Contenidos
    BY DEF Contenidos
  <2>2. CASE ~EnMd5
    BY <1>1, <2>1, <2>2 DEF TurnoMd5
  <2>3. CASE EnMd5
    <3>1. consola.a \in Archivos /\ Escritos \in Int
      BY <1>1, <2>3, EnMd5Es DEF Escritos
    <3>2. temporal \in Lleno(consola.a) \/ temporal = Nada
      <4>1. consola.pc = "elige" /\ mutexMd5 => consola.i > 0
        BY <1>1, <2>3 DEF TurnoMd5
      <4>2. Escritos >= 0
        BY <1>1, <2>3, <4>1, EnMd5Es DEF Escritos
      <4>3. Escritos = 0 \/ Escritos > 0
        BY <3>1, <4>2
      <4>4. QED
        BY <1>1, <2>3, <4>3 DEF TurnoMd5
    <3>3. QED
      BY <2>1, <3>1, <3>2, LlenoEs
  <2>4. QED
    BY <2>2, <2>3
<1>7. anterior.md5 \in 0..MaxBloques
  <2>1. anterior.md5 \in Nat /\ MaxBloques \in Nat
    BY <1>2, Cotas DEF FormaDestino
  <2>2. anterior.md5 = 0 \/ (EnMd5 /\ anterior.md5 <= Escritos)
    BY <1>1 DEF TurnoMd5
  <2>3. EnMd5 => Escritos \in Int /\ Escritos <= MaxBloques
    <3>1. PICK i, M : i = consola.i /\ M = MaxBloques
      OBVIOUS
    <3>2. EnMd5 => i \in Nat /\ i + 1 <= M
      BY <1>4, <3>1 DEF EnMd5
    <3>3. Escritos = i - 1 \/ Escritos = i
      BY <3>1 DEF Escritos
    <3>4. QED
      BY <2>1, <3>1, <3>2, <3>3
  <2>4. PICK e, v : e = Escritos /\ v = anterior.md5
    OBVIOUS
  <2>5. QED
    BY <2>1, <2>2, <2>3, <2>4
<1>8. anterior.cpto \in 0..(MaxComandos * MaxBloques)
  <2>1. /\ Tope \in Nat /\ anterior.cpto \in Nat /\ hechos \in Nat
        /\ Tope <= hechos * MaxBloques /\ anterior.cpto <= Tope
    BY <1>1, TopeT DEF SinPasarse
  <2>2. PICK h, k, M : h = hechos /\ k = MaxComandos /\ M = MaxBloques
    OBVIOUS
  <2>3. h \in Nat /\ k \in Nat /\ M \in Nat /\ h <= k
    BY <1>2, <2>2, Cotas, Instancia DEF FormaComandos
  <2>4. h * M <= k * M /\ h * M \in Nat /\ k * M \in Nat
    BY <2>3, MulCrece, PorMas
  <2>5. PICK x, y, t, c : x = h * M /\ y = k * M /\ t = Tope /\ c = anterior.cpto
    OBVIOUS
  <2>6. t \in Nat /\ c \in Nat /\ t <= x /\ c <= t /\ x <= y /\ x \in Nat /\ y \in Nat
    BY <2>1, <2>2, <2>4, <2>5
  <2>7. c \in 0..y
    BY <2>6
  <2>8. QED
    BY <2>2, <2>5, <2>7
<1>9. socket \in [Nodos -> 0..Cardinality(Nodos)]
  <2>1. Cardinality(Nodos) \in Nat
    BY Instancia, FS_CardinalityType
  <2>2. \A x \in Fds : x \in 0..Cardinality(Nodos)
    BY <2>1 DEF Fds
  <2>3. QED
    BY <1>2, <2>1, <2>2 DEF FormaRed
<1>10. \A d \in Rutas \cup {Otra} : \A a \in Archivos : destino[d][a] \in Contenidos
  BY <1>2 DEF FormaDestino
<1>11. ruta.a \in Rutas \cup {Otra} /\ ruta.liberada \in BOOLEAN
  BY <1>2 DEF FormaComandos
<1>12. \A f \in Fds : aNodo[f] \in Seq(Pedido) /\ aFS[f] \in Seq(Respuesta)
  BY <1>2 DEF FormaMensajes
<1>13. QED
  BY <1>2, <1>3, <1>5, <1>6, <1>7, <1>8, <1>9, <1>10, <1>11, <1>12
     DEF TypeOK, FormaComandos, FormaCerrojos, FormaRed

(* The types, for any instance: in particular the count of requests of a     *)
(* datanode never passes the blocks of a file, nor does anterior_md5, and    *)
(* anterior_cpto, which is never set back, stays below the blocks of all the *)
(* commands.                                                                 *)
THEOREM TiposLeer == Spec => []TypeOK
BY Inductivo, IInvTypeOK, PTL

(* A sum that is printed is that of the file (md5, solicitar_bloques 1862,   *)
(* RESPUESTASOLICITUD 1012), for any files, any order of the answers of the  *)
(* datanodes and any number of deaths, unless one of the three things that   *)
(* raro records happened.                                                    *)
THEOREM SiempreMd5 == Spec => []Md5Correcto
BY Inductivo, PTL DEF IInv

(* The first cpto writes each block where it belongs (escribir_archivo_cpto, *)
(* 3237), for any file and whatever datanodes die meanwhile.                 *)
THEOREM SiemprePrimerCpto == Spec => []PrimerCpto
<1>1. IInv => PrimerCpto
  BY DEF IInv, TurnoCpto, PrimerCpto
<1>2. QED
  BY <1>1, Inductivo, PTL

(* What a step of cat may do to the screen. *)
EnOrden ==
  pantalla' # pantalla =>
    LET p == pantalla
        q == pantalla'
    IN /\ IF q.orden = p.orden THEN q.i = p.i + 1
          ELSE q.i = 0 /\ q.orden > p.orden /\ p.falta = 1
       /\ q.veces = IF q.i + 1 = Cantidad(q.a) THEN 2 ELSE 1
       /\ raro = {} => q.dato = <<q.a, q.i>>

LEMMA SoloImprimir ==
  ASSUME [Next]_vars, \A f \in Fds : ~Imprimir(f)
  PROVE  pantalla' = pantalla
<1>1. ASSUME PasoConsola PROVE pantalla' = pantalla
  BY <1>1 DEF PasoConsola, Comenzar, Elegir, Mandar, MandarMuere, Sumar, Avisar, Morir, historia
<1>2. ASSUME NEW f \in Fds, PasoHilo(f) PROVE pantalla' = pantalla
  BY <1>2 DEF PasoHilo, LeerMd5, LeerCpto, LeerCptoMuere, LeerCat, Desconectar, Morir, historia
<1>3. ASSUME NEW f \in Fds, PasoNodo(f) \/ Caer(f) PROVE pantalla' = pantalla
  BY <1>3 DEF PasoNodo, Contestar, ContestarFuera, Caer, historia
<1>4. ASSUME NEW n \in Nodos, Volver(n) PROVE pantalla' = pantalla
  BY <1>4 DEF Volver, historia
<1>5. ASSUME UNCHANGED vars PROVE pantalla' = pantalla
  BY <1>5 DEF vars, historia
<1>6. QED
  BY <1>1, <1>2, <1>3, <1>4, <1>5 DEF Next

LEMMA PasoEnOrden == IInv /\ [Next]_vars => EnOrden
<1> SUFFICES ASSUME IInv, [Next]_vars PROVE EnOrden
  OBVIOUS
<1>1. ASSUME NEW f \in Fds, Imprimir(f) PROVE EnOrden
  <2>1. PICK r, p, q : r = Head(aFS[f]) /\ p = pantalla /\ q = pantalla'
    OBVIOUS
  <2>2. /\ q = [a |-> r.a, orden |-> r.orden, i |-> r.i, falta |-> r.falta, dato |-> r.dato,
                veces |-> IF EsUltimo(r) THEN 2 ELSE 1]
        /\ f \in imprime
    BY <1>1, <2>1 DEF Imprimir
  <2>3. /\ q.a = r.a /\ q.orden = r.orden /\ q.i = r.i /\ q.dato = r.dato
        /\ q.veces = IF r.falta = 1 THEN 2 ELSE 1
    BY <2>2 DEF EsUltimo
  <2>4. Sigue(p, r)
    BY <2>1, <2>2 DEF IInv, TurnoCat
  <2>5. r \in Mensajes(aFS, f)
    BY <1>1, <2>1, ViajaImprimir DEF IInv
  <2>6. raro = {} => r.dato = <<r.a, r.i>>
    BY <2>5 DEF IInv, Verdad
  <2>7. q.veces = IF q.i + 1 = Cantidad(q.a) THEN 2 ELSE 1
    <3>1. r.a \in Archivos /\ r.i \in Nat /\ Faltan(r)
      BY <1>1, <2>1, <2>2, ViajaImprimir DEF IInv, TurnoCat, Respuesta
    <3>2. Cantidad(r.a) \in Nat
      BY <3>1, Instancia
    <3>3. QED
      BY <2>3, <3>1, <3>2 DEF Faltan
  <2>8. QED
    BY <2>1, <2>3, <2>4, <2>6, <2>7 DEF EnOrden, Sigue
<1>2. CASE \A f \in Fds : ~Imprimir(f)
  BY <1>2, SoloImprimir DEF EnOrden
<1>3. QED
  BY <1>1, <1>2

(* cat prints the blocks of a file in order and a file after the other, and  *)
(* the blocks that were asked for (RESPUESTASOLICITUDCPTO 1047), the last    *)
(* one of a file twice and no other (1051), for any files, commands and      *)
(* deaths of datanodes: mutex_cpto is released before the block is printed,  *)
(* and the mutex of the printing is enough.                                  *)
THEOREM SiempreCatEnOrden == Spec => CatEnOrden
<1>1. IInv /\ [Next]_vars => [EnOrden]_vars
  BY PasoEnOrden
<1>2. Spec => [][EnOrden]_vars
  BY <1>1, Inductivo, PTL DEF Spec
<1>3. QED
  BY <1>2, PTL DEF CatEnOrden, EnOrden
=============================================================================
