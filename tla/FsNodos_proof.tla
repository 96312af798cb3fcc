--------------------------- MODULE FsNodos_proof ---------------------------
(***************************************************************************)
(* FsNodos keeps its types and registers no datanode that an earlier run   *)
(* did not know, except through a descriptor that two threads read,        *)
(* nodos.bin has the Total of every registered node, the                   *)
(* socket of a registered node is its own and YAMA was told of every node, *)
(* for any number of datanodes and of connections, any earlier run and any *)
(* number of processes that end.  The last three hold on top of the first  *)
(* invariant, except after what choque, comparte, Cierre and carrera       *)
(* remember.                                                               *)
(***************************************************************************)
EXTENDS FsNodos, FiniteSetTheorems, TLAPS

Conocido(n) == anteriores # {} => n \in anteriores

(* With bitmaps of an earlier run the system starts as formatted, and stays. *)
FormateadoAntes == anteriores # {} /\ anteriores # {Nulo} => formateado

(* A thread that did not end has a descriptor. *)
HilosConSocket == \A t \in Hilos : hilo[t].pc \notin {"no", "fin"} => hilo[t].s \in Sockets

(* The thread t answered n, over the descriptor s, and did not look for it. *)
Compara(t, s, n) == hilo[t].pc = "compara" /\ hilo[t].s = s /\ hilo[t].nodo = n

(* What identifies itself was not rejected, or is still to be looked for... *)
IdentificaConocidos ==
  \A s \in Sockets : \A i \in 1..Len(entra[s]) :
    entra[s][i] = "IDENTIFICACION" =>
      /\ dueno[s] \in Nodos
      /\ Conocido(dueno[s]) \/ \E t \in Hilos : Compara(t, s, dueno[s])

(* ... and so is what is registered by whatever thread read it, or was let   *)
(* in by a second one.                                                       *)
Admitido(n) == n \in Nodos /\ (Conocido(n) \/ n \in colados)
RegistraConocidos ==
  \A t \in Hilos : Registrando(t) => Admitido(hilo[t].nodo)
ComparaNodos == \A t \in Hilos : hilo[t].pc = "compara" => hilo[t].nodo \in Nodos

(* Two threads that read the same descriptor are remembered. *)
Separados ==
  ~comparte => \A t, u \in Hilos :
    t # u /\ hilo[t].s = hilo[u].s /\ hilo[t].s # 0 => Sacando(t) \/ Sacando(u)

(* A thread that was not started has no descriptor. *)
LibresSinSocket == \A t \in Hilos : hilo[t].pc = "no" => hilo[t].s = 0

(* The inductive invariant. *)
IInv ==
  /\ TypeOK
  /\ HilosConSocket /\ LibresSinSocket
  /\ IdentificaConocidos /\ RegistraConocidos /\ ComparaNodos /\ Separados
  /\ FormateadoAntes /\ SoloConocidos

-----------------------------------------------------------------------------
(* What a list holds is of its type. *)
LEMMA Elemento ==
  ASSUME NEW S, NEW q \in Seq(S), NEW i \in 1..Len(q)
  PROVE  q[i] \in S
  OBVIOUS

(* Reading a message leaves messages that were already there. *)
LEMMA Leida ==
  ASSUME NEW q \in Seq(Mensaje), q # <<>>
  PROVE  /\ Tail(q) \in Seq(Mensaje) /\ Head(q) = q[1] /\ 1 \in 1..Len(q)
         /\ \A i \in 1..Len(Tail(q)) : i + 1 \in 1..Len(q) /\ Tail(q)[i] = q[i + 1]
  OBVIOUS

(* A message arrives behind those that were there. *)
LEMMA Llegada ==
  ASSUME NEW q \in Seq(Mensaje), NEW m \in Mensaje
  PROVE  /\ Append(q, m) \in Seq(Mensaje) /\ q \o <<m>> \in Seq(Mensaje)
         /\ \A i \in 1..Len(Append(q, m)) :
              Append(q, m)[i] = m \/ (i \in 1..Len(q) /\ Append(q, m)[i] = q[i])
         /\ \A i \in 1..Len(q \o <<m>>) :
              (q \o <<m>>)[i] = m \/ (i \in 1..Len(q) /\ (q \o <<m>>)[i] = q[i])
  OBVIOUS

(* The program starts with the invariant, whatever an earlier run left. *)
THEOREM Inicio == Init => IInv
<1> SUFFICES ASSUME Init PROVE IInv
  OBVIOUS
<1>1. PICK p \in Previos : /\ anteriores = IF p.limpio THEN {Nulo} ELSE p.bitmaps
                           /\ formateado = (p.bitmaps # {})
                           /\ bitmaps = p.bitmaps
  BY DEF Init
<1>2. p.bitmaps \subseteq Nodos /\ (p.limpio => p.bitmaps = {})
  BY Previas
<1>3. anteriores \subseteq Nodos \cup {Nulo} /\ bitmaps \subseteq Nodos
  BY <1>1, <1>2
<1>4. TypeOK
  <2>1. TiposMarcas
    <3>1. formateado \in BOOLEAN
      BY <1>1
    <3>2. anteriores \subseteq Nodos \cup {Nulo} /\ socketYAMA \in {0} \cup Sockets
      BY <1>3 DEF Init
    <3>3. QED
      BY <3>1, <3>2 DEF Init, TiposMarcas
  <2>a. TiposNodos
    <3>1. datanodes \in Seq([nodo : Nodos, socket : Sockets])
      BY DEF Init
    <3>2. mutex \in BOOLEAN
      BY DEF Init
    <3>3. bitmaps \subseteq Nodos /\ totales \subseteq Nodos
      BY <1>3 DEF Init
    <3>4. consola \in Consola
      BY DEF Init, SinOrden, Consola
    <3>5. QED
      BY <3>1, <3>2, <3>3, <3>4 DEF TiposNodos
  <2>2. TiposConexiones /\ TiposYama
    BY DEF Init, TiposConexiones, TiposYama, Hilo, Libre
  <2>3. QED
    BY <2>1, <2>a, <2>2 DEF TypeOK
<1>5. FormateadoAntes
  BY <1>1, <1>2 DEF FormateadoAntes
<1>6. HilosConSocket /\ IdentificaConocidos /\ RegistraConocidos /\ SoloConocidos
  BY DEF Init, Libre, HilosConSocket, IdentificaConocidos, RegistraConocidos, Registrando,
         SoloConocidos
<1>8. LibresSinSocket /\ ComparaNodos /\ Separados
  BY DEF Init, Libre, LibresSinSocket, ComparaNodos, Separados
<1>7. QED
  BY <1>4, <1>5, <1>6, <1>8 DEF IInv

-----------------------------------------------------------------------------
(* What an invariant of the threads alone says. *)
DeHilos ==
  /\ hilo \in [Hilos -> Hilo]
  /\ HilosConSocket /\ LibresSinSocket
  /\ RegistraConocidos /\ ComparaNodos /\ Separados

(* What the connections say. *)
DeConexiones ==
  /\ proc \in [Procesos -> {0} \cup Sockets]
  /\ dueno \in [Sockets -> Procesos \cup {Nadie}]
  /\ entra \in [Sockets -> Seq(Mensaje)]
  /\ IdentificaConocidos

LEMMA Partes ==
  ASSUME TiposMarcas', FormateadoAntes', TiposNodos', SoloConocidos', DeHilos', DeConexiones',
         TiposYama'
  PROVE  IInv'
BY DEF IInv, TypeOK, TiposConexiones, DeHilos, DeConexiones

(* Who is let in is remembered from then on, and so is what was shared. *)
Recuerda == colados \subseteq colados' /\ (comparte => comparte')

(* It may be registered after the step. *)
AdmitidoLuego(n) == n \in Nodos /\ (Conocido(n) \/ n \in colados')

(* The threads that still have to look for a node go on doing so. *)
SiguenComparando == \A u \in Hilos : hilo[u].pc = "compara" => hilo'[u] = hilo[u]

-----------------------------------------------------------------------------
(* What does not move keeps its part of the invariant. *)
LEMMA MarcasQuietas ==
  ASSUME IInv, UNCHANGED <<fs, marcas, socketYAMA, desconectado>>
  PROVE  TiposMarcas' /\ FormateadoAntes'
BY DEF IInv, TypeOK, TiposMarcas, FormateadoAntes, marcas

LEMMA ListaQuieta ==
  ASSUME IInv, UNCHANGED <<datanodes, anteriores>>, colados' = colados, comparte => comparte'
  PROVE  SoloConocidos'
BY DEF IInv, SoloConocidos

LEMMA NodosQuietos ==
  ASSUME IInv, UNCHANGED <<nodos, metadata, anteriores, colados>>, comparte => comparte'
  PROVE  TiposNodos' /\ SoloConocidos'
<1>1. TiposNodos'
  BY DEF IInv, TypeOK, TiposNodos, nodos, metadata
<1>2. QED
  BY <1>1, ListaQuieta DEF nodos

(* What identifies itself did so before. *)
LEMMA IdentificaIgual ==
  ASSUME IInv, UNCHANGED anteriores, SiguenComparando,
         \A s \in Sockets : \A i \in 1..Len(entra'[s]) :
           entra'[s][i] = "IDENTIFICACION" =>
             /\ dueno'[s] = dueno[s]
             /\ \E j \in 1..Len(entra[s]) : entra[s][j] = "IDENTIFICACION"
  PROVE  IdentificaConocidos'
<1> SUFFICES ASSUME NEW s \in Sockets, NEW i \in 1..Len(entra'[s]),
                    entra'[s][i] = "IDENTIFICACION"
             PROVE  /\ dueno'[s] \in Nodos
                    /\ Conocido(dueno[s])' \/ \E t \in Hilos : Compara(t, s, dueno[s])'
  BY DEF IdentificaConocidos
<1>1. dueno'[s] = dueno[s] /\ \E j \in 1..Len(entra[s]) : entra[s][j] = "IDENTIFICACION"
  OBVIOUS
<1>2. /\ dueno[s] \in Nodos
      /\ Conocido(dueno[s]) \/ \E t \in Hilos : Compara(t, s, dueno[s])
  BY <1>1 DEF IInv, IdentificaConocidos
<1>3. CASE Conocido(dueno[s])
  BY <1>1, <1>2, <1>3 DEF Conocido
<1>4. CASE \E t \in Hilos : Compara(t, s, dueno[s])
  <2>1. PICK t \in Hilos : Compara(t, s, dueno[s])
    BY <1>4
  <2>2. hilo'[t] = hilo[t]
    BY <2>1 DEF SiguenComparando, Compara
  <2>3. Compara(t, s, dueno[s])'
    BY <1>1, <2>1, <2>2 DEF Compara
  <2>4. QED
    BY <1>1, <1>2, <2>3
<1>5. QED
  BY <1>2, <1>3, <1>4

LEMMA ConexionesQuietas ==
  ASSUME IInv, UNCHANGED <<proc, dueno, entra, anteriores>>, SiguenComparando
  PROVE  DeConexiones'
<1>1. IdentificaConocidos'
  BY IdentificaIgual
<1>2. QED
  BY <1>1 DEF IInv, TypeOK, TiposConexiones, DeConexiones

LEMMA HilosQuietos ==
  ASSUME IInv, UNCHANGED <<hilo, anteriores>>, Recuerda
  PROVE  DeHilos' /\ SiguenComparando
<1>1. RegistraConocidos'
  BY DEF IInv, RegistraConocidos, Registrando, Admitido, Conocido, Recuerda
<1>2. Separados'
  BY DEF IInv, Separados, Sacando, Recuerda
<1>3. QED
  BY <1>1, <1>2
  DEF IInv, TypeOK, TiposConexiones, HilosConSocket, LibresSinSocket, ComparaNodos, DeHilos,
      SiguenComparando

LEMMA YamaQuieta ==
  ASSUME IInv, UNCHANGED yama
  PROVE  TiposYama'
BY DEF IInv, TypeOK, TiposYama, yama

LEMMA AlOlvidar ==
  ASSUME Olvidar
  PROVE  TiposYama'
<1>1. workers' \in Seq([nodo : Nodos, indice : Nat])
  BY DEF Olvidar
<1>2. QED
  BY <1>1 DEF Olvidar, TiposYama

(* A thread moves on to h, with its descriptor until it ends. *)
LEMMA HiloPasa ==
  ASSUME IInv, UNCHANGED anteriores, Recuerda, NEW t \in Hilos, NEW h \in Hilo,
         hilo' = [hilo EXCEPT ![t] = h], h.pc # "no",
         \/ h.s = hilo[t].s /\ h.s \in Sockets /\ (Sacando(t) => h.pc \in {"quita", "saca"})
         \/ h.s = 0 /\ h.pc = "fin",
         h.pc \in {"guarda", "agrega"} => AdmitidoLuego(h.nodo),
         h.pc = "compara" => h.nodo \in Nodos
  PROVE  DeHilos' /\ (hilo[t].pc # "compara" => SiguenComparando)
<1>1. hilo' \in [Hilos -> Hilo]
  BY DEF IInv, TypeOK, TiposConexiones
<1>2. \A u \in Hilos : hilo'[u] = IF u = t THEN h ELSE hilo[u]
  BY DEF IInv, TypeOK, TiposConexiones
<1>3. HilosConSocket' /\ LibresSinSocket' /\ ComparaNodos'
  BY <1>2 DEF IInv, HilosConSocket, LibresSinSocket, ComparaNodos
<1>4. RegistraConocidos'
  <2> SUFFICES ASSUME NEW u \in Hilos, Registrando(u)' PROVE Admitido(hilo[u].nodo)'
    BY DEF RegistraConocidos
  <2>1. CASE u = t
    BY <1>2, <2>1 DEF Registrando, Admitido, AdmitidoLuego, Conocido
  <2>2. CASE u # t
    <3>1. hilo'[u] = hilo[u] /\ Registrando(u)
      BY <1>2, <2>2 DEF Registrando
    <3>2. Admitido(hilo[u].nodo)
      BY <3>1 DEF IInv, RegistraConocidos
    <3>3. QED
      BY <3>1, <3>2 DEF Admitido, Conocido, Recuerda
  <2>3. QED
    BY <2>1, <2>2
<1>5. Separados'
  <2> SUFFICES ASSUME ~comparte', NEW u \in Hilos, NEW v \in Hilos,
                      u # v, hilo'[u].s = hilo'[v].s, hilo'[u].s # 0
               PROVE  Sacando(u)' \/ Sacando(v)'
    BY DEF Separados
  <2>1. h.s # 0 => h.s = hilo[t].s
    OBVIOUS
  <2>2. hilo'[u].s = hilo[u].s /\ hilo'[v].s = hilo[v].s
    BY <1>2, <2>1
  <2>3. Sacando(u) \/ Sacando(v)
    BY <2>2 DEF IInv, Separados, Recuerda
  <2>4. \A w \in Hilos : Sacando(w) /\ hilo'[w].s # 0 => Sacando(w)'
    BY <1>2 DEF Sacando
  <2>5. QED
    BY <2>2, <2>3, <2>4
<1>6. hilo[t].pc # "compara" => SiguenComparando
  BY <1>2 DEF SiguenComparando
<1>7. QED
  BY <1>1, <1>3, <1>4, <1>5, <1>6 DEF DeHilos

(* In particular to another place of accion, with what it had. *)
LEMMA Pasa ==
  ASSUME IInv, UNCHANGED anteriores, Recuerda, NEW t \in Hilos,
         NEW pc \in {"lee", "lista", "agrega", "verifica", "cierra", "quita"},
         Ir(t, pc), hilo[t].pc \notin {"no", "fin", "compara", "quita", "saca"},
         pc = "agrega" => Registrando(t)
  PROVE  DeHilos' /\ SiguenComparando
<1> DEFINE h == [hilo[t] EXCEPT !.pc = pc]
<1>1. hilo[t] \in Hilo
  BY DEF IInv, TypeOK, TiposConexiones
<1>2. h \in Hilo /\ h.pc = pc /\ h.s = hilo[t].s /\ h.nodo = hilo[t].nodo
  BY <1>1 DEF Hilo
<1>3. hilo' = [hilo EXCEPT ![t] = h]
  BY DEF Ir
<1>4. h.s = hilo[t].s /\ h.s \in Sockets /\ ~Sacando(t)
  BY <1>2 DEF IInv, HilosConSocket, Sacando
<1>5. h.pc \in {"guarda", "agrega"} => AdmitidoLuego(h.nodo)
  <2>1. ASSUME h.pc \in {"guarda", "agrega"} PROVE Registrando(t)
    BY <1>2, <2>1
  <2>2. Registrando(t) => Admitido(hilo[t].nodo)
    BY DEF IInv, RegistraConocidos
  <2>3. QED
    BY <1>2, <2>1, <2>2 DEF Admitido, AdmitidoLuego, Recuerda
<1>6. h.pc # "no" /\ h.pc # "compara"
  BY <1>2
<1> HIDE DEF h
<1>7. QED
  BY <1>2, <1>3, <1>4, <1>5, <1>6, HiloPasa

(* The process ends: nothing is left that could break the invariant. *)
LEMMA AlMorir ==
  ASSUME IInv, Morir
  PROVE  IInv'
<1>1. TiposMarcas' /\ FormateadoAntes'
  BY DEF Morir, IInv, TypeOK, TiposMarcas, FormateadoAntes, marcas
<1>2. TiposNodos' /\ SoloConocidos'
  <2>1. datanodes' \in Seq([nodo : Nodos, socket : Sockets]) /\ DOMAIN datanodes' = {}
    BY DEF Morir
  <2>2. mutex' \in BOOLEAN /\ consola' \in Consola
    BY DEF Morir, SinOrden, Consola
  <2>3. bitmaps' \subseteq Nodos /\ totales' \subseteq Nodos
    BY DEF Morir, IInv, TypeOK, TiposNodos
  <2>4. UNCHANGED <<colados, comparte>>
    BY DEF Morir, historia
  <2>5. QED
    BY <2>1, <2>2, <2>3, <2>4 DEF TiposNodos, SoloConocidos, IInv
<1>3. TiposConexiones' /\ TiposYama'
  BY DEF Morir, Olvidar, TiposConexiones, TiposYama, Hilo, Libre
<1>4. HilosConSocket' /\ LibresSinSocket' /\ IdentificaConocidos' /\ RegistraConocidos'
  BY DEF Morir, Libre, HilosConSocket, LibresSinSocket, IdentificaConocidos, RegistraConocidos,
         Registrando
<1>5. ComparaNodos' /\ Separados'
  BY DEF Morir, Libre, ComparaNodos, Separados
<1>6. QED
  BY <1>1, <1>2, <1>3, <1>4, <1>5 DEF IInv, TypeOK

(* A descriptor is closed: nothing is left to read over it. *)
LEMMA Cortada ==
  ASSUME IInv, NEW s \in Sockets, Cortar(s)
  PROVE  /\ proc' \in [Procesos -> {0} \cup Sockets]
         /\ dueno' \in [Sockets -> Procesos \cup {Nadie}]
         /\ entra' \in [Sockets -> Seq(Mensaje)]
         /\ TiposYama'
         /\ entra'[s] = <<>>
         /\ \A x \in Sockets : x # s => entra'[x] = entra[x] /\ dueno'[x] = dueno[x]
<1>1. /\ proc' \in [Procesos -> {0} \cup Sockets]
      /\ dueno' \in [Sockets -> Procesos \cup {Nadie}]
      /\ entra' \in [Sockets -> Seq(Mensaje)]
  BY DEF Cortar, IInv, TypeOK, TiposConexiones
<1>2. \A x \in Sockets : x # s => entra'[x] = entra[x] /\ dueno'[x] = dueno[x]
  BY DEF Cortar, IInv, TypeOK, TiposConexiones
<1>3. entra'[s] = <<>>
  BY DEF Cortar, IInv, TypeOK, TiposConexiones
<1>4. TiposYama'
  BY AlOlvidar, YamaQuieta DEF Cortar
<1>5. QED
  BY <1>1, <1>2, <1>3, <1>4

LEMMA AlCortar ==
  ASSUME IInv, UNCHANGED anteriores, NEW s \in Sockets, Cortar(s), SiguenComparando
  PROVE  DeConexiones' /\ TiposYama'
<1>1. /\ entra'[s] = <<>>
      /\ \A x \in Sockets : x # s => entra'[x] = entra[x] /\ dueno'[x] = dueno[x]
  BY Cortada
<1>2. IdentificaConocidos'
  BY <1>1, IdentificaIgual
<1>3. QED
  BY <1>2, Cortada DEF DeConexiones

(* A message is read. *)
LEMMA AlLeer ==
  ASSUME IInv, UNCHANGED <<anteriores, proc, dueno>>, NEW s \in Sockets, entra[s] # <<>>,
         entra' = [entra EXCEPT ![s] = Tail(@)], SiguenComparando
  PROVE  DeConexiones'
<1>1. entra[s] \in Seq(Mensaje)
  BY DEF IInv, TypeOK, TiposConexiones
<1>2. entra' \in [Sockets -> Seq(Mensaje)]
  BY <1>1, Leida DEF IInv, TypeOK, TiposConexiones
<1>3. \A x \in Sockets : x # s => entra'[x] = entra[x]
  BY DEF IInv, TypeOK, TiposConexiones
<1>4. entra'[s] = Tail(entra[s])
  BY DEF IInv, TypeOK, TiposConexiones
<1>5. \A i \in 1..Len(entra'[s]) : i + 1 \in 1..Len(entra[s]) /\ entra'[s][i] = entra[s][i + 1]
  BY <1>1, <1>4, Leida
<1>6. IdentificaConocidos'
  BY <1>3, <1>5, IdentificaIgual
<1>7. QED
  BY <1>2, <1>6 DEF IInv, TypeOK, TiposConexiones, DeConexiones

(* A node that was not rejected is one of those of the earlier run. *)
LEMMA NoRechazado ==
  ASSUME IInv, NEW n \in Nodos, anteriores # {Nulo}, ~SeRechaza(n)
  PROVE  Conocido(n)
BY DEF IInv, FormateadoAntes, SeRechaza, Conocido

(* The thread that reads has a descriptor. *)
LEMMA SocketDeHilo ==
  ASSUME IInv, NEW t \in Hilos, hilo[t].pc \notin {"no", "fin"}
  PROVE  hilo[t].s \in Sockets /\ hilo[t].s # 0
BY Distintos DEF IInv, HilosConSocket, Sockets

-----------------------------------------------------------------------------
(* One lemma per action: it keeps the invariant. *)
LEMMA PasoConectar ==
  ASSUME IInv, NEW p \in Procesos, Conectar(p)
  PROVE  IInv'
<1>1. PICK s \in Sockets, t \in Hilos :
        /\ hilo[t].pc = "no"
        /\ dueno' = [dueno EXCEPT ![s] = p]
        /\ entra' = [entra EXCEPT ![s] = <<"HANDSHAKE">>]
        /\ proc' = [proc EXCEPT ![p] = s]
        /\ hilo' = [hilo EXCEPT ![t] = [Libre EXCEPT !.pc = "lee", !.s = s]]
        /\ comparte' = (comparte \/ \E u \in Hilos : hilo[u].s = s /\ ~Sacando(u))
  BY DEF Conectar
<1>2. UNCHANGED <<fs, marcas, socketYAMA, desconectado, nodos, metadata, yama, colados>>
  BY DEF Conectar
<1>3. UNCHANGED anteriores
  BY <1>2 DEF marcas
<1> DEFINE h == [Libre EXCEPT !.pc = "lee", !.s = s]
<1>4. h \in Hilo /\ h.pc = "lee" /\ h.s = s
  BY DEF Hilo, Libre
<1>5. hilo' \in [Hilos -> Hilo] /\ \A u \in Hilos : hilo'[u] = IF u = t THEN h ELSE hilo[u]
  BY <1>1, <1>4 DEF IInv, TypeOK, TiposConexiones
<1> HIDE DEF h
<1>6. SiguenComparando
  BY <1>1, <1>5 DEF SiguenComparando
<1>7. DeHilos'
  <2>1. HilosConSocket' /\ LibresSinSocket' /\ ComparaNodos'
    BY <1>4, <1>5 DEF IInv, HilosConSocket, LibresSinSocket, ComparaNodos
  <2>2. RegistraConocidos'
    BY <1>2, <1>3, <1>4, <1>5
    DEF IInv, RegistraConocidos, Registrando, Admitido, Conocido
  <2>3. Separados'
    <3> SUFFICES ASSUME ~comparte', NEW u \in Hilos, NEW v \in Hilos,
                        u # v, hilo'[u].s = hilo'[v].s, hilo'[u].s # 0
                 PROVE  Sacando(u)' \/ Sacando(v)'
      BY DEF Separados
    <3>1. \A w \in Hilos : w # t /\ hilo[w].s = s => Sacando(w) /\ Sacando(w)'
      BY <1>1, <1>5 DEF Sacando
    <3>2. CASE u = t \/ v = t
      BY <1>4, <1>5, <3>1, <3>2
    <3>3. CASE u # t /\ v # t
      BY <1>1, <1>5, <3>3 DEF IInv, Separados, Sacando
    <3>4. QED
      BY <3>2, <3>3
  <2>4. QED
    BY <1>5, <2>1, <2>2, <2>3 DEF DeHilos
<1>8. DeConexiones'
  <2>1. /\ proc' \in [Procesos -> {0} \cup Sockets]
        /\ dueno' \in [Sockets -> Procesos \cup {Nadie}]
    BY <1>1 DEF IInv, TypeOK, TiposConexiones
  <2>2. entra' \in [Sockets -> Seq(Mensaje)]
    BY <1>1 DEF IInv, TypeOK, TiposConexiones, Mensaje
  <2>3. \A x \in Sockets : x # s => entra'[x] = entra[x] /\ dueno'[x] = dueno[x]
    BY <1>1 DEF IInv, TypeOK, TiposConexiones
  <2>4. entra'[s] = <<"HANDSHAKE">>
    BY <1>1 DEF IInv, TypeOK, TiposConexiones
  <2>5. \A i \in 1..Len(entra'[s]) : entra'[s][i] # "IDENTIFICACION"
    BY <2>4
  <2>6. IdentificaConocidos'
    BY <1>3, <1>6, <2>3, <2>5, IdentificaIgual
  <2>7. QED
    BY <2>1, <2>2, <2>6 DEF DeConexiones
<1>9. TiposMarcas' /\ FormateadoAntes' /\ TiposNodos' /\ SoloConocidos' /\ TiposYama'
  BY <1>1, <1>2, <1>3, MarcasQuietas, NodosQuietos, YamaQuieta
<1>10. QED
  BY <1>7, <1>8, <1>9, Partes

LEMMA PasoTerminar ==
  ASSUME IInv, NEW p \in Procesos, Terminar(p)
  PROVE  IInv'
<1> DEFINE s == proc[p]
<1>1. s \in Sockets
  BY DEF Terminar, IInv, TypeOK, TiposConexiones
<1>2. UNCHANGED <<fs, marcas, socketYAMA, desconectado, nodos, metadata, hilo, dueno, historia>>
  BY DEF Terminar
<1>3. UNCHANGED anteriores /\ Recuerda /\ colados' = colados
  BY <1>2 DEF marcas, historia, Recuerda
<1>4. entra[s] \in Seq(Mensaje) /\ "FIN" \in Mensaje
  BY <1>1 DEF IInv, TypeOK, TiposConexiones, Mensaje
<1>5. PICK q \in {<<"FIN">>, Append(entra[s], "FIN")} : entra' = [entra EXCEPT ![s] = q]
  BY DEF Terminar
<1>6. /\ q \in Seq(Mensaje)
      /\ \A i \in 1..Len(q) : q[i] = "FIN" \/ (i \in 1..Len(entra[s]) /\ q[i] = entra[s][i])
  <2>1. CASE q = <<"FIN">>
    BY <1>4, <2>1
  <2>2. CASE q = Append(entra[s], "FIN")
    BY <1>4, <2>2, Llegada
  <2>3. QED
    BY <2>1, <2>2
<1>7. /\ entra' \in [Sockets -> Seq(Mensaje)] /\ entra'[s] = q
      /\ \A x \in Sockets : x # s => entra'[x] = entra[x]
  BY <1>1, <1>5, <1>6 DEF IInv, TypeOK, TiposConexiones
<1>8. DeHilos' /\ SiguenComparando
  BY <1>2, <1>3, HilosQuietos
<1>9. DeConexiones'
  <2>1. proc' \in [Procesos -> {0} \cup Sockets] /\ dueno' \in [Sockets -> Procesos \cup {Nadie}]
    BY <1>2 DEF Terminar, IInv, TypeOK, TiposConexiones
  <2>2. IdentificaConocidos'
    BY <1>2, <1>3, <1>6, <1>7, <1>8, IdentificaIgual
  <2>3. QED
    BY <1>7, <2>1, <2>2 DEF DeConexiones
<1>10. TiposYama'
  BY AlOlvidar, YamaQuieta DEF Terminar
<1>11. TiposMarcas' /\ FormateadoAntes' /\ TiposNodos' /\ SoloConocidos'
  BY <1>2, <1>3, MarcasQuietas, NodosQuietos DEF Recuerda
<1>12. QED
  BY <1>8, <1>9, <1>10, <1>11, Partes

LEMMA PasoHandshakeNodo ==
  ASSUME IInv, NEW t \in Hilos, HandshakeNodo(t)
  PROVE  IInv'
<1> DEFINE s == hilo[t].s
           n == dueno[s]
<1>1. s \in Sockets /\ entra[s] # <<>> /\ n \in Nodos /\ hilo[t].pc = "lee" /\ s # 0
  BY SocketDeHilo DEF HandshakeNodo, Leer, Paso
<1>2. /\ entra' = [entra EXCEPT ![s] = IF Tail(entra[s]) = <<>> THEN <<"IDENTIFICACION">>
                                       ELSE Tail(entra[s])]
      /\ hilo' = [hilo EXCEPT ![t].pc = "compara", ![t].nodo = n]
      /\ UNCHANGED <<fs, marcas, socketYAMA, desconectado, nodos, metadata, proc, dueno, yama,
                     historia>>
  BY DEF HandshakeNodo
<1>3. UNCHANGED anteriores /\ Recuerda /\ colados' = colados
  BY <1>2 DEF marcas, historia, Recuerda
<1> DEFINE h == [hilo[t] EXCEPT !.pc = "compara", !.nodo = n]
<1>4. hilo' = [hilo EXCEPT ![t] = h]
  BY <1>2 DEF IInv, TypeOK, TiposConexiones, Hilo
<1>5. hilo[t] \in Hilo
  BY DEF IInv, TypeOK, TiposConexiones
<1>6. h \in Hilo /\ h.s = s /\ h.nodo = n /\ h.pc = "compara"
  BY <1>1, <1>5 DEF Hilo
<1>7. hilo'[t] = h
  BY <1>4 DEF IInv, TypeOK, TiposConexiones
<1> HIDE DEF h
<1>8. DeHilos' /\ SiguenComparando
  BY <1>1, <1>3, <1>4, <1>6, HiloPasa DEF Sacando
<1>9. DeConexiones'
  <2> DEFINE q == Tail(entra[s])
             m == "IDENTIFICACION"
  <2>1. entra[s] \in Seq(Mensaje) /\ m \in Mensaje
    BY <1>1 DEF IInv, TypeOK, TiposConexiones, Mensaje
  <2>2. q \in Seq(Mensaje) /\ <<m>> \in Seq(Mensaje)
    BY <1>1, <2>1, Leida
  <2>3. \A x \in Sockets : x # s => entra'[x] = entra[x]
    BY <1>2 DEF IInv, TypeOK, TiposConexiones
  <2>4. entra' \in [Sockets -> Seq(Mensaje)]
    BY <1>2, <2>2 DEF IInv, TypeOK, TiposConexiones
  <2>5. IdentificaConocidos'
    <3>1. hilo'[t].pc = "compara" /\ hilo'[t].s = s /\ hilo'[t].nodo = dueno'[s]
      BY <1>2, <1>6, <1>7
    <3>2. ASSUME NEW x \in Sockets, x # s, NEW i \in 1..Len(entra'[x]), entra'[x][i] = m
          PROVE  /\ dueno'[x] \in Nodos
                 /\ Conocido(dueno[x])' \/ \E u \in Hilos : Compara(u, x, dueno[x])'
      <4>1. /\ dueno[x] \in Nodos
            /\ Conocido(dueno[x]) \/ \E u \in Hilos : Compara(u, x, dueno[x])
        BY <2>3, <3>2 DEF IInv, IdentificaConocidos
      <4>2. \A u \in Hilos : Compara(u, x, dueno[x]) => Compara(u, x, dueno[x])'
        BY <1>2, <1>8 DEF Compara, SiguenComparando
      <4>3. Conocido(dueno[x]) => Conocido(dueno[x])'
        BY <1>2, <1>3 DEF Conocido
      <4>4. QED
        BY <1>2, <4>1, <4>2, <4>3
    <3> SUFFICES ASSUME NEW x \in Sockets, NEW i \in 1..Len(entra'[x]), entra'[x][i] = m
                 PROVE  /\ dueno'[x] \in Nodos
                        /\ Conocido(dueno[x])' \/ \E u \in Hilos : Compara(u, x, dueno[x])'
      BY DEF IdentificaConocidos
    <3>3. CASE x = s
      <4>1. Compara(t, x, dueno[x])'
        BY <3>1, <3>3 DEF Compara
      <4>2. dueno'[x] \in Nodos
        BY <1>1, <1>2, <3>3
      <4>3. QED
        BY <4>1, <4>2
    <3>4. QED
      BY <3>2, <3>3
  <2>6. QED
    BY <1>2, <2>4, <2>5 DEF IInv, TypeOK, TiposConexiones, DeConexiones
<1>10. TiposMarcas' /\ FormateadoAntes' /\ TiposNodos' /\ SoloConocidos' /\ TiposYama'
  BY <1>2, <1>3, MarcasQuietas, NodosQuietos, YamaQuieta DEF Recuerda
<1>11. QED
  BY <1>8, <1>9, <1>10, Partes

(* Who is let through was known; the others find their connection closed.    *)
LEMMA PasoComparar ==
  ASSUME IInv, NEW t \in Hilos, Comparar(t)
  PROVE  IInv'
<1> DEFINE s == hilo[t].s
           n == hilo[t].nodo
           h == [hilo[t] EXCEPT !.pc = "lee", !.nodo = Nulo]
<1>1. s \in Sockets /\ n \in Nodos /\ hilo[t].pc = "compara"
  BY SocketDeHilo DEF Comparar, Paso, IInv, ComparaNodos
<1>2. CASE Morir
  BY <1>2, AlMorir
<1>3. CASE ~Morir
  <2>1. /\ hilo' = [hilo EXCEPT ![t].pc = "lee", ![t].nodo = Nulo]
        /\ rechazado' \in BOOLEAN
        /\ \/ Cortar(s)
           \/ ~SeRechaza(n) /\ anteriores # {Nulo} /\ UNCHANGED <<conexiones, yama>>
        /\ UNCHANGED <<fs, formateado, estable, sin_datanodes, yama_online, anteriores,
                       socketYAMA, desconectado, nodos, metadata, historia>>
    BY <1>3 DEF Comparar
  <2>2. UNCHANGED anteriores /\ Recuerda /\ colados' = colados
    BY <2>1 DEF historia, Recuerda
  <2>3. hilo' = [hilo EXCEPT ![t] = h]
    BY <2>1 DEF IInv, TypeOK, TiposConexiones, Hilo
  <2>4. hilo[t] \in Hilo
    BY DEF IInv, TypeOK, TiposConexiones
  <2>5. h \in Hilo /\ h.s = s /\ h.pc = "lee"
    BY <2>4 DEF Hilo
  <2>6. \A u \in Hilos : u # t => hilo'[u] = hilo[u]
    BY <2>3 DEF IInv, TypeOK, TiposConexiones
  <2> HIDE DEF h
  <2>7. DeHilos'
    BY <1>1, <2>2, <2>3, <2>5, HiloPasa DEF Sacando
  <2>8. IdentificaConocidos'
    <3> SUFFICES ASSUME NEW x \in Sockets, NEW i \in 1..Len(entra'[x]),
                        entra'[x][i] = "IDENTIFICACION"
                 PROVE  /\ dueno'[x] \in Nodos
                        /\ Conocido(dueno[x])' \/ \E u \in Hilos : Compara(u, x, dueno[x])'
      BY DEF IdentificaConocidos
    <3>1. entra'[x] = entra[x] /\ dueno'[x] = dueno[x]
      <4>1. CASE Cortar(s)
        BY <1>1, <4>1, Cortada
      <4>2. CASE UNCHANGED conexiones
        BY <4>2 DEF conexiones
      <4>3. QED
        BY <2>1, <4>1, <4>2
    <3>2. /\ dueno[x] \in Nodos
          /\ Conocido(dueno[x]) \/ \E u \in Hilos : Compara(u, x, dueno[x])
      BY <3>1 DEF IInv, IdentificaConocidos
    <3>3. CASE Conocido(dueno[x])
      BY <2>2, <3>1, <3>2, <3>3 DEF Conocido
    <3>4. ASSUME NEW u \in Hilos, Compara(u, x, dueno[x]), ~Conocido(dueno[x])
          PROVE  Compara(u, x, dueno[x])'
      <4>1. u # t
        <5>1. SUFFICES ASSUME u = t PROVE FALSE
          OBVIOUS
        <5>2. x = s /\ dueno[x] = n
          BY <3>4, <5>1 DEF Compara
        <5>3. SeRechaza(n)
          BY <1>1, <2>1, <3>4, <5>2, NoRechazado, Cortada
        <5>4. Cortar(s)
          BY <2>1, <5>3
        <5>5. entra'[s] = <<>>
          BY <1>1, <5>4, Cortada
        <5>6. QED
          BY <5>2, <5>5
      <4>2. QED
        BY <2>6, <3>1, <3>4, <4>1 DEF Compara
    <3>5. QED
      BY <3>1, <3>2, <3>3, <3>4
  <2>9. DeConexiones' /\ TiposYama'
    <3>1. CASE Cortar(s)
      BY <1>1, <2>8, <3>1, Cortada DEF DeConexiones
    <3>2. CASE UNCHANGED <<conexiones, yama>>
      BY <2>8, <3>2, YamaQuieta DEF IInv, TypeOK, TiposConexiones, conexiones, DeConexiones
    <3>3. QED
      BY <2>1, <3>1, <3>2
  <2>10. TiposMarcas' /\ FormateadoAntes'
    BY <2>1 DEF IInv, TypeOK, TiposMarcas, FormateadoAntes
  <2>11. TiposNodos' /\ SoloConocidos'
    BY <2>1, <2>2, NodosQuietos DEF Recuerda
  <2>12. QED
    BY <2>7, <2>9, <2>10, <2>11, Partes
<1>4. QED
  BY <1>2, <1>3

LEMMA PasoHandshakeYama ==
  ASSUME IInv, NEW t \in Hilos, HandshakeYama(t)
  PROVE  IInv'
<1> DEFINE s == hilo[t].s
<1>1. s \in Sockets /\ entra[s] # <<>> /\ hilo[t].pc = "lee"
  BY SocketDeHilo DEF HandshakeYama, Leer, Paso
<1>2. /\ socketYAMA' = s
      /\ UNCHANGED <<fs, formateado, estable, sin_datanodes, anteriores, desconectado, nodos,
                     metadata, comparte, colados>>
  BY DEF HandshakeYama
<1>3. yama_online' \in BOOLEAN
  BY DEF HandshakeYama, IInv, TypeOK, TiposMarcas
<1>4. rechazado' \in BOOLEAN
  BY DEF HandshakeYama, IInv, TypeOK, TiposMarcas
<1>5. TiposMarcas' /\ FormateadoAntes'
  BY <1>1, <1>2, <1>3, <1>4 DEF IInv, TypeOK, TiposMarcas, FormateadoAntes
<1>6. TiposNodos' /\ SoloConocidos'
  BY <1>2, NodosQuietos
<1>7. DeHilos' /\ SiguenComparando
  <2>1. Ir(t, "lista") \/ Ir(t, "cierra")
    BY DEF HandshakeYama
  <2>2. Recuerda
    BY <1>2 DEF Recuerda
  <2>3. QED
    BY <1>1, <1>2, <2>1, <2>2, Pasa
<1>8. DeConexiones' /\ TiposYama'
  <2>1. CASE estable
    <3>1. entra' = [entra EXCEPT ![s] = Tail(@)] /\ UNCHANGED <<proc, dueno, yama>>
      BY <2>1 DEF HandshakeYama
    <3>2. QED
      BY <1>1, <1>2, <1>7, <3>1, AlLeer, YamaQuieta
  <2>2. CASE ~estable
    BY <1>1, <1>2, <1>7, <2>2, AlCortar DEF HandshakeYama
  <2>3. QED
    BY <2>1, <2>2
<1>9. QED
  BY <1>5, <1>6, <1>7, <1>8, Partes

LEMMA PasoEnviarLista ==
  ASSUME IInv, NEW t \in Hilos, EnviarLista(t)
  PROVE  IInv'
<1>1. CASE Morir
  BY <1>1, AlMorir
<1>2. CASE /\ Enviar(ListaWorkers) /\ Ir(t, "lee")
           /\ UNCHANGED <<fs, marcas, socketYAMA, desconectado, nodos, metadata, conexiones,
                          historia>>
  <2>1. UNCHANGED anteriores /\ Recuerda /\ colados' = colados
    BY <1>2 DEF marcas, historia, Recuerda
  <2>2. TiposMarcas' /\ FormateadoAntes' /\ TiposNodos' /\ SoloConocidos'
    BY <1>2, <2>1, MarcasQuietas, NodosQuietos DEF Recuerda
  <2>3. DeHilos' /\ SiguenComparando
    BY <1>2, <2>1, Pasa DEF EnviarLista, Paso
  <2>4. DeConexiones'
    BY <1>2, <2>1, <2>3, ConexionesQuietas DEF conexiones
  <2>5. TiposYama'
    <3>1. CASE UNCHANGED yama
      BY <3>1, YamaQuieta
    <3>2. CASE ListaWorkers
      <4>1. datanodes \in Seq([nodo : Nodos, socket : Sockets])
        BY DEF IInv, TypeOK, TiposNodos
      <4>2. Len(datanodes) \in Nat /\ DOMAIN datanodes = 1..Len(datanodes)
        BY <4>1
      <4>3. \A i \in 1..Len(datanodes) : datanodes[i] \in [nodo : Nodos, socket : Sockets]
        BY <4>1, Elemento
      <4> DEFINE nuevos == [i \in DOMAIN datanodes |->
                              [nodo |-> datanodes[i].nodo, indice |-> i - 1]]
      <4>4. nuevos \in Seq([nodo : Nodos, indice : Nat])
        BY <4>2, <4>3
      <4>5. workers' \in Seq([nodo : Nodos, indice : Nat])
        BY <3>2, <4>4 DEF ListaWorkers, IInv, TypeOK, TiposYama
      <4>6. indiceWorker' \in Nat
        BY <3>2, <4>2 DEF ListaWorkers, IndiceTrasLista
      <4>7. QED
        BY <4>5, <4>6 DEF TiposYama
    <3>3. QED
      BY <1>2, <3>1, <3>2 DEF Enviar
  <2>6. QED
    BY <2>2, <2>3, <2>4, <2>5, Partes
<1>3. QED
  BY <1>1, <1>2 DEF EnviarLista

LEMMA PasoIdentificacion ==
  ASSUME IInv, NEW t \in Hilos, Identificacion(t)
  PROVE  IInv'
<1> DEFINE s == hilo[t].s
<1>1. /\ s \in Sockets /\ s # 0 /\ entra[s] # <<>> /\ Head(entra[s]) = "IDENTIFICACION"
      /\ hilo[t].pc = "lee"
  BY SocketDeHilo DEF Identificacion, Leer, Paso
<1>2. CASE Morir
  BY <1>2, AlMorir
<1>3. CASE ~Morir
  <2>1. /\ IF yama_online THEN Enviar(NuevoWorker(dueno[s])) ELSE UNCHANGED yama
        /\ entra' = [entra EXCEPT ![s] = Tail(@)]
        /\ bitmaps' = bitmaps \cup {dueno[s]}
        /\ sin_datanodes' = FALSE
        /\ hilo' = [hilo EXCEPT ![t].pc = "guarda", ![t].nodo = dueno[s], ![t].foto = totales]
        /\ colados' = IF OtroCompara(t) THEN colados \cup {dueno[s]} ELSE colados
        /\ UNCHANGED <<fs, formateado, estable, rechazado, yama_online, anteriores, socketYAMA,
                       desconectado, datanodes, mutex, totales, metadata, proc, dueno, comparte>>
    BY <1>3 DEF Identificacion
  <2>2. UNCHANGED anteriores /\ Recuerda
    BY <2>1 DEF Recuerda
  <2>3. /\ dueno[s] \in Nodos
        /\ Conocido(dueno[s]) \/ \E u \in Hilos : Compara(u, s, dueno[s])
    <3>1. entra[s] \in Seq(Mensaje)
      BY <1>1 DEF IInv, TypeOK, TiposConexiones
    <3>2. 1 \in 1..Len(entra[s]) /\ entra[s][1] = "IDENTIFICACION"
      BY <1>1, <3>1, Leida
    <3>3. QED
      BY <1>1, <3>2 DEF IInv, IdentificaConocidos
  <2>4. AdmitidoLuego(dueno[s])
    BY <2>1, <2>3 DEF AdmitidoLuego, OtroCompara, Compara
  <2> DEFINE h == [hilo[t] EXCEPT !.pc = "guarda", !.nodo = dueno[s], !.foto = totales]
  <2>5. hilo' = [hilo EXCEPT ![t] = h]
    BY <2>1 DEF IInv, TypeOK, TiposConexiones, Hilo
  <2>6. hilo[t] \in Hilo /\ totales \subseteq Nodos
    BY DEF IInv, TypeOK, TiposConexiones, TiposNodos
  <2>7. h \in Hilo /\ h.s = s /\ h.nodo = dueno[s] /\ h.pc = "guarda"
    BY <2>3, <2>6 DEF Hilo
  <2> HIDE DEF h
  <2>8. DeHilos' /\ SiguenComparando
    BY <1>1, <2>2, <2>4, <2>5, <2>7, HiloPasa DEF Sacando
  <2>9. DeConexiones'
    BY <1>1, <2>1, <2>8, AlLeer
  <2>10. TiposMarcas' /\ FormateadoAntes'
    BY <2>1 DEF IInv, TypeOK, TiposMarcas, FormateadoAntes
  <2>11. TiposNodos'
    BY <2>1, <2>3 DEF IInv, TypeOK, TiposNodos, metadata
  <2>12. SoloConocidos'
    <3>1. ASSUME OtroCompara(t) PROVE comparte
      <4>1. PICK u \in Hilos : hilo[u].pc = "compara" /\ hilo[u].s = s
        BY <3>1 DEF OtroCompara
      <4>2. u # t /\ ~Sacando(u) /\ ~Sacando(t)
        BY <1>1, <4>1 DEF Sacando
      <4>3. QED
        BY <1>1, <4>1, <4>2 DEF IInv, Separados
    <3>2. QED
      BY <2>1, <3>1 DEF IInv, SoloConocidos
  <2>13. TiposYama'
    <3>1. CASE UNCHANGED yama
      BY <3>1, YamaQuieta
    <3>2. CASE NuevoWorker(dueno[s])
      BY <2>3, <3>2 DEF NuevoWorker, IInv, TypeOK, TiposYama
    <3>3. QED
      BY <2>1, <3>1, <3>2 DEF Enviar
  <2>14. QED
    BY <2>8, <2>9, <2>10, <2>11, <2>12, <2>13, Partes
<1>4. QED
  BY <1>2, <1>3

LEMMA PasoGuardarNodosBin ==
  ASSUME IInv, NEW t \in Hilos, GuardarNodosBin(t)
  PROVE  IInv'
<1>1. /\ totales' = hilo[t].foto \cup {hilo[t].nodo}
      /\ Ir(t, "agrega") /\ Registrando(t) /\ hilo[t].pc = "guarda"
      /\ UNCHANGED <<fs, marcas, socketYAMA, desconectado, datanodes, mutex, bitmaps, metadata,
                     conexiones, yama, comparte, colados>>
  BY DEF GuardarNodosBin, ConTotal, Paso, Registrando
<1>2. UNCHANGED anteriores /\ Recuerda
  BY <1>1 DEF marcas, Recuerda
<1>3. TiposMarcas' /\ FormateadoAntes' /\ TiposYama'
  BY <1>1, MarcasQuietas, YamaQuieta
<1>4. TiposNodos' /\ SoloConocidos'
  <2>1. hilo[t].foto \subseteq Nodos
    BY DEF IInv, TypeOK, TiposConexiones, Hilo
  <2>2. hilo[t].nodo \in Nodos
    BY <1>1 DEF IInv, RegistraConocidos, Admitido
  <2>3. SoloConocidos'
    BY <1>1, <1>2, ListaQuieta
  <2>4. QED
    BY <1>1, <2>1, <2>2, <2>3 DEF IInv, TypeOK, TiposNodos, metadata
<1>5. DeHilos' /\ SiguenComparando
  BY <1>1, <1>2, Pasa
<1>6. DeConexiones'
  BY <1>1, <1>2, <1>5, ConexionesQuietas DEF conexiones
<1>7. QED
  BY <1>3, <1>4, <1>5, <1>6, Partes

LEMMA PasoAgregarDatanode ==
  ASSUME IInv, NEW t \in Hilos, AgregarDatanode(t)
  PROVE  IInv'
<1> DEFINE d == [nodo |-> hilo[t].nodo, socket |-> hilo[t].s]
<1>1. /\ datanodes' = Append(datanodes, d)
      /\ hilo' = [hilo EXCEPT ![t].pc = "verifica", ![t].nodo = Nulo, ![t].foto = {}]
      /\ UNCHANGED <<fs, marcas, socketYAMA, desconectado, mutex, bitmaps, totales, metadata,
                     conexiones, yama, comparte, colados>>
  BY DEF AgregarDatanode, ListAdd
<1>2. UNCHANGED anteriores /\ Recuerda
  BY <1>1 DEF marcas, Recuerda
<1>3. TiposMarcas' /\ FormateadoAntes' /\ TiposYama'
  BY <1>1, MarcasQuietas, YamaQuieta
<1>4. hilo[t].s \in Sockets /\ Admitido(hilo[t].nodo) /\ hilo[t].pc = "agrega"
  BY SocketDeHilo DEF AgregarDatanode, Paso, Registrando, IInv, RegistraConocidos
<1>5. datanodes \in Seq([nodo : Nodos, socket : Sockets])
  BY DEF IInv, TypeOK, TiposNodos
<1>6. datanodes' \in Seq([nodo : Nodos, socket : Sockets])
  BY <1>1, <1>4, <1>5 DEF Admitido
<1>7. TiposNodos'
  BY <1>1, <1>6 DEF IInv, TypeOK, TiposNodos, metadata
<1>8. SoloConocidos'
  <2>1. \A i \in DOMAIN datanodes' :
          datanodes'[i] = d \/ (i \in DOMAIN datanodes /\ datanodes'[i] = datanodes[i])
    BY <1>1, <1>5
  <2>2. d.nodo = hilo[t].nodo
    OBVIOUS
  <2> HIDE DEF d
  <2>3. QED
    BY <1>1, <1>2, <1>4, <2>1, <2>2 DEF IInv, SoloConocidos, Admitido, Conocido
<1>9. DeHilos' /\ SiguenComparando
  <2> DEFINE h == [hilo[t] EXCEPT !.pc = "verifica", !.nodo = Nulo, !.foto = {}]
  <2>1. hilo' = [hilo EXCEPT ![t] = h]
    BY <1>1 DEF IInv, TypeOK, TiposConexiones, Hilo
  <2>2. hilo[t] \in Hilo
    BY DEF IInv, TypeOK, TiposConexiones
  <2>3. h \in Hilo /\ h.s = hilo[t].s /\ h.pc = "verifica"
    BY <2>2 DEF Hilo
  <2> HIDE DEF h
  <2>4. QED
    BY <1>2, <1>4, <2>1, <2>3, HiloPasa DEF Sacando
<1>10. DeConexiones'
  BY <1>1, <1>2, <1>9, ConexionesQuietas DEF conexiones
<1>11. QED
  BY <1>3, <1>7, <1>8, <1>9, <1>10, Partes

LEMMA PasoVerificar ==
  ASSUME IInv, NEW t \in Hilos, Verificar(t) \/ VerificarBasura(t)
  PROVE  IInv'
<1>1. CASE Morir
  BY <1>1, AlMorir
<1>2. CASE /\ estable' \in BOOLEAN /\ rechazado' \in BOOLEAN
           /\ Ir(t, "lee") /\ hilo[t].pc = "verifica"
           /\ UNCHANGED <<fs, formateado, sin_datanodes, yama_online, anteriores, socketYAMA,
                          desconectado, nodos, metadata, conexiones, yama, comparte, colados>>
  <2>1. TiposMarcas' /\ FormateadoAntes'
    BY <1>2 DEF IInv, TypeOK, TiposMarcas, FormateadoAntes
  <2>2. TiposNodos' /\ SoloConocidos' /\ TiposYama'
    BY <1>2, NodosQuietos, YamaQuieta
  <2>3. DeHilos' /\ SiguenComparando
    BY <1>2, Pasa DEF Recuerda
  <2>4. DeConexiones'
    BY <1>2, <2>3, ConexionesQuietas DEF conexiones
  <2>5. QED
    BY <2>1, <2>2, <2>3, <2>4, Partes
<1>3. CASE Verificar(t) /\ ~Morir
  <2>1. estable' \in BOOLEAN
    BY <1>3 DEF Verificar, IInv, TypeOK, TiposMarcas
  <2>2. rechazado' \in BOOLEAN
    BY <1>3 DEF Verificar, IInv, TypeOK, TiposMarcas
  <2>3. QED
    BY <1>2, <1>3, <2>1, <2>2 DEF Verificar, Paso, historia
<1>4. CASE VerificarBasura(t)
  <2>1. estable' \in BOOLEAN
    BY <1>4 DEF VerificarBasura, marcas, IInv, TypeOK, TiposMarcas
  <2>2. rechazado' \in BOOLEAN
    BY <1>4 DEF VerificarBasura, marcas, IInv, TypeOK, TiposMarcas
  <2>3. QED
    BY <1>2, <1>4, <2>1, <2>2 DEF VerificarBasura, Paso, marcas
<1>5. QED
  BY <1>1, <1>3, <1>4

LEMMA PasoCierre ==
  ASSUME IInv, NEW t \in Hilos, FinDeConexion(t) \/ Cerrar(t)
  PROVE  IInv'
<1> DEFINE s == hilo[t].s
<1>1. s \in Sockets /\ hilo[t].pc \in {"lee", "cierra"}
  BY SocketDeHilo DEF FinDeConexion, Cerrar, Paso
<1>2. /\ Cortar(s) /\ (Ir(t, "cierra") \/ Ir(t, "quita"))
      /\ UNCHANGED <<fs, marcas, socketYAMA, desconectado, nodos, metadata, historia>>
  BY DEF FinDeConexion, Cerrar
<1>3. UNCHANGED anteriores /\ Recuerda /\ colados' = colados
  BY <1>2 DEF marcas, historia, Recuerda
<1>4. TiposMarcas' /\ FormateadoAntes' /\ TiposNodos' /\ SoloConocidos'
  BY <1>2, <1>3, MarcasQuietas, NodosQuietos DEF Recuerda
<1>5. DeHilos' /\ SiguenComparando
  BY <1>1, <1>2, <1>3, Pasa
<1>6. DeConexiones' /\ TiposYama'
  BY <1>1, <1>2, <1>3, <1>5, AlCortar
<1>7. QED
  BY <1>4, <1>5, <1>6, Partes

LEMMA PasoSacar ==
  ASSUME IInv, NEW t \in Hilos, Sacar(t)
  PROVE  IInv'
<1>1. /\ mutex' = TRUE /\ hilo[t].pc = "quita"
      /\ hilo' = [hilo EXCEPT ![t] = [hilo[t] EXCEPT !.pc = "saca", !.foto = totales]]
      /\ UNCHANGED <<fs, marcas, socketYAMA, desconectado, datanodes, bitmaps, totales,
                     metadata, conexiones, yama, historia>>
  BY DEF Sacar, Paso, IInv, TypeOK, TiposConexiones, Hilo
<1>2. UNCHANGED anteriores /\ Recuerda /\ colados' = colados /\ comparte' = comparte
  BY <1>1 DEF marcas, historia, Recuerda
<1>3. TiposMarcas' /\ FormateadoAntes' /\ TiposYama'
  BY <1>1, MarcasQuietas, YamaQuieta
<1>4. TiposNodos' /\ SoloConocidos'
  <2>1. SoloConocidos'
    BY <1>1, <1>2, ListaQuieta
  <2>2. QED
    BY <1>1, <2>1 DEF IInv, TypeOK, TiposNodos, metadata
<1>5. DeHilos' /\ SiguenComparando
  <2> DEFINE h == [hilo[t] EXCEPT !.pc = "saca", !.foto = totales]
  <2>1. hilo[t] \in Hilo /\ totales \subseteq Nodos
    BY DEF IInv, TypeOK, TiposConexiones, TiposNodos
  <2>2. h \in Hilo /\ h.s = hilo[t].s /\ h.pc = "saca" /\ hilo' = [hilo EXCEPT ![t] = h]
    BY <1>1, <2>1 DEF Hilo
  <2>3. hilo[t].s \in Sockets
    BY <1>1, SocketDeHilo
  <2> HIDE DEF h
  <2>4. QED
    BY <1>1, <1>2, <2>2, <2>3, HiloPasa
<1>6. DeConexiones'
  BY <1>1, <1>2, <1>5, ConexionesQuietas DEF conexiones
<1>7. QED
  BY <1>3, <1>4, <1>5, <1>6, Partes

LEMMA PasoEliminar ==
  ASSUME IInv, NEW t \in Hilos, Eliminar(t)
  PROVE  IInv'
<1> DEFINE I == ConSocket(hilo[t].s)
           hay == desconectado \/ I # {}
<1>1. CASE Morir
  BY <1>1, AlMorir
<1>2. CASE /\ SinSocket(hilo[t].s) /\ hilo[t].pc = "saca"
           /\ desconectado' = hay
           /\ totales' = IF I = {} THEN totales
                         ELSE hilo[t].foto \ {datanodes[i].nodo : i \in I}
           /\ mutex' = FALSE
           /\ hilo' = [hilo EXCEPT ![t] = [Libre EXCEPT !.pc = "fin"]]
           /\ UNCHANGED <<fs, marcas, socketYAMA, bitmaps, metadata, conexiones, yama,
                          comparte, colados>>
  <2>1. UNCHANGED anteriores /\ Recuerda
    BY <1>2 DEF marcas, Recuerda
  <2>2. TiposMarcas' /\ FormateadoAntes' /\ TiposYama'
    <3>1. desconectado' \in BOOLEAN
      BY <1>2 DEF IInv, TypeOK, TiposMarcas
    <3>2. QED
      BY <1>2, <3>1, YamaQuieta DEF IInv, TypeOK, TiposMarcas, FormateadoAntes, marcas
  <2> DEFINE J == DOMAIN datanodes \ I
  <2>3. PICK f \in [1..Cardinality(J) -> J] : datanodes' = [i \in DOMAIN f |-> datanodes[f[i]]]
    BY <1>2 DEF SinSocket, Quedan
  <2>4. datanodes \in Seq([nodo : Nodos, socket : Sockets])
    BY DEF IInv, TypeOK, TiposNodos
  <2>5. \A i \in 1..Cardinality(J) : f[i] \in DOMAIN datanodes
    OBVIOUS
  <2>6. DOMAIN datanodes' = 1..Cardinality(J)
        /\ \A i \in DOMAIN datanodes' : datanodes'[i] = datanodes[f[i]]
    BY <2>3
  <2>7. SoloConocidos'
    BY <1>2, <2>1, <2>5, <2>6 DEF IInv, SoloConocidos
  <2>8. datanodes' \in Seq([nodo : Nodos, socket : Sockets])
    <3>1. DOMAIN datanodes = 1..Len(datanodes) /\ Len(datanodes) \in Nat
      BY <2>4
    <3>2. IsFiniteSet(1..Len(datanodes)) /\ J \in SUBSET (1..Len(datanodes))
      BY <3>1, FS_Interval
    <3>3. IsFiniteSet(J)
      BY <3>2, FS_Subset
    <3>4. Cardinality(J) \in Nat
      BY <3>3, FS_CardinalityType
    <3>5. \A i \in 1..Cardinality(J) : datanodes[f[i]] \in [nodo : Nodos, socket : Sockets]
      BY <2>4, <2>5, <3>1, Elemento
    <3> DEFINE n == Cardinality(J)
               g(i) == datanodes[f[i]]
    <3>6. datanodes' = [i \in 1..n |-> g(i)]
      BY <2>3
    <3> HIDE DEF n, g
    <3>7. n \in Nat /\ \A i \in 1..n : g(i) \in [nodo : Nodos, socket : Sockets]
      BY <3>4, <3>5 DEF n, g
    <3>8. QED
      BY <3>6, <3>7
  <2>9. TiposNodos'
    <3>1. mutex' \in BOOLEAN /\ consola' \in Consola
      BY <1>2 DEF IInv, TypeOK, TiposNodos, metadata
    <3>2. totales' \subseteq Nodos /\ bitmaps' \subseteq Nodos
      BY <1>2 DEF IInv, TypeOK, TiposNodos, TiposConexiones, Hilo
    <3>3. QED
      BY <2>8, <3>1, <3>2 DEF TiposNodos
  <2>10. DeHilos' /\ SiguenComparando
    <3> DEFINE h == [Libre EXCEPT !.pc = "fin"]
    <3>1. h \in Hilo /\ h.pc = "fin" /\ h.s = 0
      BY DEF Hilo, Libre
    <3>2. hilo' = [hilo EXCEPT ![t] = h]
      BY <1>2
    <3> HIDE DEF h
    <3>3. QED
      BY <1>2, <2>1, <3>1, <3>2, HiloPasa
  <2>11. DeConexiones'
    BY <1>2, <2>1, <2>10, ConexionesQuietas DEF conexiones
  <2>12. QED
    BY <2>2, <2>7, <2>9, <2>10, <2>11, Partes
<1>3. QED
  BY <1>1, <1>2 DEF Eliminar, Paso

(* The console moves no thread and no connection. *)
LEMMA PasoFormato ==
  ASSUME IInv, PasoConsola
  PROVE  IInv'
<1>1. CASE Morir
  BY <1>1, AlMorir
<1>2. CASE ~Morir
  <2>1. /\ consola' \in Consola
        /\ UNCHANGED <<fs, rechazado, sin_datanodes, yama_online, anteriores, socketYAMA,
                       desconectado, datanodes, mutex, bitmaps, hilo, conexiones, yama,
                       comparte, colados>>
        /\ \/ UNCHANGED <<formateado, estable, totales>>
           \/ totales' = consola.foto /\ UNCHANGED <<formateado, estable>>
           \/ formateado' = TRUE /\ estable' = TRUE /\ UNCHANGED totales
    <3>1. consola \in Consola /\ bitmaps \subseteq Nodos /\ totales \subseteq Nodos
      BY DEF IInv, TypeOK, TiposNodos
    <3>2. CASE Formatear
      BY <3>1, <3>2 DEF Formatear, SinOrden, Consola, marcas, nodos, historia
    <3>3. CASE FormatearCarga
      BY <1>2, <3>1, <3>3 DEF FormatearCarga, Consola, marcas, nodos, historia
    <3>4. CASE FormatearGuarda
      BY <3>1, <3>4 DEF FormatearGuarda, Consola, marcas
    <3>5. CASE FormatearTermina
      BY <3>1, <3>5 DEF FormatearTermina, SinOrden, Consola, nodos, historia
    <3>6. QED
      BY <3>2, <3>3, <3>4, <3>5 DEF PasoConsola
  <2>2. TiposMarcas' /\ FormateadoAntes'
    <3>1. formateado' \in BOOLEAN
      BY <2>1 DEF IInv, TypeOK, TiposMarcas
    <3>2. estable' \in BOOLEAN
      BY <2>1 DEF IInv, TypeOK, TiposMarcas
    <3>3. FormateadoAntes'
      BY <2>1 DEF IInv, FormateadoAntes
    <3>4. UNCHANGED <<fs, rechazado, sin_datanodes, yama_online, anteriores, socketYAMA,
                      desconectado>>
      BY <2>1
    <3>5. QED
      BY <3>1, <3>2, <3>3, <3>4 DEF IInv, TypeOK, TiposMarcas
  <2>3. SoloConocidos'
    BY <2>1, ListaQuieta
  <2>4. TiposNodos'
    BY <2>1 DEF IInv, TypeOK, TiposNodos, Consola
  <2>5. DeHilos' /\ SiguenComparando
    BY <2>1, HilosQuietos DEF Recuerda
  <2>6. DeConexiones' /\ TiposYama'
    BY <2>1, <2>5, ConexionesQuietas, YamaQuieta DEF conexiones
  <2>7. QED
    BY <2>2, <2>3, <2>4, <2>5, <2>6, Partes
<1>3. QED
  BY <1>1, <1>2

-----------------------------------------------------------------------------
(* No step breaks the invariant. *)
THEOREM Inductivo == IInv /\ [Next]_vars => IInv'
<1> SUFFICES ASSUME IInv, [Next]_vars PROVE IInv'
  OBVIOUS
<1>1. CASE UNCHANGED vars
  <2>1. /\ UNCHANGED <<fs, marcas, socketYAMA, desconectado, nodos, metadata, hilo, conexiones,
                       yama, colados, comparte>>
        /\ UNCHANGED anteriores
    BY <1>1 DEF vars, marcas, historia
  <2>2. DeHilos' /\ SiguenComparando
    BY <2>1, HilosQuietos DEF Recuerda
  <2>3. DeConexiones'
    BY <2>1, <2>2, ConexionesQuietas DEF conexiones
  <2>4. QED
    BY <2>1, <2>2, <2>3, MarcasQuietas, NodosQuietos, YamaQuieta, Partes
<1>2. ASSUME NEW t \in Hilos, PasoHilo(t) PROVE IInv'
  BY <1>2, PasoHandshakeNodo, PasoComparar, PasoHandshakeYama, PasoEnviarLista,
     PasoIdentificacion, PasoGuardarNodosBin, PasoAgregarDatanode, PasoVerificar, PasoCierre,
     PasoSacar, PasoEliminar
  DEF PasoHilo
<1>3. ASSUME NEW p \in Procesos, Conectar(p) \/ Terminar(p) PROVE IInv'
  BY <1>3, PasoConectar, PasoTerminar
<1>4. QED
  BY <1>1, <1>2, <1>3, PasoFormato DEF Next

(* The invariant holds in every state that can be reached. *)
LEMMA Siempre == Spec => []IInv
BY Inicio, Inductivo, PTL DEF Spec

(* Every variable of FsNodos keeps its type, in particular the descriptors   *)
(* and the nodes of the list that sacar_datanode rebuilds.                   *)
THEOREM TiposNodosSiempre == Spec => []TypeOK
<1>1. IInv => TypeOK
  BY DEF IInv
<1>2. QED
  BY Siempre, <1>1, PTL

(* A formatted system never registers a datanode that it did not know,       *)
(* though it is answered and identifies itself before it is looked for: not  *)
(* unless a second thread reads the descriptor and takes the identification  *)
(* before the first one has looked, for which the descriptor must have been  *)
(* given to a connection while an earlier thread was still to read it.       *)
THEOREM SiempreConocidos == Spec => []SoloConocidos
<1>1. IInv => SoloConocidos
  BY DEF IInv
<1>2. QED
  BY Siempre, <1>1, PTL

-----------------------------------------------------------------------------
(* The second invariant: which nodes nodos.bin has, and whom the sockets of  *)
(* the registered nodes lead to.                                             *)

(* A node that is about to be registered was saved in nodos.bin.             *)
PorAgregar ==
  fs = "vivo" /\ ~choque =>
    \A t \in Hilos : hilo[t].pc = "agrega" => hilo[t].nodo \in totales

(* Some thread still holds the descriptor of every registered node... *)
ConHilo == \A i \in DOMAIN datanodes : \E t \in Hilos : hilo[t].s = datanodes[i].socket

(* ... and a thread that registers a node holds that of the node. *)
RegistraPropio ==
  ~comparte =>
    \A t \in Hilos : Registrando(t) => dueno[hilo[t].s] \in {hilo[t].nodo, Nadie}

Totales == TotalesCompletos /\ PorAgregar
Propios == ConHilo /\ RegistraPropio /\ SocketPropio

(* What datanodes holds. *)
LEMMA EnLista ==
  ASSUME IInv, NEW i \in DOMAIN datanodes
  PROVE  datanodes[i] \in [nodo : Nodos, socket : Sockets]
<1>1. datanodes \in Seq([nodo : Nodos, socket : Sockets])
  BY DEF IInv, TypeOK, TiposNodos
<1>2. i \in 1..Len(datanodes)
  BY <1>1
<1>3. QED
  BY <1>1, <1>2, Elemento

(* While no node is registered and nodos.bin is not written, nothing changes *)
(* about what it has to hold.                                                *)
LEMMA TotalesQuietos ==
  ASSUME Totales, UNCHANGED <<fs, datanodes, totales, choque>>,
         \A t \in Hilos : hilo'[t].pc = "agrega" =>
           hilo[t].pc = "agrega" /\ hilo'[t].nodo = hilo[t].nodo
  PROVE  Totales'
BY DEF Totales, TotalesCompletos, Conectados, PorAgregar

(* While no thread starts, ends or comes to register another node, closing   *)
(* descriptors is all that can happen to them.                               *)
LEMMA PropiosQuietos ==
  ASSUME IInv, Propios, UNCHANGED <<datanodes, comparte>>,
         \A s \in Sockets : dueno'[s] \in {dueno[s], Nadie},
         \A t \in Hilos :
           /\ hilo'[t].s = hilo[t].s
           /\ Sacando(t) => hilo'[t].pc \in {"quita", "saca"}
           /\ hilo'[t].pc \in {"guarda", "agrega"} =>
                Registrando(t) /\ hilo'[t].nodo = hilo[t].nodo
  PROVE  Propios'
<1>1. ConHilo'
  BY DEF Propios, ConHilo
<1>2. RegistraPropio'
  <2> SUFFICES ASSUME ~comparte, NEW t \in Hilos, Registrando(t)'
               PROVE  dueno'[hilo'[t].s] \in {hilo'[t].nodo, Nadie}
    BY DEF RegistraPropio
  <2>1. Registrando(t) /\ hilo'[t].nodo = hilo[t].nodo /\ hilo'[t].s = hilo[t].s
    BY DEF Registrando
  <2>2. hilo[t].s \in Sockets
    BY <2>1, SocketDeHilo DEF Registrando
  <2>3. dueno[hilo[t].s] \in {hilo[t].nodo, Nadie}
    BY <2>1 DEF Propios, RegistraPropio
  <2>4. QED
    BY <2>1, <2>2, <2>3
<1>3. SocketPropio'
  <2> SUFFICES ASSUME ~comparte, NEW i \in DOMAIN datanodes
               PROVE  \/ dueno'[datanodes[i].socket] \in {datanodes[i].nodo, Nadie}
                      \/ \E t \in Hilos : hilo'[t].s = datanodes[i].socket /\ Sacando(t)'
    BY DEF SocketPropio
  <2>1. datanodes[i] \in [nodo : Nodos, socket : Sockets]
    BY EnLista
  <2>2. \/ dueno[datanodes[i].socket] \in {datanodes[i].nodo, Nadie}
        \/ \E t \in Hilos : hilo[t].s = datanodes[i].socket /\ Sacando(t)
    BY DEF Propios, SocketPropio
  <2>3. QED
    BY <2>1, <2>2 DEF Sacando
<1>4. QED
  BY <1>1, <1>2, <1>3 DEF Propios

(* The thread t, and no other, moves on to pc with what it had. *)
LEMMA SoloPasa ==
  ASSUME IInv, NEW t \in Hilos, NEW pc, Ir(t, pc)
  PROVE  \A u \in Hilos :
           /\ hilo'[u].s = hilo[u].s /\ hilo'[u].nodo = hilo[u].nodo
           /\ hilo'[u].pc = IF u = t THEN pc ELSE hilo[u].pc
<1>1. hilo \in [Hilos -> Hilo]
  BY DEF IInv, TypeOK, TiposConexiones
<1>2. QED
  BY <1>1 DEF Ir, Hilo

LEMMA CortarQuieta ==
  ASSUME IInv, NEW s \in Sockets, Cortar(s)
  PROVE  \A x \in Sockets : dueno'[x] \in {dueno[x], Nadie}
BY DEF Cortar, IInv, TypeOK, TiposConexiones

(* The process ends with all its threads and its list. *)
LEMMA MorirTotales ==
  ASSUME Morir
  PROVE  Totales' /\ Propios'
<1>1. datanodes' = <<>> /\ fs' = "muerto" /\ hilo' = [t \in Hilos |-> Libre]
  BY DEF Morir
<1>2. Totales'
  BY <1>1 DEF Totales, TotalesCompletos, PorAgregar
<1>3. Propios'
  BY <1>1 DEF Propios, ConHilo, RegistraPropio, SocketPropio, Registrando, Libre
<1>4. QED
  BY <1>2, <1>3

-----------------------------------------------------------------------------
(* The second invariant, action by action. *)
LEMMA ConectarSegundo ==
  ASSUME IInv, Totales, Propios, NEW p \in Procesos, Conectar(p)
  PROVE  Totales' /\ Propios'
<1>1. PICK s \in Sockets, t \in Hilos :
        /\ dueno[s] = Nadie /\ hilo[t].pc = "no"
        /\ dueno' = [dueno EXCEPT ![s] = p]
        /\ hilo' = [hilo EXCEPT ![t] = [Libre EXCEPT !.pc = "lee", !.s = s]]
        /\ comparte' = (comparte \/ \E u \in Hilos : hilo[u].s = s /\ ~Sacando(u))
  BY DEF Conectar
<1>2. UNCHANGED <<fs, datanodes, totales, choque>>
  BY DEF Conectar, nodos
<1>3. /\ hilo'[t].pc = "lee" /\ hilo'[t].s = s
      /\ \A u \in Hilos \ {t} : hilo'[u] = hilo[u]
  BY <1>1 DEF IInv, TypeOK, TiposConexiones, Libre
<1>4. dueno'[s] = p /\ \A x \in Sockets \ {s} : dueno'[x] = dueno[x]
  BY <1>1 DEF IInv, TypeOK, TiposConexiones
<1>5. Totales'
  BY <1>2, <1>3, TotalesQuietos
<1>7. hilo[t].s = 0
  BY <1>1 DEF IInv, LibresSinSocket
<1>8. ConHilo'
  <2> SUFFICES ASSUME NEW i \in DOMAIN datanodes
               PROVE  \E u \in Hilos : hilo'[u].s = datanodes[i].socket
    BY <1>2 DEF ConHilo
  <2>1. PICK u \in Hilos : hilo[u].s = datanodes[i].socket
    BY DEF Propios, ConHilo
  <2>2. datanodes[i].socket \in Sockets /\ 0 \notin Sockets
    BY EnLista DEF Sockets
  <2>3. QED
    BY <1>3, <1>7, <2>1, <2>2
<1>9. RegistraPropio'
  <2> SUFFICES ASSUME ~comparte', NEW u \in Hilos, Registrando(u)'
               PROVE  dueno'[hilo'[u].s] \in {hilo'[u].nodo, Nadie}
    BY DEF RegistraPropio
  <2>1. u # t /\ hilo'[u] = hilo[u] /\ Registrando(u)
    BY <1>3 DEF Registrando
  <2>2. hilo[u].s \in Sockets \ {s}
    BY <1>1, <2>1, SocketDeHilo DEF Registrando, Sacando
  <2>3. QED
    BY <1>1, <1>4, <2>1, <2>2 DEF Propios, RegistraPropio
<1>10. SocketPropio'
  <2> SUFFICES ASSUME ~comparte', NEW i \in DOMAIN datanodes
               PROVE  \/ dueno'[datanodes[i].socket] \in {datanodes[i].nodo, Nadie}
                      \/ \E u \in Hilos : hilo'[u].s = datanodes[i].socket /\ Sacando(u)'
    BY <1>2 DEF SocketPropio
  <2>1. datanodes[i] \in [nodo : Nodos, socket : Sockets] /\ 0 \notin Sockets
    BY EnLista DEF Sockets
  <2>2. CASE datanodes[i].socket = s
    <3>1. PICK u \in Hilos : hilo[u].s = s
      BY <2>2 DEF Propios, ConHilo
    <3>2. Sacando(u) /\ u # t
      BY <1>1, <1>7, <2>1, <2>2, <3>1
    <3>3. QED
      BY <1>3, <2>2, <3>1, <3>2 DEF Sacando
  <2>3. CASE datanodes[i].socket # s
    <3>1. \/ dueno[datanodes[i].socket] \in {datanodes[i].nodo, Nadie}
          \/ \E u \in Hilos : hilo[u].s = datanodes[i].socket /\ Sacando(u)
      BY <1>1 DEF Propios, SocketPropio
    <3>2. \A u \in Hilos : Sacando(u) => hilo'[u] = hilo[u]
      BY <1>1, <1>3 DEF Sacando
    <3>3. QED
      BY <1>4, <2>1, <2>3, <3>1, <3>2 DEF Sacando
  <2>4. QED
    BY <2>2, <2>3
<1>11. QED
  BY <1>5, <1>8, <1>9, <1>10 DEF Propios

LEMMA IdentificacionSegundo ==
  ASSUME IInv, Totales, Propios, NEW t \in Hilos, Identificacion(t)
  PROVE  Totales' /\ Propios'
<1>1. CASE Morir
  BY <1>1, MorirTotales
<1>2. CASE /\ hilo' = [hilo EXCEPT ![t].pc = "guarda", ![t].nodo = dueno[hilo[t].s],
                                   ![t].foto = totales]
           /\ UNCHANGED <<fs, datanodes, totales, dueno, choque, comparte>>
  <2>1. /\ hilo'[t].pc = "guarda" /\ hilo'[t].nodo = dueno[hilo[t].s]
        /\ hilo'[t].s = hilo[t].s
        /\ \A u \in Hilos \ {t} : hilo'[u] = hilo[u]
    BY <1>2 DEF IInv, TypeOK, TiposConexiones, Hilo
  <2>2. hilo[t].pc = "lee"
    BY DEF Identificacion, Leer, Paso
  <2>3. Totales'
    BY <1>2, <2>1, TotalesQuietos
  <2>4. ConHilo'
    BY <1>2, <2>1 DEF Propios, ConHilo
  <2>5. RegistraPropio'
    BY <1>2, <2>1 DEF Propios, RegistraPropio, Registrando
  <2>6. SocketPropio'
    <3> SUFFICES ASSUME ~comparte, NEW i \in DOMAIN datanodes
                 PROVE  \/ dueno[datanodes[i].socket] \in {datanodes[i].nodo, Nadie}
                        \/ \E u \in Hilos : hilo'[u].s = datanodes[i].socket /\ Sacando(u)'
      BY <1>2 DEF SocketPropio
    <3>1. \/ dueno[datanodes[i].socket] \in {datanodes[i].nodo, Nadie}
          \/ \E u \in Hilos : hilo[u].s = datanodes[i].socket /\ Sacando(u)
      BY DEF Propios, SocketPropio
    <3>2. \A u \in Hilos : Sacando(u) => hilo'[u] = hilo[u]
      BY <2>1, <2>2 DEF Sacando
    <3>3. QED
      BY <3>1, <3>2 DEF Sacando
  <2>7. QED
    BY <2>3, <2>4, <2>5, <2>6 DEF Propios
<1>3. QED
  BY <1>1, <1>2 DEF Identificacion

LEMMA GuardarSegundo ==
  ASSUME IInv, Totales, Propios, NEW t \in Hilos, GuardarNodosBin(t)
  PROVE  Totales' /\ Propios'
<1>1. /\ totales' = hilo[t].foto \cup {hilo[t].nodo}
      /\ choque' = (choque \/ totales # hilo[t].foto)
      /\ Ir(t, "agrega") /\ Registrando(t) /\ fs = "vivo"
      /\ UNCHANGED <<fs, datanodes, dueno, comparte>>
  BY DEF GuardarNodosBin, ConTotal, Paso, Registrando, conexiones
<1>2. \A u \in Hilos : /\ hilo'[u].s = hilo[u].s /\ hilo'[u].nodo = hilo[u].nodo
                       /\ hilo'[u].pc = IF u = t THEN "agrega" ELSE hilo[u].pc
  BY <1>1, SoloPasa
<1>3. Totales'
  <2>1. ~choque' => /\ ~choque /\ totales' = totales \cup {hilo[t].nodo}
    BY <1>1
  <2>2. QED
    BY <1>1, <1>2, <2>1 DEF Totales, TotalesCompletos, Conectados, PorAgregar
<1>4. Propios'
  BY <1>1, <1>2, PropiosQuietos DEF Registrando, Sacando
<1>5. QED
  BY <1>3, <1>4

LEMMA AgregarSegundo ==
  ASSUME IInv, Totales, Propios, NEW t \in Hilos, AgregarDatanode(t)
  PROVE  Totales' /\ Propios'
<1> DEFINE d == [nodo |-> hilo[t].nodo, socket |-> hilo[t].s]
<1>1. /\ hilo[t].pc = "agrega" /\ datanodes' = Append(datanodes, d)
      /\ hilo' = [hilo EXCEPT ![t].pc = "verifica", ![t].nodo = Nulo, ![t].foto = {}]
      /\ choque' => choque' \/ choque
      /\ ~choque' => ~choque
      /\ UNCHANGED <<fs, totales, dueno, comparte>>
  BY DEF AgregarDatanode, ListAdd, Paso, conexiones
<1>2. /\ hilo'[t].pc = "verifica" /\ hilo'[t].s = hilo[t].s
      /\ \A u \in Hilos \ {t} : hilo'[u] = hilo[u]
  BY <1>1 DEF IInv, TypeOK, TiposConexiones, Hilo
<1>3. datanodes \in Seq([nodo : Nodos, socket : Sockets])
  BY DEF IInv, TypeOK, TiposNodos
<1>4. \A i \in DOMAIN datanodes' :
        datanodes'[i] = d \/ (i \in DOMAIN datanodes /\ datanodes'[i] = datanodes[i])
  BY <1>1, <1>3
<1>5. Totales'
  <2> SUFFICES ASSUME fs = "vivo", ~choque'
               PROVE  Conectados' \subseteq totales /\ PorAgregar'
    BY <1>1 DEF Totales, TotalesCompletos, PorAgregar
  <2>1. hilo[t].nodo \in totales /\ Conectados \subseteq totales
    BY <1>1 DEF Totales, TotalesCompletos, PorAgregar
  <2>2. Conectados' \subseteq totales
    BY <1>4, <2>1 DEF Conectados
  <2>3. ASSUME NEW u \in Hilos, hilo'[u].pc = "agrega" PROVE hilo'[u].nodo \in totales
    BY <1>1, <1>2, <2>3 DEF Totales, PorAgregar
  <2>4. QED
    BY <1>1, <2>2, <2>3 DEF PorAgregar
<1>6. ConHilo'
  <2>1. \A u \in Hilos : hilo'[u].s = hilo[u].s
    BY <1>2
  <2>2. QED
    BY <1>4, <2>1 DEF Propios, ConHilo
<1>7. RegistraPropio'
  BY <1>1, <1>2 DEF Propios, RegistraPropio, Registrando
<1>8. SocketPropio'
  <2>1. ~comparte => dueno[hilo[t].s] \in {hilo[t].nodo, Nadie}
    BY <1>1 DEF Propios, RegistraPropio, Registrando
  <2>2. \A u \in Hilos : Sacando(u) => hilo'[u] = hilo[u]
    BY <1>1, <1>2 DEF Sacando
  <2> SUFFICES ASSUME ~comparte, NEW i \in DOMAIN datanodes'
               PROVE  \/ dueno[datanodes'[i].socket] \in {datanodes'[i].nodo, Nadie}
                      \/ \E u \in Hilos : hilo'[u].s = datanodes'[i].socket /\ Sacando(u)'
    BY <1>1 DEF SocketPropio
  <2>3. CASE datanodes'[i] = d
    BY <2>1, <2>3
  <2>4. CASE i \in DOMAIN datanodes /\ datanodes'[i] = datanodes[i]
    <3>1. \/ dueno[datanodes[i].socket] \in {datanodes[i].nodo, Nadie}
          \/ \E u \in Hilos : hilo[u].s = datanodes[i].socket /\ Sacando(u)
      BY <2>4 DEF Propios, SocketPropio
    <3>2. QED
      BY <2>2, <2>4, <3>1 DEF Sacando
  <2>5. QED
    BY <1>4, <2>3, <2>4
<1>9. QED
  BY <1>5, <1>6, <1>7, <1>8 DEF Propios

LEMMA EliminarSegundo ==
  ASSUME IInv, Totales, Propios, NEW t \in Hilos, Eliminar(t)
  PROVE  Totales' /\ Propios'
<1> DEFINE s == hilo[t].s
           I == ConSocket(s)
<1>1. CASE Morir
  BY <1>1, MorirTotales
<1>2. CASE /\ SinSocket(s)
           /\ totales' = IF I = {} THEN totales
                         ELSE hilo[t].foto \ {datanodes[i].nodo : i \in I}
           /\ choque' = (choque \/ Choca(t, I))
           /\ hilo' = [hilo EXCEPT ![t] = [Libre EXCEPT !.pc = "fin"]]
           /\ UNCHANGED <<fs, dueno, comparte>>
  <2>1. PICK f \in [1..Cardinality(DOMAIN datanodes \ I) -> DOMAIN datanodes \ I] :
           datanodes' = [i \in DOMAIN f |-> datanodes[f[i]]]
    BY <1>2 DEF SinSocket, Quedan
  <2>2. \A i \in DOMAIN datanodes' : \E j \in DOMAIN datanodes :
          j \notin I /\ datanodes'[i] = datanodes[j] /\ datanodes[j].socket # s
    BY <2>1 DEF ConSocket
  <2>3. /\ hilo'[t].pc = "fin" /\ \A u \in Hilos \ {t} : hilo'[u] = hilo[u]
    BY <1>2 DEF IInv, TypeOK, TiposConexiones, Libre
  <2>4. Totales'
    <3>1. CASE I = {} \/ choque'
      <4>1. CASE choque'
        BY <4>1 DEF Totales, TotalesCompletos, PorAgregar
      <4>2. CASE I = {} /\ ~choque'
        <5>1. totales' = totales /\ ~choque
          BY <1>2, <4>2
        <5>2. Conectados' \subseteq Conectados
          BY <2>2 DEF Conectados
        <5>3. TotalesCompletos'
          BY <1>2, <5>1, <5>2 DEF Totales, TotalesCompletos
        <5>4. PorAgregar'
          BY <1>2, <2>3, <5>1 DEF Totales, PorAgregar
        <5>5. QED
          BY <5>3, <5>4 DEF Totales
      <4>3. QED
        BY <3>1, <4>1, <4>2
    <3>2. CASE I # {} /\ ~choque'
      <4>1. ~choque /\ ~Choca(t, I)
        BY <1>2, <3>2
      <4>2. totales' = totales \ {datanodes[i].nodo : i \in I}
        BY <1>2, <3>2, <4>1 DEF Choca
      <4>3. \A i \in I, j \in DOMAIN datanodes \ I : datanodes[j].nodo # datanodes[i].nodo
        BY <3>2, <4>1 DEF Choca
      <4>4. \A i \in I, u \in Hilos : hilo[u].pc = "agrega" => hilo[u].nodo # datanodes[i].nodo
        BY <3>2, <4>1 DEF Choca, Registrando
      <4>5. TotalesCompletos'
        BY <1>2, <2>2, <4>1, <4>2, <4>3 DEF Totales, TotalesCompletos, Conectados
      <4>6. PorAgregar'
        BY <1>2, <2>3, <4>1, <4>2, <4>4 DEF Totales, PorAgregar
      <4>7. QED
        BY <4>5, <4>6 DEF Totales
    <3>3. QED
      BY <3>1, <3>2
  <2>6. ConHilo'
    BY <2>2, <2>3 DEF Propios, ConHilo
  <2>7. RegistraPropio'
    BY <1>2, <2>3 DEF Propios, RegistraPropio, Registrando
  <2>8. SocketPropio'
    BY <1>2, <2>2, <2>3 DEF Propios, SocketPropio, Sacando
  <2>9. QED
    BY <2>4, <2>6, <2>7, <2>8 DEF Propios
<1>3. QED
  BY <1>1, <1>2 DEF Eliminar, conexiones

(* What reads, closes or checks moves one thread on, and registers nobody.   *)
LEMMA PasaSegundo ==
  ASSUME IInv, Totales, Propios, NEW t \in Hilos,
         NEW pc \in {"lee", "lista", "cierra", "quita", "saca"}, Ir(t, pc),
         Sacando(t) => pc = "saca",
         hilo[t].pc # "no",
         UNCHANGED <<fs, datanodes, totales, choque, comparte>>,
         \A s \in Sockets : dueno'[s] \in {dueno[s], Nadie}
  PROVE  Totales' /\ Propios'
<1>1. \A u \in Hilos : /\ hilo'[u].s = hilo[u].s /\ hilo'[u].nodo = hilo[u].nodo
                       /\ hilo'[u].pc = IF u = t THEN pc ELSE hilo[u].pc
  BY SoloPasa
<1>2. Totales'
  BY <1>1, TotalesQuietos
<1>3. Propios'
  BY <1>1, PropiosQuietos DEF Registrando, Sacando
<1>4. QED
  BY <1>2, <1>3

(* What moves no thread registers nobody either. *)
LEMMA QuietaSegundo ==
  ASSUME IInv, Totales, Propios,
         UNCHANGED <<fs, hilo, datanodes, totales, choque, comparte>>,
         \A s \in Sockets : dueno'[s] \in {dueno[s], Nadie}
  PROVE  Totales' /\ Propios'
<1>1. Totales'
  BY TotalesQuietos
<1>2. Propios'
  BY PropiosQuietos DEF Registrando, Sacando
<1>3. QED
  BY <1>1, <1>2

(* A datanode that is answered, and one that is looked for. *)
LEMMA CompararSegundo ==
  ASSUME IInv, Totales, Propios, NEW t \in Hilos, HandshakeNodo(t) \/ Comparar(t)
  PROVE  Totales' /\ Propios'
<1>1. CASE Morir
  BY <1>1, MorirTotales
<1>2. CASE ~Morir
  <2>1. /\ hilo[t].pc \in {"lee", "compara"} /\ hilo[t].s \in Sockets
        /\ UNCHANGED <<fs, datanodes, totales, choque, comparte>>
        /\ Cortar(hilo[t].s) \/ UNCHANGED dueno
    BY <1>2, SocketDeHilo
    DEF HandshakeNodo, Comparar, Leer, Paso, nodos, historia, conexiones
  <2>2. PICK pc \in {"lee", "compara"}, n \in Nodos \cup {Nulo} :
          hilo' = [hilo EXCEPT ![t].pc = pc, ![t].nodo = n]
    BY <1>2 DEF HandshakeNodo, Comparar
  <2>3. \A u \in Hilos : /\ hilo'[u].s = hilo[u].s
                         /\ hilo'[u].pc = IF u = t THEN pc ELSE hilo[u].pc
                         /\ u # t => hilo'[u].nodo = hilo[u].nodo
    BY <2>2 DEF IInv, TypeOK, TiposConexiones, Hilo
  <2>4. Totales'
    BY <2>1, <2>3, TotalesQuietos
  <2>5. \A s \in Sockets : dueno'[s] \in {dueno[s], Nadie}
    BY <2>1, CortarQuieta
  <2>6. Propios'
    BY <2>1, <2>3, <2>5, PropiosQuietos DEF Registrando, Sacando
  <2>7. QED
    BY <2>4, <2>6
<1>3. QED
  BY <1>1, <1>2

LEMMA HandshakeSegundo ==
  ASSUME IInv, Totales, Propios, NEW t \in Hilos, HandshakeYama(t)
  PROVE  Totales' /\ Propios'
<1>1. hilo[t].pc = "lee" /\ hilo[t].s \in Sockets
  BY SocketDeHilo DEF HandshakeYama, Leer, Paso
<1>2. UNCHANGED <<fs, datanodes, totales, choque, comparte>>
  BY DEF HandshakeYama, nodos
<1>3. \/ Ir(t, "lista") /\ UNCHANGED dueno
      \/ Ir(t, "cierra") /\ Cortar(hilo[t].s)
  BY DEF HandshakeYama
<1>4. QED
  BY <1>1, <1>2, <1>3, CortarQuieta, PasaSegundo DEF Sacando

LEMMA RestoSegundo ==
  ASSUME IInv, Totales, Propios, NEW t \in Hilos,
         EnviarLista(t) \/ Verificar(t) \/ VerificarBasura(t)
  PROVE  Totales' /\ Propios'
<1>1. CASE Morir
  BY <1>1, MorirTotales
<1>2. CASE ~Morir
  <2>1. hilo[t].pc \in {"lista", "verifica"} /\ Ir(t, "lee")
        /\ UNCHANGED <<fs, datanodes, totales, choque, comparte, dueno>>
    BY <1>2 DEF EnviarLista, Verificar, VerificarBasura, Paso, nodos, historia, conexiones
  <2>2. QED
    BY <2>1, PasaSegundo DEF Sacando
<1>3. QED
  BY <1>1, <1>2

LEMMA CierreSegundo ==
  ASSUME IInv, Totales, Propios, NEW t \in Hilos, FinDeConexion(t) \/ Cerrar(t)
  PROVE  Totales' /\ Propios'
<1>1. /\ hilo[t].pc \in {"lee", "cierra"} /\ hilo[t].s \in Sockets
      /\ Cortar(hilo[t].s) /\ (Ir(t, "cierra") \/ Ir(t, "quita"))
      /\ UNCHANGED <<fs, datanodes, totales, choque, comparte>>
  BY SocketDeHilo DEF FinDeConexion, Cerrar, Paso, nodos, historia
<1>2. QED
  BY <1>1, CortarQuieta, PasaSegundo DEF Sacando

LEMMA SacarSegundo ==
  ASSUME IInv, Totales, Propios, NEW t \in Hilos, Sacar(t)
  PROVE  Totales' /\ Propios'
<1>1. UNCHANGED <<fs, datanodes, totales, choque, comparte, dueno>>
  BY DEF Sacar, conexiones, historia
<1>2. hilo[t].pc = "quita" /\ hilo' = [hilo EXCEPT ![t].pc = "saca", ![t].foto = totales]
  BY DEF Sacar, Paso
<1>3. \A u \in Hilos : /\ hilo'[u].s = hilo[u].s /\ hilo'[u].nodo = hilo[u].nodo
                       /\ hilo'[u].pc = IF u = t THEN "saca" ELSE hilo[u].pc
  BY <1>2 DEF IInv, TypeOK, TiposConexiones, Hilo
<1>4. hilo[t].pc = "quita"
  BY <1>2
<1>5. Totales'
  BY <1>1, <1>3, TotalesQuietos
<1>6. Propios'
  BY <1>1, <1>3, <1>4, PropiosQuietos DEF Registrando, Sacando
<1>7. QED
  BY <1>5, <1>6

(* A process that ends and the console's format move no thread. *)
LEMMA TerminarSegundo ==
  ASSUME IInv, Totales, Propios, NEW p \in Procesos, Terminar(p)
  PROVE  Totales' /\ Propios'
<1>1. UNCHANGED <<fs, hilo, datanodes, totales, choque, comparte, dueno>>
  BY DEF Terminar, nodos, historia
<1>2. QED
  BY <1>1, QuietaSegundo

LEMMA FormatoSegundo ==
  ASSUME IInv, Totales, Propios, PasoConsola
  PROVE  Totales' /\ Propios'
<1>1. CASE Morir
  BY <1>1, MorirTotales
<1>2. CASE ~Morir /\ ~FormatearGuarda
  <2>1. UNCHANGED <<fs, hilo, datanodes, totales, choque, comparte, dueno>>
    BY <1>2 DEF PasoConsola, Formatear, FormatearCarga, FormatearTermina, nodos, conexiones,
                historia
  <2>2. QED
    BY <2>1, QuietaSegundo
<1>3. CASE FormatearGuarda
  <2>1. /\ UNCHANGED <<fs, hilo, datanodes, comparte, dueno>>
        /\ ~choque' => ~choque /\ totales' = totales
    BY <1>3 DEF FormatearGuarda, conexiones
  <2>2. Totales'
    <3>1. CASE choque'
      BY <3>1 DEF Totales, TotalesCompletos, PorAgregar
    <3>2. CASE ~choque'
      BY <2>1, <3>2 DEF Totales, TotalesCompletos, PorAgregar, Conectados
    <3>3. QED
      BY <3>1, <3>2
  <2>3. Propios'
    BY <2>1, PropiosQuietos DEF Registrando, Sacando
  <2>4. QED
    BY <2>2, <2>3
<1>4. QED
  BY <1>1, <1>2, <1>3

(* It holds in the first state. *)
LEMMA InicioSegundo == Init => Totales /\ Propios
<1> SUFFICES ASSUME Init PROVE Totales /\ Propios
  OBVIOUS
<1>1. \A t \in Hilos : hilo[t].pc = "no" /\ hilo[t].s = 0
  BY DEF Init, Libre
<1>2. DOMAIN datanodes = {}
  BY DEF Init
<1>3. TotalesCompletos /\ SocketPropio /\ ConHilo
  BY <1>2 DEF TotalesCompletos, Conectados, SocketPropio, ConHilo
<1>4. PorAgregar /\ RegistraPropio
  BY <1>1 DEF PorAgregar, RegistraPropio, Registrando
<1>5. QED
  BY <1>3, <1>4 DEF Totales, Propios

(* No step breaks it. *)
LEMMA InductivoSegundo ==
  IInv /\ Totales /\ Propios /\ [Next]_vars => Totales' /\ Propios'
<1> SUFFICES ASSUME IInv, Totales, Propios, [Next]_vars PROVE Totales' /\ Propios'
  OBVIOUS
<1>1. CASE UNCHANGED vars
  BY <1>1, QuietaSegundo DEF vars, nodos, conexiones, historia
<1>2. ASSUME NEW t \in Hilos, PasoHilo(t) PROVE Totales' /\ Propios'
  BY <1>2, CompararSegundo, HandshakeSegundo, RestoSegundo, IdentificacionSegundo, GuardarSegundo,
     AgregarSegundo, CierreSegundo, SacarSegundo, EliminarSegundo
  DEF PasoHilo
<1>3. QED
  BY <1>1, <1>2, ConectarSegundo, TerminarSegundo, FormatoSegundo DEF Next

LEMMA SiempreSegundo == Spec => [](Totales /\ Propios)
BY Siempre, InicioSegundo, InductivoSegundo, PTL DEF Spec

(* format and enviar_bloque find the Total of every registered node, unless  *)
(* two threads, or one and the console, wrote nodos.bin at once or a node    *)
(* came back before its old connection was removed: however many nodes come  *)
(* and go.                                                                   *)
THEOREM SiempreTotales == Spec => []TotalesCompletos
<1>1. Totales => TotalesCompletos
  BY DEF Totales
<1>2. QED
  BY SiempreSegundo, <1>1, PTL

(* The socket of a registered node leads to nobody else, except while the    *)
(* thread that closed it is removing the node, unless a descriptor was given *)
(* again to a connection while an earlier thread was still to read or close  *)
(* it.                                                                       *)
THEOREM SiempreSocketPropio == Spec => []SocketPropio
<1>1. Propios => SocketPropio
  BY DEF Propios
<1>2. QED
  BY SiempreSegundo, <1>1, PTL

-----------------------------------------------------------------------------
(* The third invariant: as long as nobody left, every thread is at its own   *)
(* connection, the datanodes pass once through their registration, and YAMA  *)
(* reads its list before any news.                                           *)
Corren == {p \in Procesos : proc[p] > 0}
Empezados == {t \in Hilos : hilo[t].pc # "no"}

(* Every process that runs was accepted once. *)
Aceptados == fs = "vivo" => Cardinality(Corren) <= Cardinality(Empezados)

(* The thread t at the connection of a datanode, and at that of YAMA. *)
AtiendeNodo(t) ==
  /\ hilo[t].pc = "lee" => entra[hilo[t].s] \in {<<"HANDSHAKE">>, <<"IDENTIFICACION">>, <<>>}
  /\ hilo[t].pc = "compara" => entra[hilo[t].s] = <<"IDENTIFICACION">>
  /\ hilo[t].pc \notin {"lee", "compara"} =>
       hilo[t].pc \in {"guarda", "agrega", "verifica"} /\ entra[hilo[t].s] = <<>>
  /\ Registrando(t) => hilo[t].nodo = dueno[hilo[t].s]
AtiendeYama(t) ==
  /\ hilo[t].pc \in {"lee", "lista"}
  /\ entra[hilo[t].s] = <<>> \/ (entra[hilo[t].s] = <<"HANDSHAKE">> /\ hilo[t].pc = "lee" /\ ~yama_online)
Atiende(t) ==
  /\ hilo[t].s \in Sockets /\ dueno[hilo[t].s] \in Procesos
  /\ proc[dueno[hilo[t].s]] = hilo[t].s
  /\ IF dueno[hilo[t].s] = Yama THEN AtiendeYama(t) ELSE AtiendeNodo(t)

(* A thread that registered n and went on. *)
Registrado(t, n) ==
  /\ t \in Empezados /\ dueno[hilo[t].s] = n /\ entra[hilo[t].s] = <<>> /\ ~Registrando(t)

Atendidos ==
  /\ \A t \in Empezados : Atiende(t)
  /\ \A t, u \in Empezados : hilo[t].s = hilo[u].s => t = u
  /\ \A i \in DOMAIN datanodes : \E t \in Hilos : Registrado(t, datanodes[i].nodo)
  /\ \A i, j \in DOMAIN datanodes : datanodes[i].nodo = datanodes[j].nodo => i = j

(* The connection of YAMA, and what it was sent. *)
Registran == {hilo[t].nodo : t \in {u \in Hilos : Registrando(u)}}
NodosDe(w) == {w[i].nodo : i \in DOMAIN w}
EnLinea ==
  /\ yama_online => /\ socketYAMA \in Sockets /\ proc[Yama] = socketYAMA
                     /\ dueno[socketYAMA] = Yama /\ entra[socketYAMA] = <<>>
  /\ YamaSaluda => yama_online
  /\ ~yama_online => workers = <<>> /\ indiceWorker = 0
  /\ YamaSaluda /\ ~carrera => workers = <<>> /\ indiceWorker = 0 /\ Registran = {}
  /\ yama_online /\ ~YamaSaluda /\ ~carrera =>
       /\ indiceWorker = Len(workers)
       /\ \A i \in DOMAIN workers : workers[i].indice = i - 1
       /\ \A i, j \in DOMAIN workers : workers[i].nodo = workers[j].nodo => i = j
       /\ NodosDe(workers) = Conectados \cup Registran

Avisada ==
  /\ Aceptados
  /\ fs = "muerto" => workers = <<>> /\ datanodes = <<>>
  /\ fs = "vivo" /\ ~Cierre => Atendidos /\ EnLinea

-----------------------------------------------------------------------------
(* Counting who runs. *)
LEMMA Finitos == IsFiniteSet(Procesos) /\ IsFiniteSet(Hilos)
<1>1. IsFiniteSet(Procesos)
  BY Distintos, FS_AddElement DEF Procesos
<1>2. IsFiniteSet(Hilos)
  BY Distintos, FS_Interval DEF Hilos
<1>3. QED
  BY <1>1, <1>2

LEMMA Cuentas ==
  /\ IsFiniteSet(Corren) /\ IsFiniteSet(Empezados)
  /\ Cardinality(Corren) \in Nat /\ Cardinality(Empezados) \in Nat
BY Finitos, FS_Subset, FS_CardinalityType DEF Corren, Empezados

LEMMA CierreEs == Cierre <=> Cardinality(Empezados) > Cardinality(Corren)
BY DEF Cierre, Empezados, Corren

(* Who ended does not run. *)
LEMMA CorrenMenos ==
  ASSUME IInv,
         \/ proc' = proc
         \/ \E s \in Sockets : Cortar(s)
         \/ \E p \in Procesos : proc' = [proc EXCEPT ![p] = 0]
  PROVE  Corren' \subseteq Corren
<1>1. proc \in [Procesos -> {0} \cup Sockets]
  BY DEF IInv, TypeOK, TiposConexiones
<1>2. \A p \in Procesos : proc'[p] = proc[p] \/ proc'[p] = 0
  BY <1>1 DEF Cortar
<1>3. QED
  BY <1>2 DEF Corren

(* A thread that goes on was started. *)
LEMMA MismosHilos ==
  ASSUME IInv,
         \/ hilo' = hilo
         \/ \E t \in Hilos : \E h : /\ hilo' = [hilo EXCEPT ![t] = h]
                                   /\ h.pc # "no" /\ hilo[t].pc # "no"
  PROVE  Empezados' = Empezados
<1>1. hilo \in [Hilos -> Hilo]
  BY DEF IInv, TypeOK, TiposConexiones
<1>2. \A t \in Hilos : hilo'[t].pc = "no" <=> hilo[t].pc = "no"
  BY <1>1
<1>3. QED
  BY <1>2 DEF Empezados

LEMMA MismosAlPasar ==
  ASSUME IInv, NEW t \in Hilos, NEW pc, Ir(t, pc), pc # "no", hilo[t].pc # "no"
  PROVE  Empezados' = Empezados
<1>1. \A u \in Hilos : hilo'[u].pc = "no" <=> hilo[u].pc = "no"
  BY SoloPasa
<1>2. QED
  BY <1>1 DEF Empezados

(* Either a connection is accepted, or FileSystem ends, or no thread starts  *)
(* and no process does.                                                      *)
LEMMA PasoAjeno ==
  ASSUME IInv, NEW t \in Hilos, PasoHilo(t)
  PROVE  /\ fs = "vivo"
         /\ Morir \/ (fs' = "vivo" /\ Empezados' = Empezados /\ Corren' \subseteq Corren)
<1>1. hilo \in [Hilos -> Hilo] /\ fs \in {"vivo", "muerto"}
  BY DEF IInv, TypeOK, TiposConexiones, TiposMarcas
<1>2. CASE HandshakeNodo(t) \/ Comparar(t)
  <2>1. hilo[t].s \in Sockets /\ hilo[t].pc \in {"lee", "compara"} /\ fs = "vivo"
    BY <1>2, SocketDeHilo DEF HandshakeNodo, Comparar, Leer, Paso
  <2>2. ASSUME ~Morir
        PROVE  /\ fs' = fs /\ (Cortar(hilo[t].s) \/ proc' = proc)
               /\ \E pc \in {"lee", "compara"} : \E n :
                    hilo' = [hilo EXCEPT ![t].pc = pc, ![t].nodo = n]
    BY <1>2, <2>2 DEF HandshakeNodo, Comparar, conexiones
  <2>3. ASSUME ~Morir PROVE \A u \in Hilos : hilo'[u].pc = "no" <=> hilo[u].pc = "no"
    BY <1>1, <2>1, <2>2, <2>3 DEF Hilo
  <2>4. QED
    BY <2>1, <2>2, <2>3, CorrenMenos DEF Empezados
<1>3. CASE HandshakeYama(t)
  <2>1. hilo[t].s \in Sockets
    BY <1>3, SocketDeHilo DEF HandshakeYama, Leer, Paso
  <2>2. /\ fs = "vivo" /\ fs' = fs /\ hilo[t].pc = "lee"
        /\ Ir(t, "lista") \/ Ir(t, "cierra")
        /\ Cortar(hilo[t].s) \/ proc' = proc
    BY <1>3 DEF HandshakeYama, Leer, Paso
  <2>3. QED
    BY <2>1, <2>2, CorrenMenos, MismosAlPasar
<1>4. CASE EnviarLista(t)
  <2>1. /\ fs = "vivo" /\ hilo[t].pc = "lista"
        /\ Morir \/ (fs' = fs /\ proc' = proc /\ Ir(t, "lee"))
    BY <1>4 DEF EnviarLista, Paso, conexiones
  <2>2. QED
    BY <2>1, CorrenMenos, MismosAlPasar
<1>5. CASE Identificacion(t)
  <2>1. /\ fs = "vivo" /\ hilo[t].pc = "lee"
        /\ Morir \/ /\ fs' = fs /\ proc' = proc
                    /\ hilo' = [hilo EXCEPT ![t].pc = "guarda", ![t].nodo = dueno[hilo[t].s],
                                            ![t].foto = totales]
    BY <1>5 DEF Identificacion, Leer, Paso
  <2>2. ASSUME hilo' = [hilo EXCEPT ![t].pc = "guarda", ![t].nodo = dueno[hilo[t].s],
                                    ![t].foto = totales]
        PROVE  \A u \in Hilos : hilo'[u].pc = "no" <=> hilo[u].pc = "no"
    BY <1>1, <2>1, <2>2 DEF Hilo
  <2>3. QED
    BY <2>1, <2>2, CorrenMenos DEF Empezados
<1>6. CASE GuardarNodosBin(t)
  <2>1. fs = "vivo" /\ hilo[t].pc = "guarda" /\ fs' = fs /\ proc' = proc /\ Ir(t, "agrega")
    BY <1>6 DEF GuardarNodosBin, Paso, conexiones
  <2>2. QED
    BY <2>1, CorrenMenos, MismosAlPasar
<1>7. CASE AgregarDatanode(t)
  <2>1. /\ fs = "vivo" /\ hilo[t].pc = "agrega" /\ fs' = fs /\ proc' = proc
        /\ hilo' = [hilo EXCEPT ![t].pc = "verifica", ![t].nodo = Nulo, ![t].foto = {}]
    BY <1>7 DEF AgregarDatanode, Paso, conexiones
  <2>2. \A u \in Hilos : hilo'[u].pc = "no" <=> hilo[u].pc = "no"
    BY <1>1, <2>1 DEF Hilo
  <2>3. QED
    BY <2>1, <2>2, CorrenMenos DEF Empezados
<1>8. CASE Verificar(t) \/ VerificarBasura(t)
  <2>1. /\ fs = "vivo" /\ hilo[t].pc = "verifica"
        /\ Morir \/ (fs' = fs /\ proc' = proc /\ Ir(t, "lee"))
    BY <1>8 DEF Verificar, VerificarBasura, Paso, conexiones
  <2>2. QED
    BY <2>1, CorrenMenos, MismosAlPasar
<1>9. CASE FinDeConexion(t) \/ Cerrar(t)
  <2>1. hilo[t].s \in Sockets
    BY <1>9, SocketDeHilo DEF FinDeConexion, Cerrar, Paso
  <2>2. /\ fs = "vivo" /\ fs' = fs /\ hilo[t].pc # "no"
        /\ Ir(t, "cierra") \/ Ir(t, "quita")
        /\ Cortar(hilo[t].s)
    BY <1>9 DEF FinDeConexion, Cerrar, Paso
  <2>3. QED
    BY <2>1, <2>2, CorrenMenos, MismosAlPasar
<1>10. CASE Sacar(t)
  <2>1. /\ fs = "vivo" /\ hilo[t].pc = "quita" /\ fs' = fs /\ proc' = proc
        /\ hilo' = [hilo EXCEPT ![t].pc = "saca", ![t].foto = totales]
    BY <1>10 DEF Sacar, Paso, conexiones
  <2>2. \A u \in Hilos : hilo'[u].pc = "no" <=> hilo[u].pc = "no"
    BY <1>1, <2>1 DEF Hilo
  <2>3. QED
    BY <2>1, <2>2, CorrenMenos DEF Empezados
<1>11. CASE Eliminar(t)
  <2>1. /\ fs = "vivo" /\ hilo[t].pc = "saca"
        /\ Morir \/ /\ fs' = fs /\ proc' = proc
                    /\ hilo' = [hilo EXCEPT ![t] = [Libre EXCEPT !.pc = "fin"]]
    BY <1>11 DEF Eliminar, Paso, conexiones
  <2>2. [Libre EXCEPT !.pc = "fin"].pc = "fin"
    BY DEF Libre
  <2>3. QED
    BY <2>1, <2>2, CorrenMenos, MismosHilos
<1>12. QED
  BY <1>2, <1>3, <1>4, <1>5, <1>6, <1>7, <1>8, <1>9, <1>10, <1>11 DEF PasoHilo

(* While nobody left after a step, nobody had before it, and the step took   *)
(* no process away.                                                          *)
LEMMA NadieSeVa ==
  ASSUME IInv, Aceptados, fs = "vivo",
         Empezados' = Empezados, Corren' \subseteq Corren
  PROVE  Aceptados' /\ (~Cierre' => ~Cierre /\ Corren' = Corren)
<1>1. PICK C, D, H : C = Corren /\ D = Corren' /\ H = Empezados
  OBVIOUS
<1>2. Empezados' = H /\ D \subseteq C /\ Cardinality(C) <= Cardinality(H)
  BY <1>1 DEF Aceptados
<1>3. IsFiniteSet(C) /\ Cardinality(C) \in Nat /\ Cardinality(H) \in Nat
  BY <1>1, Cuentas
<1>4. IsFiniteSet(D) /\ Cardinality(D) \in Nat /\ Cardinality(D) <= Cardinality(C)
      /\ (Cardinality(C) = Cardinality(D) => C = D)
  BY <1>2, <1>3, FS_Subset, FS_CardinalityType
<1>5. Cardinality(Corren') = Cardinality(D) /\ Cardinality(Empezados') = Cardinality(H)
  BY <1>1, <1>2
<1>6. Aceptados'
  BY <1>2, <1>3, <1>4, <1>5 DEF Aceptados
<1>7. (Cierre <=> Cardinality(H) > Cardinality(C)) /\ (Cierre' <=> Cardinality(H) > Cardinality(D))
  <2>1. Cierre' <=> Cardinality(Empezados') > Cardinality(Corren')
    BY DEF Cierre, Empezados, Corren
  <2>2. QED
    BY <1>1, <1>5, <2>1, CierreEs
<1>8. ASSUME ~Cierre' PROVE ~Cierre /\ D = C
  BY <1>2, <1>3, <1>4, <1>7, <1>8
<1>9. QED
  BY <1>1, <1>6, <1>8

(* A connection that is accepted takes a thread and a process. *)
LEMMA UnoMas ==
  ASSUME IInv, Aceptados, fs = "vivo",
         NEW p \in Procesos, NEW t \in Hilos,
         p \notin Corren, Corren' = Corren \cup {p},
         t \notin Empezados, Empezados' = Empezados \cup {t}
  PROVE  Aceptados' /\ (~Cierre' => ~Cierre)
<1>1. PICK C, H : C = Corren /\ H = Empezados
  OBVIOUS
<1>2. /\ Cardinality(C) <= Cardinality(H) /\ p \notin C /\ t \notin H
      /\ Corren' = C \cup {p} /\ Empezados' = H \cup {t}
  BY <1>1 DEF Aceptados
<1>3. /\ IsFiniteSet(C) /\ Cardinality(C) \in Nat
      /\ IsFiniteSet(H) /\ Cardinality(H) \in Nat
  BY <1>1, Cuentas
<1>4. Cardinality(C \cup {p}) = Cardinality(C) + 1 /\ Cardinality(H \cup {t}) = Cardinality(H) + 1
  BY <1>2, <1>3, FS_AddElement
<1>5. Cardinality(Corren') = Cardinality(C) + 1 /\ Cardinality(Empezados') = Cardinality(H) + 1
  BY <1>2, <1>4
<1>6. Aceptados'
  BY <1>2, <1>3, <1>5 DEF Aceptados
<1>7. (Cierre <=> Cardinality(H) > Cardinality(C))
      /\ (Cierre' <=> Cardinality(H) + 1 > Cardinality(C) + 1)
  <2>1. Cierre' <=> Cardinality(Empezados') > Cardinality(Corren')
    BY DEF Cierre, Empezados, Corren
  <2>2. QED
    BY <1>1, <1>5, <2>1, CierreEs
<1>8. QED
  BY <1>3, <1>6, <1>7

(* Nobody that is attended is cut off. *)
LEMMA NadieCorta ==
  ASSUME IInv, Atendidos, NEW t \in Empezados, Corren' = Corren, Cortar(hilo[t].s)
  PROVE  FALSE
<1>1. /\ hilo[t].s \in Sockets /\ dueno[hilo[t].s] \in Procesos
      /\ proc[dueno[hilo[t].s]] = hilo[t].s
  BY DEF Atendidos, Atiende
<1>2. hilo[t].s > 0
  BY <1>1, Distintos DEF Sockets
<1>3. PICK p \in Procesos : p = dueno[hilo[t].s]
  BY <1>1
<1>4. p \in Corren /\ proc'[p] = 0
  BY <1>1, <1>2, <1>3 DEF Corren, Cortar
<1>5. p \in Corren'
  BY <1>4
<1>6. QED
  BY <1>4, <1>5 DEF Corren

(* What a thread that is attended may be at. *)
LEMMA DondeAtiende ==
  ASSUME IInv, Atendidos, NEW t \in Empezados
  PROVE  /\ hilo[t].s \in Sockets /\ dueno[hilo[t].s] \in Procesos
         /\ proc[dueno[hilo[t].s]] = hilo[t].s
         /\ entra[hilo[t].s] \in {<<"HANDSHAKE">>, <<"IDENTIFICACION">>, <<>>}
         /\ hilo[t].pc \in {"lee", "compara", "lista", "guarda", "agrega", "verifica"}
         /\ hilo[t].pc \notin {"lee", "compara"} => entra[hilo[t].s] = <<>>
         /\ hilo[t].pc = "lista" => dueno[hilo[t].s] = Yama
         /\ dueno[hilo[t].s] = Yama => AtiendeYama(t)
         /\ dueno[hilo[t].s] # Yama => AtiendeNodo(t)
BY DEF Atendidos, Atiende, AtiendeYama, AtiendeNodo

(* No two threads attend the same process. *)
LEMMA UnoPorProceso ==
  ASSUME IInv, Atendidos, NEW t \in Empezados, NEW u \in Empezados,
         dueno[hilo[t].s] = dueno[hilo[u].s]
  PROVE  t = u
BY DondeAtiende DEF Atendidos

(* A step of the thread t at its own connection leaves the others at theirs. *)
LEMMA AtendidosSiguen ==
  ASSUME IInv, Atendidos, NEW t \in Empezados, UNCHANGED <<proc, dueno>>,
         \A u \in Hilos \ {t} : hilo'[u] = hilo[u],
         hilo'[t].s = hilo[t].s,
         \A s \in Sockets \ {hilo[t].s} : entra'[s] = entra[s],
         yama_online' = yama_online \/ dueno[hilo[t].s] = Yama,
         Empezados' = Empezados, Atiende(t)'
  PROVE  /\ \A u \in Empezados' : Atiende(u)'
         /\ \A u, v \in Empezados' : hilo'[u].s = hilo'[v].s => u = v
         /\ \A u \in Empezados \ {t} : \A n : Registrado(u, n) => Registrado(u, n)'
<1>1. \A u \in Hilos : hilo'[u].s = hilo[u].s
  OBVIOUS
<1>2. Empezados \subseteq Hilos
  BY DEF Empezados
<1>3. ASSUME NEW u \in Empezados, u # t
      PROVE  Atiende(u)' /\ \A n : Registrado(u, n) => Registrado(u, n)'
  <2>1. u \in Hilos /\ hilo'[u] = hilo[u] /\ hilo[u].s # hilo[t].s
    BY <1>2, <1>3 DEF Atendidos
  <2>2. hilo[u].s \in Sockets /\ entra'[hilo[u].s] = entra[hilo[u].s]
    BY <2>1, DondeAtiende
  <2>3. dueno[hilo[u].s] = Yama => yama_online' = yama_online
    BY <1>3, UnoPorProceso
  <2>4. Atiende(u)
    BY DEF Atendidos
  <2>5. Atiende(u)'
    BY <2>1, <2>2, <2>3, <2>4 DEF Atiende, AtiendeYama, AtiendeNodo, Registrando
  <2>6. \A n : Registrado(u, n) => Registrado(u, n)'
    BY <2>1, <2>2 DEF Registrado, Registrando
  <2>7. QED
    BY <2>5, <2>6
<1>4. QED
  BY <1>1, <1>2, <1>3 DEF Atendidos

(* It keeps the list as well, if the list stays as it is. *)
LEMMA AtendidosIgualLista ==
  ASSUME IInv, Atendidos, NEW t \in Empezados, UNCHANGED <<proc, dueno, datanodes>>,
         \A u \in Hilos \ {t} : hilo'[u] = hilo[u],
         hilo'[t].s = hilo[t].s,
         \A s \in Sockets \ {hilo[t].s} : entra'[s] = entra[s],
         yama_online' = yama_online \/ dueno[hilo[t].s] = Yama,
         Empezados' = Empezados, Atiende(t)',
         \A n \in Nodos : Registrado(t, n) => Registrado(t, n)'
  PROVE  Atendidos'
<1>1. \A i \in DOMAIN datanodes : datanodes[i].nodo \in Nodos
  BY EnLista
<1>2. ASSUME NEW i \in DOMAIN datanodes
      PROVE  \E u \in Hilos : Registrado(u, datanodes[i].nodo)'
  <2>1. PICK u \in Hilos : Registrado(u, datanodes[i].nodo)
    BY DEF Atendidos
  <2>2. PICK n \in Nodos : n = datanodes[i].nodo
    BY <1>1
  <2>3. u \in Empezados /\ Registrado(u, n)
    BY <2>1, <2>2 DEF Registrado
  <2>4. Registrado(u, n)'
    BY <2>3, AtendidosSiguen
  <2>5. datanodes'[i].nodo = n
    BY <2>2
  <2>6. Registrado(u, datanodes[i].nodo)'
    BY <2>4, <2>5 DEF Registrado
  <2>7. QED
    BY <2>6
<1>3. QED
  BY <1>2, AtendidosSiguen DEF Atendidos

(* Nothing YAMA is told about changes. *)
LEMMA EnLineaIgual ==
  ASSUME EnLinea, UNCHANGED <<yama_online, socketYAMA, proc, dueno, workers, indiceWorker, carrera>>,
         yama_online => entra'[socketYAMA] = <<>>,
         YamaSaluda' <=> YamaSaluda, Registran' = Registran, Conectados' = Conectados
  PROVE  EnLinea'
BY DEF EnLinea, NodosDe

-----------------------------------------------------------------------------
(* The third invariant, action by action. *)
LEMMA ConectarAlDia ==
  ASSUME IInv, Avisada, NEW p \in Procesos, Conectar(p)
  PROVE  Avisada'
<1>1. PICK s \in Sockets, t \in Hilos :
        /\ dueno[s] = Nadie /\ hilo[t].pc = "no"
        /\ dueno' = [dueno EXCEPT ![s] = p]
        /\ entra' = [entra EXCEPT ![s] = <<"HANDSHAKE">>]
        /\ proc' = [proc EXCEPT ![p] = s]
        /\ hilo' = [hilo EXCEPT ![t] = [Libre EXCEPT !.pc = "lee", !.s = s]]
  BY DEF Conectar
<1>2. /\ fs = "vivo" /\ proc[p] = 0
      /\ UNCHANGED <<fs, yama_online, socketYAMA, datanodes, workers, indiceWorker, carrera>>
  BY DEF Conectar, marcas, nodos, yama
<1>3. /\ hilo \in [Hilos -> Hilo] /\ proc \in [Procesos -> {0} \cup Sockets]
      /\ dueno \in [Sockets -> Procesos \cup {Nadie}] /\ entra \in [Sockets -> Seq(Mensaje)]
  BY DEF IInv, TypeOK, TiposConexiones
<1>4. PICK h : h = [Libre EXCEPT !.pc = "lee", !.s = s]
  OBVIOUS
<1>5. h.pc = "lee" /\ h.s = s
  BY <1>4 DEF Libre
<1>6. /\ \A u \in Hilos \ {t} : hilo'[u] = hilo[u]
      /\ hilo'[t] = h
      /\ \A x \in Sockets \ {s} : dueno'[x] = dueno[x] /\ entra'[x] = entra[x]
      /\ dueno'[s] = p /\ entra'[s] = <<"HANDSHAKE">>
      /\ \A q \in Procesos \ {p} : proc'[q] = proc[q]
      /\ proc'[p] = s
  BY <1>1, <1>3, <1>4
<1>7. s > 0
  BY Distintos DEF Sockets
<1>8. /\ t \notin Empezados /\ Empezados' = Empezados \cup {t}
      /\ p \notin Corren /\ Corren' = Corren \cup {p}
  BY <1>1, <1>2, <1>5, <1>6, <1>7 DEF Empezados, Corren
<1>9. Aceptados' /\ (~Cierre' => ~Cierre)
  BY <1>2, <1>8, UnoMas DEF Avisada
<1>10. ASSUME ~Cierre PROVE Atendidos' /\ EnLinea'
  <2>1. Atendidos /\ EnLinea
    BY <1>2, <1>10 DEF Avisada
  <2>2. ASSUME NEW u \in Empezados
        PROVE  /\ u # t /\ hilo'[u] = hilo[u] /\ hilo[u].s \in Sockets /\ hilo[u].s # s
               /\ dueno[hilo[u].s] # p
    <3>1. u \in Hilos /\ u # t
      BY <1>8 DEF Empezados
    <3>2. /\ hilo[u].s \in Sockets /\ dueno[hilo[u].s] \in Procesos
          /\ proc[dueno[hilo[u].s]] = hilo[u].s
      BY <2>1, DondeAtiende
    <3>3. hilo[u].s # 0
      BY <3>2, Distintos DEF Sockets
    <3>4. QED
      BY <1>1, <1>2, <1>6, <3>1, <3>2, <3>3, Distintos
  <2>3. yama_online => p # Yama /\ socketYAMA # s /\ socketYAMA \in Sockets
    <3>1. ASSUME yama_online
          PROVE  socketYAMA \in Sockets /\ proc[Yama] = socketYAMA /\ dueno[socketYAMA] = Yama
      BY <2>1, <3>1 DEF EnLinea
    <3>2. Yama \in Procesos /\ Yama # Nadie
      BY Distintos DEF Procesos
    <3>3. socketYAMA \in Sockets => socketYAMA # 0
      BY Distintos DEF Sockets
    <3>4. QED
      BY <1>1, <1>2, <3>1, <3>2, <3>3
  <2>4. Atiende(t)'
    <3>1. hilo'[t].s = s /\ hilo'[t].pc = "lee" /\ dueno'[s] = p /\ proc'[p] = s
          /\ entra'[s] = <<"HANDSHAKE">>
      BY <1>5, <1>6
    <3>2. p = Yama => ~yama_online'
      BY <1>2, <2>3
    <3>3. QED
      BY <3>1, <3>2 DEF Atiende, AtiendeYama, AtiendeNodo, Registrando
  <2>5. ASSUME NEW u \in Empezados
        PROVE  Atiende(u)' /\ \A n : Registrado(u, n) => Registrado(u, n)'
    <3>1. /\ u # t /\ hilo'[u] = hilo[u] /\ hilo[u].s \in Sockets
          /\ dueno'[hilo[u].s] = dueno[hilo[u].s] /\ entra'[hilo[u].s] = entra[hilo[u].s]
          /\ dueno[hilo[u].s] # p
      BY <1>6, <2>2
    <3>2. dueno[hilo[u].s] \in Procesos
      BY <2>1, DondeAtiende
    <3>3. proc'[dueno[hilo[u].s]] = proc[dueno[hilo[u].s]]
      BY <1>6, <3>1, <3>2
    <3>4. Atiende(u)
      BY <2>1 DEF Atendidos
    <3>5. Atiende(u)'
      BY <1>2, <3>1, <3>3, <3>4 DEF Atiende, AtiendeYama, AtiendeNodo, Registrando
    <3>6. \A n : Registrado(u, n) => Registrado(u, n)'
      BY <1>8, <3>1 DEF Registrado, Registrando
    <3>7. QED
      BY <3>5, <3>6
  <2>6. \A u, v \in Empezados' : hilo'[u].s = hilo'[v].s => u = v
    <3>1. \A u, v \in Empezados : hilo[u].s = hilo[v].s => u = v
      BY <2>1 DEF Atendidos
    <3>2. hilo'[t].s = s
      BY <1>5, <1>6
    <3>3. QED
      BY <1>8, <2>2, <3>1, <3>2
  <2>7. \A i \in DOMAIN datanodes : \E u \in Hilos : Registrado(u, datanodes[i].nodo)'
    <3>1. ASSUME NEW i \in DOMAIN datanodes
          PROVE  \E u \in Hilos : Registrado(u, datanodes[i].nodo)'
      <4>1. PICK u \in Hilos : Registrado(u, datanodes[i].nodo)
        BY <2>1 DEF Atendidos
      <4>2. PICK n : n = datanodes[i].nodo
        OBVIOUS
      <4>3. u \in Empezados /\ Registrado(u, n)
        BY <4>1, <4>2 DEF Registrado
      <4>4. Registrado(u, n)'
        BY <2>5, <4>3
      <4>5. datanodes'[i].nodo = n
        BY <1>2, <4>2
      <4>6. QED
        BY <4>4, <4>5 DEF Registrado
    <3>2. QED
      BY <3>1
  <2>8. Atendidos'
    <3>1. \A u \in Empezados' : Atiende(u)'
      BY <1>8, <2>4, <2>5
    <3>2. \A i, j \in DOMAIN datanodes : datanodes[i].nodo = datanodes[j].nodo => i = j
      BY <2>1 DEF Atendidos
    <3>3. QED
      BY <1>2, <2>6, <2>7, <3>1, <3>2 DEF Atendidos
  <2>9. EnLinea'
    <3>1. \A u \in Hilos : /\ hilo'[u].pc = "lista" <=> hilo[u].pc = "lista"
                           /\ Registrando(u)' <=> Registrando(u)
                           /\ Registrando(u) => hilo'[u].nodo = hilo[u].nodo
      <4>1. ASSUME NEW u \in Hilos, u # t
            PROVE  hilo'[u] = hilo[u]
        BY <1>6, <4>1
      <4>2. hilo[t].pc = "no" /\ hilo'[t].pc = "lee"
        BY <1>1, <1>5, <1>6
      <4>3. QED
        BY <4>1, <4>2 DEF Registrando
    <3>2. (YamaSaluda' <=> YamaSaluda) /\ Registran' = Registran
      BY <3>1 DEF YamaSaluda, Registran
    <3>3. Conectados' = Conectados
      BY <1>2 DEF Conectados
    <3>4. yama_online => /\ socketYAMA \in Sockets /\ dueno'[socketYAMA] = dueno[socketYAMA]
                         /\ entra'[socketYAMA] = entra[socketYAMA] /\ proc'[Yama] = proc[Yama]
      BY <1>6, <2>3 DEF Procesos
    <3>5. QED
      BY <1>2, <2>1, <3>2, <3>3, <3>4 DEF EnLinea, NodosDe
  <2>10. QED
    BY <2>8, <2>9
<1>11. QED
  BY <1>2, <1>9, <1>10 DEF Avisada

LEMMA TerminarAlDia ==
  ASSUME IInv, Avisada, NEW p \in Procesos, Terminar(p)
  PROVE  Avisada'
<1>1. /\ fs = "vivo" /\ proc[p] > 0 /\ UNCHANGED <<fs, hilo>>
      /\ proc' = [proc EXCEPT ![p] = 0]
  BY DEF Terminar
<1>2. Empezados' = Empezados /\ Corren' \subseteq Corren
  BY <1>1, CorrenMenos, MismosHilos
<1>3. p \in Corren /\ p \notin Corren'
  <2>1. proc'[p] = 0
    BY <1>1 DEF IInv, TypeOK, TiposConexiones
  <2>2. QED
    BY <1>1, <2>1 DEF Corren
<1>4. Aceptados' /\ Cierre'
  BY <1>1, <1>2, <1>3, NadieSeVa DEF Avisada
<1>5. QED
  BY <1>1, <1>4 DEF Avisada

LEMMA MorirAlDia ==
  ASSUME Morir
  PROVE  Avisada'
<1>1. fs' = "muerto" /\ datanodes' = <<>> /\ workers' = <<>>
  BY DEF Morir, Olvidar
<1>2. QED
  BY <1>1 DEF Avisada, Aceptados

-----------------------------------------------------------------------------
LEMMA HandshakeAlDia ==
  ASSUME IInv, Atendidos, EnLinea, NEW t \in Empezados, HandshakeNodo(t),
         Empezados' = Empezados
  PROVE  Atendidos' /\ EnLinea'
<1> DEFINE s == hilo[t].s
<1>1. /\ s \in Sockets /\ dueno[s] # Yama /\ hilo[t].pc = "lee" /\ t \in Hilos
      /\ entra[s] # <<>> /\ Head(entra[s]) = "HANDSHAKE"
  BY DondeAtiende, Distintos DEF HandshakeNodo, Leer, Paso, Empezados
<1>2. entra[s] = <<"HANDSHAKE">>
  <2>1. PICK q : q = entra[s]
    OBVIOUS
  <2>2. q \in {<<"HANDSHAKE">>, <<"IDENTIFICACION">>, <<>>} /\ q # <<>> /\ Head(q) = "HANDSHAKE"
    BY <1>1, <2>1, DondeAtiende
  <2>3. q = <<"HANDSHAKE">>
    BY <2>2
  <2>4. QED
    BY <2>1, <2>3
<1>3. /\ entra' = [entra EXCEPT ![s] = IF Tail(entra[s]) = <<>> THEN <<"IDENTIFICACION">>
                                       ELSE Tail(entra[s])]
      /\ hilo' = [hilo EXCEPT ![t].pc = "compara", ![t].nodo = dueno[s]]
      /\ UNCHANGED <<yama_online, socketYAMA, datanodes, proc, dueno, workers, indiceWorker,
                     carrera>>
  BY DEF HandshakeNodo, marcas, nodos, yama, historia
<1>4. entra'[s] = <<"IDENTIFICACION">> /\ \A x \in Sockets \ {s} : entra'[x] = entra[x]
  <2>1. entra \in [Sockets -> Seq(Mensaje)]
    BY DEF IInv, TypeOK, TiposConexiones
  <2>2. Tail(<<"HANDSHAKE">>) = <<>>
    OBVIOUS
  <2>3. QED
    BY <1>1, <1>2, <1>3, <2>1, <2>2
<1>5. /\ \A u \in Hilos \ {t} : hilo'[u] = hilo[u]
      /\ hilo'[t].s = s /\ hilo'[t].pc = "compara"
  BY <1>1, <1>3 DEF IInv, TypeOK, TiposConexiones, Hilo
<1>6. Atiende(t)'
  <2>1. Atiende(t)
    BY DEF Atendidos
  <2>2. QED
    BY <1>1, <1>3, <1>4, <1>5, <2>1 DEF Atiende, AtiendeNodo, Registrando
<1>7. \A n : ~Registrado(t, n)
  BY <1>2 DEF Registrado
<1>8. Atendidos'
  <2>1. \A n \in Nodos : Registrado(t, n) => Registrado(t, n)'
    BY <1>7
  <2>2. QED
    BY <1>3, <1>4, <1>5, <1>6, <2>1, AtendidosIgualLista
<1>9. EnLinea'
  <2>1. yama_online => socketYAMA # s /\ socketYAMA \in Sockets /\ entra[socketYAMA] = <<>>
    BY <1>1 DEF EnLinea
  <2>2. \A u \in Hilos : /\ hilo'[u].pc = "lista" <=> hilo[u].pc = "lista"
                         /\ Registrando(u)' <=> Registrando(u)
                         /\ Registrando(u) => hilo'[u].nodo = hilo[u].nodo
    BY <1>1, <1>5 DEF Registrando
  <2>3. (YamaSaluda' <=> YamaSaluda) /\ Registran' = Registran
    BY <2>2 DEF YamaSaluda, Registran
  <2>4. Conectados' = Conectados
    BY <1>3 DEF Conectados
  <2>5. QED
    BY <1>3, <1>4, <2>1, <2>3, <2>4, EnLineaIgual
<1>10. QED
  BY <1>8, <1>9

(* Nobody is rejected: he would be cut off. *)
LEMMA CompararAlDia ==
  ASSUME IInv, Atendidos, EnLinea, NEW t \in Empezados, Comparar(t), ~Morir,
         Corren' = Corren, Empezados' = Empezados
  PROVE  Atendidos' /\ EnLinea'
<1> DEFINE s == hilo[t].s
<1>1. /\ s \in Sockets /\ hilo[t].pc = "compara" /\ t \in Hilos
      /\ dueno[s] # Yama /\ entra[s] = <<"IDENTIFICACION">>
  BY DondeAtiende DEF Comparar, Paso, Empezados, AtiendeYama, AtiendeNodo
<1>2. /\ hilo' = [hilo EXCEPT ![t].pc = "lee", ![t].nodo = Nulo]
      /\ UNCHANGED <<yama_online, socketYAMA, datanodes, proc, dueno, entra, workers,
                     indiceWorker, carrera>>
  <2>1. ~Cortar(s)
    BY NadieCorta
  <2>2. QED
    BY <2>1 DEF Comparar, nodos, conexiones, yama, historia
<1>3. /\ \A u \in Hilos \ {t} : hilo'[u] = hilo[u]
      /\ hilo'[t].s = s /\ hilo'[t].pc = "lee"
  BY <1>1, <1>2 DEF IInv, TypeOK, TiposConexiones, Hilo
<1>4. Atiende(t)'
  <2>1. Atiende(t)
    BY DEF Atendidos
  <2>2. QED
    BY <1>1, <1>2, <1>3, <2>1 DEF Atiende, AtiendeNodo, Registrando
<1>5. \A n : ~Registrado(t, n)
  BY <1>1 DEF Registrado
<1>6. Atendidos'
  <2>1. \A n \in Nodos : Registrado(t, n) => Registrado(t, n)'
    BY <1>5
  <2>2. QED
    BY <1>2, <1>3, <1>4, <2>1, AtendidosIgualLista
<1>7. EnLinea'
  <2>1. yama_online => entra'[socketYAMA] = <<>>
    BY <1>2 DEF EnLinea
  <2>2. \A u \in Hilos : /\ hilo'[u].pc = "lista" <=> hilo[u].pc = "lista"
                         /\ Registrando(u)' <=> Registrando(u)
                         /\ Registrando(u) => hilo'[u].nodo = hilo[u].nodo
    BY <1>1, <1>3 DEF Registrando
  <2>3. (YamaSaluda' <=> YamaSaluda) /\ Registran' = Registran
    BY <2>2 DEF YamaSaluda, Registran
  <2>4. Conectados' = Conectados
    BY <1>2 DEF Conectados
  <2>5. QED
    BY <1>2, <2>1, <2>3, <2>4, EnLineaIgual
<1>8. QED
  BY <1>6, <1>7

LEMMA HandshakeYamaAlDia ==
  ASSUME IInv, Atendidos, EnLinea, NEW t \in Empezados, HandshakeYama(t),
         Corren' = Corren, Empezados' = Empezados
  PROVE  Atendidos' /\ EnLinea'
<1> DEFINE s == hilo[t].s
<1>1. /\ s \in Sockets /\ dueno[s] = Yama /\ hilo[t].pc = "lee" /\ proc[Yama] = s
      /\ entra[s] # <<>> /\ AtiendeYama(t) /\ t \in Hilos
  BY DondeAtiende DEF HandshakeYama, Leer, Paso, Empezados
<1>2. entra[s] = <<"HANDSHAKE">> /\ ~yama_online
  BY <1>1 DEF AtiendeYama
<1>3. /\ entra' = [entra EXCEPT ![s] = Tail(@)] /\ Ir(t, "lista")
      /\ yama_online' = TRUE /\ socketYAMA' = s
      /\ carrera' = (carrera \/ \E u \in Hilos : Registrando(u))
      /\ UNCHANGED <<datanodes, proc, dueno, workers, indiceWorker>>
  <2>1. ~Cortar(s)
    BY NadieCorta
  <2>2. QED
    BY <2>1 DEF HandshakeYama, nodos, yama
<1>4. entra'[s] = <<>> /\ \A x \in Sockets \ {s} : entra'[x] = entra[x]
  <2>1. entra \in [Sockets -> Seq(Mensaje)]
    BY DEF IInv, TypeOK, TiposConexiones
  <2>2. Tail(<<"HANDSHAKE">>) = <<>>
    OBVIOUS
  <2>3. QED
    BY <1>1, <1>2, <1>3, <2>1, <2>2
<1>5. /\ hilo'[t].s = s /\ hilo'[t].pc = "lista"
      /\ \A u \in Hilos : /\ hilo'[u].s = hilo[u].s /\ hilo'[u].nodo = hilo[u].nodo
                          /\ hilo'[u].pc = IF u = t THEN "lista" ELSE hilo[u].pc
  BY <1>1, <1>3, SoloPasa
<1>6. \A u \in Hilos \ {t} : hilo'[u] = hilo[u]
  BY <1>3 DEF Ir, IInv, TypeOK, TiposConexiones
<1>7. Atiende(t)'
  BY <1>1, <1>3, <1>4, <1>5, Distintos DEF Atiende, AtiendeYama, Procesos
<1>8. \A n \in Nodos : ~Registrado(t, n)
  BY <1>1, Distintos DEF Registrado
<1>9. Atendidos'
  BY <1>1, <1>3, <1>4, <1>5, <1>6, <1>7, <1>8, AtendidosIgualLista
<1>10. YamaSaluda'
  BY <1>1, <1>5 DEF YamaSaluda
<1>11. ~carrera' => Registran' = {}
  <2>1. \A u \in Hilos : Registrando(u)' => Registrando(u)
    BY <1>5 DEF Registrando
  <2>2. QED
    BY <1>3, <2>1 DEF Registran
<1>12. workers' = <<>> /\ indiceWorker' = 0
  BY <1>2, <1>3 DEF EnLinea
<1>13. EnLinea'
  BY <1>1, <1>3, <1>4, <1>10, <1>11, <1>12 DEF EnLinea
<1>14. QED
  BY <1>9, <1>13

LEMMA EnviarListaAlDia ==
  ASSUME IInv, Atendidos, EnLinea, NEW t \in Empezados, EnviarLista(t), ~Morir,
         Empezados' = Empezados
  PROVE  Atendidos' /\ EnLinea'
<1> DEFINE s == hilo[t].s
<1>1. /\ s \in Sockets /\ dueno[s] = Yama /\ hilo[t].pc = "lista" /\ proc[Yama] = s
      /\ entra[s] = <<>> /\ t \in Hilos
  BY DondeAtiende DEF EnviarLista, Paso, Empezados
<1>2. YamaSaluda
  BY <1>1 DEF YamaSaluda
<1>3. yama_online /\ SePuedeEnviar /\ ~YamaSeFue
  <2>1. /\ yama_online /\ socketYAMA \in Sockets
        /\ dueno[socketYAMA] = Yama /\ entra[socketYAMA] = <<>>
    BY <1>2 DEF EnLinea
  <2>2. QED
    BY <2>1 DEF SePuedeEnviar, YamaSeFue, Sockets
<1>4. /\ ListaWorkers /\ Ir(t, "lee")
      /\ UNCHANGED <<yama_online, socketYAMA, datanodes, proc, dueno, entra, carrera>>
  BY <1>3 DEF EnviarLista, Enviar, marcas, nodos, conexiones, historia
<1>5. \A u \in Hilos : /\ hilo'[u].s = hilo[u].s /\ hilo'[u].nodo = hilo[u].nodo
                       /\ hilo'[u].pc = IF u = t THEN "lee" ELSE hilo[u].pc
  BY <1>1, <1>4, SoloPasa
<1>6. \A u \in Hilos \ {t} : hilo'[u] = hilo[u]
  BY <1>4 DEF Ir, IInv, TypeOK, TiposConexiones
<1>7. Atiende(t)'
  BY <1>1, <1>4, <1>5, Distintos DEF Atiende, AtiendeYama, Procesos
<1>8. \A n \in Nodos : ~Registrado(t, n)
  BY <1>1, Distintos DEF Registrado
<1>9. Atendidos'
  BY <1>1, <1>4, <1>5, <1>6, <1>7, <1>8, AtendidosIgualLista
<1>10. ~YamaSaluda'
  <2>1. SUFFICES ASSUME NEW u \in Hilos, hilo'[u].pc = "lista" PROVE FALSE
    BY DEF YamaSaluda
  <2>2. u # t /\ hilo[u].pc = "lista"
    BY <1>5, <2>1
  <2>3. u \in Empezados
    BY <2>2 DEF Empezados
  <2>4. dueno[hilo[u].s] = Yama
    BY <2>2, <2>3, DondeAtiende
  <2>5. QED
    BY <1>1, <2>2, <2>3, <2>4, UnoPorProceso
<1>11. ASSUME ~carrera
       PROVE  /\ indiceWorker' = Len(workers')
              /\ \A i \in DOMAIN workers' : workers'[i].indice = i - 1
              /\ \A i, j \in DOMAIN workers' : workers'[i].nodo = workers'[j].nodo => i = j
              /\ NodosDe(workers)' = Conectados' \cup Registran'
  <2>1. workers = <<>> /\ Registran = {}
    BY <1>2, <1>11 DEF EnLinea
  <2>2. PICK d : d = datanodes
    OBVIOUS
  <2>3. d \in Seq([nodo : Nodos, socket : Sockets])
    BY <2>2 DEF IInv, TypeOK, TiposNodos
  <2>4. PICK w : w = [i \in DOMAIN d |-> [nodo |-> d[i].nodo, indice |-> i - 1]]
    OBVIOUS
  <2>5. /\ DOMAIN w = DOMAIN d /\ w \in Seq([nodo : Nodos, indice : Int]) /\ Len(w) = Len(d)
        /\ \A i \in DOMAIN w : w[i].nodo = d[i].nodo /\ w[i].indice = i - 1
    <3>1. PICK X : X = [nodo : Nodos, indice : Int]
      OBVIOUS
    <3>2. DOMAIN d = 1..Len(d) /\ Len(d) \in Nat /\ \A i \in DOMAIN d : d[i].nodo \in Nodos
      BY <2>2, <2>3, EnLista
    <3>3. \A i \in DOMAIN d : w[i] = [nodo |-> d[i].nodo, indice |-> i - 1]
      BY <2>4
    <3>4. \A i \in DOMAIN d : w[i] \in X /\ w[i].nodo = d[i].nodo /\ w[i].indice = i - 1
      <4> TAKE i \in DOMAIN d
      <4>1. PICK n \in Nodos, k \in Int : n = d[i].nodo /\ k = i - 1
        BY <3>2
      <4>2. w[i] = [nodo |-> n, indice |-> k]
        BY <3>3, <4>1
      <4>3. [nodo |-> n, indice |-> k] \in X
        BY <3>1
      <4>4. QED
        BY <4>1, <4>2, <4>3
    <3>5. DOMAIN w = 1..Len(d) /\ w \in [1..Len(d) -> X]
      <4>1. w = [i \in 1..Len(d) |-> w[i]]
        BY <2>4, <3>2, <3>3
      <4>2. QED
        BY <3>2, <3>4, <4>1
    <3>6. w \in Seq(X) /\ Len(w) = Len(d)
      BY <3>2, <3>5
    <3>7. QED
      BY <3>1, <3>2, <3>4, <3>5, <3>6
  <2>6. workers' = w /\ indiceWorker' = Len(d)
    <3>1. workers' = <<>> \o w /\ indiceWorker' = Len(d)
      BY <1>4, <2>1, <2>2, <2>4 DEF ListaWorkers, IndiceTrasLista
    <3>2. <<>> \o w = w
      BY <2>5
    <3>3. QED
      BY <3>1, <3>2
  <2>7. \A i, j \in DOMAIN d : d[i].nodo = d[j].nodo => i = j
    BY <2>2 DEF Atendidos
  <2>8. Registran' = {}
    <3>1. \A u \in Hilos : Registrando(u)' => Registrando(u)
      BY <1>5 DEF Registrando
    <3>2. QED
      BY <2>1, <3>1 DEF Registran
  <2>9. Conectados' = {d[i].nodo : i \in DOMAIN d}
    BY <1>4, <2>2 DEF Conectados
  <2>10. NodosDe(workers)' = {w[i].nodo : i \in DOMAIN w}
    BY <2>6 DEF NodosDe
  <2>11. {w[i].nodo : i \in DOMAIN w} = {d[i].nodo : i \in DOMAIN d}
    BY <2>5
  <2>12. QED
    BY <2>5, <2>6, <2>7, <2>8, <2>9, <2>10, <2>11
<1>12. EnLinea'
  <2>1. /\ socketYAMA \in Sockets /\ proc[Yama] = socketYAMA
        /\ dueno[socketYAMA] = Yama /\ entra[socketYAMA] = <<>>
    BY <1>3 DEF EnLinea
  <2>2. QED
    BY <1>3, <1>4, <1>10, <1>11, <2>1 DEF EnLinea
<1>13. QED
  BY <1>9, <1>12

LEMMA IdentificacionAlDia ==
  ASSUME IInv, Atendidos, EnLinea, NEW t \in Empezados, Identificacion(t), ~Morir,
         Empezados' = Empezados
  PROVE  Atendidos' /\ EnLinea'
<1> DEFINE s == hilo[t].s
<1>1. /\ s \in Sockets /\ hilo[t].pc = "lee" /\ proc[dueno[s]] = s /\ t \in Hilos
      /\ entra[s] # <<>> /\ Head(entra[s]) = "IDENTIFICACION"
  BY DondeAtiende DEF Identificacion, Leer, Paso, Empezados
<1>2. entra[s] = <<"IDENTIFICACION">> /\ Len(entra[s]) = 1
  <2>1. PICK q : q = entra[s]
    OBVIOUS
  <2>2. q \in {<<"HANDSHAKE">>, <<"IDENTIFICACION">>, <<>>} /\ q # <<>> /\ Head(q) = "IDENTIFICACION"
    BY <1>1, <2>1, DondeAtiende
  <2>3. q = <<"IDENTIFICACION">> /\ Len(q) = 1
    BY <2>2
  <2>4. QED
    BY <2>1, <2>3
<1>3. PICK n \in Nodos : n = dueno[s]
  <2>1. entra[s][1] = "IDENTIFICACION" /\ 1 \in 1..Len(entra[s])
    BY <1>2
  <2>2. QED
    BY <1>1, <2>1 DEF IInv, IdentificaConocidos
<1>4. n # Yama
  BY Distintos
<1>5. /\ entra' = [entra EXCEPT ![s] = Tail(@)]
      /\ hilo' = [hilo EXCEPT ![t].pc = "guarda", ![t].nodo = n, ![t].foto = totales]
      /\ carrera' = (carrera \/ YamaSaluda)
      /\ IF yama_online THEN Enviar(NuevoWorker(n)) ELSE UNCHANGED yama
      /\ UNCHANGED <<yama_online, socketYAMA, datanodes, proc, dueno>>
  BY <1>3 DEF Identificacion
<1>6. entra'[s] = <<>> /\ \A x \in Sockets \ {s} : entra'[x] = entra[x]
  <2>1. entra \in [Sockets -> Seq(Mensaje)]
    BY DEF IInv, TypeOK, TiposConexiones
  <2>2. Tail(<<"IDENTIFICACION">>) = <<>>
    OBVIOUS
  <2>3. QED
    BY <1>1, <1>2, <1>5, <2>1, <2>2
<1>7. /\ \A u \in Hilos \ {t} : hilo'[u] = hilo[u]
      /\ hilo'[t].s = s /\ hilo'[t].pc = "guarda" /\ hilo'[t].nodo = n
  BY <1>1, <1>5 DEF IInv, TypeOK, TiposConexiones, Hilo
<1>8. Atiende(t)'
  BY <1>1, <1>3, <1>4, <1>5, <1>6, <1>7 DEF Atiende, AtiendeNodo, Registrando, Procesos
<1>9. \A o : ~Registrado(t, o)
  BY <1>1 DEF Registrado
<1>10. Atendidos'
  <2>1. \A o \in Nodos : Registrado(t, o) => Registrado(t, o)'
    BY <1>9
  <2>2. QED
    BY <1>5, <1>6, <1>7, <1>8, <2>1, AtendidosIgualLista
<1>11. YamaSaluda' <=> YamaSaluda
  <2>1. \A u \in Hilos : hilo'[u].pc = "lista" <=> hilo[u].pc = "lista"
    BY <1>1, <1>7
  <2>2. QED
    BY <2>1 DEF YamaSaluda
<1>12. Registran' = Registran \cup {n}
  <2>1. \A u \in Hilos \ {t} : /\ Registrando(u)' <=> Registrando(u)
                               /\ hilo'[u].nodo = hilo[u].nodo
    BY <1>7 DEF Registrando
  <2>2. Registrando(t)' /\ ~Registrando(t) /\ hilo'[t].nodo = n
    BY <1>1, <1>7 DEF Registrando
  <2>3. QED
    BY <1>1, <2>1, <2>2 DEF Registran
<1>13. n \notin Conectados \cup Registran
  <2>1. ASSUME NEW i \in DOMAIN datanodes, datanodes[i].nodo = n PROVE FALSE
    <3>1. PICK u \in Hilos : Registrado(u, n)
      BY <2>1 DEF Atendidos
    <3>2. u \in Empezados /\ dueno[hilo[u].s] = n
      BY <3>1 DEF Registrado
    <3>3. u = t
      BY <1>3, <3>2, UnoPorProceso
    <3>4. QED
      BY <1>9, <3>1, <3>3
  <2>2. ASSUME NEW u \in Hilos, Registrando(u), hilo[u].nodo = n PROVE FALSE
    <3>1. u \in Empezados /\ u # t /\ hilo[u].pc \notin {"lee", "lista"}
      BY <1>1, <2>2 DEF Registrando, Empezados
    <3>2. dueno[hilo[u].s] = n
      BY <2>2, <3>1, DondeAtiende DEF AtiendeYama, AtiendeNodo
    <3>3. QED
      BY <1>3, <3>1, <3>2, UnoPorProceso
  <2>3. QED
    BY <2>1, <2>2 DEF Conectados, Registran
<1>14. Conectados' = Conectados
  BY <1>5 DEF Conectados
<1>15. EnLinea'
  <2>1. yama_online => socketYAMA # s /\ socketYAMA \in Sockets /\ dueno[socketYAMA] = Yama
                       /\ entra[socketYAMA] = <<>> /\ entra'[socketYAMA] = <<>>
    BY <1>1, <1>6 DEF EnLinea
  <2>2. CASE ~yama_online
    BY <1>5, <1>11, <2>2 DEF EnLinea, yama
  <2>3. CASE yama_online /\ (carrera \/ YamaSaluda)
    BY <1>5, <1>11, <2>1, <2>3 DEF EnLinea
  <2>4. CASE yama_online /\ ~carrera /\ ~YamaSaluda
    <3>1. SePuedeEnviar /\ ~YamaSeFue
      BY <2>1, <2>4 DEF SePuedeEnviar, YamaSeFue, Sockets
    <3>2. NuevoWorker(n)
      BY <1>5, <2>4, <3>1 DEF Enviar
    <3>3. PICK w, v : w = workers /\ v = Append(w, [nodo |-> n, indice |-> indiceWorker])
      OBVIOUS
    <3>4. /\ workers' = v /\ indiceWorker' = Len(w) + 1 /\ indiceWorker = Len(w)
          /\ \A i \in DOMAIN w : w[i].indice = i - 1
          /\ \A i, j \in DOMAIN w : w[i].nodo = w[j].nodo => i = j
          /\ NodosDe(w) = Conectados \cup Registran
      BY <2>4, <3>2, <3>3 DEF NuevoWorker, EnLinea
    <3>5. w \in Seq([nodo : Nodos, indice : Nat])
      BY <3>3 DEF IInv, TypeOK, TiposYama
    <3>6. PICK l \in Nat : l = Len(w)
      BY <3>5
    <3>7. /\ DOMAIN w = 1..l /\ DOMAIN v = 1..(l + 1) /\ Len(v) = l + 1
          /\ \A i \in 1..l : v[i] = w[i]
          /\ v[l + 1].nodo = n /\ v[l + 1].indice = l
      BY <3>3, <3>4, <3>5, <3>6
    <3>8. \A i \in DOMAIN w : w[i].nodo # n
      BY <1>13, <3>4 DEF NodosDe
    <3>9. /\ \A i \in DOMAIN v : v[i].indice = i - 1
          /\ \A i, j \in DOMAIN v : v[i].nodo = v[j].nodo => i = j
      <4>1. \A i \in 1..(l + 1) : i = l + 1 \/ i \in 1..l
        OBVIOUS
      <4>2. QED
        BY <3>4, <3>7, <3>8, <4>1
    <3>10. NodosDe(v) = NodosDe(w) \cup {n}
      <4>1. \A i \in 1..(l + 1) : i = l + 1 \/ i \in 1..l
        OBVIOUS
      <4>2. l + 1 \in 1..(l + 1) /\ 1..l \subseteq 1..(l + 1)
        OBVIOUS
      <4>3. QED
        BY <3>7, <4>1, <4>2 DEF NodosDe
    <3>11. NodosDe(workers)' = Conectados' \cup Registran'
      <4>1. NodosDe(workers)' = NodosDe(v)
        BY <3>4 DEF NodosDe
      <4>2. QED
        BY <1>12, <1>14, <3>4, <3>10, <4>1
    <3>12. /\ indiceWorker' = Len(workers') /\ \A i \in DOMAIN workers' : workers'[i].indice = i - 1
           /\ \A i, j \in DOMAIN workers' : workers'[i].nodo = workers'[j].nodo => i = j
      BY <3>4, <3>6, <3>7, <3>9
    <3>13. /\ proc[Yama] = socketYAMA /\ ~YamaSaluda'
           /\ UNCHANGED <<yama_online, socketYAMA, proc, dueno>>
      BY <1>5, <1>11, <2>4 DEF EnLinea
    <3>14. QED
      BY <2>1, <2>4, <3>11, <3>12, <3>13 DEF EnLinea
  <2>5. QED
    BY <2>2, <2>3, <2>4
<1>16. QED
  BY <1>10, <1>15

LEMMA GuardarAlDia ==
  ASSUME IInv, Atendidos, EnLinea, NEW t \in Empezados, GuardarNodosBin(t),
         Empezados' = Empezados
  PROVE  Atendidos' /\ EnLinea'
<1>1. /\ hilo[t].pc = "guarda" /\ Ir(t, "agrega") /\ t \in Hilos
      /\ UNCHANGED <<yama_online, socketYAMA, datanodes, proc, dueno, entra, workers,
                     indiceWorker, carrera>>
  BY DEF GuardarNodosBin, Paso, Empezados, marcas, conexiones, yama
<1>2. \A u \in Hilos : /\ hilo'[u].s = hilo[u].s /\ hilo'[u].nodo = hilo[u].nodo
                       /\ hilo'[u].pc = IF u = t THEN "agrega" ELSE hilo[u].pc
  BY <1>1, SoloPasa
<1>3. \A u \in Hilos \ {t} : hilo'[u] = hilo[u]
  BY <1>1 DEF Ir, IInv, TypeOK, TiposConexiones
<1>4. Atiende(t)'
  <2>1. Atiende(t) /\ dueno[hilo[t].s] # Yama
    BY <1>1, DondeAtiende DEF Atendidos, AtiendeYama
  <2>2. QED
    BY <1>1, <1>2, <2>1 DEF Atiende, AtiendeNodo, Registrando
<1>5. \A o \in Nodos : ~Registrado(t, o)
  BY <1>1 DEF Registrado, Registrando
<1>6. Atendidos'
  <2>1. hilo'[t].s = hilo[t].s /\ \A o \in Nodos : Registrado(t, o) => Registrado(t, o)'
    BY <1>1, <1>2, <1>5
  <2>2. QED
    BY <1>1, <1>3, <1>4, <2>1, AtendidosIgualLista
<1>7. (YamaSaluda' <=> YamaSaluda) /\ Registran' = Registran /\ Conectados' = Conectados
  <2>1. \A u \in Hilos : /\ hilo'[u].pc = "lista" <=> hilo[u].pc = "lista"
                         /\ Registrando(u)' <=> Registrando(u)
                         /\ hilo'[u].nodo = hilo[u].nodo
    BY <1>1, <1>2 DEF Registrando
  <2>2. QED
    BY <1>1, <2>1 DEF YamaSaluda, Registran, Conectados
<1>8. EnLinea'
  <2>1. yama_online => entra'[socketYAMA] = <<>>
    BY <1>1 DEF EnLinea
  <2>2. QED
    BY <1>1, <1>7, <2>1, EnLineaIgual
<1>9. QED
  BY <1>6, <1>8

LEMMA AgregarAlDia ==
  ASSUME IInv, Atendidos, EnLinea, NEW t \in Empezados, AgregarDatanode(t),
         Empezados' = Empezados
  PROVE  Atendidos' /\ EnLinea'
<1>0. PICK s, n : s = hilo[t].s /\ n = hilo[t].nodo
  OBVIOUS
<1>1. /\ hilo[t].pc = "agrega" /\ t \in Hilos /\ s \in Sockets /\ entra[s] = <<>>
      /\ dueno[s] = n /\ n # Yama /\ proc[n] = s /\ n \in Procesos
  <2>1. hilo[t].pc = "agrega" /\ t \in Hilos
    BY DEF AgregarDatanode, Paso, Empezados
  <2>2. QED
    BY <1>0, <2>1, DondeAtiende DEF AtiendeYama, AtiendeNodo, Registrando
<1>2. /\ datanodes' = Append(datanodes, [nodo |-> n, socket |-> s])
      /\ hilo' = [hilo EXCEPT ![t].pc = "verifica", ![t].nodo = Nulo, ![t].foto = {}]
      /\ UNCHANGED <<yama_online, socketYAMA, proc, dueno, entra, workers, indiceWorker, carrera>>
  BY <1>0 DEF AgregarDatanode, ListAdd, marcas, conexiones, yama
<1>3. /\ \A u \in Hilos \ {t} : hilo'[u] = hilo[u]
      /\ hilo'[t].s = s /\ hilo'[t].pc = "verifica"
  BY <1>0, <1>1, <1>2 DEF IInv, TypeOK, TiposConexiones, Hilo
<1>4. Atiende(t)'
  BY <1>1, <1>2, <1>3 DEF Atiende, AtiendeNodo, Registrando
<1>5. /\ \A u \in Empezados' : Atiende(u)'
      /\ \A u, v \in Empezados' : hilo'[u].s = hilo'[v].s => u = v
      /\ \A u \in Empezados \ {t} : \A o : Registrado(u, o) => Registrado(u, o)'
  BY <1>0, <1>2, <1>3, <1>4, AtendidosSiguen
<1>6. PICK d, e : d = datanodes /\ e = datanodes'
  OBVIOUS
<1>7. d \in Seq([nodo : Nodos, socket : Sockets])
  BY <1>6 DEF IInv, TypeOK, TiposNodos
<1>8. PICK l \in Nat : l = Len(d)
  BY <1>7
<1>9. /\ DOMAIN d = 1..l /\ DOMAIN e = 1..(l + 1)
      /\ \A i \in 1..l : e[i] = d[i]
      /\ e[l + 1].nodo = n
  BY <1>2, <1>6, <1>7, <1>8
<1>10. \A i \in 1..(l + 1) : i = l + 1 \/ i \in 1..l
  OBVIOUS
<1>11. ASSUME NEW i \in 1..l PROVE e[i].nodo # n /\ \E u \in Hilos : Registrado(u, e[i].nodo)'
  <2>1. PICK u \in Hilos : Registrado(u, d[i].nodo)
    BY <1>6, <1>9 DEF Atendidos
  <2>2. u \in Empezados /\ dueno[hilo[u].s] = d[i].nodo /\ u # t
    BY <1>1, <2>1 DEF Registrado, Registrando
  <2>3. d[i].nodo # n
    BY <1>0, <1>1, <2>2, UnoPorProceso
  <2>4. Registrado(u, d[i].nodo)'
    BY <1>5, <2>1, <2>2
  <2>5. e[i].nodo = d[i].nodo
    BY <1>9
  <2>6. QED
    BY <2>3, <2>4, <2>5
<1>12. Registrado(t, n)'
  BY <1>1, <1>2, <1>3 DEF Registrado, Registrando, Empezados
<1>13. \A i \in 1..(l + 1) : \E u \in Hilos : Registrado(u, e[i].nodo)'
  BY <1>1, <1>9, <1>10, <1>11, <1>12
<1>14. \A i, j \in 1..(l + 1) : e[i].nodo = e[j].nodo => i = j
  <2>1. \A i, j \in 1..l : d[i].nodo = d[j].nodo => i = j
    BY <1>6, <1>9 DEF Atendidos
  <2>2. QED
    BY <1>9, <1>10, <1>11, <2>1
<1>15. Atendidos'
  <2>1. \A i \in DOMAIN datanodes' : \E u \in Hilos : Registrado(u, datanodes[i].nodo)'
    <3>1. datanodes' = e
      BY <1>6
    <3>2. QED
      BY <1>9, <1>13, <3>1 DEF Registrado
  <2>2. \A i, j \in DOMAIN datanodes' : datanodes'[i].nodo = datanodes'[j].nodo => i = j
    BY <1>6, <1>9, <1>14
  <2>3. QED
    BY <1>5, <2>1, <2>2 DEF Atendidos
<1>16. \A u \in Hilos : hilo'[u].pc = "lista" <=> hilo[u].pc = "lista"
  BY <1>1, <1>3
<1>17. YamaSaluda' <=> YamaSaluda
  BY <1>16 DEF YamaSaluda
<1>18. Registran = Registran' \cup {n}
  <2>1. \A u \in Hilos \ {t} : /\ Registrando(u)' <=> Registrando(u)
                               /\ hilo'[u].nodo = hilo[u].nodo
    BY <1>3 DEF Registrando
  <2>2. ~Registrando(t)' /\ Registrando(t) /\ hilo[t].nodo = n
    BY <1>0, <1>1, <1>3 DEF Registrando
  <2>3. QED
    BY <1>1, <2>1, <2>2 DEF Registran
<1>19. Conectados' = Conectados \cup {n}
  <2>1. Conectados = {d[i].nodo : i \in 1..l} /\ Conectados' = {e[i].nodo : i \in 1..(l + 1)}
    BY <1>6, <1>9 DEF Conectados
  <2>2. l + 1 \in 1..(l + 1) /\ 1..l \subseteq 1..(l + 1)
    OBVIOUS
  <2>3. QED
    BY <1>9, <1>10, <2>1, <2>2
<1>20. EnLinea'
  <2>1. Registran # {} /\ Conectados' \cup Registran' = Conectados \cup Registran
    BY <1>18, <1>19
  <2>2. NodosDe(workers)' = NodosDe(workers)
    BY <1>2 DEF NodosDe
  <2>3. QED
    BY <1>2, <1>17, <2>1, <2>2 DEF EnLinea
<1>21. QED
  BY <1>15, <1>20

LEMMA VerificarAlDia ==
  ASSUME IInv, Atendidos, EnLinea, NEW t \in Empezados,
         Verificar(t) \/ VerificarBasura(t), ~Morir, Empezados' = Empezados
  PROVE  Atendidos' /\ EnLinea'
<1>1. /\ hilo[t].pc = "verifica" /\ Ir(t, "lee") /\ t \in Hilos
      /\ UNCHANGED <<yama_online, socketYAMA, datanodes, proc, dueno, entra, workers,
                     indiceWorker, carrera>>
  BY DEF Verificar, VerificarBasura, Paso, Empezados, marcas, nodos, conexiones, yama, historia
<1>2. \A u \in Hilos : /\ hilo'[u].s = hilo[u].s /\ hilo'[u].nodo = hilo[u].nodo
                       /\ hilo'[u].pc = IF u = t THEN "lee" ELSE hilo[u].pc
  BY <1>1, SoloPasa
<1>3. \A u \in Hilos \ {t} : hilo'[u] = hilo[u]
  BY <1>1 DEF Ir, IInv, TypeOK, TiposConexiones
<1>4. Atiende(t)'
  <2>1. Atiende(t) /\ dueno[hilo[t].s] # Yama /\ entra[hilo[t].s] = <<>>
    BY <1>1, DondeAtiende DEF Atendidos, AtiendeYama
  <2>2. QED
    BY <1>1, <1>2, <2>1 DEF Atiende, AtiendeNodo, Registrando
<1>5. \A o \in Nodos : Registrado(t, o) => Registrado(t, o)'
  BY <1>1, <1>2 DEF Registrado, Registrando
<1>6. Atendidos'
  <2>1. hilo'[t].s = hilo[t].s
    BY <1>1, <1>2
  <2>2. QED
    BY <1>1, <1>3, <1>4, <1>5, <2>1, AtendidosIgualLista
<1>7. (YamaSaluda' <=> YamaSaluda) /\ Registran' = Registran /\ Conectados' = Conectados
  <2>1. \A u \in Hilos : /\ hilo'[u].pc = "lista" <=> hilo[u].pc = "lista"
                         /\ Registrando(u)' <=> Registrando(u)
                         /\ hilo'[u].nodo = hilo[u].nodo
    BY <1>1, <1>2 DEF Registrando
  <2>2. QED
    BY <1>1, <2>1 DEF YamaSaluda, Registran, Conectados
<1>8. EnLinea'
  <2>1. yama_online => entra'[socketYAMA] = <<>>
    BY <1>1 DEF EnLinea
  <2>2. QED
    BY <1>1, <1>7, <2>1, EnLineaIgual
<1>9. QED
  BY <1>6, <1>8

(* While nobody left no thread finds its connection closed, nor is at any of *)
(* the steps that follow.                                                    *)
LEMMA NadieCierra ==
  ASSUME IInv, Atendidos, NEW t \in Empezados, Corren' = Corren,
         FinDeConexion(t) \/ Cerrar(t) \/ Sacar(t) \/ Eliminar(t)
  PROVE  FALSE
<1>1. hilo[t].pc = "lee" /\ FinDeConexion(t)
  BY DondeAtiende DEF FinDeConexion, Cerrar, Sacar, Eliminar, Paso
<1>2. Cortar(hilo[t].s)
  BY <1>1 DEF FinDeConexion
<1>3. QED
  BY <1>2, NadieCorta

LEMMA QuietaAlDia ==
  ASSUME IInv, Avisada,
         UNCHANGED <<fs, hilo, proc, dueno, entra, datanodes, yama_online, socketYAMA, workers,
                     indiceWorker, carrera>>
  PROVE  Avisada'
<1>1. Empezados' = Empezados /\ Corren' = Corren /\ (Cierre' <=> Cierre)
  BY DEF Empezados, Corren, Cierre
<1>2. Aceptados'
  BY <1>1 DEF Avisada, Aceptados
<1>3. Atendidos => Atendidos'
  <2>1. \A t \in Hilos : Atiende(t) => Atiende(t)'
    BY DEF Atiende, AtiendeYama, AtiendeNodo, Registrando
  <2>2. Empezados \subseteq Hilos
    BY DEF Empezados
  <2>3. \A t \in Hilos : \A i \in DOMAIN datanodes :
          Registrado(t, datanodes[i].nodo) => Registrado(t, datanodes[i].nodo)'
    BY <1>1 DEF Registrado, Registrando
  <2>4. QED
    BY <1>1, <2>1, <2>2, <2>3 DEF Atendidos
<1>4. EnLinea => EnLinea'
  <2>1. (YamaSaluda' <=> YamaSaluda) /\ Registran' = Registran /\ Conectados' = Conectados
    BY DEF YamaSaluda, Registran, Registrando, Conectados
  <2>2. EnLinea /\ yama_online => entra'[socketYAMA] = <<>>
    BY DEF EnLinea
  <2>3. QED
    BY <2>1, <2>2, EnLineaIgual
<1>5. QED
  BY <1>1, <1>2, <1>3, <1>4 DEF Avisada

LEMMA HiloAlDia ==
  ASSUME IInv, Avisada, NEW t \in Hilos, PasoHilo(t)
  PROVE  Avisada'
<1>1. CASE Morir
  BY <1>1, MorirAlDia
<1>2. CASE ~Morir
  <2>1. fs = "vivo" /\ fs' = "vivo" /\ Empezados' = Empezados /\ Corren' \subseteq Corren
    BY <1>2, PasoAjeno
  <2>2. Aceptados' /\ (~Cierre' => ~Cierre /\ Corren' = Corren)
    BY <2>1, NadieSeVa DEF Avisada
  <2>3. ASSUME ~Cierre' PROVE Atendidos' /\ EnLinea'
    <3>1. Atendidos /\ EnLinea /\ Corren' = Corren
      BY <2>1, <2>2, <2>3 DEF Avisada
    <3>2. t \in Empezados
      BY DEF PasoHilo, HandshakeNodo, Comparar, HandshakeYama, EnviarLista, Identificacion,
             GuardarNodosBin, AgregarDatanode, Verificar, VerificarBasura, FinDeConexion,
             Cerrar, Sacar, Eliminar, Leer, Paso, Empezados
    <3>3. ~(FinDeConexion(t) \/ Cerrar(t) \/ Sacar(t) \/ Eliminar(t))
      BY <3>1, <3>2, NadieCierra
    <3>4. \/ HandshakeNodo(t) \/ Comparar(t) \/ HandshakeYama(t) \/ EnviarLista(t)
          \/ Identificacion(t)
          \/ GuardarNodosBin(t) \/ AgregarDatanode(t) \/ Verificar(t) \/ VerificarBasura(t)
      BY <3>3 DEF PasoHilo
    <3>5. QED
      BY <1>2, <2>1, <3>1, <3>2, <3>4, HandshakeAlDia, CompararAlDia, HandshakeYamaAlDia, EnviarListaAlDia,
         IdentificacionAlDia, GuardarAlDia, AgregarAlDia, VerificarAlDia
  <2>4. QED
    BY <2>1, <2>2, <2>3 DEF Avisada
<1>3. QED
  BY <1>1, <1>2

LEMMA FormatearAlDia ==
  ASSUME IInv, Avisada, PasoConsola
  PROVE  Avisada'
<1>1. CASE Morir
  BY <1>1, MorirAlDia
<1>2. CASE ~Morir
  <2>1. UNCHANGED <<fs, hilo, proc, dueno, entra, datanodes, yama_online, socketYAMA, workers,
                    indiceWorker, carrera>>
    <3>1. CASE Formatear \/ FormatearCarga
      BY <1>2, <3>1 DEF Formatear, FormatearCarga, marcas, nodos, conexiones, yama, historia
    <3>2. CASE FormatearGuarda
      BY <3>2 DEF FormatearGuarda, marcas, conexiones, yama
    <3>3. CASE FormatearTermina
      BY <3>3 DEF FormatearTermina, nodos, conexiones, yama, historia
    <3>4. QED
      BY <3>1, <3>2, <3>3 DEF PasoConsola
  <2>2. QED
    BY <2>1, QuietaAlDia
<1>3. QED
  BY <1>1, <1>2

LEMMA InicioAlDia == Init => Avisada
<1> SUFFICES ASSUME Init PROVE Avisada
  OBVIOUS
<1>1. Empezados = {} /\ Corren = {}
  BY DEF Init, Libre, Empezados, Corren
<1>2. Aceptados
  BY <1>1, Cuentas DEF Aceptados
<1>3. datanodes = <<>> /\ workers = <<>> /\ indiceWorker = 0 /\ ~yama_online /\ fs = "vivo"
  BY DEF Init
<1>4. Atendidos
  BY <1>1, <1>3 DEF Atendidos
<1>5. ~YamaSaluda
  BY DEF Init, Libre, YamaSaluda
<1>6. EnLinea
  BY <1>3, <1>5 DEF EnLinea
<1>7. QED
  BY <1>2, <1>3, <1>4, <1>6 DEF Avisada

(* No step breaks it. *)
LEMMA InductivoAlDia == IInv /\ Avisada /\ [Next]_vars => Avisada'
<1> SUFFICES ASSUME IInv, Avisada, [Next]_vars PROVE Avisada'
  OBVIOUS
<1>1. CASE UNCHANGED vars
  BY <1>1, QuietaAlDia DEF vars, marcas, nodos, conexiones, yama, historia
<1>2. QED
  BY <1>1, HiloAlDia, ConectarAlDia, TerminarAlDia, FormatearAlDia DEF Next

(* As long as no connection was closed and no datanode was registering while *)
(* YAMA shook hands, listaWorkers has every registered node, once, at the    *)
(* position its indice says, for any number of datanodes and in whatever     *)
(* order they and YAMA came.                                                 *)
THEOREM SiempreAlDia == Spec => []YamaAlDia
<1>1. IInv /\ Avisada => YamaAlDia
  <2> SUFFICES ASSUME IInv, Avisada, ~Cierre, ~carrera, yama_online, ~YamaSaluda
               PROVE  /\ \A i \in DOMAIN workers : workers[i].indice = i - 1
                      /\ \A i, j \in DOMAIN workers : workers[i].nodo = workers[j].nodo => i = j
                      /\ Conectados \subseteq {workers[i].nodo : i \in DOMAIN workers}
    BY DEF YamaAlDia
  <2>1. CASE fs = "vivo"
    BY <2>1 DEF Avisada, EnLinea, NodosDe
  <2>2. CASE fs = "muerto"
    BY <2>2 DEF Avisada, Conectados
  <2>3. QED
    BY <2>1, <2>2 DEF IInv, TypeOK, TiposMarcas
<1>2. Spec => [](IInv /\ Avisada)
  BY Siempre, InicioAlDia, InductivoAlDia, PTL DEF Spec
<1>3. QED
  BY <1>1, <1>2, PTL
=============================================================================
