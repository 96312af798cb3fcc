----------------------------- MODULE Yama_proof -----------------------------
(***************************************************************************)
(* The jobs of Yama, for any number of masters, nodes and blocks and any   *)
(* failures: the types; nothing that ended well is touched again; every    *)
(* end of a transformation and of a global reduction finds its record.     *)
(* With one master: local reductions come after their transformations,     *)
(* tasks are counted once, and the table does what Trabajo promises.       *)
(***************************************************************************)
EXTENDS Yama, FiniteSetTheorems, WellFoundedInduction, TLAPS

-----------------------------------------------------------------------------
(* The first position found is one of them. *)
LEMMA Primero ==
  ASSUME NEW S \in SUBSET Nat, S # {}
  PROVE  Primera(S) \in S /\ \A y \in S : Primera(S) <= y
<1> DEFINE Bajo(x) == {y \in S : y < x}
           F == {Bajo(x) : x \in S}
<1>1. F \subseteq FiniteSubsetsOf(Nat) /\ F # {}
  <2>1. ASSUME NEW x \in S PROVE IsFiniteSet(Bajo(x))
    <3>1. x \in Int /\ 0 \in Int /\ \A y \in S : y < x => y \in 0..x
      OBVIOUS
    <3>2. IsFiniteSet(0..x)
      BY <3>1, FS_Interval
    <3>3. Bajo(x) \in SUBSET (0..x)
      BY <3>1
    <3>4. QED
      BY <3>2, <3>3, FS_Subset
  <2>2. QED
    BY <2>1 DEF FiniteSubsetsOf
<1>2. PICK T \in F : \A U \in F : ~(<<U, T>> \in StrictSubsetOrdering(Nat))
  BY <1>1, FS_StrictSubsetOrderingWellFounded, WFMin
<1>3. PICK x \in S : T = Bajo(x)
  BY <1>2
<1>4. \A y \in S : x <= y
  <2> SUFFICES ASSUME NEW y \in S, y < x PROVE FALSE
    OBVIOUS
  <2>1. \A z \in S : z < y => z < x
    OBVIOUS
  <2>2. y \in Bajo(x) /\ y \notin Bajo(y)
    OBVIOUS
  <2>3. <<Bajo(y), Bajo(x)>> \in StrictSubsetOrdering(Nat)
    BY <2>1, <2>2 DEF StrictSubsetOrdering
  <2>4. QED
    BY <1>2, <1>3, <2>3
<1>5. QED
  BY <1>4 DEF Primera

(* The first of a list, and the rest of it. *)
LEMMA ColaDe ==
  ASSUME NEW S, NEW q \in Seq(S), q # <<>>
  PROVE  Head(q) \in S /\ Tail(q) \in Seq(S) /\ Head(q) = q[1] /\ 1 \in DOMAIN q
  OBVIOUS

(* A list with one more element. *)
LEMMA Agregada ==
  ASSUME NEW S, NEW q \in Seq(S), NEW x \in S
  PROVE  /\ Append(q, x) \in Seq(S) /\ Len(Append(q, x)) = Len(q) + 1
         /\ Append(q, x)[Len(q) + 1] = x /\ DOMAIN Append(q, x) = 1..(Len(q) + 1)
         /\ \A i \in DOMAIN q : Append(q, x)[i] = q[i]
  OBVIOUS

(* Two lists. *)
LEMMA Concatenadas ==
  ASSUME NEW S, NEW p \in Seq(S), NEW q \in Seq(S)
  PROVE  /\ p \o q \in Seq(S) /\ Len(p \o q) = Len(p) + Len(q)
         /\ \A i \in DOMAIN p : i \in DOMAIN (p \o q) /\ (p \o q)[i] = p[i]
         /\ \A i \in DOMAIN q : Len(p) + i \in DOMAIN (p \o q) /\ (p \o q)[Len(p) + i] = q[i]
  OBVIOUS

-----------------------------------------------------------------------------
(* The types, piece by piece: what YAMA reads, sends and records. *)
LEMMA Recibida ==
  ASSUME TypeOK, NEW m \in Masters, NEW tipo, Recibe(m, tipo)
  PROVE  /\ aYama' \in [Masters -> Seq(Aviso)]
         /\ Head(aYama[m]) \in Aviso /\ Head(aYama[m]).tipo = tipo
<1>1. aYama \in [Masters -> Seq(Aviso)] /\ aYama[m] # <<>>
      /\ aYama' = [aYama EXCEPT ![m] = Tail(@)] /\ Head(aYama[m]).tipo = tipo
  BY DEF TypeOK, Recibe
<1>2. Head(aYama[m]) \in Aviso /\ Tail(aYama[m]) \in Seq(Aviso)
  BY <1>1, ColaDe
<1>3. QED
  BY <1>1, <1>2

LEMMA FinRecibido ==
  ASSUME TypeOK, NEW m \in Masters, NEW etapa, RecibeFin(m, etapa)
  PROVE  /\ aYama' \in [Masters -> Seq(Aviso)]
         /\ Head(aYama[m]).tipo = "FIN"
         /\ Head(aYama[m]).tarea \in Tarea /\ Head(aYama[m]).exito \in BOOLEAN
         /\ Head(aYama[m]).tarea.etapa = etapa
         /\ Head(aYama[m]).tarea.nodo \in Nodos /\ Head(aYama[m]).tarea.job \in Jobs
         /\ etapa = "T" => Head(aYama[m]).tarea.bloque \in Bloques
<1>1. PICK a : a = Head(aYama[m])
  OBVIOUS
<1>2. aYama' \in [Masters -> Seq(Aviso)] /\ a \in Aviso /\ a.tipo = "FIN"
      /\ a.tarea.etapa = etapa
  BY <1>1, Recibida DEF RecibeFin
<1>3. a.tarea \in Tarea /\ a.exito \in BOOLEAN
  BY <1>2 DEF Aviso
<1>4. a.tarea.nodo \in Nodos /\ a.tarea.job \in Jobs
      /\ (etapa = "T" => a.tarea.bloque \in Bloques)
  BY <1>2, <1>3 DEF Tarea, TareaT
<1>5. QED
  BY <1>1, <1>2, <1>3, <1>4

LEMMA Enviado ==
  ASSUME TypeOK, NEW m \in Masters, NEW msg \in Solicitud, Enviar(m, msg)
  PROVE  bandeja' \in [Masters -> Seq(Solicitud)] /\ yama' \in {"vivo", "muerto"}
<1>1. bandeja \in [Masters -> Seq(Solicitud)]
  BY DEF TypeOK
<1>2. Append(bandeja[m], msg) \in Seq(Solicitud)
  BY <1>1, Agregada
<1>3. QED
  BY <1>1, <1>2 DEF Enviar

LEMMA Marcado ==
  ASSUME TypeOK, NEW k \in DOMAIN tabla, NEW e \in {"ENPROCESO", "ERROR", "FINALIZADOOK"}
  PROVE  /\ Marcada(k, e) \in Seq(Registro) /\ DOMAIN Marcada(k, e) = DOMAIN tabla
         /\ Len(Marcada(k, e)) = Len(tabla)
         /\ Marcada(k, e)[k] = [tabla[k] EXCEPT !.estado = e]
         /\ \A j \in DOMAIN tabla \ {k} : Marcada(k, e)[j] = tabla[j]
<1>1. tabla \in Seq(Registro) /\ tabla[k] \in Registro
  BY DEF TypeOK
<1>2. PICK x : x = [tabla[k] EXCEPT !.estado = e]
  OBVIOUS
<1>3. x \in Registro
  BY <1>1, <1>2 DEF Registro
<1>4. Marcada(k, e) = [tabla EXCEPT ![k] = x]
  BY <1>1, <1>2 DEF Marcada
<1>5. QED
  BY <1>1, <1>2, <1>3, <1>4

(* A new record. *)
LEMMA Registrado ==
  ASSUME NEW t \in Seq(Registro), NEW m \in Masters, NEW job \in Jobs,
         NEW etapa \in {"T", "RL", "RG", "AF"}, NEW nodo \in Nodos \cup {Ninguno},
         Registrar(t, m, job, etapa, nodo)
  PROVE  /\ tabla' \in Seq(Registro)
         /\ \E x \in Registro : /\ tabla' = Append(t, x)
                                /\ x.etapa = etapa /\ x.otra = Ninguno
                                /\ x.estado = "ENPROCESO" /\ x.job = job
                                /\ x.nodo = nodo
<1>1. PICK b \in Basuras :
        tabla' = Append(t, [master |-> m, job |-> job, etapa |-> etapa, nodo |-> nodo,
                            otra |-> Ninguno, bloque |-> b, estado |-> "ENPROCESO"])
  BY DEF Registrar
<1>2. PICK x : x = [master |-> m, job |-> job, etapa |-> etapa, nodo |-> nodo,
                    otra |-> Ninguno, bloque |-> b, estado |-> "ENPROCESO"]
  OBVIOUS
<1>3. x \in Registro
  BY <1>2, Parametros DEF Registro
<1>4. tabla' = Append(t, x)
  BY <1>1, <1>2
<1>5. /\ x.etapa = etapa /\ x.otra = Ninguno /\ x.estado = "ENPROCESO" /\ x.job = job
      /\ x.nodo = nodo
  BY <1>2
<1>6. QED
  BY <1>3, <1>4, <1>5, Agregada

(* The records a search finds: positions of the table. *)
LEMMA Encontrada ==
  ASSUME TypeOK, NEW S \in SUBSET (DOMAIN tabla), S # {}
  PROVE  Primera(S) \in S /\ Primera(S) \in DOMAIN tabla /\ tabla[Primera(S)] \in Registro
<1>1. tabla \in Seq(Registro)
  BY DEF TypeOK
<1>2. S \in SUBSET Nat
  BY <1>1
<1>3. QED
  BY <1>1, <1>2, Primero

-----------------------------------------------------------------------------
(* TypeOK, action by action. *)
LEMMA TiposConexion ==
  ASSUME TypeOK, NEW m \in Masters,
         Conectar(m) \/ Handshake(m) \/ SolicitudTransformacion(m) \/ CerrarRota(m)
  PROVE  TypeOK'
<1>1. CASE Conectar(m)
  <2>1. <<[tipo |-> "HANDSHAKE"], [tipo |-> "SOLICITUDT"]>> \in Seq(Aviso)
    BY DEF Aviso
  <2>2. QED
    BY <1>1, <2>1 DEF Conectar, TypeOK, datosYama, colaFS
<1>2. CASE Handshake(m)
  <2>1. aYama' \in [Masters -> Seq(Aviso)]
    BY <1>2, Recibida DEF Handshake
  <2>2. QED
    BY <1>2, <2>1 DEF Handshake, SinEnviar, TypeOK, datosYama, procesos
<1>3. CASE SolicitudTransformacion(m)
  <2>1. aYama' \in [Masters -> Seq(Aviso)]
    BY <1>3, Recibida DEF SolicitudTransformacion
  <2>2. pedidos' \in Seq(Masters)
    BY <1>3 DEF SolicitudTransformacion, TypeOK
  <2>3. QED
    BY <1>3, <2>1, <2>2 DEF SolicitudTransformacion, SinEnviar, TypeOK, datosYama, procesos
<1>4. CASE CerrarRota(m)
  BY <1>4 DEF CerrarRota, TypeOK, datosYama, colaFS, procesos
<1>5. QED
  BY <1>1, <1>2, <1>3, <1>4

(* What a handler of the end of a task leaves alone. *)
LEMMA Ajeno ==
  ASSUME TypeOK, NEW m \in Masters, NEW etapa, RecibeFin(m, etapa)
  PROVE  /\ contJobs' = contJobs /\ listaMasters' = listaMasters /\ pedidos' = pedidos
         /\ master' = master /\ hilos' = hilos /\ enAF' = enAF /\ fallos' = fallos
BY DEF RecibeFin, colaFS, procesos

LEMMA TiposFin ==
  ASSUME TypeOK, NEW m \in Masters, NEW etapa, RecibeFin(m, etapa),
         tabla' \in Seq(Registro), carga' \in [Nodos -> Nat], tareas' \in [Nodos -> Nat],
         bandeja' \in [Masters -> Seq(Solicitud)], yama' \in {"vivo", "muerto"},
         conexion' \in [Masters -> {"no", "abierta", "rota", "cerrada"}]
  PROVE  TypeOK'
<1>1. aYama' \in [Masters -> Seq(Aviso)]
  BY FinRecibido
<1>2. QED
  BY <1>1, Ajeno DEF TypeOK

LEMMA Muerte ==
  ASSUME TypeOK, Morir
  PROVE  /\ tabla' \in Seq(Registro) /\ carga' \in [Nodos -> Nat] /\ tareas' \in [Nodos -> Nat]
         /\ bandeja' \in [Masters -> Seq(Solicitud)] /\ yama' \in {"vivo", "muerto"}
         /\ tabla' = tabla /\ bandeja' = bandeja /\ tareas' = tareas
BY DEF Morir, TypeOK, datosYama

LEMMA Callado ==
  ASSUME TypeOK, SinEnviar
  PROVE  /\ bandeja' \in [Masters -> Seq(Solicitud)] /\ yama' \in {"vivo", "muerto"}
         /\ bandeja' = bandeja
BY DEF SinEnviar, TypeOK

LEMMA TiposFinTransformacionOk ==
  ASSUME TypeOK, NEW m \in Masters, FinTransformacionOk(m) PROVE TypeOK'
<1> DEFINE t == Head(aYama[m]).tarea
           S == EnProceso(t.bloque, t.job)
           k == Primera(S)
           hecha == Marcada(k, "FINALIZADOOK")
<1>1. RecibeFin(m, "T") /\ conexion' \in [Masters -> {"no", "abierta", "rota", "cerrada"}]
  BY DEF FinTransformacionOk, TypeOK
<1>2. CASE Morir
  BY <1>1, <1>2, Muerte, TiposFin
<1>3. CASE ~Morir
  <2>1. /\ S # {} /\ tabla[k].nodo # Ninguno
        /\ tareas' = [tareas EXCEPT ![tabla[k].nodo] = @ + 1]
        /\ \/ RealizarRL(hecha, m, tabla[k], DelNodo(t.nodo, t.job))
           \/ tabla' = hecha /\ SinEnviar
        /\ carga' = carga
    BY <1>3 DEF FinTransformacionOk
  <2>2. k \in DOMAIN tabla /\ tabla[k] \in Registro
    BY <2>1, Encontrada DEF EnProceso
  <2>3. /\ hecha \in Seq(Registro) /\ tabla[k].master \in Masters /\ tabla[k].job \in Jobs
        /\ tabla[k].nodo \in Nodos
    BY <2>1, <2>2, Marcado DEF Registro
  <2>4. carga' \in [Nodos -> Nat] /\ tareas' \in [Nodos -> Nat]
    <3>1. PICK n \in Nodos : tareas' = [tareas EXCEPT ![n] = @ + 1]
      BY <2>1, <2>3
    <3>2. tareas \in [Nodos -> Nat] /\ carga \in [Nodos -> Nat]
      BY DEF TypeOK
    <3>3. tareas' \in [Nodos -> Nat]
      BY <3>1, <3>2
    <3>4. QED
      BY <2>1, <3>2, <3>3
  <2>5. CASE tabla' = hecha /\ SinEnviar
    BY <1>1, <2>3, <2>4, <2>5, Callado, TiposFin
  <2>6. CASE RealizarRL(hecha, m, tabla[k], DelNodo(t.nodo, t.job))
    <3>1. PICK msg \in Solicitud : Enviar(m, msg)
      <4>1. PICK j : /\ Enviar(m, [tipo |-> "RL", nodo |-> tabla[k].nodo, job |-> j])
                     /\ j = SinJob \/ j = tabla[k].job
        BY <2>6 DEF RealizarRL
      <4>2. j \in Jobs
        BY <2>3, <4>1 DEF Jobs, SinJob
      <4>3. QED
        BY <2>3, <4>1, <4>2 DEF Solicitud
    <3>2. bandeja' \in [Masters -> Seq(Solicitud)] /\ yama' \in {"vivo", "muerto"}
      BY <3>1, Enviado
    <3>3. Registrar(hecha, tabla[k].master, tabla[k].job, "RL", tabla[k].nodo)
      BY <2>6 DEF RealizarRL
    <3> HIDE DEF hecha
    <3>4. tabla' \in Seq(Registro)
      BY <2>3, <3>3, Registrado
    <3>5. QED
      BY <1>1, <2>4, <3>2, <3>4, TiposFin
  <2>7. QED
    BY <2>1, <2>5, <2>6
<1>4. QED
  BY <1>2, <1>3

LEMMA TiposFinTransformacionMal ==
  ASSUME TypeOK, NEW m \in Masters, FinTransformacionMal(m) PROVE TypeOK'
<1> DEFINE t == Head(aYama[m]).tarea
           S == EnProceso(t.bloque, t.job)
           k == Primera(S)
           r == tabla[k]
<1>1. RecibeFin(m, "T") /\ conexion' \in [Masters -> {"no", "abierta", "rota", "cerrada"}]
  BY DEF FinTransformacionMal, TypeOK
<1>2. CASE Morir
  BY <1>1, <1>2, Muerte, TiposFin
<1>3. ASSUME S # {}, r.otra \in Registrados,
             \E nro \in NrosCopia :
               Enviar(m, [tipo |-> "REPLAN", nro |-> nro, bloque |-> r.bloque]),
             tabla' = [tabla EXCEPT ![k].etapa = "T", ![k].nodo = r.otra, ![k].otra = r.nodo],
             carga' = [carga EXCEPT ![r.otra] = @ + 1], UNCHANGED tareas
      PROVE  TypeOK'
  <2>1. k \in DOMAIN tabla /\ r \in Registro
    BY <1>3, Encontrada DEF EnProceso
  <2>2. r.bloque \in Bloques \cup {SinBloque} /\ r.otra \in Nodos
    BY <1>3, <2>1 DEF Registro, Registrados
  <2>3. \E msg \in Solicitud : Enviar(m, msg)
    BY <1>3, <2>2 DEF Solicitud
  <2>4. bandeja' \in [Masters -> Seq(Solicitud)] /\ yama' \in {"vivo", "muerto"}
    BY <2>3, Enviado
  <2>5. carga' \in [Nodos -> Nat] /\ tareas' \in [Nodos -> Nat]
    <3>1. PICK n \in Nodos : carga' = [carga EXCEPT ![n] = @ + 1]
      BY <1>3, <2>2
    <3>2. tareas \in [Nodos -> Nat] /\ carga \in [Nodos -> Nat]
      BY DEF TypeOK
    <3>3. carga' \in [Nodos -> Nat]
      BY <3>1, <3>2
    <3>4. QED
      BY <1>3, <3>2, <3>3
  <2>6. tabla' \in Seq(Registro)
    <3>1. PICK x : x = [r EXCEPT !.etapa = "T", !.nodo = r.otra, !.otra = r.nodo]
      OBVIOUS
    <3>2. x \in Registro
      BY <2>1, <3>1 DEF Registro
    <3>3. tabla \in Seq(Registro)
      BY DEF TypeOK
    <3>4. tabla' = [tabla EXCEPT ![k] = x]
      BY <1>3, <2>1, <3>1, <3>3
    <3>5. QED
      BY <2>1, <3>2, <3>3, <3>4
  <2>7. QED
    BY <1>1, <2>4, <2>5, <2>6, TiposFin
<1>4. ASSUME S # {}, tabla' = Marcada(k, "ERROR"), SinEnviar, UNCHANGED <<carga, tareas>>
      PROVE  TypeOK'
  <2>1. k \in DOMAIN tabla
    BY <1>4, Encontrada DEF EnProceso
  <2>2. tabla' \in Seq(Registro)
    BY <1>4, <2>1, Marcado
  <2>3. carga' \in [Nodos -> Nat] /\ tareas' \in [Nodos -> Nat]
    BY <1>4 DEF TypeOK
  <2>4. QED
    BY <1>1, <1>4, <2>2, <2>3, Callado, TiposFin
<1>5. QED
  BY <1>2, <1>3, <1>4 DEF FinTransformacionMal

(* Positions of a table are finitely many. *)
LEMMA Finitas ==
  ASSUME NEW t \in Seq(Registro), NEW S \in SUBSET (DOMAIN t)
  PROVE  IsFiniteSet(S) /\ Cardinality(S) \in Nat
<1>1. DOMAIN t = 1..Len(t) /\ Len(t) \in Int /\ 1 \in Int
  OBVIOUS
<1>2. IsFiniteSet(DOMAIN t)
  BY <1>1, FS_Interval
<1>3. QED
  BY <1>2, FS_Subset, FS_CardinalityType

LEMMA TiposFinReduccionLocalOk ==
  ASSUME TypeOK, NEW m \in Masters, FinReduccionLocalOk(m) PROVE TypeOK'
<1> DEFINE t == Head(aYama[m]).tarea
           S == RLDe(t.nodo, t.job)
           k == Primera(S)
           hecha == Marcada(k, "FINALIZADOOK")
           grupo == {j \in DOMAIN tabla : tabla[j].etapa = "RL" /\ tabla[j].job = t.job}
<1>1. RecibeFin(m, "RL") /\ conexion' \in [Masters -> {"no", "abierta", "rota", "cerrada"}]
  BY DEF FinReduccionLocalOk, TypeOK
<1>2. CASE Morir
  BY <1>1, <1>2, Muerte, TiposFin
<1>3. CASE ~Morir
  <2>1. /\ S # {}
        /\ tareas' = [tareas EXCEPT ![t.nodo] = @ + 1]
        /\ \/ RealizarRG(hecha, tabla[k], grupo)
           \/ tabla' = hecha /\ SinEnviar /\ UNCHANGED carga
    BY <1>3 DEF FinReduccionLocalOk
  <2>2. k \in DOMAIN tabla /\ tabla[k] \in Registro
    BY <2>1, Encontrada DEF RLDe
  <2>3. /\ hecha \in Seq(Registro) /\ DOMAIN hecha = DOMAIN tabla
        /\ tabla[k].master \in Masters /\ tabla[k].job \in Jobs
    BY <2>2, Marcado DEF Registro
  <2>4. carga \in [Nodos -> Nat] /\ tareas' \in [Nodos -> Nat]
    <3>1. PICK n \in Nodos : n = t.nodo
      BY <1>1, FinRecibido
    <3>2. tareas \in [Nodos -> Nat] /\ carga \in [Nodos -> Nat]
      BY DEF TypeOK
    <3>3. tareas' = [tareas EXCEPT ![n] = @ + 1]
      BY <2>1, <3>1
    <3>4. tareas' \in [Nodos -> Nat]
      BY <3>1, <3>2, <3>3
    <3>5. QED
      BY <3>2, <3>4
  <2>5. CASE tabla' = hecha /\ SinEnviar /\ UNCHANGED carga
    BY <1>1, <2>3, <2>4, <2>5, Callado, TiposFin
  <2>6. CASE RealizarRG(hecha, tabla[k], grupo)
    <3>1. PICK e \in Registrados :
            /\ carga' = [carga EXCEPT ![e] = @ + CargaDeRG(Cardinality(grupo))]
            /\ Enviar(tabla[k].master, [tipo |-> "RG", encargado |-> e, job |-> tabla[k].job,
                                        nodos |-> {hecha[j].nodo : j \in grupo}])
            /\ Registrar(hecha, tabla[k].master, tabla[k].job, "RG", Ninguno)
      BY <2>6 DEF RealizarRG
    <3>2. e \in Nodos
      BY <3>1 DEF Registrados
    <3>3. {hecha[j].nodo : j \in grupo} \subseteq Nodos \cup {Ninguno}
      <4> HIDE DEF hecha
      <4>1. \A j \in DOMAIN hecha : hecha[j] \in Registro
        BY <2>3
      <4>2. \A j \in DOMAIN hecha : hecha[j].nodo \in Nodos \cup {Ninguno}
        BY <4>1 DEF Registro
      <4>3. QED
        BY <2>3, <4>2
    <3>4. carga' \in [Nodos -> Nat]
      <4>1. Cardinality(grupo) \in Nat
        <5>1. grupo \in SUBSET (DOMAIN tabla) /\ tabla \in Seq(Registro)
          BY DEF TypeOK
        <5>2. QED
          BY <5>1, Finitas
      <4>2. \A c \in Nat : CargaDeRG(c) \in Nat
        BY DEF CargaDeRG
      <4>3. PICK c \in Nat : c = CargaDeRG(Cardinality(grupo))
        BY <4>1, <4>2
      <4>4. carga' = [carga EXCEPT ![e] = @ + c]
        BY <3>1, <4>3
      <4>5. QED
        BY <2>4, <3>2, <4>3, <4>4
    <3> HIDE DEF hecha, grupo
    <3>5. [tipo |-> "RG", encargado |-> e, job |-> tabla[k].job,
           nodos |-> {hecha[j].nodo : j \in grupo}] \in Solicitud
      BY <2>3, <3>2, <3>3 DEF Solicitud
    <3>6. bandeja' \in [Masters -> Seq(Solicitud)] /\ yama' \in {"vivo", "muerto"}
      BY <2>3, <3>1, <3>5, Enviado
    <3>7. tabla' \in Seq(Registro)
      BY <2>3, <3>1, Registrado
    <3>8. QED
      BY <1>1, <2>4, <3>4, <3>6, <3>7, TiposFin
  <2>7. QED
    BY <2>1, <2>5, <2>6
<1>4. QED
  BY <1>2, <1>3

(* A job that is aborted: the record is marked and the socket closed. *)
LEMMA TiposAbortar ==
  ASSUME TypeOK, NEW m \in Masters, FinReduccionLocalMal(m) \/ FinReduccionGlobalMal(m)
  PROVE  TypeOK'
<1>1. ASSUME NEW etapa, RecibeFin(m, etapa), Morir, UNCHANGED conexion PROVE TypeOK'
  <2>1. conexion' \in [Masters -> {"no", "abierta", "rota", "cerrada"}]
    BY <1>1 DEF TypeOK
  <2>2. QED
    BY <1>1, <2>1, Muerte, TiposFin
<1>2. ASSUME NEW etapa, RecibeFin(m, etapa), NEW S \in SUBSET (DOMAIN tabla), S # {},
             tabla' = Marcada(Primera(S), "ERROR"),
             conexion' = [conexion EXCEPT ![m] = "cerrada"],
             SinEnviar, UNCHANGED <<carga, tareas>>
      PROVE  TypeOK'
  <2>1. tabla' \in Seq(Registro)
    BY <1>2, Encontrada, Marcado
  <2>2. conexion' \in [Masters -> {"no", "abierta", "rota", "cerrada"}]
    BY <1>2 DEF TypeOK
  <2>3. carga' \in [Nodos -> Nat] /\ tareas' \in [Nodos -> Nat]
    BY <1>2 DEF TypeOK
  <2>4. QED
    BY <1>2, <2>1, <2>2, <2>3, Callado, TiposFin
<1>3. CASE FinReduccionLocalMal(m)
  <2> DEFINE S == RLDe(Head(aYama[m]).tarea.nodo, Head(aYama[m]).tarea.job)
  <2>1. S \in SUBSET (DOMAIN tabla)
    BY DEF RLDe
  <2>2. /\ RecibeFin(m, "RL")
        /\ \/ Morir /\ UNCHANGED conexion
           \/ /\ S # {} /\ tabla' = Marcada(Primera(S), "ERROR")
              /\ conexion' = [conexion EXCEPT ![m] = "cerrada"]
              /\ SinEnviar /\ UNCHANGED <<carga, tareas>>
    BY <1>3 DEF FinReduccionLocalMal
  <2> HIDE DEF S
  <2>3. QED
    BY <1>1, <1>2, <2>1, <2>2
<1>4. CASE FinReduccionGlobalMal(m)
  <2> DEFINE S == RGDe(Head(aYama[m]).tarea.job)
  <2>1. S \in SUBSET (DOMAIN tabla)
    BY DEF RGDe
  <2>2. /\ RecibeFin(m, "RG")
        /\ \/ Morir /\ UNCHANGED conexion
           \/ /\ S # {} /\ tabla' = Marcada(Primera(S), "ERROR")
              /\ conexion' = [conexion EXCEPT ![m] = "cerrada"]
              /\ SinEnviar /\ UNCHANGED <<carga, tareas>>
    BY <1>4 DEF FinReduccionGlobalMal
  <2> HIDE DEF S
  <2>3. QED
    BY <1>1, <1>2, <2>1, <2>2
<1>5. QED
  BY <1>3, <1>4

LEMMA TiposFinReduccionGlobalOk ==
  ASSUME TypeOK, NEW m \in Masters, FinReduccionGlobalOk(m) PROVE TypeOK'
<1> DEFINE t == Head(aYama[m]).tarea
           S == RGDe(t.job)
           k == Primera(S)
           hecha == Marcada(k, "FINALIZADOOK")
<1>1. RecibeFin(m, "RG") /\ conexion' \in [Masters -> {"no", "abierta", "rota", "cerrada"}]
  BY DEF FinReduccionGlobalOk, TypeOK
<1>2. CASE Morir
  BY <1>1, <1>2, Muerte, TiposFin
<1>3. CASE ~Morir
  <2>1. /\ S # {} /\ tareas' = [tareas EXCEPT ![t.nodo] = @ + 1] /\ UNCHANGED carga
        /\ Enviar(tabla[k].master, [tipo |-> "AF"])
        /\ Registrar(hecha, tabla[k].master, t.job, "AF", Ninguno)
    BY <1>3 DEF FinReduccionGlobalOk
  <2>2. k \in DOMAIN tabla /\ tabla[k] \in Registro
    BY <2>1, Encontrada DEF RGDe
  <2>3. hecha \in Seq(Registro) /\ tabla[k].master \in Masters
    BY <2>2, Marcado DEF Registro
  <2>4. t.nodo \in Nodos /\ t.job \in Jobs
    BY <1>1, FinRecibido
  <2>5. carga' \in [Nodos -> Nat] /\ tareas' \in [Nodos -> Nat]
    <3>1. PICK n \in Nodos : n = t.nodo
      BY <2>4
    <3>2. tareas \in [Nodos -> Nat] /\ carga \in [Nodos -> Nat]
      BY DEF TypeOK
    <3>3. tareas' = [tareas EXCEPT ![n] = @ + 1]
      BY <2>1, <3>1
    <3>4. tareas' \in [Nodos -> Nat]
      BY <3>1, <3>2, <3>3
    <3>5. QED
      BY <2>1, <3>2, <3>4
  <2>6. bandeja' \in [Masters -> Seq(Solicitud)] /\ yama' \in {"vivo", "muerto"}
    <3>1. [tipo |-> "AF"] \in Solicitud
      BY DEF Solicitud
    <3>2. QED
      BY <2>1, <2>3, <3>1, Enviado
  <2> HIDE DEF hecha
  <2>7. tabla' \in Seq(Registro)
    BY <2>1, <2>3, <2>4, Registrado
  <2>8. QED
    BY <1>1, <2>5, <2>6, <2>7, TiposFin
<1>4. QED
  BY <1>2, <1>3

(* Bloques and Tarea are finite. *)
LEMMA Plan ==
  ASSUME NEW S \in SUBSET Bloques PROVE IsFiniteSet(S) /\ Cardinality(S) \in Nat
<1>1. 0 \in Int /\ NBloques - 1 \in Int
  BY Parametros
<1>2. IsFiniteSet(Bloques)
  BY <1>1, FS_Interval DEF Bloques
<1>3. QED
  BY <1>2, FS_Subset, FS_CardinalityType

(* What planning a job leaves: a record of each block, and a message with a  *)
(* task of each block.                                                       *)
Nuevos(m, job, nodo, otra) ==
  [k \in 1..NBloques |->
     [master |-> m, job |-> job, etapa |-> "T", nodo |-> nodo[k - 1],
      otra |-> otra[k - 1], bloque |-> k - 1, estado |-> "ENPROCESO"]]
PedidoT(job, nodo) ==
  [tipo |-> "T",
   tareas |-> {[etapa |-> "T", nodo |-> nodo[b], job |-> job, bloque |-> b] : b \in Bloques}]

LEMMA SonNuevos ==
  ASSUME NEW m \in Masters, NEW job \in Jobs, NEW nodo \in [Bloques -> Nodos],
         NEW otra \in [Bloques -> Nodos]
  PROVE  /\ Nuevos(m, job, nodo, otra) \in Seq(Registro)
         /\ Len(Nuevos(m, job, nodo, otra)) = NBloques
         /\ PedidoT(job, nodo) \in Solicitud
<1>1. Nuevos(m, job, nodo, otra) \in Seq(Registro)
      /\ Len(Nuevos(m, job, nodo, otra)) = NBloques
  <2>1. ASSUME NEW k \in 1..NBloques
        PROVE  [master |-> m, job |-> job, etapa |-> "T", nodo |-> nodo[k - 1],
                otra |-> otra[k - 1], bloque |-> k - 1, estado |-> "ENPROCESO"] \in Registro
    <3>1. k - 1 \in Bloques
      BY Parametros DEF Bloques
    <3>2. nodo[k - 1] \in Nodos /\ otra[k - 1] \in Nodos
      BY <3>1
    <3>3. QED
      BY <3>1, <3>2 DEF Registro
  <2>2. PICK f : f = Nuevos(m, job, nodo, otra)
    OBVIOUS
  <2>3. NBloques \in Nat /\ f \in [1..NBloques -> Registro]
    BY <2>1, <2>2, Parametros DEF Nuevos
  <2>4. QED
    BY <2>2, <2>3
<1>2. PedidoT(job, nodo) \in Solicitud
  <2>1. ASSUME NEW b \in Bloques
        PROVE  [etapa |-> "T", nodo |-> nodo[b], job |-> job, bloque |-> b] \in TareaT
    BY DEF TareaT
  <2>2. PICK T \in SUBSET TareaT :
          T = {[etapa |-> "T", nodo |-> nodo[b], job |-> job, bloque |-> b] : b \in Bloques}
    BY <2>1
  <2>3. PedidoT(job, nodo) = [tipo |-> "T", tareas |-> T]
    BY <2>2 DEF PedidoT
  <2>4. QED
    BY <2>3 DEF Solicitud
<1>3. QED
  BY <1>1, <1>2

LEMMA AlPlanificar ==
  ASSUME TypeOK, RecibirBloques
  PROVE  \E m \in Masters, job \in Jobs, nodo \in [Bloques -> Nodos], otra \in [Bloques -> Nodos] :
           /\ job = contJobs[m] + 1 /\ contJobs' = [contJobs EXCEPT ![m] = job]
           /\ tabla' = tabla \o Nuevos(m, job, nodo, otra)
           /\ carga' = [n \in Nodos |-> carga[n] + Cardinality({b \in Bloques : nodo[b] = n})]
           /\ Enviar(m, PedidoT(job, nodo))
           /\ \A b \in Bloques :
                /\ nodo[b] \in Registrados
                /\ \E c \in 1..2 : nodo[b] = Archivo[m][b][c] /\ otra[b] = Archivo[m][b][3 - c]
<1> DEFINE m == Head(pedidos)
           job == contJobs[m] + 1
<1>1. m \in Masters
  BY ColaDe DEF TypeOK, RecibirBloques
<1>2. PICK copia \in [Bloques -> 1..2] :
        LET nodo == [b \in Bloques |-> Archivo[m][b][copia[b]]]
            otra == [b \in Bloques |-> Archivo[m][b][3 - copia[b]]]
        IN /\ job \in Jobs
           /\ contJobs' = [contJobs EXCEPT ![m] = job]
           /\ tabla' = tabla \o Nuevos(m, job, nodo, otra)
           /\ carga' = [n \in Nodos |->
                          carga[n] + Cardinality({b \in Bloques : nodo[b] = n})]
           /\ Enviar(m, PedidoT(job, nodo))
           /\ \A b \in Bloques : nodo[b] \in Registrados
  BY DEF RecibirBloques, Nuevos, PedidoT
<1> DEFINE nodo == [b \in Bloques |-> Archivo[m][b][copia[b]]]
           otra == [b \in Bloques |-> Archivo[m][b][3 - copia[b]]]
<1>3. /\ job \in Jobs /\ job = contJobs[m] + 1
      /\ contJobs' = [contJobs EXCEPT ![m] = job]
      /\ tabla' = tabla \o Nuevos(m, job, nodo, otra)
      /\ carga' = [n \in Nodos |-> carga[n] + Cardinality({b \in Bloques : nodo[b] = n})]
      /\ Enviar(m, PedidoT(job, nodo))
      /\ \A b \in Bloques : nodo[b] \in Registrados
  BY <1>2
<1> HIDE DEF m, job
<1>4. nodo \in [Bloques -> Nodos] /\ otra \in [Bloques -> Nodos]
  <2>1. ASSUME NEW b \in Bloques PROVE Archivo[m][b][copia[b]] \in Nodos
                                       /\ Archivo[m][b][3 - copia[b]] \in Nodos
    <3>1. Archivo[m] \in [Bloques -> (Nodos \X Nodos)]
      BY <1>1, Parametros
    <3>2. Archivo[m][b] \in Nodos \X Nodos
      BY <3>1
    <3>3. PICK c \in 1..2 : c = copia[b]
      OBVIOUS
    <3>4. c \in {1, 2} /\ 3 - c \in {1, 2}
      OBVIOUS
    <3>5. PICK d \in {1, 2} : d = 3 - c
      BY <3>4
    <3>6. Archivo[m][b][c] \in Nodos /\ Archivo[m][b][d] \in Nodos
      BY <3>2, <3>4, <3>5
    <3>7. QED
      BY <3>3, <3>5, <3>6
  <2>2. QED
    BY <2>1
<1>5. \A b \in Bloques :
        \E c \in 1..2 : nodo[b] = Archivo[m][b][c] /\ otra[b] = Archivo[m][b][3 - c]
  OBVIOUS
<1> HIDE DEF nodo, otra
<1>6. QED
  BY <1>1, <1>3, <1>4, <1>5

LEMMA TiposRecibirBloques ==
  ASSUME TypeOK, RecibirBloques PROVE TypeOK'
<1>1. PICK m \in Masters, job \in Jobs, nodo \in [Bloques -> Nodos], otra \in [Bloques -> Nodos] :
        /\ contJobs' = [contJobs EXCEPT ![m] = job]
        /\ tabla' = tabla \o Nuevos(m, job, nodo, otra)
        /\ carga' = [n \in Nodos |-> carga[n] + Cardinality({b \in Bloques : nodo[b] = n})]
        /\ Enviar(m, PedidoT(job, nodo))
  BY AlPlanificar
<1>2. tabla' \in Seq(Registro)
  BY <1>1, SonNuevos, Concatenadas DEF TypeOK
<1>3. carga' \in [Nodos -> Nat]
  <2>1. ASSUME NEW n \in Nodos
        PROVE  carga[n] + Cardinality({b \in Bloques : nodo[b] = n}) \in Nat
    <3>1. Cardinality({b \in Bloques : nodo[b] = n}) \in Nat
      BY Plan
    <3>2. carga[n] \in Nat
      BY DEF TypeOK
    <3>3. QED
      BY <3>1, <3>2
  <2>2. QED
    BY <1>1, <2>1
<1>4. contJobs' \in [Masters -> Jobs]
  BY <1>1 DEF TypeOK
<1>5. bandeja' \in [Masters -> Seq(Solicitud)] /\ yama' \in {"vivo", "muerto"}
  BY <1>1, SonNuevos, Enviado
<1>6. pedidos' \in Seq(Masters)
  BY ColaDe DEF RecibirBloques, TypeOK
<1>7. UNCHANGED <<tareas, listaMasters, aYama, conexion, procesos>>
  BY DEF RecibirBloques
<1>8. QED
  BY <1>2, <1>3, <1>4, <1>5, <1>6, <1>7 DEF TypeOK, procesos

(* The process of a master ends. *)
LEMMA TiposTerminar ==
  ASSUME TypeOK, NEW m \in Masters, Terminar(m)
  PROVE  /\ master' \in [Masters -> {"nuevo", "activo", "muerto"}]
         /\ hilos' \in [Masters -> [Tarea -> Nat]]
         /\ bandeja' \in [Masters -> Seq(Solicitud)]
         /\ conexion' \in [Masters -> {"no", "abierta", "rota", "cerrada"}]
<1>1. SinHilos \in [Tarea -> Nat]
  BY DEF SinHilos
<1>2. QED
  BY <1>1 DEF Terminar, TypeOK

LEMMA TiposLanzar ==
  ASSUME TypeOK, NEW m \in Masters, NEW T, NuevosHilos(m, T)
  PROVE  hilos' \in [Masters -> [Tarea -> Nat]]
<1>1. hilos \in [Masters -> [Tarea -> Nat]]
  BY DEF TypeOK
<1>2. [t \in Tarea |-> hilos[m][t] + IF t \in T THEN 1 ELSE 0] \in [Tarea -> Nat]
  BY <1>1
<1>3. QED
  BY <1>1, <1>2 DEF NuevosHilos

LEMMA TiposMaster ==
  ASSUME TypeOK, NEW m \in Masters, PasoMaster(m)
  PROVE  TypeOK'
<1>1. CASE VerCierre(m)
  BY <1>1, TiposTerminar DEF VerCierre, TypeOK, datosYama, colaFS
<1>2. CASE ~VerCierre(m)
  <2>1. PICK tipo : MasterRecibe(m, tipo)
    BY <1>2 DEF PasoMaster, RecibirT, RecibirReplan, RecibirRL, RecibirRG, RecibirAF
  <2>2. UNCHANGED <<datosYama, colaFS, yama, aYama>> /\ bandeja[m] # <<>>
    BY <2>1 DEF MasterRecibe
  <2>3. enAF' \in SUBSET Masters /\ fallos' = fallos
    BY <1>2 DEF PasoMaster, RecibirT, RecibirReplan, RecibirRL, RecibirRG, RecibirAF, TypeOK
  <2>4. Terminar(m) \/ Atendido(m)
    BY <1>2 DEF PasoMaster, RecibirT, RecibirReplan, RecibirRL, RecibirRG, RecibirAF
  <2>5. Terminar(m) \/ hilos' = hilos \/ \E T : NuevosHilos(m, T)
    BY <1>2 DEF PasoMaster, RecibirT, RecibirReplan, RecibirRL, RecibirRG, RecibirAF
  <2>6. hilos' \in [Masters -> [Tarea -> Nat]]
    BY <2>5, TiposTerminar, TiposLanzar DEF TypeOK
  <2>7. /\ master' \in [Masters -> {"nuevo", "activo", "muerto"}]
        /\ bandeja' \in [Masters -> Seq(Solicitud)]
        /\ conexion' \in [Masters -> {"no", "abierta", "rota", "cerrada"}]
    <3>1. Tail(bandeja[m]) \in Seq(Solicitud) /\ bandeja \in [Masters -> Seq(Solicitud)]
      BY <2>2, ColaDe DEF TypeOK
    <3>2. CASE Atendido(m)
      BY <3>1, <3>2 DEF Atendido, TypeOK
    <3>3. QED
      BY <2>4, <3>2, TiposTerminar
  <2>8. QED
    BY <2>2, <2>3, <2>6, <2>7 DEF TypeOK, datosYama, colaFS
<1>3. QED
  BY <1>1, <1>2

LEMMA TiposTerminarHilo ==
  ASSUME TypeOK, NEW m \in Masters, NEW t \in Tarea, NEW exito \in BOOLEAN,
         TerminarHilo(m, t, exito)
  PROVE  TypeOK'
<1>1. hilos \in [Masters -> [Tarea -> Nat]] /\ hilos[m][t] > 0
  BY DEF TypeOK, TerminarHilo
<1>2. [hilos EXCEPT ![m][t] = @ - 1] \in [Masters -> [Tarea -> Nat]]
  <2>1. PICK c \in Nat : c = hilos[m][t] - 1
    BY <1>1
  <2>2. [hilos EXCEPT ![m][t] = c] \in [Masters -> [Tarea -> Nat]]
    BY <1>1
  <2>3. QED
    BY <2>1, <2>2
<1>3. fallos' \in 0..MaxFallos
  BY Parametros DEF TerminarHilo, TypeOK
<1>4. /\ master' \in [Masters -> {"nuevo", "activo", "muerto"}]
      /\ hilos' \in [Masters -> [Tarea -> Nat]]
      /\ bandeja' \in [Masters -> Seq(Solicitud)]
      /\ conexion' \in [Masters -> {"no", "abierta", "rota", "cerrada"}]
  <2>1. CASE Terminar(m)
    BY <2>1, TiposTerminar
  <2>2. CASE ~Terminar(m)
    BY <1>2, <2>2 DEF TerminarHilo, TypeOK
  <2>3. QED
    BY <2>1, <2>2
<1>5. aYama' \in [Masters -> Seq(Aviso)]
  <2>1. [tipo |-> "FIN", tarea |-> t, exito |-> exito] \in Aviso
    BY DEF Aviso
  <2>2. aYama \in [Masters -> Seq(Aviso)]
    BY DEF TypeOK
  <2>3. Append(aYama[m], [tipo |-> "FIN", tarea |-> t, exito |-> exito]) \in Seq(Aviso)
    BY <2>1, <2>2
  <2>4. QED
    BY <2>2, <2>3 DEF TerminarHilo
<1>6. UNCHANGED <<datosYama, colaFS, yama, enAF>>
  BY DEF TerminarHilo
<1>7. QED
  BY <1>3, <1>4, <1>5, <1>6 DEF TypeOK, datosYama, colaFS

LEMMA TiposFallos ==
  ASSUME TypeOK, NEW m \in Masters, TerminarAF(m) \/ Matar(m) PROVE TypeOK'
<1>1. fallos' \in 0..MaxFallos
  BY Parametros DEF TerminarAF, Matar, TypeOK
<1>2. CASE TerminarAF(m)
  BY <1>1, <1>2 DEF TerminarAF, TypeOK, datosYama, colaFS
<1>3. CASE Matar(m)
  BY <1>1, <1>3, TiposTerminar DEF Matar, TypeOK, datosYama, colaFS
<1>4. QED
  BY <1>2, <1>3

LEMMA Tipos == TypeOK /\ [Next]_vars => TypeOK'
<1> SUFFICES ASSUME TypeOK, [Next]_vars PROVE TypeOK'
  OBVIOUS
<1>1. CASE UNCHANGED vars
  BY <1>1 DEF vars, TypeOK, datosYama, colaFS, procesos
<1>2. ASSUME NEW m \in Masters, PasoYama(m) PROVE TypeOK'
  BY <1>2, TiposConexion, TiposFinTransformacionOk, TiposFinTransformacionMal,
     TiposFinReduccionLocalOk, TiposAbortar, TiposFinReduccionGlobalOk DEF PasoYama
<1>3. QED
  BY <1>1, <1>2, TiposRecibirBloques, TiposConexion, TiposMaster, TiposTerminarHilo, TiposFallos
     DEF Next

LEMMA TiposAlPrincipio == Init => TypeOK
<1> SUFFICES ASSUME Init PROVE TypeOK
  OBVIOUS
<1>1. hilos \in [Masters -> [Tarea -> Nat]]
  BY DEF Init, SinHilos
<1>2. /\ tabla \in Seq(Registro) /\ pedidos \in Seq(Masters)
      /\ aYama \in [Masters -> Seq(Aviso)] /\ bandeja \in [Masters -> Seq(Solicitud)]
  BY DEF Init
<1>3. contJobs \in [Masters -> Jobs] /\ fallos \in 0..MaxFallos
  BY Parametros DEF Init, Jobs
<1>4. QED
  BY <1>1, <1>2, <1>3 DEF Init, TypeOK

(* tablaDeEstados, the loads, the messages and the threads of the masters    *)
(* keep their types in every job, however it fails: a load never becomes     *)
(* negative and a record never names a node that is not one.                 *)
THEOREM TiposYama == Spec => []TypeOK
BY Tipos, TiposAlPrincipio, PTL DEF Spec
-----------------------------------------------------------------------------
(* Only transformations have a second node: a replanning touches no other.   *)
SinOtra ==
  \A k \in DOMAIN tabla : tabla[k].etapa # "T" => tabla[k].otra = Ninguno

(* A message asks for one transformation of a block at most. *)
UnaPorBloque ==
  \A m \in Masters : \A i \in DOMAIN bandeja[m] :
    bandeja[m][i].tipo = "T" =>
      \A t, u \in bandeja[m][i].tareas : t.bloque = u.bloque => t = u

(* The messages that ask for the transformation of a block. *)
PedidosT(b) == {s \in Solicitud : s.tipo = "T" /\ \E t \in s.tareas : t.bloque = b}

(* Those not read yet also have their record.  *)
PedidasConRegistro ==
  \A b \in Bloques :
    Cardinality(Mensajes(bandeja, PedidosT(b))) + Pendientes(TareasDe(b))
      <= Cardinality(Posiciones(tabla, EnCurso(b)))

-----------------------------------------------------------------------------
(* What a step may do to the table: nothing, new records, a record marked    *)
(* that is in process or of a reduction, or one in process replanned.        *)
Marcable(k) == k \in DOMAIN tabla /\ (tabla[k].etapa # "T" \/ tabla[k].estado = "ENPROCESO")

Conserva(u) ==
  \A k \in DOMAIN tabla :
    /\ k \in DOMAIN u /\ u[k].master = tabla[k].master
    /\ u[k].job = tabla[k].job
    /\ tabla[k].etapa = "T" /\ tabla[k].estado = "FINALIZADOOK" => u[k] = tabla[k]

LEMMA ConservaIgual == Conserva(tabla)
BY DEF Conserva

LEMMA ConservaMarcada ==
  ASSUME TypeOK, NEW k, Marcable(k), NEW e \in {"ENPROCESO", "ERROR", "FINALIZADOOK"}
  PROVE  Conserva(Marcada(k, e))
<1>1. k \in DOMAIN tabla /\ tabla \in Seq(Registro)
  BY DEF TypeOK, Marcable
<1>2. PICK u : u = Marcada(k, e)
  OBVIOUS
<1>4. tabla[k] \in Registro
  BY <1>1
<1>3. /\ DOMAIN u = DOMAIN tabla /\ u[k] = [tabla[k] EXCEPT !.estado = e]
      /\ \A j \in DOMAIN tabla \ {k} : u[j] = tabla[j]
  <2>1. PICK x : x = [tabla[k] EXCEPT !.estado = e]
    OBVIOUS
  <2>2. u = [tabla EXCEPT ![k] = x]
    BY <1>1, <1>2, <2>1 DEF Marcada
  <2>3. QED
    BY <1>1, <2>1, <2>2
<1>5. u[k].master = tabla[k].master /\ u[k].job = tabla[k].job
  BY <1>3, <1>4 DEF Registro
<1>6. Conserva(u)
  BY <1>1, <1>3, <1>5 DEF Conserva, Marcable
<1>7. QED
  BY <1>2, <1>6

LEMMA ConservaAgregada ==
  ASSUME NEW u \in Seq(Registro), Conserva(u), NEW x \in Registro
  PROVE  Conserva(Append(u, x))
<1>1. PICK v : v = Append(u, x)
  OBVIOUS
<1>2. DOMAIN v = 1..(Len(u) + 1) /\ \A i \in DOMAIN u : v[i] = u[i]
  BY <1>1, Agregada
<1>3. DOMAIN u \subseteq DOMAIN v
  BY <1>2
<1>4. Conserva(v)
  BY <1>2, <1>3 DEF Conserva
<1>5. QED
  BY <1>1, <1>4

LEMMA ConservaSumada ==
  ASSUME TypeOK, NEW n \in Seq(Registro)
  PROVE  Conserva(tabla \o n)
<1>1. PICK v : v = tabla \o n
  OBVIOUS
<1>2. \A i \in DOMAIN tabla : i \in DOMAIN v /\ v[i] = tabla[i]
  BY <1>1, Concatenadas DEF TypeOK
<1>3. Conserva(v)
  BY <1>2 DEF Conserva
<1>4. QED
  BY <1>1, <1>3

LEMMA ConservaReplanificada ==
  ASSUME TypeOK, NEW k \in DOMAIN tabla, tabla[k].estado = "ENPROCESO",
         NEW e, NEW n, NEW o
  PROVE  Conserva([tabla EXCEPT ![k].etapa = e, ![k].nodo = n, ![k].otra = o])
<1>1. tabla \in Seq(Registro) /\ tabla[k] \in Registro
  BY DEF TypeOK
<1>2. PICK x : x = [tabla[k] EXCEPT !.etapa = e, !.nodo = n, !.otra = o]
  OBVIOUS
<1>3. x.master = tabla[k].master /\ x.job = tabla[k].job
  BY <1>1, <1>2 DEF Registro
<1>4. PICK u : u = [tabla EXCEPT ![k] = x]
  OBVIOUS
<1>5. Conserva(u)
  BY <1>1, <1>3, <1>4 DEF Conserva
<1>6. u = [tabla EXCEPT ![k].etapa = e, ![k].nodo = n, ![k].otra = o]
  BY <1>1, <1>2, <1>4
<1>7. QED
  BY <1>5, <1>6

-----------------------------------------------------------------------------
(* What each handler of the end of a task does to the table, and what it     *)
(* sends.                                                                    *)
MarcaYAgrega(k, etapa, tipo) ==
  \E x \in Registro, n \in Masters, msg \in Solicitud :
    /\ tabla' = Append(Marcada(k, "FINALIZADOOK"), x)
    /\ x.etapa = etapa /\ x.otra = Ninguno /\ x.job = tabla[k].job
    /\ msg.tipo = tipo /\ Enviar(n, msg)

Marca(k, e) == tabla' = Marcada(k, e) /\ SinEnviar

(* One more task was counted. *)
CuentaUna == \E n \in Nodos : tareas' = [tareas EXCEPT ![n] = @ + 1]

LEMMA Agrega ==
  ASSUME TypeOK, NEW k \in DOMAIN tabla, NEW m \in Masters, NEW n \in Masters,
         NEW job \in Jobs, job = tabla[k].job, NEW etapa \in {"T", "RL", "RG", "AF"},
         NEW nodo \in Nodos \cup {Ninguno}, NEW tipo, NEW msg \in Solicitud, msg.tipo = tipo,
         Enviar(n, msg), Registrar(Marcada(k, "FINALIZADOOK"), m, job, etapa, nodo)
  PROVE  MarcaYAgrega(k, etapa, tipo)
<1>1. PICK u : u = Marcada(k, "FINALIZADOOK")
  OBVIOUS
<1>2. u \in Seq(Registro)
  BY <1>1, Marcado
<1>3. PICK x \in Registro : tabla' = Append(u, x) /\ x.etapa = etapa /\ x.otra = Ninguno
                                     /\ x.job = job
  BY <1>1, <1>2, Registrado
<1>4. QED
  BY <1>1, <1>3 DEF MarcaYAgrega

LEMMA EfectoTOkExacto ==
  ASSUME TypeOK, NEW m \in Masters, FinTransformacionOk(m),
         NEW t, t = Head(aYama[m]).tarea,
         NEW S, S = EnProceso(t.bloque, t.job), NEW k, k = Primera(S)
  PROVE  \/ UNCHANGED <<tabla, bandeja, tareas>>
         \/ /\ k \in S /\ CuentaUna
            /\ \/ /\ ~TodasOk(Marcada(k, "FINALIZADOOK"), DelNodo(t.nodo, t.job))
                  /\ Marca(k, "FINALIZADOOK")
               \/ /\ TodasOk(Marcada(k, "FINALIZADOOK"), DelNodo(t.nodo, t.job))
                  /\ \E x \in Registro, msg \in Solicitud :
                       /\ tabla' = Append(Marcada(k, "FINALIZADOOK"), x)
                       /\ x.etapa = "RL" /\ x.otra = Ninguno /\ x.nodo = tabla[k].nodo
                       /\ x.estado = "ENPROCESO" /\ x.job = tabla[k].job
                       /\ msg.tipo = "RL" /\ msg.nodo = x.nodo /\ Enviar(m, msg)
<1> DEFINE hecha == Marcada(k, "FINALIZADOOK")
<1>1. CASE Morir
  BY <1>1, Muerte
<1>2. CASE ~Morir
  <2>1. /\ S # {} /\ tabla[k].nodo # Ninguno
        /\ tareas' = [tareas EXCEPT ![tabla[k].nodo] = @ + 1]
        /\ \/ /\ TodasOk(hecha, DelNodo(t.nodo, t.job))
              /\ RealizarRL(hecha, m, tabla[k], DelNodo(t.nodo, t.job))
           \/ ~TodasOk(hecha, DelNodo(t.nodo, t.job)) /\ tabla' = hecha /\ SinEnviar
    BY <1>2 DEF FinTransformacionOk
  <2>2. k \in S /\ k \in DOMAIN tabla /\ tabla[k] \in Registro
    BY <2>1, Encontrada DEF EnProceso
  <2>3. tabla[k].master \in Masters /\ tabla[k].job \in Jobs /\ tabla[k].nodo \in Nodos
    BY <2>1, <2>2 DEF Registro
  <2>4. CuentaUna
    BY <2>1, <2>3 DEF CuentaUna
  <2>5. CASE ~TodasOk(hecha, DelNodo(t.nodo, t.job)) /\ tabla' = hecha /\ SinEnviar
    BY <2>2, <2>5, <2>4 DEF Marca
  <2>6. CASE /\ TodasOk(hecha, DelNodo(t.nodo, t.job))
             /\ RealizarRL(hecha, m, tabla[k], DelNodo(t.nodo, t.job))
    <3>1. PICK j : /\ Enviar(m, [tipo |-> "RL", nodo |-> tabla[k].nodo, job |-> j])
                   /\ j = SinJob \/ j = tabla[k].job
      BY <2>6 DEF RealizarRL
    <3>2. j \in Jobs
      BY <2>3, <3>1 DEF Jobs, SinJob
    <3>3. PICK msg : msg = [tipo |-> "RL", nodo |-> tabla[k].nodo, job |-> j]
      OBVIOUS
    <3>4. msg \in Solicitud /\ msg.tipo = "RL" /\ msg.nodo = tabla[k].nodo /\ Enviar(m, msg)
      BY <2>3, <3>1, <3>2, <3>3 DEF Solicitud
    <3>5. Registrar(hecha, tabla[k].master, tabla[k].job, "RL", tabla[k].nodo)
      BY <2>6 DEF RealizarRL
    <3>6. PICK u : u = hecha
      OBVIOUS
    <3>7. u \in Seq(Registro)
      BY <2>2, <3>6, Marcado
    <3>8. PICK n \in Nodos, j1 \in Jobs, m1 \in Masters :
            n = tabla[k].nodo /\ j1 = tabla[k].job /\ m1 = tabla[k].master
      BY <2>3
    <3>9. Registrar(u, m1, j1, "RL", n)
      BY <3>5, <3>6, <3>8
    <3>10. PICK x \in Registro : /\ tabla' = Append(u, x) /\ x.etapa = "RL"
                                 /\ x.otra = Ninguno /\ x.nodo = n
                                 /\ x.estado = "ENPROCESO" /\ x.job = j1
      BY <3>7, <3>9, Registrado
    <3>11. QED
      BY <2>2, <2>6, <2>4, <3>4, <3>6, <3>8, <3>10
  <2>7. QED
    BY <2>1, <2>5, <2>6
<1>3. QED
  BY <1>1, <1>2

LEMMA EfectoTOk ==
  ASSUME TypeOK, NEW m \in Masters, FinTransformacionOk(m)
  PROVE  \/ UNCHANGED <<tabla, bandeja>>
         \/ \E k \in EnProceso(Head(aYama[m]).tarea.bloque, Head(aYama[m]).tarea.job) :
              Marca(k, "FINALIZADOOK") \/ MarcaYAgrega(k, "RL", "RL")
<1>1. PICK t, S : t = Head(aYama[m]).tarea /\ S = EnProceso(t.bloque, t.job)
  OBVIOUS
<1>2. PICK k : k = Primera(S)
  OBVIOUS
<1>3. \/ UNCHANGED <<tabla, bandeja>>
      \/ k \in S /\ (Marca(k, "FINALIZADOOK") \/ MarcaYAgrega(k, "RL", "RL"))
  BY <1>1, <1>2, EfectoTOkExacto DEF MarcaYAgrega
<1>4. QED
  BY <1>1, <1>3

LEMMA EfectoTMal ==
  ASSUME TypeOK, NEW m \in Masters, FinTransformacionMal(m)
  PROVE  \/ UNCHANGED <<tabla, bandeja, tareas>>
         \/ \E k \in EnProceso(Head(aYama[m]).tarea.bloque, Head(aYama[m]).tarea.job) :
              /\ tareas' = tareas
              /\ k = Primera(EnProceso(Head(aYama[m]).tarea.bloque, Head(aYama[m]).tarea.job))
              /\ \/ tabla[k].otra \notin Registrados /\ Marca(k, "ERROR")
                 \/ /\ tabla[k].otra \in Registrados
                    /\ tabla' = [tabla EXCEPT ![k].etapa = "T", ![k].nodo = tabla[k].otra,
                                              ![k].otra = tabla[k].nodo]
                    /\ \E msg \in Solicitud : msg.tipo = "REPLAN" /\ Enviar(m, msg)
<1> DEFINE t == Head(aYama[m]).tarea
           S == EnProceso(t.bloque, t.job)
           k == Primera(S)
           r == tabla[k]
<1>1. CASE Morir
  BY <1>1, Muerte
<1>2. CASE ~Morir
  <2>1. /\ S # {} /\ tareas' = tareas
        /\ \/ /\ r.otra \in Registrados
              /\ \E nro \in NrosCopia :
                   Enviar(m, [tipo |-> "REPLAN", nro |-> nro, bloque |-> r.bloque])
              /\ tabla' = [tabla EXCEPT ![k].etapa = "T", ![k].nodo = r.otra, ![k].otra = r.nodo]
           \/ r.otra \notin Registrados /\ tabla' = Marcada(k, "ERROR") /\ SinEnviar
    BY <1>2 DEF FinTransformacionMal
  <2>2. k \in S /\ k \in DOMAIN tabla /\ r \in Registro
    BY <2>1, Encontrada DEF EnProceso
  <2>3. CASE r.otra \notin Registrados /\ tabla' = Marcada(k, "ERROR") /\ SinEnviar
    BY <2>1, <2>2, <2>3 DEF Marca
  <2>4. ASSUME NEW nro \in NrosCopia,
               Enviar(m, [tipo |-> "REPLAN", nro |-> nro, bloque |-> r.bloque])
        PROVE  \E msg \in Solicitud : msg.tipo = "REPLAN" /\ Enviar(m, msg)
    <3>1. PICK msg : msg = [tipo |-> "REPLAN", nro |-> nro, bloque |-> r.bloque]
      OBVIOUS
    <3>2. r.bloque \in Bloques \cup {SinBloque}
      BY <2>2 DEF Registro
    <3>3. msg \in Solicitud /\ msg.tipo = "REPLAN"
      BY <3>1, <3>2 DEF Solicitud
    <3>4. QED
      BY <2>4, <3>1, <3>3
  <2>5. QED
    BY <2>1, <2>2, <2>3, <2>4
<1>3. QED
  BY <1>1, <1>2

(* The local reductions of a job. *)
RLDelJob(job) == {j \in DOMAIN tabla : tabla[j].etapa = "RL" /\ tabla[j].job = job}

LEMMA EfectoRLOkExacto ==
  ASSUME TypeOK, NEW m \in Masters, FinReduccionLocalOk(m)
  PROVE  \/ UNCHANGED <<tabla, bandeja, tareas>>
         \/ \E k \in DOMAIN tabla :
              /\ CuentaUna
              /\ tabla[k].etapa = "RL" /\ tabla[k].nodo = Head(aYama[m]).tarea.nodo
              /\ tabla[k].job = Head(aYama[m]).tarea.job
              /\ \/ /\ ~TodasOk(Marcada(k, "FINALIZADOOK"), RLDelJob(tabla[k].job))
                    /\ Marca(k, "FINALIZADOOK")
                 \/ /\ TodasOk(Marcada(k, "FINALIZADOOK"), RLDelJob(tabla[k].job))
                    /\ MarcaYAgrega(k, "RG", "RG")
<1> DEFINE t == Head(aYama[m]).tarea
           S == RLDe(t.nodo, t.job)
           k == Primera(S)
           hecha == Marcada(k, "FINALIZADOOK")
           grupo == RLDelJob(t.job)
<1>1. CASE Morir
  BY <1>1, Muerte
<1>2. CASE ~Morir
  <2>1. /\ S # {} /\ tareas' = [tareas EXCEPT ![t.nodo] = @ + 1]
        /\ \/ TodasOk(hecha, grupo) /\ RealizarRG(hecha, tabla[k], grupo)
           \/ ~TodasOk(hecha, grupo) /\ tabla' = hecha /\ SinEnviar
    <3>1. \/ RLMortal(S) /\ Morir
          \/ /\ S # {} /\ tareas' = [tareas EXCEPT ![t.nodo] = @ + 1]
             /\ IF TodasOk(hecha, grupo)
                THEN RealizarRG(hecha, tabla[k], grupo)
                ELSE tabla' = hecha /\ SinEnviar /\ UNCHANGED carga
      BY ZenonT(60) DEF FinReduccionLocalOk, RLDelJob
    <3>2. QED
      BY <1>2, <3>1
  <2>2. k \in S /\ k \in DOMAIN tabla /\ tabla[k] \in Registro
        /\ tabla[k].etapa = "RL" /\ tabla[k].nodo = t.nodo /\ tabla[k].job = t.job
    <3>1. PICK T : T = RLDe(t.nodo, t.job)
      OBVIOUS
    <3>2. T # {} /\ T \subseteq DOMAIN tabla /\ \A j \in T : /\ tabla[j].etapa = "RL"
                                                    /\ tabla[j].nodo = t.nodo /\ tabla[j].job = t.job
      BY <2>1, <3>1 DEF RLDe
    <3>3. Primera(T) \in T /\ Primera(T) \in DOMAIN tabla /\ tabla[Primera(T)] \in Registro
      BY <3>2, Encontrada
    <3>4. QED
      BY <3>1, <3>2, <3>3
  <2>3. /\ hecha \in Seq(Registro) /\ DOMAIN hecha = DOMAIN tabla
        /\ tabla[k].master \in Masters /\ tabla[k].job \in Jobs
    BY <2>2, Marcado DEF Registro
  <2>4. CuentaUna
    <3>1. t.nodo \in Nodos
      BY FinRecibido DEF FinReduccionLocalOk, Tarea, TareaT
    <3>2. QED
      BY <2>1, <3>1 DEF CuentaUna
  <2>5. CASE ~TodasOk(hecha, grupo) /\ tabla' = hecha /\ SinEnviar
    BY <2>2, <2>5, <2>4 DEF Marca
  <2>6. CASE TodasOk(hecha, grupo) /\ RealizarRG(hecha, tabla[k], grupo)
    <3>1. PICK e \in Registrados :
            /\ Enviar(tabla[k].master, [tipo |-> "RG", encargado |-> e, job |-> tabla[k].job,
                                        nodos |-> {hecha[j].nodo : j \in grupo}])
            /\ Registrar(hecha, tabla[k].master, tabla[k].job, "RG", Ninguno)
      BY <2>6 DEF RealizarRG
    <3>2. e \in Nodos
      BY <3>1 DEF Registrados
    <3>3. PICK nodos : nodos = {hecha[j].nodo : j \in grupo}
      OBVIOUS
    <3>4. nodos \in SUBSET (Nodos \cup {Ninguno})
      <4> HIDE DEF hecha
      <4>0. grupo \subseteq DOMAIN tabla
        BY DEF RLDelJob
      <4>1. \A j \in DOMAIN hecha : hecha[j] \in Registro
        BY <2>3
      <4>2. \A j \in DOMAIN hecha : hecha[j].nodo \in Nodos \cup {Ninguno}
        BY <4>1 DEF Registro
      <4>3. QED
        BY <2>3, <3>3, <4>0, <4>2
    <3>5. PICK msg : msg = [tipo |-> "RG", encargado |-> e, job |-> tabla[k].job, nodos |-> nodos]
      OBVIOUS
    <3>6. msg \in Solicitud /\ msg.tipo = "RG"
      BY <2>3, <3>2, <3>4, <3>5 DEF Solicitud
    <3>7. Enviar(tabla[k].master, msg)
      BY <3>1, <3>3, <3>5
    <3>8. MarcaYAgrega(k, "RG", "RG")
      BY <2>2, <2>3, <3>1, <3>6, <3>7, Agrega
    <3>9. QED
      BY <2>2, <2>4, <2>6, <3>8
  <2>7. QED
    BY <2>1, <2>5, <2>6
<1>3. QED
  BY <1>1, <1>2

LEMMA EfectoRLOk ==
  ASSUME TypeOK, NEW m \in Masters, FinReduccionLocalOk(m)
  PROVE  \/ UNCHANGED <<tabla, bandeja, tareas>>
         \/ \E k \in DOMAIN tabla :
              /\ CuentaUna
              /\ tabla[k].etapa = "RL" /\ tabla[k].nodo = Head(aYama[m]).tarea.nodo
              /\ Marca(k, "FINALIZADOOK") \/ MarcaYAgrega(k, "RG", "RG")
BY EfectoRLOkExacto

LEMMA EfectoRGOk ==
  ASSUME TypeOK, NEW m \in Masters, FinReduccionGlobalOk(m)
  PROVE  \/ UNCHANGED <<tabla, bandeja, tareas>>
         \/ \E k \in DOMAIN tabla : CuentaUna /\ tabla[k].etapa = "RG" /\ MarcaYAgrega(k, "AF", "AF")
<1> DEFINE t == Head(aYama[m]).tarea
           S == RGDe(t.job)
           k == Primera(S)
<1>1. CASE Morir
  BY <1>1, Muerte
<1>2. CASE ~Morir
  <2>1. /\ S # {} /\ tareas' = [tareas EXCEPT ![t.nodo] = @ + 1]
        /\ Enviar(tabla[k].master, [tipo |-> "AF"])
        /\ Registrar(Marcada(k, "FINALIZADOOK"), tabla[k].master, t.job, "AF", Ninguno)
    BY <1>2 DEF FinReduccionGlobalOk
  <2>2. k \in DOMAIN tabla /\ tabla[k] \in Registro /\ tabla[k].etapa = "RG"
        /\ tabla[k].job = t.job
    <3>1. PICK T : T = RGDe(t.job)
      OBVIOUS
    <3>2. T # {} /\ T \subseteq DOMAIN tabla /\ \A j \in T : tabla[j].etapa = "RG" /\ tabla[j].job = t.job
      BY <2>1, <3>1 DEF RGDe
    <3>3. Primera(T) \in T /\ tabla[Primera(T)] \in Registro
      BY <3>2, Encontrada
    <3>4. QED
      BY <3>1, <3>2, <3>3
  <2>3. tabla[k].master \in Masters
    BY <2>2 DEF Registro
  <2>4. t.job \in Jobs /\ t.nodo \in Nodos
    BY FinRecibido DEF FinReduccionGlobalOk, Tarea, TareaT
  <2>5. PICK msg : msg = [tipo |-> "AF"]
    OBVIOUS
  <2>6. msg \in Solicitud /\ msg.tipo = "AF" /\ Enviar(tabla[k].master, msg)
    BY <2>1, <2>5 DEF Solicitud
  <2>7. MarcaYAgrega(k, "AF", "AF")
    BY <2>1, <2>2, <2>3, <2>4, <2>6, Agrega
  <2>8. CuentaUna
    BY <2>1, <2>4 DEF CuentaUna
  <2>9. QED
    BY <2>2, <2>7, <2>8
<1>3. QED
  BY <1>1, <1>2

LEMMA EfectoAbortar ==
  ASSUME TypeOK, NEW m \in Masters, FinReduccionLocalMal(m) \/ FinReduccionGlobalMal(m)
  PROVE  \/ UNCHANGED <<tabla, bandeja, tareas>>
         \/ \E k \in DOMAIN tabla :
              /\ tareas' = tareas
              /\ tabla[k].etapa \in {"RL", "RG"} /\ Marca(k, "ERROR")
              /\ tabla[k].etapa = "RL" => /\ RecibeFin(m, "RL")
                                         /\ tabla[k].nodo = Head(aYama[m]).tarea.nodo
<1>1. ASSUME NEW S \in SUBSET (DOMAIN tabla), S # {}, SinEnviar, tabla' = Marcada(Primera(S), "ERROR")
      PROVE  \E k \in S : Marca(k, "ERROR")
  BY <1>1, Encontrada DEF Marca
<1>2. CASE Morir
  BY <1>2, Muerte
<1>3. CASE FinReduccionLocalMal(m) /\ ~Morir
  <2> DEFINE S == RLDe(Head(aYama[m]).tarea.nodo, Head(aYama[m]).tarea.job)
  <2>1. /\ S \in SUBSET (DOMAIN tabla)
        /\ \A j \in S : tabla[j].etapa = "RL" /\ tabla[j].nodo = Head(aYama[m]).tarea.nodo
    BY DEF RLDe
  <2>2. S # {} /\ tabla' = Marcada(Primera(S), "ERROR") /\ SinEnviar /\ tareas' = tareas
        /\ RecibeFin(m, "RL")
    BY <1>3 DEF FinReduccionLocalMal
  <2> HIDE DEF S
  <2>3. QED
    BY <1>1, <2>1, <2>2
<1>4. CASE FinReduccionGlobalMal(m) /\ ~Morir
  <2> DEFINE S == RGDe(Head(aYama[m]).tarea.job)
  <2>1. S \in SUBSET (DOMAIN tabla) /\ \A j \in S : tabla[j].etapa = "RG"
    BY DEF RGDe
  <2>2. S # {} /\ tabla' = Marcada(Primera(S), "ERROR") /\ SinEnviar /\ tareas' = tareas
    BY <1>4 DEF FinReduccionGlobalMal
  <2> HIDE DEF S
  <2>3. QED
    BY <1>1, <2>1, <2>2
<1>5. QED
  BY <1>2, <1>3, <1>4

(* The handlers that touch the table are these. *)
EsFin(m) ==
  \/ FinTransformacionOk(m) \/ FinTransformacionMal(m)
  \/ FinReduccionLocalOk(m) \/ FinReduccionLocalMal(m)
  \/ FinReduccionGlobalOk(m) \/ FinReduccionGlobalMal(m)

LEMMA LosDemas ==
  ASSUME [Next]_vars, ~RecibirBloques, \A m \in Masters : ~EsFin(m)
  PROVE  tabla' = tabla
<1>1. CASE UNCHANGED vars
  BY <1>1 DEF vars, datosYama
<1>2. ASSUME NEW m \in Masters, PasoYama(m) PROVE tabla' = tabla
  BY <1>2 DEF PasoYama, EsFin, Handshake, SolicitudTransformacion, CerrarRota, datosYama
<1>3. ASSUME NEW m \in Masters, PasoMaster(m) PROVE tabla' = tabla
  BY <1>3 DEF PasoMaster, RecibirT, RecibirReplan, RecibirRL, RecibirRG, RecibirAF, VerCierre,
              MasterRecibe, datosYama
<1>4. ASSUME NEW m \in Masters, Conectar(m) \/ TerminarAF(m) \/ Matar(m) PROVE tabla' = tabla
  BY <1>4 DEF Conectar, TerminarAF, Matar, datosYama
<1>5. ASSUME NEW m \in Masters, NEW t, NEW exito, TerminarHilo(m, t, exito) PROVE tabla' = tabla
  BY <1>5 DEF TerminarHilo, datosYama
<1>6. QED
  BY <1>1, <1>2, <1>3, <1>4, <1>5 DEF Next

LEMMA PasoConserva ==
  ASSUME TypeOK, [Next]_vars PROVE Conserva(tabla')
<1>1. ASSUME NEW k, Marcable(k), NEW e \in {"ERROR", "FINALIZADOOK"}, Marca(k, e)
      PROVE  Conserva(tabla')
  BY <1>1, ConservaMarcada DEF Marca
<1>2. ASSUME NEW k, Marcable(k), NEW etapa, NEW tipo, MarcaYAgrega(k, etapa, tipo)
      PROVE  Conserva(tabla')
  <2>1. PICK u : u = Marcada(k, "FINALIZADOOK")
    OBVIOUS
  <2>2. u \in Seq(Registro) /\ Conserva(u)
    BY <1>2, <2>1, Marcado, ConservaMarcada DEF Marcable
  <2>3. PICK x \in Registro : tabla' = Append(u, x)
    BY <1>2, <2>1 DEF MarcaYAgrega
  <2>4. QED
    BY <2>2, <2>3, ConservaAgregada
<1>3. CASE tabla' = tabla
  BY <1>3, ConservaIgual
<1>4. CASE RecibirBloques
  <2>1. PICK m \in Masters, job \in Jobs, nodo \in [Bloques -> Nodos], otra \in [Bloques -> Nodos] :
          tabla' = tabla \o Nuevos(m, job, nodo, otra)
    BY <1>4, AlPlanificar
  <2>2. QED
    BY <2>1, SonNuevos, ConservaSumada
<1>5. ASSUME NEW m \in Masters, FinTransformacionOk(m) PROVE Conserva(tabla')
  BY <1>1, <1>2, <1>3, <1>5, EfectoTOk DEF EnProceso, Marcable
<1>6. ASSUME NEW m \in Masters, FinTransformacionMal(m) PROVE Conserva(tabla')
  <2>1. CASE UNCHANGED <<tabla, bandeja>>
    BY <1>3, <2>1
  <2>2. ASSUME NEW k \in EnProceso(Head(aYama[m]).tarea.bloque, Head(aYama[m]).tarea.job),
               Marca(k, "ERROR")
        PROVE  Conserva(tabla')
    BY <1>1, <2>2 DEF EnProceso, Marcable
  <2>3. ASSUME NEW k \in EnProceso(Head(aYama[m]).tarea.bloque, Head(aYama[m]).tarea.job),
               tabla' = [tabla EXCEPT ![k].etapa = "T", ![k].nodo = tabla[k].otra,
                                      ![k].otra = tabla[k].nodo]
        PROVE  Conserva(tabla')
    <3>1. k \in DOMAIN tabla /\ tabla[k].estado = "ENPROCESO"
      BY DEF EnProceso
    <3>2. PICK n, o : n = tabla[k].otra /\ o = tabla[k].nodo
      OBVIOUS
    <3>3. Conserva([tabla EXCEPT ![k].etapa = "T", ![k].nodo = n, ![k].otra = o])
      BY <3>1, ConservaReplanificada
    <3>4. QED
      BY <2>3, <3>2, <3>3
  <2>4. QED
    BY <1>6, <2>1, <2>2, <2>3, EfectoTMal
<1>7. ASSUME NEW m \in Masters, FinReduccionLocalOk(m) PROVE Conserva(tabla')
  BY <1>1, <1>2, <1>3, <1>7, EfectoRLOk DEF Marcable
<1>8. ASSUME NEW m \in Masters, FinReduccionGlobalOk(m) PROVE Conserva(tabla')
  BY <1>1, <1>2, <1>3, <1>8, EfectoRGOk DEF Marcable
<1>9. ASSUME NEW m \in Masters, FinReduccionLocalMal(m) \/ FinReduccionGlobalMal(m)
      PROVE  Conserva(tabla')
  BY <1>1, <1>3, <1>9, EfectoAbortar DEF Marcable
<1>10. QED
  BY <1>3, <1>4, <1>5, <1>6, <1>7, <1>8, <1>9, LosDemas DEF EsFin

(* However the news of the ends are attributed, with any number of masters:  *)
(* no record is lost or given to another job, and a transformation that      *)
(* ended well is never touched again, so nothing finished is replanned.      *)
THEOREM TransformacionOkFinal == Spec => TransformacionOkEsFinal
<1>1. TypeOK /\ [Next]_vars =>
        [\A k \in DOMAIN tabla :
           /\ k \in DOMAIN tabla' /\ tabla'[k].master = tabla[k].master
           /\ tabla'[k].job = tabla[k].job
           /\ tabla[k].etapa = "T" /\ tabla[k].estado = "FINALIZADOOK"
                => tabla'[k] = tabla[k]]_vars
  BY PasoConserva DEF Conserva
<1>2. QED
  BY <1>1, TiposYama, PTL DEF Spec, TransformacionOkEsFinal

-----------------------------------------------------------------------------
(* Counting: messages in queues, threads, records in the table.              *)
LEMMA UnionFinita ==
  ASSUME NEW S, IsFiniteSet(S), NEW T, NEW f \in [S -> T], \A x \in S : IsFiniteSet(f[x]),
         NEW U, \A y \in U : \E x \in S : y \in f[x]
  PROVE  IsFiniteSet(U)
<1> DEFINE F == {f[x] : x \in S}
<1>1. f \in Surjection(S, F)
  BY DEF Surjection
<1>2. IsFiniteSet(F)
  BY <1>1, FS_Surjection
<1>3. IsFiniteSet(UNION F)
  BY <1>2, FS_UNION
<1>4. U \subseteq UNION F
  OBVIOUS
<1>5. QED
  BY <1>3, <1>4, FS_Subset

LEMMA UnoMas ==
  ASSUME NEW S, IsFiniteSet(S), NEW x
  PROVE  /\ IsFiniteSet(S \cup {x}) /\ Cardinality(S \cup {x}) \in Nat
         /\ Cardinality(S \cup {x}) <= Cardinality(S) + 1
         /\ x \notin S => Cardinality(S \cup {x}) = Cardinality(S) + 1
<1>1. Cardinality(S) \in Nat
  BY FS_CardinalityType
<1>2. /\ IsFiniteSet(S \cup {x})
      /\ Cardinality(S \cup {x}) = IF x \in S THEN Cardinality(S) ELSE Cardinality(S) + 1
  BY FS_AddElement
<1>3. QED
  BY <1>1, <1>2

LEMMA EnMensajes ==
  ASSUME NEW q, NEW E
  PROVE  \A p : p \in Mensajes(q, E) <=>
           \E m \in Masters : \E i \in DOMAIN q[m] : p = <<m, i>> /\ q[m][i] \in E
BY DEF Mensajes

LEMMA EnCorriendo ==
  ASSUME NEW h, NEW E
  PROVE  \A p : p \in Corriendo(h, E) <=>
           \E m \in Masters, t \in E : \E i \in 1..h[m][t] : p = <<<<m, t>>, i>>
<1>1. ASSUME NEW p \in Corriendo(h, E)
      PROVE  \E m \in Masters, t \in E : \E i \in 1..h[m][t] : p = <<<<m, t>>, i>>
  <2>1. PICK m \in Masters, t \in E : p \in {<<m, t>>} \X (1..h[m][t])
    BY DEF Corriendo
  <2>2. QED
    BY <2>1
<1>2. ASSUME NEW m \in Masters, NEW t \in E, NEW i \in 1..h[m][t]
      PROVE  <<<<m, t>>, i>> \in Corriendo(h, E)
  <2>1. PICK Z : Z = {<<m, t>>} \X (1..h[m][t])
    OBVIOUS
  <2>2. <<<<m, t>>, i>> \in Z
    BY <2>1
  <2>3. Z \in {{<<k, u>>} \X (1..h[k][u]) : k \in Masters, u \in E}
    BY <2>1
  <2>4. QED
    BY <2>2, <2>3 DEF Corriendo
<1>3. QED
  BY <1>1, <1>2

LEMMA DeCorriendo ==
  ASSUME NEW h, NEW E, NEW y \in Corriendo(h, E)
  PROVE  \E m \in Masters, t \in E : \E i \in 1..h[m][t] : y = <<<<m, t>>, i>>
BY EnCorriendo

LEMMA MensajesFinitos ==
  ASSUME NEW X, NEW q \in [Masters -> Seq(X)], NEW E
  PROVE  IsFiniteSet(Mensajes(q, E)) /\ Cardinality(Mensajes(q, E)) \in Nat
<1> DEFINE c(m) == {m} \X {i \in DOMAIN q[m] : q[m][i] \in E}
           f == [m \in Masters |-> c(m)]
<1>1. ASSUME NEW m \in Masters PROVE IsFiniteSet(c(m))
  <2>1. q[m] \in Seq(X)
    OBVIOUS
  <2>2. DOMAIN q[m] = 1..Len(q[m]) /\ Len(q[m]) \in Int /\ 1 \in Int
    BY <2>1
  <2>3. IsFiniteSet(DOMAIN q[m])
    BY <2>2, FS_Interval
  <2>4. IsFiniteSet({i \in DOMAIN q[m] : q[m][i] \in E})
    BY <2>3, FS_Subset
  <2>5. IsFiniteSet({m})
    BY FS_Singleton
  <2>6. QED
    BY <2>4, <2>5, FS_Product
<1>2. f \in [Masters -> {c(m) : m \in Masters}] /\ \A m \in Masters : f[m] = c(m)
  OBVIOUS
<1>3. \A y \in Mensajes(q, E) : \E m \in Masters : y \in f[m]
  BY <1>2 DEF Mensajes
<1>4. IsFiniteSet(Masters)
  BY Parametros
<1>5. \A m \in Masters : IsFiniteSet(f[m])
  BY <1>1, <1>2
<1>6. PICK g, T : g = f /\ g \in [Masters -> T]
  BY <1>2
<1> HIDE DEF f
<1>7. \A m \in Masters : IsFiniteSet(g[m])
  BY <1>5, <1>6
<1>8. IsFiniteSet(Mensajes(q, E))
  BY <1>3, <1>4, <1>6, <1>7, UnionFinita
<1>9. QED
  BY <1>8, FS_CardinalityType

(* A queue gets one more message. *)
LEMMA MensajesAgregado ==
  ASSUME NEW X, NEW q \in [Masters -> Seq(X)], NEW E, NEW m \in Masters, NEW x \in X
  PROVE  Cardinality(Mensajes([q EXCEPT ![m] = Append(@, x)], E))
           <= Cardinality(Mensajes(q, E)) + (IF x \in E THEN 1 ELSE 0)
<1>1. PICK r : r = [q EXCEPT ![m] = Append(@, x)]
  OBVIOUS
<1>2. PICK n : n = Len(q[m]) + 1
  OBVIOUS
<1>3. /\ \A k \in Masters \ {m} : r[k] = q[k]
      /\ DOMAIN r[m] = DOMAIN q[m] \cup {n} /\ r[m][n] = x /\ \A i \in DOMAIN q[m] : r[m][i] = q[m][i]
  <2>1. q[m] \in Seq(X) /\ r[m] = Append(q[m], x)
    BY <1>1
  <2>2. QED
    BY <1>1, <1>2, <2>1
<1>4. Mensajes(r, E) \subseteq Mensajes(q, E) \cup {<<m, n>>}
  BY <1>3, EnMensajes
<1>5. x \notin E => Mensajes(r, E) \subseteq Mensajes(q, E)
  BY <1>3, EnMensajes
<1>6. PICK A, B : A = Mensajes(q, E) /\ B = Mensajes(r, E)
  OBVIOUS
<1>7. IsFiniteSet(A) /\ Cardinality(A) \in Nat
  BY <1>6, MensajesFinitos
<1>8. IsFiniteSet(A \cup {<<m, n>>}) /\ Cardinality(A \cup {<<m, n>>}) <= Cardinality(A) + 1
      /\ Cardinality(A \cup {<<m, n>>}) \in Nat
  BY <1>7, UnoMas
<1>9. IsFiniteSet(B) /\ Cardinality(B) \in Nat
  BY <1>4, <1>6, <1>8, FS_Subset, FS_CardinalityType
<1>10. CASE x \in E
  <2>1. Cardinality(B) <= Cardinality(A \cup {<<m, n>>})
    BY <1>4, <1>6, <1>8, FS_Subset
  <2>2. Cardinality(B) <= Cardinality(A) + 1
    BY <1>7, <1>8, <1>9, <2>1
  <2>3. QED
    BY <1>1, <1>6, <1>10, <2>2
<1>11. CASE x \notin E
  <2>1. Cardinality(B) <= Cardinality(A)
    BY <1>5, <1>6, <1>7, <1>11, FS_Subset
  <2>2. Cardinality(B) <= Cardinality(A) + 0
    BY <1>7, <1>9, <2>1
  <2>3. QED
    BY <1>1, <1>6, <1>11, <2>2
<1>12. QED
  BY <1>10, <1>11

(* A queue is emptied, or gets messages of another kind. *)
LEMMA MensajesOtros ==
  ASSUME NEW X, NEW q \in [Masters -> Seq(X)], NEW E, NEW m \in Masters, NEW s,
         \A i \in DOMAIN s : s[i] \notin E
  PROVE  Cardinality(Mensajes([q EXCEPT ![m] = s], E)) <= Cardinality(Mensajes(q, E))
<1>1. PICK r : r = [q EXCEPT ![m] = s]
  OBVIOUS
<1>2. r[m] = s /\ \A k \in Masters \ {m} : r[k] = q[k]
  BY <1>1
<1>3. Mensajes(r, E) \subseteq Mensajes(q, E)
  BY <1>2, EnMensajes
<1>4. IsFiniteSet(Mensajes(q, E))
  BY MensajesFinitos
<1>5. QED
  BY <1>1, <1>3, <1>4, FS_Subset

(* The first message of a queue is taken. *)
LEMMA MensajesTomado ==
  ASSUME NEW X, NEW q \in [Masters -> Seq(X)], NEW E, NEW m \in Masters, q[m] # <<>>
  PROVE  Cardinality(Mensajes([q EXCEPT ![m] = Tail(@)], E))
           <= Cardinality(Mensajes(q, E)) - (IF Head(q[m]) \in E THEN 1 ELSE 0)
<1>1. PICK r : r = [q EXCEPT ![m] = Tail(@)]
  OBVIOUS
<1>2. /\ \A k \in Masters \ {m} : r[k] = q[k]
      /\ \A i \in DOMAIN r[m] : i \in Int /\ i + 1 \in DOMAIN q[m] /\ r[m][i] = q[m][i + 1] /\ i + 1 # 1
      /\ 1 \in DOMAIN q[m] /\ Head(q[m]) = q[m][1]
  <2>1. q[m] \in Seq(X) /\ r[m] = Tail(q[m]) /\ \A k \in Masters \ {m} : r[k] = q[k]
    BY <1>1
  <2>2. PICK a : a = q[m]
    OBVIOUS
  <2>3. a \in Seq(X) /\ a # <<>>
    BY <2>1, <2>2
  <2>4. /\ \A i \in DOMAIN Tail(a) : i \in Int /\ i + 1 \in DOMAIN a /\ Tail(a)[i] = a[i + 1] /\ i + 1 # 1
        /\ 1 \in DOMAIN a /\ Head(a) = a[1]
    BY <2>3
  <2>5. QED
    BY <2>1, <2>2, <2>4
<1>3. PICK A, B : A = Mensajes(q, E) /\ B = Mensajes(r, E)
  OBVIOUS
<1> DEFINE f == [p \in B |-> IF p[1] = m THEN <<m, p[2] + 1>> ELSE p]
<1>4. ASSUME NEW p \in B PROVE f[p] \in A \ {<<m, 1>>}
  <2>1. PICK k \in Masters : \E i \in DOMAIN r[k] : p = <<k, i>> /\ r[k][i] \in E
    BY <1>3, EnMensajes
  <2>2. PICK i \in DOMAIN r[k] : p = <<k, i>> /\ r[k][i] \in E
    BY <2>1
  <2>3. CASE k = m
    <3>1. PICK j : j = i + 1
      OBVIOUS
    <3>2. f[p] = <<m, j>> /\ j \in DOMAIN q[m] /\ q[m][j] \in E /\ j # 1
      BY <1>2, <2>2, <2>3, <3>1
    <3>3. <<m, j>> \in A
      BY <1>3, <3>2, EnMensajes
    <3>4. <<m, j>> # <<m, 1>>
      BY <3>2
    <3>5. QED
      BY <3>2, <3>3, <3>4
  <2>4. CASE k # m
    <3>1. f[p] = <<k, i>> /\ i \in DOMAIN q[k] /\ q[k][i] \in E
      BY <1>2, <2>2, <2>4
    <3>2. <<k, i>> \in A
      BY <1>3, <3>1, EnMensajes
    <3>3. QED
      BY <2>4, <3>1, <3>2
  <2>5. QED
    BY <2>3, <2>4
<1>5. ASSUME NEW p \in B, NEW o \in B, f[p] = f[o] PROVE p = o
  <2>1. PICK k \in Masters, l \in Masters : /\ \E i \in DOMAIN r[k] : p = <<k, i>>
                                            /\ \E j \in DOMAIN r[l] : o = <<l, j>>
    BY <1>3, EnMensajes
  <2>2. PICK i \in DOMAIN r[k] : p = <<k, i>>
    BY <2>1
  <2>3. PICK j \in DOMAIN r[l] : o = <<l, j>>
    BY <2>1
  <2>4. f[p][1] = k /\ f[o][1] = l
    BY <2>2, <2>3
  <2>5. CASE k = m
    <3>1. f[p][2] = i + 1 /\ f[o][2] = j + 1 /\ i \in Int /\ j \in Int
      BY <1>2, <1>5, <2>2, <2>3, <2>4, <2>5
    <3>2. i = j
      BY <1>5, <3>1
    <3>3. QED
      BY <1>5, <2>2, <2>3, <2>4, <3>2
  <2>6. CASE k # m
    BY <1>5, <2>2, <2>3, <2>4, <2>6
  <2>7. QED
    BY <2>5, <2>6
<1>6. f \in Injection(B, A \ {<<m, 1>>})
  <2>1. f \in [B -> A \ {<<m, 1>>}]
    BY <1>4
  <2>2. PICK g : g = f
    OBVIOUS
  <2>3. \A p, o \in B : g[p] = g[o] => p = o
    BY <1>5, <2>2
  <2> HIDE DEF f
  <2>4. QED
    BY <2>1, <2>2, <2>3 DEF Injection, IsInjective
<1> HIDE DEF f
<1>7. IsFiniteSet(A) /\ Cardinality(A) \in Nat
  BY <1>3, MensajesFinitos
<1>8. /\ IsFiniteSet(A \ {<<m, 1>>})
      /\ Cardinality(A \ {<<m, 1>>}) = IF <<m, 1>> \in A THEN Cardinality(A) - 1 ELSE Cardinality(A)
  BY <1>7, FS_RemoveElement
<1>9. Cardinality(B) <= Cardinality(A \ {<<m, 1>>})
  BY <1>6, <1>8, FS_Injection
<1>10. Head(q[m]) \in E => <<m, 1>> \in A
  BY <1>2, <1>3, EnMensajes
<1>11. Cardinality(B) \in Nat
  BY <1>6, <1>8, FS_Injection, FS_CardinalityType
<1>12. CASE Head(q[m]) \in E
  <2>1. Cardinality(B) <= Cardinality(A) - 1
    BY <1>8, <1>9, <1>10, <1>12
  <2>2. QED
    BY <1>1, <1>3, <1>12, <2>1
<1>13. CASE Head(q[m]) \notin E
  <2>1. Cardinality(B) <= Cardinality(A) - 0
    BY <1>7, <1>8, <1>9, <1>11
  <2>2. QED
    BY <1>1, <1>3, <1>13, <2>1
<1>14. QED
  BY <1>12, <1>13

(* Threads. *)
LEMMA TareasFinitas ==
  /\ TareasRG \in SUBSET Tarea /\ IsFiniteSet(TareasRG)
  /\ \A b \in Bloques : TareasDe(b) \in SUBSET Tarea /\ IsFiniteSet(TareasDe(b))
<1>1. IsFiniteSet(Nodos \X Jobs)
  <2>1. IsFiniteSet(Jobs)
    <3>1. 0 \in Int /\ 1 \in Int
      OBVIOUS
    <3>2. QED
      BY <3>1, FS_Interval DEF Jobs
  <2>2. QED
    BY <2>1, Parametros, FS_Product
<1>2. IsFiniteSet(TareasRG)
  <2> DEFINE f == [p \in Nodos \X Jobs |-> [etapa |-> "RG", nodo |-> p[1], job |-> p[2]]]
  <2>1. f \in [Nodos \X Jobs -> TareasRG]
    BY DEF TareasRG
  <2>2. \A t \in TareasRG : f[<<t.nodo, t.job>>] = t /\ <<t.nodo, t.job>> \in Nodos \X Jobs
    BY DEF TareasRG
  <2> HIDE DEF f
  <2>3. f \in Surjection(Nodos \X Jobs, TareasRG)
    BY <2>1, <2>2 DEF Surjection
  <2>4. QED
    BY <1>1, <2>3, FS_Surjection
<1>3. ASSUME NEW b \in Bloques PROVE IsFiniteSet(TareasDe(b))
  <2> DEFINE f == [p \in Nodos \X Jobs |->
                     [etapa |-> "T", nodo |-> p[1], job |-> p[2], bloque |-> b]]
  <2>1. f \in [Nodos \X Jobs -> TareasDe(b)]
    BY DEF TareasDe
  <2>2. \A t \in TareasDe(b) : f[<<t.nodo, t.job>>] = t /\ <<t.nodo, t.job>> \in Nodos \X Jobs
    BY DEF TareasDe
  <2> HIDE DEF f
  <2>3. f \in Surjection(Nodos \X Jobs, TareasDe(b))
    BY <2>1, <2>2 DEF Surjection
  <2>4. QED
    BY <1>1, <2>3, FS_Surjection
<1>4. TareasRG \in SUBSET Tarea /\ \A b \in Bloques : TareasDe(b) \in SUBSET Tarea
  BY DEF TareasRG, TareasDe, Tarea, TareaT
<1>5. QED
  BY <1>2, <1>3, <1>4

LEMMA CorriendoFinito ==
  ASSUME NEW h \in [Masters -> [Tarea -> Nat]], NEW E \in SUBSET Tarea, IsFiniteSet(E)
  PROVE  IsFiniteSet(Corriendo(h, E)) /\ Cardinality(Corriendo(h, E)) \in Nat
<1> DEFINE P == Masters \X E
           f == [p \in P |-> {p} \X (1..h[p[1]][p[2]])]
<1>1. IsFiniteSet(P)
  BY Parametros, FS_Product
<1>2. ASSUME NEW p \in P PROVE IsFiniteSet(f[p])
  <2>1. PICK n \in Nat : n = h[p[1]][p[2]]
    OBVIOUS
  <2>2. 1 \in Int /\ n \in Int
    OBVIOUS
  <2>3. IsFiniteSet(1..n)
    BY <2>2, FS_Interval
  <2>4. IsFiniteSet({p})
    BY FS_Singleton
  <2>5. f[p] = {p} \X (1..n)
    BY <2>1
  <2>6. QED
    BY <2>3, <2>4, <2>5, FS_Product
<1>3. \A y \in Corriendo(h, E) : \E p \in P : y \in f[p]
  <2> SUFFICES ASSUME NEW y \in Corriendo(h, E) PROVE \E p \in P : y \in f[p]
    OBVIOUS
  <2>1. PICK m \in Masters, t \in E : \E i \in 1..h[m][t] : y = <<<<m, t>>, i>>
    BY EnCorriendo
  <2>2. PICK p \in P : p = <<m, t>>
    OBVIOUS
  <2>3. y \in {p} \X (1..h[p[1]][p[2]])
    BY <2>1, <2>2
  <2>4. QED
    BY <2>3
<1>4. PICK g, T : g = f /\ g \in [P -> T]
  <2>1. f \in [P -> {f[p] : p \in P}]
    OBVIOUS
  <2>2. QED
    BY <2>1
<1> HIDE DEF f, P
<1>5. \A p \in P : IsFiniteSet(g[p])
  BY <1>2, <1>4
<1>6. IsFiniteSet(Corriendo(h, E))
  BY <1>1, <1>3, <1>4, <1>5, UnionFinita
<1>7. QED
  BY <1>6, FS_CardinalityType

(* Threads are started for the tasks T. *)
LEMMA CorriendoLanzado ==
  ASSUME NEW h \in [Masters -> [Tarea -> Nat]], NEW E \in SUBSET Tarea, IsFiniteSet(E),
         NEW m \in Masters, NEW T, NEW r,
         \A k \in Masters, t \in Tarea : r[k][t] = h[k][t] + IF k = m /\ t \in T THEN 1 ELSE 0
  PROVE  /\ T \cap E = {} => Cardinality(Corriendo(r, E)) <= Cardinality(Corriendo(h, E))
         /\ (\A t, u \in T \cap E : t = u)
              => Cardinality(Corriendo(r, E)) <= Cardinality(Corriendo(h, E)) + 1
<1>1. ASSUME NEW k \in Masters, NEW t \in Tarea, k # m \/ t \notin T PROVE r[k][t] = h[k][t]
  <2>1. h[k][t] \in Nat /\ r[k][t] = h[k][t] + 0
    BY <1>1
  <2>2. QED
    BY <2>1
<1>2. /\ IsFiniteSet(Corriendo(h, E)) /\ Cardinality(Corriendo(h, E)) \in Nat
  BY CorriendoFinito
<1>3. ASSUME T \cap E = {}
      PROVE  Corriendo(r, E) \subseteq Corriendo(h, E)
  <2> SUFFICES ASSUME NEW y \in Corriendo(r, E) PROVE y \in Corriendo(h, E)
    OBVIOUS
  <2>1. PICK k \in Masters, t \in E : \E i \in 1..r[k][t] : y = <<<<k, t>>, i>>
    BY DeCorriendo
  <2>2. h[k][t] \in Nat /\ r[k][t] = h[k][t]
    BY <1>1, <1>3
  <2>3. QED
    BY <2>1, <2>2, EnCorriendo
<1>4. ASSUME NEW x \in T \cap E, \A t \in T \cap E : t = x
      PROVE  Corriendo(r, E) \subseteq Corriendo(h, E) \cup {<<<<m, x>>, h[m][x] + 1>>}
  <2> SUFFICES ASSUME NEW y \in Corriendo(r, E), y \notin Corriendo(h, E)
               PROVE  y = <<<<m, x>>, h[m][x] + 1>>
    OBVIOUS
  <2>1. PICK k \in Masters, t \in E : \E i \in 1..r[k][t] : y = <<<<k, t>>, i>>
    BY DeCorriendo
  <2>2. PICK i \in 1..r[k][t] : y = <<<<k, t>>, i>>
    BY <2>1
  <2>3. i \notin 1..h[k][t]
    BY <2>2, EnCorriendo
  <2>4. h[k][t] \in Nat
    OBVIOUS
  <2>5. k = m /\ t \in T
    BY <1>1, <2>2, <2>3, <2>4
  <2>6. t = x /\ r[m][x] = h[m][x] + 1
    BY <1>1, <1>4, <2>5
  <2>7. i = h[m][x] + 1
    BY <2>2, <2>3, <2>4, <2>5, <2>6
  <2>8. QED
    BY <2>2, <2>5, <2>6, <2>7
<1>5. ASSUME T \cap E = {}
      PROVE  /\ Cardinality(Corriendo(r, E)) <= Cardinality(Corriendo(h, E))
             /\ Cardinality(Corriendo(r, E)) <= Cardinality(Corriendo(h, E)) + 1
  <2>1. /\ Cardinality(Corriendo(r, E)) <= Cardinality(Corriendo(h, E))
        /\ Cardinality(Corriendo(r, E)) \in Nat
    BY <1>2, <1>3, <1>5, FS_Subset, FS_CardinalityType
  <2>2. QED
    BY <1>2, <2>1
<1>6. ASSUME NEW x \in T \cap E, \A t \in T \cap E : t = x
      PROVE  Cardinality(Corriendo(r, E)) <= Cardinality(Corriendo(h, E)) + 1
  <2>1. PICK z : z = <<<<m, x>>, h[m][x] + 1>>
    OBVIOUS
  <2>2. PICK A, B : A = Corriendo(h, E) /\ B = Corriendo(r, E)
    OBVIOUS
  <2>3. /\ IsFiniteSet(A \cup {z}) /\ Cardinality(A \cup {z}) \in Nat
        /\ Cardinality(A \cup {z}) <= Cardinality(A) + 1 /\ Cardinality(A) \in Nat
    BY <1>2, <2>2, UnoMas
  <2>4. B \subseteq A \cup {z}
    BY <1>4, <1>6, <2>1, <2>2
  <2>5. Cardinality(B) <= Cardinality(A \cup {z}) /\ Cardinality(B) \in Nat
    BY <2>3, <2>4, FS_Subset, FS_CardinalityType
  <2>6. Cardinality(B) <= Cardinality(A) + 1
    BY <2>3, <2>5
  <2>7. QED
    BY <2>2, <2>6
<1>7. QED
  BY <1>5, <1>6

(* A thread ends. *)
LEMMA CorriendoTerminado ==
  ASSUME NEW h \in [Masters -> [Tarea -> Nat]], NEW E \in SUBSET Tarea, IsFiniteSet(E),
         NEW m \in Masters, NEW x \in Tarea, h[m][x] > 0, NEW r,
         \A k \in Masters, t \in Tarea : r[k][t] = h[k][t] - IF k = m /\ t = x THEN 1 ELSE 0
  PROVE  /\ Cardinality(Corriendo(r, E)) <= Cardinality(Corriendo(h, E))
         /\ x \in E => Cardinality(Corriendo(r, E)) + 1 <= Cardinality(Corriendo(h, E))
<1>1. PICK n \in Nat : n = h[m][x]
  OBVIOUS
<1>2. /\ \A k \in Masters, t \in Tarea : k # m \/ t # x => r[k][t] = h[k][t]
      /\ r[m][x] = n - 1
  BY <1>1
<1>3. PICK z : z = <<<<m, x>>, n>>
  OBVIOUS
<1>4. PICK A, B : A = Corriendo(h, E) /\ B = Corriendo(r, E)
  OBVIOUS
<1>5. B \subseteq A \ {z}
  <2> SUFFICES ASSUME NEW y \in B PROVE y \in A /\ y # z
    OBVIOUS
  <2>1. PICK k \in Masters, t \in E : \E i \in 1..r[k][t] : y = <<<<k, t>>, i>>
    BY <1>4, DeCorriendo
  <2>2. PICK i \in 1..r[k][t] : y = <<<<k, t>>, i>>
    BY <2>1
  <2>3. h[k][t] \in Nat
    OBVIOUS
  <2>4. i \in 1..h[k][t] /\ (k = m /\ t = x => i # n)
    BY <1>1, <1>2, <2>2, <2>3
  <2>5. y \in A
    BY <1>4, <2>2, <2>4, EnCorriendo
  <2>6. QED
    BY <1>3, <2>2, <2>4, <2>5
<1>6. x \in E => z \in A
  <2>1. n \in 1..h[m][x]
    BY <1>1
  <2>2. QED
    BY <1>3, <1>4, <2>1, EnCorriendo
<1>7. IsFiniteSet(A) /\ Cardinality(A) \in Nat
  BY <1>4, CorriendoFinito
<1>8. /\ IsFiniteSet(A \ {z})
      /\ Cardinality(A \ {z}) = IF z \in A THEN Cardinality(A) - 1 ELSE Cardinality(A)
  BY <1>7, FS_RemoveElement
<1>9. Cardinality(B) <= Cardinality(A \ {z}) /\ Cardinality(B) \in Nat
  BY <1>5, <1>8, FS_Subset, FS_CardinalityType
<1>10. Cardinality(B) <= Cardinality(A) /\ (x \in E => Cardinality(B) + 1 <= Cardinality(A))
  BY <1>6, <1>7, <1>8, <1>9
<1>11. QED
  BY <1>4, <1>10

(* The threads of a master end with it. *)
LEMMA CorriendoVacio ==
  ASSUME NEW h \in [Masters -> [Tarea -> Nat]], NEW E \in SUBSET Tarea, IsFiniteSet(E),
         NEW m \in Masters, NEW r,
         \A k \in Masters, t \in Tarea : r[k][t] = IF k = m THEN 0 ELSE h[k][t]
  PROVE  Cardinality(Corriendo(r, E)) <= Cardinality(Corriendo(h, E))
<1>2. ASSUME NEW y \in Corriendo(r, E) PROVE y \in Corriendo(h, E)
  <2>1. PICK k \in Masters, t \in E : \E i \in 1..r[k][t] : y = <<<<k, t>>, i>>
    BY DeCorriendo
  <2>2. k # m
    BY <2>1
  <2>3. r[k][t] = h[k][t]
    BY <2>2
  <2>4. QED
    BY <2>1, <2>3, EnCorriendo
<1>3. IsFiniteSet(Corriendo(h, E))
  BY CorriendoFinito
<1>4. QED
  BY <1>2, <1>3, FS_Subset

(* Records of the table. *)
LEMMA PosFinitas ==
  ASSUME NEW t \in Seq(Registro), NEW R
  PROVE  IsFiniteSet(Posiciones(t, R)) /\ Cardinality(Posiciones(t, R)) \in Nat
BY Finitas DEF Posiciones

LEMMA PosMonotona ==
  ASSUME NEW t \in Seq(Registro), NEW u \in Seq(Registro), NEW R,
         \A j \in DOMAIN t : t[j] \in R => j \in DOMAIN u /\ u[j] \in R
  PROVE  Cardinality(Posiciones(t, R)) <= Cardinality(Posiciones(u, R))
<1>1. Posiciones(t, R) \subseteq Posiciones(u, R)
  BY DEF Posiciones
<1>2. QED
  BY <1>1, PosFinitas, FS_Subset

LEMMA PosMasUna ==
  ASSUME NEW t \in Seq(Registro), NEW u \in Seq(Registro), NEW R,
         \A j \in DOMAIN t : t[j] \in R => j \in DOMAIN u /\ u[j] \in R,
         NEW k \in DOMAIN u, k \notin DOMAIN t, u[k] \in R
  PROVE  Cardinality(Posiciones(t, R)) + 1 <= Cardinality(Posiciones(u, R))
<1>1. PICK A, B : A = Posiciones(t, R) /\ B = Posiciones(u, R)
  OBVIOUS
<1>2. A \cup {k} \subseteq B /\ k \notin A
  BY <1>1 DEF Posiciones
<1>3. IsFiniteSet(A) /\ IsFiniteSet(B)
  BY <1>1, PosFinitas
<1>4. Cardinality(A \cup {k}) = Cardinality(A) + 1
  BY <1>2, <1>3, UnoMas
<1>5. Cardinality(A \cup {k}) <= Cardinality(B)
  BY <1>2, <1>3, FS_Subset
<1>6. QED
  BY <1>1, <1>4, <1>5

LEMMA PosMenosUna ==
  ASSUME NEW t \in Seq(Registro), NEW u \in Seq(Registro), NEW R, NEW k,
         \A j \in DOMAIN t \ {k} : t[j] \in R => j \in DOMAIN u /\ u[j] \in R
  PROVE  Cardinality(Posiciones(t, R)) - 1 <= Cardinality(Posiciones(u, R))
<1>1. PICK A, B : A = Posiciones(t, R) /\ B = Posiciones(u, R)
  OBVIOUS
<1>2. A \subseteq B \cup {k}
  BY <1>1 DEF Posiciones
<1>3. /\ IsFiniteSet(A) /\ IsFiniteSet(B)
      /\ Cardinality(A) \in Nat /\ Cardinality(B) \in Nat
  BY <1>1, PosFinitas
<1>4. /\ IsFiniteSet(B \cup {k}) /\ Cardinality(B \cup {k}) \in Nat
      /\ Cardinality(B \cup {k}) <= Cardinality(B) + 1
  BY <1>3, UnoMas
<1>5. Cardinality(A) <= Cardinality(B \cup {k})
  BY <1>2, <1>4, FS_Subset
<1>6. Cardinality(A) - 1 <= Cardinality(B)
  BY <1>3, <1>4, <1>5
<1>7. QED
  BY <1>1, <1>6

LEMMA PosAgregada ==
  ASSUME NEW t \in Seq(Registro), NEW x \in Registro, NEW R
  PROVE  /\ x \in R => Cardinality(Posiciones(Append(t, x), R)) = Cardinality(Posiciones(t, R)) + 1
         /\ x \notin R => Cardinality(Posiciones(Append(t, x), R)) = Cardinality(Posiciones(t, R))
<1>1. PICK u, n : u = Append(t, x) /\ n = Len(t) + 1
  OBVIOUS
<1>2. /\ DOMAIN u = 1..n /\ u[n] = x /\ \A i \in DOMAIN t : u[i] = t[i]
  BY <1>1, Agregada
<1>3. DOMAIN u = DOMAIN t \cup {n} /\ n \notin DOMAIN t
  BY <1>1, <1>2
<1>4. PICK A, B : A = Posiciones(t, R) /\ B = Posiciones(u, R)
  OBVIOUS
<1>5. n \notin A /\ (x \in R => B = A \cup {n}) /\ (x \notin R => B = A)
  BY <1>2, <1>3, <1>4 DEF Posiciones
<1>6. IsFiniteSet(A)
  BY <1>4, PosFinitas
<1>7. Cardinality(A \cup {n}) = Cardinality(A) + 1
  BY <1>5, <1>6, UnoMas
<1>8. QED
  BY <1>1, <1>4, <1>5, <1>7

-----------------------------------------------------------------------------
(* Only transformations have a second node. *)
LEMMA PasoSinOtra ==
  ASSUME TypeOK, SinOtra, [Next]_vars PROVE SinOtra'
<1>1. tabla \in Seq(Registro)
  BY DEF TypeOK
<1>2. ASSUME NEW k \in DOMAIN tabla, NEW e \in {"ERROR", "FINALIZADOOK"}
      PROVE  \A j \in DOMAIN Marcada(k, e) : Marcada(k, e)[j].etapa # "T" => Marcada(k, e)[j].otra = Ninguno
  <2>1. PICK u : u = Marcada(k, e)
    OBVIOUS
  <2>2. PICK x : x = [tabla[k] EXCEPT !.estado = e]
    OBVIOUS
  <2>3. u = [tabla EXCEPT ![k] = x]
    BY <1>1, <2>1, <2>2 DEF Marcada
  <2>4. x.etapa = tabla[k].etapa /\ x.otra = tabla[k].otra
    BY <1>1, <2>2 DEF Registro
  <2>5. \A j \in DOMAIN u : u[j].etapa # "T" => u[j].otra = Ninguno
    BY <1>1, <2>3, <2>4 DEF SinOtra
  <2>6. QED
    BY <2>1, <2>5
<1>3. ASSUME NEW k \in DOMAIN tabla, NEW e \in {"ERROR", "FINALIZADOOK"}, Marca(k, e)
      PROVE  SinOtra'
  BY <1>2, <1>3 DEF Marca, SinOtra
<1>4. ASSUME NEW k \in DOMAIN tabla, NEW etapa, NEW tipo, MarcaYAgrega(k, etapa, tipo)
      PROVE  SinOtra'
  <2>1. PICK u : u = Marcada(k, "FINALIZADOOK")
    OBVIOUS
  <2>2. u \in Seq(Registro) /\ \A j \in DOMAIN u : u[j].etapa # "T" => u[j].otra = Ninguno
    BY <1>2, <2>1, Marcado
  <2>3. PICK x \in Registro : tabla' = Append(u, x) /\ x.otra = Ninguno
    BY <1>4, <2>1 DEF MarcaYAgrega
  <2>4. PICK v, n : v = Append(u, x) /\ n = Len(u) + 1
    OBVIOUS
  <2>5. DOMAIN v = 1..n /\ v[n] = x /\ \A i \in DOMAIN u : v[i] = u[i]
    BY <2>2, <2>4, Agregada
  <2>6. DOMAIN v = DOMAIN u \cup {n}
    BY <2>2, <2>4, <2>5
  <2>7. \A j \in DOMAIN v : v[j].etapa # "T" => v[j].otra = Ninguno
    BY <2>2, <2>3, <2>5, <2>6
  <2>8. QED
    BY <2>3, <2>4, <2>7 DEF SinOtra
<1>5. CASE tabla' = tabla
  BY <1>5 DEF SinOtra
<1>6. CASE RecibirBloques
  <2>1. PICK m \in Masters, job \in Jobs, nodo \in [Bloques -> Nodos], otra \in [Bloques -> Nodos] :
          tabla' = tabla \o Nuevos(m, job, nodo, otra)
    BY <1>6, AlPlanificar
  <2>2. PICK n : n = Nuevos(m, job, nodo, otra)
    OBVIOUS
  <2>3. n \in Seq(Registro) /\ \A i \in DOMAIN n : n[i].etapa = "T"
    BY <2>2, SonNuevos DEF Nuevos
  <2>4. PICK v : v = tabla \o n
    OBVIOUS
  <2>5. \A j \in DOMAIN v : v[j].etapa # "T" => v[j].otra = Ninguno
    BY <1>1, <2>3, <2>4 DEF SinOtra
  <2>6. QED
    BY <2>1, <2>2, <2>4, <2>5 DEF SinOtra
<1>7. ASSUME NEW m \in Masters, FinTransformacionOk(m) PROVE SinOtra'
  BY <1>3, <1>4, <1>5, <1>7, EfectoTOk DEF EnProceso
<1>8. ASSUME NEW m \in Masters, FinTransformacionMal(m) PROVE SinOtra'
  <2>1. CASE UNCHANGED <<tabla, bandeja>>
    BY <1>5, <2>1
  <2>2. ASSUME NEW k \in EnProceso(Head(aYama[m]).tarea.bloque, Head(aYama[m]).tarea.job),
               Marca(k, "ERROR")
        PROVE  SinOtra'
    BY <1>3, <2>2 DEF EnProceso
  <2>3. ASSUME NEW k \in EnProceso(Head(aYama[m]).tarea.bloque, Head(aYama[m]).tarea.job),
               tabla' = [tabla EXCEPT ![k].etapa = "T", ![k].nodo = tabla[k].otra,
                                      ![k].otra = tabla[k].nodo]
        PROVE  SinOtra'
    <3>1. k \in DOMAIN tabla
      BY DEF EnProceso
    <3>2. PICK x : x = [tabla[k] EXCEPT !.etapa = "T", !.nodo = tabla[k].otra,
                                        !.otra = tabla[k].nodo]
      OBVIOUS
    <3>3. x.etapa = "T"
      BY <1>1, <3>1, <3>2 DEF Registro
    <3>4. tabla' = [tabla EXCEPT ![k] = x]
      BY <1>1, <2>3, <3>1, <3>2
    <3>5. QED
      BY <1>1, <3>1, <3>3, <3>4 DEF SinOtra
  <2>4. QED
    BY <1>8, <2>1, <2>2, <2>3, EfectoTMal
<1>9. ASSUME NEW m \in Masters, FinReduccionLocalOk(m) PROVE SinOtra'
  BY <1>3, <1>4, <1>5, <1>9, EfectoRLOk
<1>10. ASSUME NEW m \in Masters, FinReduccionGlobalOk(m) PROVE SinOtra'
  BY <1>4, <1>5, <1>10, EfectoRGOk
<1>11. ASSUME NEW m \in Masters, FinReduccionLocalMal(m) \/ FinReduccionGlobalMal(m)
       PROVE  SinOtra'
  BY <1>3, <1>5, <1>11, EfectoAbortar
<1>12. QED
  BY <1>5, <1>6, <1>7, <1>8, <1>9, <1>10, <1>11, LosDemas DEF EsFin

-----------------------------------------------------------------------------
(* The counts of messages after a step.                                      *)
LEMMA CuentaEnviado ==
  ASSUME TypeOK, NEW n \in Masters, NEW msg \in Solicitud, Enviar(n, msg), NEW E
  PROVE  /\ Cardinality(Mensajes(bandeja', E)) <= Cardinality(Mensajes(bandeja, E)) + 1
         /\ msg \notin E => Cardinality(Mensajes(bandeja', E)) <= Cardinality(Mensajes(bandeja, E))
<1>1. PICK q, r : q = bandeja /\ r = bandeja'
  OBVIOUS
<1>2. q \in [Masters -> Seq(Solicitud)] /\ (r = q \/ r = [q EXCEPT ![n] = Append(@, msg)])
  BY <1>1 DEF TypeOK, Enviar
<1>3. Cardinality(Mensajes(q, E)) \in Nat
  BY <1>2, MensajesFinitos
<1>4. PICK s : s = [q EXCEPT ![n] = Append(@, msg)]
  OBVIOUS
<1>5. Cardinality(Mensajes(s, E)) <= Cardinality(Mensajes(q, E)) + (IF msg \in E THEN 1 ELSE 0)
  BY <1>2, <1>4, MensajesAgregado
<1>6. Cardinality(Mensajes(s, E)) \in Nat
  <2>1. Append(q[n], msg) \in Seq(Solicitud)
    BY <1>2, Agregada
  <2>2. s \in [Masters -> Seq(Solicitud)]
    BY <1>2, <1>4, <2>1
  <2>3. QED
    BY <2>2, MensajesFinitos
<1>7. /\ Cardinality(Mensajes(s, E)) <= Cardinality(Mensajes(q, E)) + 1
      /\ msg \notin E => Cardinality(Mensajes(s, E)) <= Cardinality(Mensajes(q, E))
  BY <1>3, <1>5, <1>6
<1>8. CASE r = q
  BY <1>1, <1>3, <1>8
<1>9. CASE r = s
  BY <1>1, <1>7, <1>9
<1>10. QED
  BY <1>2, <1>4, <1>8, <1>9

LEMMA Tomado ==
  ASSUME NEW X, NEW q \in [Masters -> Seq(X)], NEW m \in Masters, q[m] # <<>>, NEW E,
         NEW r, r = [q EXCEPT ![m] = Tail(@)]
  PROVE  /\ Cardinality(Mensajes(r, E)) <= Cardinality(Mensajes(q, E))
         /\ Head(q[m]) \in E => Cardinality(Mensajes(r, E)) + 1 <= Cardinality(Mensajes(q, E))
<1>1. Cardinality(Mensajes(q, E)) \in Nat
  BY MensajesFinitos
<1>2. Cardinality(Mensajes(r, E)) <= Cardinality(Mensajes(q, E)) - (IF Head(q[m]) \in E THEN 1 ELSE 0)
  BY MensajesTomado
<1>3. Cardinality(Mensajes(r, E)) \in Nat
  <2>1. Tail(q[m]) \in Seq(X)
    BY ColaDe
  <2>2. r \in [Masters -> Seq(X)]
    BY <2>1
  <2>3. QED
    BY <2>2, MensajesFinitos
<1>4. QED
  BY <1>1, <1>2, <1>3

LEMMA CuentaLeido ==
  ASSUME TypeOK, NEW m \in Masters, NEW tipo, Recibe(m, tipo), NEW E
  PROVE  /\ Cardinality(Mensajes(aYama', E)) <= Cardinality(Mensajes(aYama, E))
         /\ Head(aYama[m]) \in E
              => Cardinality(Mensajes(aYama', E)) + 1 <= Cardinality(Mensajes(aYama, E))
<1>1. PICK q, r : q = aYama /\ r = aYama'
  OBVIOUS
<1>2. q \in [Masters -> Seq(Aviso)] /\ q[m] # <<>> /\ r = [q EXCEPT ![m] = Tail(@)]
  BY <1>1 DEF TypeOK, Recibe
<1>3. /\ Cardinality(Mensajes(r, E)) <= Cardinality(Mensajes(q, E))
      /\ Head(q[m]) \in E => Cardinality(Mensajes(r, E)) + 1 <= Cardinality(Mensajes(q, E))
  BY <1>2, Tomado
<1>4. QED
  BY <1>1, <1>3

LEMMA CuentaAtendido ==
  ASSUME TypeOK, NEW m \in Masters, NEW tipo, MasterRecibe(m, tipo), Atendido(m), NEW E
  PROVE  /\ Cardinality(Mensajes(bandeja', E)) <= Cardinality(Mensajes(bandeja, E))
         /\ Head(bandeja[m]) \in E
              => Cardinality(Mensajes(bandeja', E)) + 1 <= Cardinality(Mensajes(bandeja, E))
<1>1. PICK q, r : q = bandeja /\ r = bandeja'
  OBVIOUS
<1>2. q \in [Masters -> Seq(Solicitud)] /\ q[m] # <<>> /\ r = [q EXCEPT ![m] = Tail(@)]
  BY <1>1 DEF TypeOK, MasterRecibe, Atendido
<1>3. /\ Cardinality(Mensajes(r, E)) <= Cardinality(Mensajes(q, E))
      /\ Head(q[m]) \in E => Cardinality(Mensajes(r, E)) + 1 <= Cardinality(Mensajes(q, E))
  BY <1>2, Tomado
<1>4. QED
  BY <1>1, <1>3

(* What the process of a master loses when it ends. *)
LEMMA CuentaTerminar ==
  ASSUME TypeOK, NEW m \in Masters, Terminar(m), NEW E, NEW F \in SUBSET Tarea, IsFiniteSet(F)
  PROVE  /\ Cardinality(Mensajes(bandeja', E)) <= Cardinality(Mensajes(bandeja, E))
         /\ Cardinality(Corriendo(hilos', F)) <= Cardinality(Corriendo(hilos, F))
<1>1. Cardinality(Mensajes(bandeja', E)) <= Cardinality(Mensajes(bandeja, E))
  <2>1. PICK q, r : q = bandeja /\ r = bandeja'
    OBVIOUS
  <2>2. q \in [Masters -> Seq(Solicitud)] /\ r = [q EXCEPT ![m] = <<>>]
    BY <2>1 DEF TypeOK, Terminar
  <2>3. \A i \in DOMAIN <<>> : <<>>[i] \notin E
    OBVIOUS
  <2>4. Cardinality(Mensajes(r, E)) <= Cardinality(Mensajes(q, E))
    BY <2>2, <2>3, MensajesOtros
  <2>5. QED
    BY <2>1, <2>4
<1>2. Cardinality(Corriendo(hilos', F)) <= Cardinality(Corriendo(hilos, F))
  <2>1. PICK h, r : h = hilos /\ r = hilos'
    OBVIOUS
  <2>2. h \in [Masters -> [Tarea -> Nat]]
        /\ \A k \in Masters, t \in Tarea : r[k][t] = IF k = m THEN 0 ELSE h[k][t]
    BY <2>1 DEF TypeOK, Terminar, SinHilos
  <2>3. Cardinality(Corriendo(r, F)) <= Cardinality(Corriendo(h, F))
    BY <2>2, CorriendoVacio
  <2>4. QED
    BY <2>1, <2>3
<1>3. QED
  BY <1>1, <1>2

LEMMA CuentaLanzado ==
  ASSUME TypeOK, NEW m \in Masters, NEW T, NuevosHilos(m, T),
         NEW F \in SUBSET Tarea, IsFiniteSet(F)
  PROVE  /\ T \cap F = {} => Cardinality(Corriendo(hilos', F)) <= Cardinality(Corriendo(hilos, F))
         /\ (\A t, u \in T \cap F : t = u)
              => Cardinality(Corriendo(hilos', F)) <= Cardinality(Corriendo(hilos, F)) + 1
<1>1. PICK h, r : h = hilos /\ r = hilos'
  OBVIOUS
<1>2. h \in [Masters -> [Tarea -> Nat]]
  BY <1>1 DEF TypeOK
<1>3. r = [h EXCEPT ![m] = [t \in Tarea |-> @[t] + IF t \in T THEN 1 ELSE 0]]
  BY <1>1 DEF NuevosHilos
<1>4. \A k \in Masters, t \in Tarea : r[k][t] = h[k][t] + IF k = m /\ t \in T THEN 1 ELSE 0
  <2>1. \A k \in Masters, t \in Tarea : h[k][t] \in Nat
    BY <1>2
  <2>2. ASSUME NEW k \in Masters, NEW t \in Tarea, k # m PROVE r[k][t] = h[k][t]
    BY <1>2, <1>3, <2>2
  <2>3. ASSUME NEW t \in Tarea PROVE r[m][t] = h[m][t] + IF t \in T THEN 1 ELSE 0
    BY <1>2, <1>3
  <2>4. QED
    BY <2>1, <2>2, <2>3
<1>5. /\ T \cap F = {} => Cardinality(Corriendo(r, F)) <= Cardinality(Corriendo(h, F))
      /\ (\A t, u \in T \cap F : t = u)
           => Cardinality(Corriendo(r, F)) <= Cardinality(Corriendo(h, F)) + 1
  BY <1>2, <1>4, CorriendoLanzado
<1>6. QED
  BY <1>1, <1>5

LEMMA CuentaTerminado ==
  ASSUME TypeOK, NEW m \in Masters, NEW t \in Tarea, hilos[m][t] > 0,
         hilos' = [hilos EXCEPT ![m][t] = @ - 1], NEW F \in SUBSET Tarea, IsFiniteSet(F)
  PROVE  /\ Cardinality(Corriendo(hilos', F)) <= Cardinality(Corriendo(hilos, F))
         /\ t \in F => Cardinality(Corriendo(hilos', F)) + 1 <= Cardinality(Corriendo(hilos, F))
<1>1. PICK h, r : h = hilos /\ r = hilos'
  OBVIOUS
<1>2. h \in [Masters -> [Tarea -> Nat]] /\ h[m][t] > 0 /\ r = [h EXCEPT ![m][t] = @ - 1]
  BY <1>1 DEF TypeOK
<1>3. \A k \in Masters, u \in Tarea : r[k][u] = h[k][u] - IF k = m /\ u = t THEN 1 ELSE 0
  <2>1. \A k \in Masters, u \in Tarea : h[k][u] \in Nat
    BY <1>2
  <2>2. \A k \in Masters, u \in Tarea : k # m \/ u # t => r[k][u] = h[k][u]
    BY <1>2
  <2>3. r[m][t] = h[m][t] - 1
    BY <1>2
  <2>4. QED
    BY <2>1, <2>2, <2>3
<1>4. /\ Cardinality(Corriendo(r, F)) <= Cardinality(Corriendo(h, F))
      /\ t \in F => Cardinality(Corriendo(r, F)) + 1 <= Cardinality(Corriendo(h, F))
  BY <1>2, <1>3, CorriendoTerminado
<1>5. QED
  BY <1>1, <1>4

LEMMA CuentaAvisado ==
  ASSUME TypeOK, NEW n \in Masters, NEW x \in Aviso,
         aYama' = [aYama EXCEPT ![n] = Append(@, x)], NEW E
  PROVE  /\ Cardinality(Mensajes(aYama', E)) <= Cardinality(Mensajes(aYama, E)) + 1
         /\ x \notin E => Cardinality(Mensajes(aYama', E)) <= Cardinality(Mensajes(aYama, E))
<1>1. PICK q, r : q = aYama /\ r = aYama'
  OBVIOUS
<1>2. q \in [Masters -> Seq(Aviso)] /\ r = [q EXCEPT ![n] = Append(@, x)]
  BY <1>1 DEF TypeOK
<1>3. Cardinality(Mensajes(q, E)) \in Nat
  BY <1>2, MensajesFinitos
<1>4. Cardinality(Mensajes(r, E)) <= Cardinality(Mensajes(q, E)) + (IF x \in E THEN 1 ELSE 0)
  BY <1>2, MensajesAgregado
<1>5. Cardinality(Mensajes(r, E)) \in Nat
  <2>1. Append(q[n], x) \in Seq(Aviso)
    BY <1>2, Agregada
  <2>2. r \in [Masters -> Seq(Aviso)]
    BY <1>2, <2>1
  <2>3. QED
    BY <2>2, MensajesFinitos
<1>6. /\ Cardinality(Mensajes(r, E)) <= Cardinality(Mensajes(q, E)) + 1
      /\ x \notin E => Cardinality(Mensajes(r, E)) <= Cardinality(Mensajes(q, E))
  BY <1>3, <1>4, <1>5
<1>7. QED
  BY <1>1, <1>6

-----------------------------------------------------------------------------
(* What there is of a kind of task on its way: asked for and not read (P),   *)
(* ended and not read, and running (F).                                      *)
LEMMA CuentasNaturales ==
  ASSUME NEW q \in [Masters -> Seq(Solicitud)], NEW a \in [Masters -> Seq(Aviso)],
         NEW h \in [Masters -> [Tarea -> Nat]],
         NEW P, NEW F \in SUBSET Tarea, IsFiniteSet(F)
  PROVE  /\ Cardinality(Mensajes(q, P)) \in Nat
         /\ Cardinality(Mensajes(a, Noticias(F))) \in Nat
         /\ Cardinality(Corriendo(h, F)) \in Nat
BY MensajesFinitos, CorriendoFinito

EnViaje(q, a, h, P, F) ==
  Cardinality(Mensajes(q, P)) + Cardinality(Mensajes(a, Noticias(F)))
    + Cardinality(Corriendo(h, F))

(* The threads a message starts were counted with it. *)
Lanza(P, F) ==
  \A m \in Masters : bandeja[m] # <<>> =>
    LET s == Head(bandeja[m])
    IN /\ s.tipo = "T" => \/ s.tareas \cap F = {}
                          \/ s \in P /\ \A t, u \in s.tareas \cap F : t = u
       /\ s.tipo = "RG" => \/ s \in P
                           \/ [etapa |-> "RG", nodo |-> s.encargado, job |-> s.job] \notin F
       /\ s.tipo = "RL" => s \in P \/ \A t \in F : t.etapa = "RL" => t.nodo # s.nodo

(* How the three counts may change, and their sum not grow. *)
LEMMA Balance ==
  ASSUME TypeOK, TypeOK', NEW P, NEW F \in SUBSET Tarea, IsFiniteSet(F),
         NEW x \in Int, NEW y \in Int, NEW z \in Int, NEW w \in Int, x + y + z <= w,
         Cardinality(Mensajes(bandeja', P)) <= Cardinality(Mensajes(bandeja, P)) + x,
         Cardinality(Mensajes(aYama', Noticias(F)))
           <= Cardinality(Mensajes(aYama, Noticias(F))) + y,
         Cardinality(Corriendo(hilos', F)) <= Cardinality(Corriendo(hilos, F)) + z
  PROVE  EnViaje(bandeja', aYama', hilos', P, F) <= EnViaje(bandeja, aYama, hilos, P, F) + w
<1>1. /\ bandeja \in [Masters -> Seq(Solicitud)] /\ aYama \in [Masters -> Seq(Aviso)]
      /\ hilos \in [Masters -> [Tarea -> Nat]]
      /\ bandeja' \in [Masters -> Seq(Solicitud)] /\ aYama' \in [Masters -> Seq(Aviso)]
      /\ hilos' \in [Masters -> [Tarea -> Nat]]
  BY DEF TypeOK
<1>2. PICK a, b, c, d, e, f :
        /\ a = Cardinality(Mensajes(bandeja, P)) /\ b = Cardinality(Mensajes(aYama, Noticias(F)))
        /\ c = Cardinality(Corriendo(hilos, F))
        /\ d = Cardinality(Mensajes(bandeja', P)) /\ e = Cardinality(Mensajes(aYama', Noticias(F)))
        /\ f = Cardinality(Corriendo(hilos', F))
  OBVIOUS
<1>3. a \in Nat /\ b \in Nat /\ c \in Nat
  BY <1>1, <1>2, CuentasNaturales
<1>4. d \in Nat /\ e \in Nat /\ f \in Nat
  BY <1>1, <1>2, CuentasNaturales
<1>5. d <= a + x /\ e <= b + y /\ f <= c + z
  BY <1>2
<1>6. d + e + f <= a + b + c + w
  BY <1>3, <1>4, <1>5
<1>7. QED
  BY <1>2, <1>6 DEF EnViaje

LEMMA Quietas ==
  ASSUME TypeOK, NEW P, NEW F \in SUBSET Tarea, IsFiniteSet(F)
  PROVE  /\ Cardinality(Mensajes(bandeja, P)) <= Cardinality(Mensajes(bandeja, P)) + 0
         /\ Cardinality(Mensajes(aYama, Noticias(F))) <= Cardinality(Mensajes(aYama, Noticias(F))) + 0
         /\ Cardinality(Corriendo(hilos, F)) <= Cardinality(Corriendo(hilos, F)) + 0
<1>1. /\ bandeja \in [Masters -> Seq(Solicitud)] /\ aYama \in [Masters -> Seq(Aviso)]
      /\ hilos \in [Masters -> [Tarea -> Nat]]
  BY DEF TypeOK
<1>2. PICK a, b, c :
        /\ a = Cardinality(Mensajes(bandeja, P)) /\ b = Cardinality(Mensajes(aYama, Noticias(F)))
        /\ c = Cardinality(Corriendo(hilos, F))
  OBVIOUS
<1>3. a \in Nat /\ b \in Nat /\ c \in Nat
  BY <1>1, <1>2, CuentasNaturales
<1>4. a <= a + 0 /\ b <= b + 0 /\ c <= c + 0
  BY <1>3
<1>5. QED
  BY <1>2, <1>4

(* Nothing changes but for what a master that ends loses. *)
LEMMA ViajeTerminar ==
  ASSUME TypeOK, TypeOK', NEW m \in Masters, Terminar(m), aYama' = aYama,
         NEW P, NEW F \in SUBSET Tarea, IsFiniteSet(F)
  PROVE  EnViaje(bandeja', aYama', hilos', P, F) <= EnViaje(bandeja, aYama, hilos, P, F) + 0
<1>1. /\ Cardinality(Mensajes(bandeja', P)) <= Cardinality(Mensajes(bandeja, P))
      /\ Cardinality(Corriendo(hilos', F)) <= Cardinality(Corriendo(hilos, F))
  BY CuentaTerminar
<1>2. /\ bandeja \in [Masters -> Seq(Solicitud)] /\ aYama \in [Masters -> Seq(Aviso)]
      /\ hilos \in [Masters -> [Tarea -> Nat]]
      /\ bandeja' \in [Masters -> Seq(Solicitud)] /\ hilos' \in [Masters -> [Tarea -> Nat]]
  BY DEF TypeOK
<1>3. PICK a, b, c, d, f :
        /\ a = Cardinality(Mensajes(bandeja, P)) /\ b = Cardinality(Mensajes(aYama, Noticias(F)))
        /\ c = Cardinality(Corriendo(hilos, F))
        /\ d = Cardinality(Mensajes(bandeja', P)) /\ f = Cardinality(Corriendo(hilos', F))
  OBVIOUS
<1>4. a \in Nat /\ b \in Nat /\ c \in Nat
  BY <1>2, <1>3, CuentasNaturales
<1>5. d \in Nat /\ f \in Nat
  BY <1>2, <1>3, CuentasNaturales
<1>6. d <= a + 0 /\ b <= b + 0 /\ f <= c + 0
  BY <1>1, <1>3, <1>4, <1>5
<1>7. 0 \in Int /\ 0 + 0 + 0 <= 0
  OBVIOUS
<1>8. QED
  BY <1>3, <1>6, <1>7, Balance

(* A master takes a message, and starts the threads of T.  *)
LEMMA ViajeLanzar ==
  ASSUME TypeOK, TypeOK', NEW m \in Masters, NEW tipo, MasterRecibe(m, tipo), Atendido(m),
         NEW T, NuevosHilos(m, T), NEW P, NEW F \in SUBSET Tarea, IsFiniteSet(F),
         T \cap F = {} \/ (Head(bandeja[m]) \in P /\ \A t, u \in T \cap F : t = u)
  PROVE  EnViaje(bandeja', aYama', hilos', P, F) <= EnViaje(bandeja, aYama, hilos, P, F) + 0
<1>1. /\ bandeja \in [Masters -> Seq(Solicitud)] /\ aYama \in [Masters -> Seq(Aviso)]
      /\ hilos \in [Masters -> [Tarea -> Nat]]
      /\ bandeja' \in [Masters -> Seq(Solicitud)] /\ hilos' \in [Masters -> [Tarea -> Nat]]
  BY DEF TypeOK
<1>2. PICK a, b, c, d, f :
        /\ a = Cardinality(Mensajes(bandeja, P)) /\ b = Cardinality(Mensajes(aYama, Noticias(F)))
        /\ c = Cardinality(Corriendo(hilos, F))
        /\ d = Cardinality(Mensajes(bandeja', P)) /\ f = Cardinality(Corriendo(hilos', F))
  OBVIOUS
<1>3. a \in Nat /\ b \in Nat /\ c \in Nat
  BY <1>1, <1>2, CuentasNaturales
<1>4. d \in Nat /\ f \in Nat
  BY <1>1, <1>2, CuentasNaturales
<1>5. aYama' = aYama
  BY DEF MasterRecibe
<1>6. d <= a /\ (Head(bandeja[m]) \in P => d + 1 <= a)
  BY <1>2, CuentaAtendido
<1>7. (T \cap F = {} => f <= c) /\ ((\A t, u \in T \cap F : t = u) => f <= c + 1)
  BY <1>2, CuentaLanzado
<1>8. CASE T \cap F = {}
  <2>1. d <= a + 0 /\ b <= b + 0 /\ f <= c + 0
    BY <1>3, <1>4, <1>6, <1>7, <1>8
  <2>2. 0 \in Int /\ 0 + 0 + 0 <= 0
    OBVIOUS
  <2>3. QED
    BY <1>2, <1>5, <2>1, <2>2, Balance
<1>9. CASE Head(bandeja[m]) \in P /\ \A t, u \in T \cap F : t = u
  <2>1. PICK x \in Int : x = -1
    OBVIOUS
  <2>2. d <= a + x /\ b <= b + 0 /\ f <= c + 1 /\ x + 0 + 1 <= 0
    BY <1>3, <1>4, <1>6, <1>7, <1>9, <2>1
  <2>3. 0 \in Int /\ 1 \in Int
    OBVIOUS
  <2>4. QED
    BY <1>2, <1>5, <2>1, <2>2, <2>3, Balance
<1>10. QED
  BY <1>8, <1>9

(* A master takes a message that starts no thread. *)
LEMMA ViajeAtender ==
  ASSUME TypeOK, TypeOK', NEW m \in Masters, NEW tipo, MasterRecibe(m, tipo), Atendido(m),
         hilos' = hilos, NEW P, NEW F \in SUBSET Tarea, IsFiniteSet(F)
  PROVE  EnViaje(bandeja', aYama', hilos', P, F) <= EnViaje(bandeja, aYama, hilos, P, F) + 0
<1>1. /\ bandeja \in [Masters -> Seq(Solicitud)] /\ aYama \in [Masters -> Seq(Aviso)]
      /\ hilos \in [Masters -> [Tarea -> Nat]] /\ bandeja' \in [Masters -> Seq(Solicitud)]
  BY DEF TypeOK
<1>2. PICK a, b, c, d :
        /\ a = Cardinality(Mensajes(bandeja, P)) /\ b = Cardinality(Mensajes(aYama, Noticias(F)))
        /\ c = Cardinality(Corriendo(hilos, F)) /\ d = Cardinality(Mensajes(bandeja', P))
  OBVIOUS
<1>3. a \in Nat /\ b \in Nat /\ c \in Nat
  BY <1>1, <1>2, CuentasNaturales
<1>4. d \in Nat
  BY <1>1, <1>2, MensajesFinitos
<1>5. aYama' = aYama
  BY DEF MasterRecibe
<1>6. d <= a
  BY <1>2, CuentaAtendido
<1>7. d <= a + 0 /\ b <= b + 0 /\ c <= c + 0
  BY <1>3, <1>4, <1>6
<1>8. 0 \in Int /\ 0 + 0 + 0 <= 0
  OBVIOUS
<1>9. QED
  BY <1>2, <1>5, <1>7, <1>8, Balance

LEMMA ViajeMaster ==
  ASSUME TypeOK, TypeOK', NEW m \in Masters, PasoMaster(m),
         NEW P, NEW F \in SUBSET Tarea, IsFiniteSet(F), Lanza(P, F)
  PROVE  EnViaje(bandeja', aYama', hilos', P, F) <= EnViaje(bandeja, aYama, hilos, P, F) + 0
<1> DEFINE Meta == EnViaje(bandeja', aYama', hilos', P, F) <= EnViaje(bandeja, aYama, hilos, P, F) + 0
<1> SUFFICES Meta
  OBVIOUS
<1>1. aYama' = aYama
  BY DEF PasoMaster, RecibirT, RecibirReplan, RecibirRL, RecibirRG, RecibirAF, VerCierre,
         MasterRecibe
<1>2. ASSUME Terminar(m) PROVE Meta
  BY <1>1, <1>2, ViajeTerminar
<1>3. ASSUME NEW tipo, MasterRecibe(m, tipo), Atendido(m), hilos' = hilos PROVE Meta
  BY <1>3, ViajeAtender
<1>4. ASSUME NEW tipo, MasterRecibe(m, tipo), Atendido(m), NEW T, NuevosHilos(m, T),
             T \cap F = {} \/ (Head(bandeja[m]) \in P /\ \A t, u \in T \cap F : t = u)
      PROVE  Meta
  BY <1>4, ViajeLanzar
<1> HIDE DEF Meta
<1>5. CASE VerCierre(m)
  BY <1>2, <1>5 DEF VerCierre
<1>6. CASE RecibirT(m)
  <2>1. bandeja[m] # <<>> /\ Head(bandeja[m]).tipo = "T"
    BY <1>6 DEF RecibirT, MasterRecibe
  <2>2. \/ Head(bandeja[m]).tareas \cap F = {}
        \/ Head(bandeja[m]) \in P /\ \A t, u \in Head(bandeja[m]).tareas \cap F : t = u
    BY <2>1 DEF Lanza
  <2>3. QED
    BY <1>4, <1>6, <2>2 DEF RecibirT
<1>7. CASE RecibirReplan(m)
  BY <1>2, <1>3, <1>7 DEF RecibirReplan
<1>8. CASE RecibirRL(m)
  <2>1. bandeja[m] # <<>> /\ Head(bandeja[m]).tipo = "RL"
    BY <1>8 DEF RecibirRL, MasterRecibe
  <2>2. PICK x : x.etapa = "RL" /\ x.nodo = Head(bandeja[m]).nodo /\ NuevosHilos(m, {x})
    <3>1. PICK job : NuevosHilos(m, {[etapa |-> "RL", nodo |-> Head(bandeja[m]).nodo, job |-> job]})
      BY <1>8 DEF RecibirRL
    <3>2. PICK x : x = [etapa |-> "RL", nodo |-> Head(bandeja[m]).nodo, job |-> job]
      OBVIOUS
    <3>3. x.etapa = "RL" /\ x.nodo = Head(bandeja[m]).nodo /\ NuevosHilos(m, {x})
      BY <3>1, <3>2
    <3>4. QED
      BY <3>3
  <2>3. {x} \cap F = {} \/ (Head(bandeja[m]) \in P /\ \A t, u \in {x} \cap F : t = u)
    BY <2>1, <2>2 DEF Lanza
  <2>4. QED
    BY <1>4, <1>8, <2>2, <2>3 DEF RecibirRL
<1>9. CASE RecibirRG(m)
  <2>1. bandeja[m] # <<>> /\ Head(bandeja[m]).tipo = "RG"
    BY <1>9 DEF RecibirRG, MasterRecibe
  <2>2. PICK x : x = [etapa |-> "RG", nodo |-> Head(bandeja[m]).encargado, job |-> Head(bandeja[m]).job]
    OBVIOUS
  <2>3. Terminar(m) \/ (NuevosHilos(m, {x}) /\ Atendido(m))
    BY <1>9, <2>2 DEF RecibirRG
  <2>4. {x} \cap F = {} \/ (Head(bandeja[m]) \in P /\ \A t, u \in {x} \cap F : t = u)
    BY <2>1, <2>2 DEF Lanza
  <2>5. QED
    BY <1>2, <1>4, <1>9, <2>3, <2>4 DEF RecibirRG
<1>10. CASE RecibirAF(m)
  BY <1>3, <1>10 DEF RecibirAF
<1>11. QED
  BY <1>5, <1>6, <1>7, <1>8, <1>9, <1>10 DEF PasoMaster

(* A thread ends: its news take its place, or it is lost.  *)
LEMMA ViajeHilo ==
  ASSUME TypeOK, TypeOK', NEW m \in Masters, NEW t \in Tarea, NEW exito \in BOOLEAN,
         TerminarHilo(m, t, exito), NEW P, NEW F \in SUBSET Tarea, IsFiniteSet(F)
  PROVE  EnViaje(bandeja', aYama', hilos', P, F) <= EnViaje(bandeja, aYama, hilos, P, F) + 0
<1>1. CASE Terminar(m) /\ aYama' = aYama
  BY <1>1, ViajeTerminar
<1>2. CASE ~(Terminar(m) /\ aYama' = aYama)
  <2>1. /\ bandeja' = bandeja /\ hilos[m][t] > 0 /\ hilos' = [hilos EXCEPT ![m][t] = @ - 1]
        /\ \/ aYama' = aYama
           \/ aYama' = [aYama EXCEPT ![m] = Append(@, [tipo |-> "FIN", tarea |-> t, exito |-> exito])]
    BY <1>2 DEF TerminarHilo
  <2>2. /\ bandeja \in [Masters -> Seq(Solicitud)] /\ aYama \in [Masters -> Seq(Aviso)]
        /\ hilos \in [Masters -> [Tarea -> Nat]]
        /\ aYama' \in [Masters -> Seq(Aviso)] /\ hilos' \in [Masters -> [Tarea -> Nat]]
    BY DEF TypeOK
  <2>3. PICK a, b, c, e, f :
          /\ a = Cardinality(Mensajes(bandeja, P)) /\ b = Cardinality(Mensajes(aYama, Noticias(F)))
          /\ c = Cardinality(Corriendo(hilos, F))
          /\ e = Cardinality(Mensajes(aYama', Noticias(F))) /\ f = Cardinality(Corriendo(hilos', F))
    OBVIOUS
  <2>4. a \in Nat /\ b \in Nat /\ c \in Nat
    BY <2>2, <2>3, CuentasNaturales
  <2>5. e \in Nat /\ f \in Nat
    BY <2>2, <2>3, CuentasNaturales
  <2>6. f <= c /\ (t \in F => f + 1 <= c)
    BY <2>1, <2>3, CuentaTerminado
  <2>7. e <= b + 1 /\ (t \notin F => e <= b)
    <3>1. CASE aYama' = aYama
      <4>1. e = b
        BY <2>3, <3>1
      <4>2. QED
        BY <2>4, <4>1
    <3>2. CASE aYama' # aYama
      <4>1. PICK x : x = [tipo |-> "FIN", tarea |-> t, exito |-> exito]
        OBVIOUS
      <4>2. x \in Aviso /\ (t \notin F => x \notin Noticias(F))
        BY <4>1 DEF Aviso, Noticias
      <4>3. aYama' = [aYama EXCEPT ![m] = Append(@, x)]
        BY <2>1, <3>2, <4>1
      <4>4. QED
        BY <2>3, <4>2, <4>3, CuentaAvisado
    <3>3. QED
      BY <3>1, <3>2
  <2>8. CASE t \in F
    <3>1. PICK z \in Int : z = -1
      OBVIOUS
    <3>2. a <= a + 0 /\ e <= b + 1 /\ f <= c + z /\ 0 + 1 + z <= 0
      BY <2>4, <2>5, <2>6, <2>7, <2>8, <3>1
    <3>3. 0 \in Int /\ 1 \in Int
      OBVIOUS
    <3>4. QED
      BY <2>1, <2>3, <3>2, <3>3, Balance
  <2>9. CASE t \notin F
    <3>1. a <= a + 0 /\ e <= b + 0 /\ f <= c + 0
      BY <2>4, <2>5, <2>6, <2>7, <2>9
    <3>2. 0 \in Int /\ 0 + 0 + 0 <= 0
      OBVIOUS
    <3>3. QED
      BY <2>1, <2>3, <3>1, <3>2, Balance
  <2>10. QED
    BY <2>8, <2>9
<1>3. QED
  BY <1>1, <1>2

(* YAMA takes a message of m, and sends what msg says or nothing. *)
LEMMA ViajeFin ==
  ASSUME TypeOK, TypeOK', NEW m \in Masters, NEW tipo, Recibe(m, tipo), hilos' = hilos,
         NEW P, NEW F \in SUBSET Tarea, IsFiniteSet(F),
         NEW x \in {0, 1}, NEW y \in {0, 1},
         y = 1 => Head(aYama[m]) \in Noticias(F),
         Cardinality(Mensajes(bandeja', P)) <= Cardinality(Mensajes(bandeja, P)) + x
  PROVE  EnViaje(bandeja', aYama', hilos', P, F)
           <= EnViaje(bandeja, aYama, hilos, P, F) + (x - y)
<1>1. /\ aYama \in [Masters -> Seq(Aviso)] /\ hilos \in [Masters -> [Tarea -> Nat]]
      /\ aYama' \in [Masters -> Seq(Aviso)] /\ bandeja \in [Masters -> Seq(Solicitud)]
  BY DEF TypeOK
<1>2. PICK b, c, e :
        /\ b = Cardinality(Mensajes(aYama, Noticias(F))) /\ c = Cardinality(Corriendo(hilos, F))
        /\ e = Cardinality(Mensajes(aYama', Noticias(F)))
  OBVIOUS
<1>3. b \in Nat /\ c \in Nat
  BY <1>1, <1>2, CuentasNaturales
<1>4. e \in Nat
  BY <1>1, <1>2, MensajesFinitos
<1>5. e <= b /\ (Head(aYama[m]) \in Noticias(F) => e + 1 <= b)
  BY <1>2, CuentaLeido
<1>6. PICK v \in Int, w \in Int : v = 0 - y /\ w = x - y
  OBVIOUS
<1>7. e <= b + v /\ c <= c + 0 /\ x + v + 0 <= w /\ x \in Int
  BY <1>3, <1>4, <1>5, <1>6
<1>8. 0 \in Int
  OBVIOUS
<1>9. EnViaje(bandeja', aYama', hilos', P, F) <= EnViaje(bandeja, aYama, hilos, P, F) + w
  BY <1>2, <1>6, <1>7, <1>8, Balance
<1>10. QED
  BY <1>6, <1>9

(* A master connects: its queue starts with messages that end nothing. *)
LEMMA ViajeConectar ==
  ASSUME TypeOK, TypeOK', NEW m \in Masters, Conectar(m),
         NEW P, NEW F \in SUBSET Tarea, IsFiniteSet(F)
  PROVE  EnViaje(bandeja', aYama', hilos', P, F) <= EnViaje(bandeja, aYama, hilos, P, F) + 0
<1>1. /\ aYama \in [Masters -> Seq(Aviso)] /\ hilos \in [Masters -> [Tarea -> Nat]]
      /\ aYama' \in [Masters -> Seq(Aviso)] /\ bandeja \in [Masters -> Seq(Solicitud)]
  BY DEF TypeOK
<1>2. PICK a, b, c, e :
        /\ a = Cardinality(Mensajes(bandeja, P))
        /\ b = Cardinality(Mensajes(aYama, Noticias(F))) /\ c = Cardinality(Corriendo(hilos, F))
        /\ e = Cardinality(Mensajes(aYama', Noticias(F)))
  OBVIOUS
<1>3. a \in Nat /\ b \in Nat /\ c \in Nat
  BY <1>1, <1>2, CuentasNaturales
<1>4. e \in Nat
  BY <1>1, <1>2, MensajesFinitos
<1>5. e <= b
  <2>1. PICK q, r, s : q = aYama /\ r = aYama' /\ s = <<[tipo |-> "HANDSHAKE"], [tipo |-> "SOLICITUDT"]>>
    OBVIOUS
  <2>2. q \in [Masters -> Seq(Aviso)] /\ r = [q EXCEPT ![m] = s]
    BY <1>1, <2>1 DEF Conectar
  <2>3. \A i \in DOMAIN s : s[i] \notin Noticias(F)
    <3>1. \A x \in Noticias(F) : x.tipo = "FIN"
      BY DEF Noticias
    <3>2. \A i \in DOMAIN s : s[i].tipo # "FIN"
      BY <2>1
    <3>3. QED
      BY <3>1, <3>2
  <2>4. Cardinality(Mensajes(r, Noticias(F))) <= Cardinality(Mensajes(q, Noticias(F)))
    BY <2>2, <2>3, MensajesOtros
  <2>5. QED
    BY <1>2, <2>1, <2>4
<1>6. a <= a + 0 /\ e <= b + 0 /\ c <= c + 0
  BY <1>3, <1>4, <1>5
<1>7. bandeja' = bandeja /\ hilos' = hilos
  BY DEF Conectar
<1>8. 0 \in Int /\ 0 + 0 + 0 <= 0
  OBVIOUS
<1>9. QED
  BY <1>2, <1>6, <1>7, <1>8, Balance

(* The actions that leave the table alone start nothing that was not asked   *)
(* for.                                                                      *)
LEMMA ViajeDemas ==
  ASSUME TypeOK, TypeOK', [Next]_vars, ~RecibirBloques, \A m \in Masters : ~EsFin(m),
         NEW P, NEW F \in SUBSET Tarea, IsFiniteSet(F), Lanza(P, F)
  PROVE  EnViaje(bandeja', aYama', hilos', P, F) <= EnViaje(bandeja, aYama, hilos, P, F) + 0
<1> DEFINE Meta == EnViaje(bandeja', aYama', hilos', P, F) <= EnViaje(bandeja, aYama, hilos, P, F) + 0
<1> SUFFICES Meta
  OBVIOUS
<1>1. ASSUME bandeja' = bandeja, aYama' = aYama, hilos' = hilos PROVE Meta
  <2>1. 0 \in Int /\ 0 + 0 + 0 <= 0
    OBVIOUS
  <2>2. QED
    BY <1>1, <2>1, Quietas, Balance
<1>2. ASSUME NEW m \in Masters, Handshake(m) \/ SolicitudTransformacion(m) PROVE Meta
  <2>1. PICK tipo : Recibe(m, tipo)
    BY <1>2 DEF Handshake, SolicitudTransformacion
  <2>2. bandeja' = bandeja /\ hilos' = hilos
    BY <1>2 DEF Handshake, SolicitudTransformacion, SinEnviar, procesos
  <2>3. PICK x \in {0, 1} : x = 0
    OBVIOUS
  <2>4. Cardinality(Mensajes(bandeja', P)) <= Cardinality(Mensajes(bandeja, P)) + x
    BY <2>2, <2>3, Quietas
  <2>5. EnViaje(bandeja', aYama', hilos', P, F)
          <= EnViaje(bandeja, aYama, hilos, P, F) + (x - x)
    BY <2>1, <2>2, <2>3, <2>4, ViajeFin
  <2>6. x - x = 0
    BY <2>3
  <2>7. QED
    BY <2>5, <2>6
<1>3. ASSUME NEW m \in Masters, PasoMaster(m) PROVE Meta
  BY <1>3, ViajeMaster
<1>4. ASSUME NEW m \in Masters, NEW t \in Tarea, NEW exito \in BOOLEAN, TerminarHilo(m, t, exito)
      PROVE  Meta
  BY <1>4, ViajeHilo
<1>5. ASSUME NEW m \in Masters, Conectar(m) PROVE Meta
  BY <1>5, ViajeConectar
<1>6. ASSUME NEW m \in Masters, Matar(m) PROVE Meta
  BY <1>6, ViajeTerminar DEF Matar
<1>7. CASE UNCHANGED vars
  BY <1>1, <1>7 DEF vars, procesos
<1>8. ASSUME NEW m \in Masters, CerrarRota(m) \/ TerminarAF(m) PROVE Meta
  BY <1>1, <1>8 DEF CerrarRota, TerminarAF, procesos
<1> HIDE DEF Meta
<1>9. QED
  BY <1>2, <1>3, <1>4, <1>5, <1>6, <1>7, <1>8 DEF Next, PasoYama, EsFin

-----------------------------------------------------------------------------
(* The global reductions. *)
LEMMA FormaRG ==
  ASSUME TypeOK
  PROVE  /\ Cardinality(Posiciones(tabla, DeEtapa("AF"))) \in Nat
         /\ Cardinality(Posiciones(tabla, DeEtapa("RG"))) \in Nat
         /\ EnViaje(bandeja, aYama, hilos, PedidosRG, TareasRG) \in Nat
         /\ FinRGConRegistro <=>
              Cardinality(Posiciones(tabla, DeEtapa("AF")))
                + EnViaje(bandeja, aYama, hilos, PedidosRG, TareasRG)
                <= Cardinality(Posiciones(tabla, DeEtapa("RG")))
<1>1. /\ bandeja \in [Masters -> Seq(Solicitud)] /\ aYama \in [Masters -> Seq(Aviso)]
      /\ hilos \in [Masters -> [Tarea -> Nat]] /\ tabla \in Seq(Registro)
      /\ TareasRG \in SUBSET Tarea /\ IsFiniteSet(TareasRG)
  BY TareasFinitas DEF TypeOK
<1>2. PICK a, b, c, f, g :
        /\ a = Cardinality(Mensajes(bandeja, PedidosRG))
        /\ b = Cardinality(Mensajes(aYama, Noticias(TareasRG)))
        /\ c = Cardinality(Corriendo(hilos, TareasRG))
        /\ f = Cardinality(Posiciones(tabla, DeEtapa("AF")))
        /\ g = Cardinality(Posiciones(tabla, DeEtapa("RG")))
  OBVIOUS
<1>3. a \in Nat /\ b \in Nat /\ c \in Nat
  BY <1>1, <1>2, CuentasNaturales
<1>4. f \in Nat /\ g \in Nat
  BY <1>1, <1>2, PosFinitas
<1>5. EnViaje(bandeja, aYama, hilos, PedidosRG, TareasRG) = a + b + c
  BY <1>2 DEF EnViaje
<1>6. FinRGConRegistro <=> f + a + (b + c) <= g
  BY <1>2 DEF FinRGConRegistro, Pendientes
<1>7. /\ a + b + c \in Nat
      /\ f + a + (b + c) <= g <=> f + (a + b + c) <= g
  BY <1>3, <1>4
<1>8. QED
  BY <1>2, <1>4, <1>5, <1>6, <1>7

LEMMA FormaRGDespues ==
  ASSUME TypeOK'
  PROVE  /\ Cardinality(Posiciones(tabla', DeEtapa("AF"))) \in Nat
         /\ Cardinality(Posiciones(tabla', DeEtapa("RG"))) \in Nat
         /\ EnViaje(bandeja', aYama', hilos', PedidosRG, TareasRG) \in Nat
         /\ FinRGConRegistro' <=>
              Cardinality(Posiciones(tabla', DeEtapa("AF")))
                + EnViaje(bandeja', aYama', hilos', PedidosRG, TareasRG)
                <= Cardinality(Posiciones(tabla', DeEtapa("RG")))
<1>1. /\ bandeja' \in [Masters -> Seq(Solicitud)] /\ aYama' \in [Masters -> Seq(Aviso)]
      /\ hilos' \in [Masters -> [Tarea -> Nat]] /\ tabla' \in Seq(Registro)
      /\ TareasRG \in SUBSET Tarea /\ IsFiniteSet(TareasRG)
  BY TareasFinitas DEF TypeOK
<1>2. PICK a, b, c, f, g :
        /\ a = Cardinality(Mensajes(bandeja', PedidosRG))
        /\ b = Cardinality(Mensajes(aYama', Noticias(TareasRG)))
        /\ c = Cardinality(Corriendo(hilos', TareasRG))
        /\ f = Cardinality(Posiciones(tabla', DeEtapa("AF")))
        /\ g = Cardinality(Posiciones(tabla', DeEtapa("RG")))
  OBVIOUS
<1>3. a \in Nat /\ b \in Nat /\ c \in Nat
  BY <1>1, <1>2, CuentasNaturales
<1>4. f \in Nat /\ g \in Nat
  BY <1>1, <1>2, PosFinitas
<1>5. EnViaje(bandeja', aYama', hilos', PedidosRG, TareasRG) = a + b + c
  BY <1>2 DEF EnViaje
<1>6. FinRGConRegistro' <=> f + a + (b + c) <= g
  BY <1>2 DEF FinRGConRegistro, Pendientes
<1>7. /\ a + b + c \in Nat
      /\ f + a + (b + c) <= g <=> f + (a + b + c) <= g
  BY <1>3, <1>4
<1>8. QED
  BY <1>2, <1>4, <1>5, <1>6, <1>7

LEMMA SumaRG ==
  ASSUME TypeOK, TypeOK', FinRGConRegistro, NEW x \in Int, NEW w \in Int, NEW y \in Int,
         x + w <= y,
         Cardinality(Posiciones(tabla', DeEtapa("AF")))
           <= Cardinality(Posiciones(tabla, DeEtapa("AF"))) + x,
         Cardinality(Posiciones(tabla, DeEtapa("RG"))) + y
           <= Cardinality(Posiciones(tabla', DeEtapa("RG"))),
         EnViaje(bandeja', aYama', hilos', PedidosRG, TareasRG)
           <= EnViaje(bandeja, aYama, hilos, PedidosRG, TareasRG) + w
  PROVE  FinRGConRegistro'
<1>1. PICK a, b, c, d, e, f :
        /\ a = Cardinality(Posiciones(tabla, DeEtapa("AF")))
        /\ b = EnViaje(bandeja, aYama, hilos, PedidosRG, TareasRG)
        /\ c = Cardinality(Posiciones(tabla, DeEtapa("RG")))
        /\ d = Cardinality(Posiciones(tabla', DeEtapa("AF")))
        /\ e = EnViaje(bandeja', aYama', hilos', PedidosRG, TareasRG)
        /\ f = Cardinality(Posiciones(tabla', DeEtapa("RG")))
  OBVIOUS
<1>2. a \in Nat /\ b \in Nat /\ c \in Nat /\ a + b <= c
  BY <1>1, FormaRG
<1>3. d \in Nat /\ e \in Nat /\ f \in Nat
  BY <1>1, FormaRGDespues
<1>4. d <= a + x /\ c + y <= f /\ e <= b + w
  BY <1>1
<1>5. d + e <= f
  BY <1>2, <1>3, <1>4
<1>6. QED
  BY <1>1, <1>5, FormaRGDespues

(* Marking a record does not change its etapa. *)
LEMMA PosMarcada ==
  ASSUME TypeOK, NEW k \in DOMAIN tabla, NEW e \in {"ERROR", "FINALIZADOOK"}, NEW x
  PROVE  /\ Marcada(k, e) \in Seq(Registro)
         /\ Posiciones(Marcada(k, e), DeEtapa(x)) = Posiciones(tabla, DeEtapa(x))
<1>1. tabla \in Seq(Registro)
  BY DEF TypeOK
<1>2. PICK u, z : u = Marcada(k, e) /\ z = [tabla[k] EXCEPT !.estado = e]
  OBVIOUS
<1>3. u = [tabla EXCEPT ![k] = z]
  BY <1>1, <1>2 DEF Marcada
<1>4. z \in Registro /\ z.etapa = tabla[k].etapa /\ tabla[k] \in Registro
  <2>1. tabla[k] \in Registro
    BY <1>1
  <2>2. z.etapa = tabla[k].etapa
    BY <1>2, <2>1 DEF Registro
  <2>3. z \in Registro
    BY <1>2, <2>1 DEF Registro
  <2>4. QED
    BY <2>1, <2>2, <2>3
<1>5. u \in Seq(Registro) /\ DOMAIN u = DOMAIN tabla
      /\ \A j \in DOMAIN tabla : u[j] \in Registro /\ tabla[j] \in Registro
                                 /\ u[j].etapa = tabla[j].etapa
  BY <1>1, <1>3, <1>4
<1>6. Posiciones(u, DeEtapa(x)) = Posiciones(tabla, DeEtapa(x))
  BY <1>5 DEF Posiciones, DeEtapa
<1>7. QED
  BY <1>2, <1>5, <1>6

LEMMA PosMarcaYAgrega ==
  ASSUME TypeOK, NEW k \in DOMAIN tabla, NEW etapa, NEW tipo, MarcaYAgrega(k, etapa, tipo), NEW x
  PROVE  /\ x = etapa => Cardinality(Posiciones(tabla', DeEtapa(x)))
                           = Cardinality(Posiciones(tabla, DeEtapa(x))) + 1
         /\ x # etapa => Cardinality(Posiciones(tabla', DeEtapa(x)))
                           = Cardinality(Posiciones(tabla, DeEtapa(x)))
<1>1. PICK u : u = Marcada(k, "FINALIZADOOK")
  OBVIOUS
<1>2. u \in Seq(Registro) /\ Posiciones(u, DeEtapa(x)) = Posiciones(tabla, DeEtapa(x))
  BY <1>1, PosMarcada
<1>3. PICK r \in Registro : tabla' = Append(u, r) /\ r.etapa = etapa
  BY <1>1 DEF MarcaYAgrega
<1>4. r \in DeEtapa(x) <=> x = etapa
  BY <1>3 DEF DeEtapa
<1>5. QED
  BY <1>2, <1>3, <1>4, PosAgregada

LEMMA LanzaRG ==
  ASSUME TypeOK
  PROVE  Lanza(PedidosRG, TareasRG)
<1>1. \A t \in TareasRG : t.etapa = "RG"
  BY DEF TareasRG
<1>2. ASSUME NEW m \in Masters, bandeja[m] # <<>>
      PROVE  /\ Head(bandeja[m]).tipo = "T" => Head(bandeja[m]).tareas \cap TareasRG = {}
             /\ Head(bandeja[m]).tipo = "RG" => Head(bandeja[m]) \in PedidosRG
  <2>1. PICK s : s = Head(bandeja[m])
    OBVIOUS
  <2>2. s \in Solicitud
    BY <1>2, <2>1, ColaDe DEF TypeOK
  <2>3. s.tipo = "RG" => s \in PedidosRG
    BY <2>2 DEF Solicitud, PedidosRG
  <2>4. s.tipo = "T" => s.tareas \in SUBSET TareaT
    BY <2>2 DEF Solicitud
  <2>5. \A t \in TareaT : t.etapa = "T"
    BY DEF TareaT
  <2>6. s.tipo = "T" => s.tareas \cap TareasRG = {}
    BY <1>1, <2>4, <2>5
  <2>7. QED
    BY <2>1, <2>3, <2>6
<1>3. QED
  BY <1>1, <1>2 DEF Lanza

(* Messages of another type ask for no global reduction. *)
LEMMA PedidosDeRG == \A s \in PedidosRG : s.tipo = "RG"
BY DEF PedidosRG

LEMMA PasoRG ==
  ASSUME TypeOK, TypeOK', SinOtra, FinRGConRegistro, [Next]_vars PROVE FinRGConRegistro'
<1> DEFINE V0 == EnViaje(bandeja, aYama, hilos, PedidosRG, TareasRG)
           V1 == EnViaje(bandeja', aYama', hilos', PedidosRG, TareasRG)
           A0 == Cardinality(Posiciones(tabla, DeEtapa("AF")))
           A1 == Cardinality(Posiciones(tabla', DeEtapa("AF")))
           G0 == Cardinality(Posiciones(tabla, DeEtapa("RG")))
           G1 == Cardinality(Posiciones(tabla', DeEtapa("RG")))
           B0 == Cardinality(Mensajes(bandeja, PedidosRG))
           B1 == Cardinality(Mensajes(bandeja', PedidosRG))
<1>1. /\ TareasRG \in SUBSET Tarea /\ IsFiniteSet(TareasRG)
      /\ Lanza(PedidosRG, TareasRG)
  BY TareasFinitas, LanzaRG
<1>2. A0 \in Nat /\ G0 \in Nat /\ B0 \in Nat
  BY FormaRG, MensajesFinitos DEF TypeOK
<1>3. A1 \in Nat /\ G1 \in Nat
  BY FormaRGDespues
<1>4. ASSUME NEW x \in {0, 1}, NEW w \in {-1, 0, 1}, NEW y \in {0, 1}, x + w <= y,
             A1 <= A0 + x, G0 + y <= G1, V1 <= V0 + w
      PROVE  FinRGConRegistro'
  <2>1. x \in Int /\ w \in Int /\ y \in Int
    OBVIOUS
  <2>2. QED
    BY <1>4, <2>1, SumaRG
<1>5. ASSUME NEW w \in {-1, 0, 1}, w <= 0, A1 = A0, G1 = G0, V1 <= V0 + w PROVE FinRGConRegistro'
  <2>1. PICK x \in {0, 1} : x = 0
    OBVIOUS
  <2>2. A1 <= A0 + x /\ G0 + x <= G1 /\ x + w <= x
    BY <1>2, <1>3, <1>5, <2>1
  <2>3. QED
    BY <1>4, <1>5, <2>2
<1>6. ASSUME NEW m \in Masters, NEW etapa, RecibeFin(m, etapa),
             NEW b \in {0, 1}, NEW n \in {0, 1}, n = 1 => etapa = "RG",
             B1 <= B0 + b, NEW x \in {0, 1}, NEW y \in {0, 1}, x + (b - n) <= y,
             A1 <= A0 + x, G0 + y <= G1
      PROVE  FinRGConRegistro'
  <2>1. Recibe(m, "FIN") /\ hilos' = hilos
    BY <1>6, Ajeno DEF RecibeFin
  <2>2. n = 1 => Head(aYama[m]) \in Noticias(TareasRG)
    <3>1. PICK a, t : a = Head(aYama[m]) /\ t = a.tarea
      OBVIOUS
    <3>2. a \in Aviso /\ a.tipo = "FIN" /\ t \in Tarea /\ t.etapa = etapa
      BY <1>6, <2>1, <3>1, Recibida, FinRecibido
    <3>3. etapa = "RG" => t \in TareasRG
      BY <3>2 DEF Tarea, TareaT, TareasRG
    <3>4. t \in TareasRG => a \in Noticias(TareasRG)
      BY <3>1, <3>2 DEF Aviso, Noticias
    <3>5. QED
      BY <1>6, <3>1, <3>3, <3>4
  <2>3. V1 <= V0 + (b - n)
    BY <1>1, <1>6, <2>1, <2>2, ViajeFin
  <2>4. PICK w \in {-1, 0, 1} : w = b - n
    OBVIOUS
  <2>5. QED
    BY <1>4, <1>6, <2>3, <2>4
<1>7. ASSUME tabla' = tabla PROVE A1 = A0 /\ G1 = G0
  BY <1>7
<1>8. ASSUME bandeja' = bandeja PROVE B1 <= B0
  BY <1>2, <1>8
<1>9. ASSUME NEW n \in Masters, NEW msg \in Solicitud, Enviar(n, msg)
      PROVE  B1 <= B0 + 1 /\ (msg.tipo # "RG" => B1 <= B0)
  BY <1>9, CuentaEnviado, PedidosDeRG
<1>10. ASSUME NEW k \in DOMAIN tabla, NEW e \in {"ERROR", "FINALIZADOOK"}, Marca(k, e)
       PROVE  A1 = A0 /\ G1 = G0 /\ B1 <= B0
  BY <1>8, <1>10, PosMarcada DEF Marca, SinEnviar
<1>11. ASSUME NEW k \in DOMAIN tabla, MarcaYAgrega(k, "RL", "RL")
       PROVE  A1 = A0 /\ G1 = G0 /\ B1 <= B0
  BY <1>9, <1>11, PosMarcaYAgrega DEF MarcaYAgrega
<1>12. ASSUME NEW k \in DOMAIN tabla, MarcaYAgrega(k, "RG", "RG")
       PROVE  A1 = A0 /\ G1 = G0 + 1 /\ B1 <= B0 + 1
  BY <1>9, <1>12, PosMarcaYAgrega DEF MarcaYAgrega
<1>13. ASSUME NEW k \in DOMAIN tabla, MarcaYAgrega(k, "AF", "AF")
       PROVE  A1 = A0 + 1 /\ G1 = G0 /\ B1 <= B0
  BY <1>9, <1>13, PosMarcaYAgrega DEF MarcaYAgrega
<1>14. CASE RecibirBloques
  <2>1. PICK m \in Masters, job \in Jobs, nodo \in [Bloques -> Nodos], otra \in [Bloques -> Nodos] :
          /\ tabla' = tabla \o Nuevos(m, job, nodo, otra)
          /\ Enviar(m, PedidoT(job, nodo))
    BY <1>14, AlPlanificar
  <2>2. PICK n, msg : n = Nuevos(m, job, nodo, otra) /\ msg = PedidoT(job, nodo)
    OBVIOUS
  <2>3. n \in Seq(Registro) /\ (\A i \in DOMAIN n : n[i].etapa = "T")
        /\ msg \in Solicitud /\ msg.tipo = "T"
    BY <2>2, SonNuevos DEF Nuevos, PedidoT
  <2>4. B1 <= B0
    BY <1>9, <2>1, <2>2, <2>3
  <2>5. PICK t, u : t = tabla /\ u = tabla'
    OBVIOUS
  <2>6. ASSUME NEW x \in {"AF", "RG"}
        PROVE  Posiciones(u, DeEtapa(x)) = Posiciones(t, DeEtapa(x))
    <3>1. t \in Seq(Registro) /\ u = t \o n
      BY <2>1, <2>2, <2>5 DEF TypeOK
    <3>2. /\ \A j \in DOMAIN t : j \in DOMAIN u /\ u[j] = t[j]
          /\ \A j \in DOMAIN u \ DOMAIN t : u[j].etapa = "T"
      BY <2>3, <3>1
    <3>3. QED
      BY <3>2 DEF Posiciones, DeEtapa
  <2>7. A1 = A0 /\ G1 = G0
    BY <2>5, <2>6
  <2>8. aYama' = aYama /\ hilos' = hilos
    BY <1>14 DEF RecibirBloques, procesos
  <2>9. PICK x \in {-1, 0, 1} : x = 0
    OBVIOUS
  <2>10. V1 <= V0 + x
    <3>1. B1 <= B0 + x
      BY <1>2, <2>4, <2>9, MensajesFinitos DEF TypeOK
    <3>2. /\ Cardinality(Mensajes(aYama', Noticias(TareasRG)))
               <= Cardinality(Mensajes(aYama, Noticias(TareasRG))) + x
          /\ Cardinality(Corriendo(hilos', TareasRG)) <= Cardinality(Corriendo(hilos, TareasRG)) + x
      BY <1>1, <2>8, <2>9, Quietas
    <3>3. x \in Int /\ x + x + x <= x
      BY <2>9
    <3>4. QED
      BY <1>1, <3>1, <3>2, <3>3, Balance
  <2>11. x <= 0
    BY <2>9
  <2>12. QED
    BY <1>5, <2>7, <2>10, <2>11
<1>15. CASE ~RecibirBloques /\ \A m \in Masters : ~EsFin(m)
  <2>1. PICK x \in {-1, 0, 1} : x = 0
    OBVIOUS
  <2>2. V1 <= V0 + x /\ x <= 0
    BY <1>1, <1>15, <2>1, ViajeDemas
  <2>3. tabla' = tabla
    BY <1>15, LosDemas
  <2>4. QED
    BY <1>5, <1>7, <2>2, <2>3
<1>16. ASSUME NEW m \in Masters, NEW etapa, RecibeFin(m, etapa), A1 = A0, G1 = G0, B1 <= B0
       PROVE  FinRGConRegistro'
  <2>1. PICK c \in {0, 1} : c = 0
    OBVIOUS
  <2>2. B1 \in Nat
    BY MensajesFinitos DEF TypeOK
  <2>3. B1 <= B0 + c /\ A1 <= A0 + c /\ G0 + c <= G1 /\ c + (c - c) <= c /\ c # 1
    BY <1>2, <1>3, <1>16, <2>1, <2>2
  <2>4. QED
    BY <1>6, <1>16, <2>3
<1>17. ASSUME NEW m \in Masters, FinTransformacionOk(m) PROVE FinRGConRegistro'
  <2>1. RecibeFin(m, "T")
    BY <1>17 DEF FinTransformacionOk
  <2>2. A1 = A0 /\ G1 = G0 /\ B1 <= B0
    BY <1>7, <1>8, <1>10, <1>11, <1>17, EfectoTOk DEF EnProceso
  <2>3. QED
    BY <1>16, <2>1, <2>2
<1>18. ASSUME NEW m \in Masters, FinTransformacionMal(m) PROVE FinRGConRegistro'
  <2>1. RecibeFin(m, "T")
    BY <1>18 DEF FinTransformacionMal
  <2>2. ASSUME NEW k \in DOMAIN tabla, tabla[k].otra \in Registrados,
               tabla' = [tabla EXCEPT ![k].etapa = "T", ![k].nodo = tabla[k].otra,
                                      ![k].otra = tabla[k].nodo]
        PROVE  A1 = A0 /\ G1 = G0
    <3>1. tabla \in Seq(Registro)
      BY DEF TypeOK
    <3>2. Ninguno \notin Registrados
      BY Parametros DEF Registrados, Ninguno
    <3>3. tabla[k].etapa = "T"
      BY <2>2, <3>2 DEF SinOtra
    <3>4. PICK x : x = [tabla[k] EXCEPT !.etapa = "T", !.nodo = tabla[k].otra,
                                        !.otra = tabla[k].nodo]
      OBVIOUS
    <3>5. x.etapa = "T"
      BY <3>1, <3>4 DEF Registro
    <3>6. tabla' = [tabla EXCEPT ![k] = x]
      BY <2>2, <3>1, <3>4
    <3>7. PICK t, u : t = tabla /\ u = tabla'
      OBVIOUS
    <3>8. /\ DOMAIN u = DOMAIN t /\ u[k].etapa = "T" /\ t[k].etapa = "T"
          /\ \A j \in DOMAIN t : j # k => u[j] = t[j]
      BY <2>2, <3>1, <3>3, <3>5, <3>6, <3>7
    <3>9. ASSUME NEW y \in {"AF", "RG"}
          PROVE  Posiciones(u, DeEtapa(y)) = Posiciones(t, DeEtapa(y))
      BY <3>8 DEF Posiciones, DeEtapa
    <3>10. QED
      BY <3>7, <3>9
  <2>3. A1 = A0 /\ G1 = G0 /\ B1 <= B0
    <3>1. CASE UNCHANGED <<tabla, bandeja>>
      BY <1>7, <1>8, <3>1
    <3>2. ASSUME NEW k \in EnProceso(Head(aYama[m]).tarea.bloque, Head(aYama[m]).tarea.job)
          PROVE  k \in DOMAIN tabla
      BY DEF EnProceso
    <3>3. ASSUME NEW msg \in Solicitud, msg.tipo = "REPLAN", Enviar(m, msg) PROVE B1 <= B0
      BY <1>9, <3>3
    <3>4. QED
      BY <1>10, <1>18, <2>2, <3>1, <3>2, <3>3, EfectoTMal
  <2>4. QED
    BY <1>16, <2>1, <2>3
<1>19. ASSUME NEW m \in Masters, FinReduccionLocalOk(m) PROVE FinRGConRegistro'
  <2>1. RecibeFin(m, "RL")
    BY <1>19 DEF FinReduccionLocalOk
  <2>2. CASE A1 = A0 /\ G1 = G0 /\ B1 <= B0
    BY <1>16, <2>1, <2>2
  <2>3. CASE A1 = A0 /\ G1 = G0 + 1 /\ B1 <= B0 + 1
    <3>1. PICK c \in {0, 1}, d \in {0, 1} : c = 0 /\ d = 1
      OBVIOUS
    <3>2. B1 <= B0 + d /\ A1 <= A0 + c /\ G0 + d <= G1 /\ c + (d - c) <= d /\ c # 1
      BY <1>2, <1>3, <2>3, <3>1
    <3>3. QED
      BY <1>6, <2>1, <3>2
  <2>4. QED
    BY <1>7, <1>8, <1>10, <1>12, <1>19, <2>2, <2>3, EfectoRLOk
<1>20. ASSUME NEW m \in Masters, FinReduccionGlobalOk(m) PROVE FinRGConRegistro'
  <2>1. RecibeFin(m, "RG")
    BY <1>20 DEF FinReduccionGlobalOk
  <2>2. CASE A1 = A0 /\ G1 = G0 /\ B1 <= B0
    BY <1>16, <2>1, <2>2
  <2>3. CASE A1 = A0 + 1 /\ G1 = G0 /\ B1 <= B0
    <3>1. PICK c \in {0, 1}, d \in {0, 1} : c = 0 /\ d = 1
      OBVIOUS
    <3>2. B1 \in Nat
      BY MensajesFinitos DEF TypeOK
    <3>3. B1 <= B0 + c /\ A1 <= A0 + d /\ G0 + c <= G1 /\ d + (c - d) <= c
      BY <1>2, <1>3, <2>3, <3>1, <3>2
    <3>4. QED
      BY <1>6, <2>1, <3>3
  <2>4. QED
    BY <1>7, <1>8, <1>13, <1>20, <2>2, <2>3, EfectoRGOk
<1>21. ASSUME NEW m \in Masters, FinReduccionLocalMal(m) \/ FinReduccionGlobalMal(m)
       PROVE  FinRGConRegistro'
  <2>1. PICK etapa : RecibeFin(m, etapa)
    BY <1>21 DEF FinReduccionLocalMal, FinReduccionGlobalMal
  <2>2. A1 = A0 /\ G1 = G0 /\ B1 <= B0
    BY <1>7, <1>8, <1>10, <1>21, EfectoAbortar
  <2>3. QED
    BY <1>16, <2>1, <2>2
<1> HIDE DEF V0, V1, A0, A1, G0, G1, B0, B1
<1>22. QED
  BY <1>14, <1>15, <1>17, <1>18, <1>19, <1>20, <1>21 DEF EsFin

(* Nothing is on its way at first. *)
LEMMA NadaAlPrincipio ==
  ASSUME Init, NEW P, NEW F \in SUBSET Tarea, NEW R
  PROVE  /\ Cardinality(Mensajes(bandeja, P)) = 0
         /\ Cardinality(Mensajes(aYama, P)) = 0
         /\ Cardinality(Corriendo(hilos, F)) = 0
         /\ Cardinality(Posiciones(tabla, R)) = 0
<1>1. /\ \A m \in Masters : DOMAIN bandeja[m] = {} /\ DOMAIN aYama[m] = {}
      /\ DOMAIN tabla = {}
  BY DEF Init
<1>2. Mensajes(bandeja, P) = {} /\ Mensajes(aYama, P) = {}
  BY <1>1, EnMensajes
<1>3. Corriendo(hilos, F) = {}
  <2>1. \A m \in Masters, t \in F : hilos[m][t] = 0
    BY DEF Init, SinHilos
  <2>2. \A m \in Masters, t \in F : 1..hilos[m][t] = {}
    BY <2>1
  <2>3. QED
    BY <2>2, EnCorriendo
<1>4. Posiciones(tabla, R) = {}
  BY <1>1 DEF Posiciones
<1>5. QED
  BY <1>2, <1>3, <1>4, FS_EmptySet

LEMMA AlPrincipioRG == Init => SinOtra /\ FinRGConRegistro
<1> SUFFICES ASSUME Init PROVE SinOtra /\ FinRGConRegistro
  OBVIOUS
<1>1. SinOtra
  BY DEF Init, SinOtra
<1>2. /\ Cardinality(Mensajes(bandeja, PedidosRG)) = 0
      /\ Cardinality(Corriendo(hilos, TareasRG)) = 0
      /\ Cardinality(Posiciones(tabla, DeEtapa("AF"))) = 0
      /\ Cardinality(Posiciones(tabla, DeEtapa("RG"))) = 0
  BY NadaAlPrincipio, TareasFinitas
<1>3. Cardinality(Mensajes(aYama, Noticias(TareasRG))) = 0
  BY NadaAlPrincipio, TareasFinitas
<1>4. QED
  BY <1>1, <1>2, <1>3 DEF FinRGConRegistro, Pendientes

(* With any number of masters and any failure, the final storages asked for  *)
(* and the global reductions that are asked for, run, or have ended and are  *)
(* not read yet are together never more than the records of global           *)
(* reductions in the table: FINREDUCCIONGLOBAL (864) has one to find, and    *)
(* realizarAF (699-728) runs once at most for each.                          *)
THEOREM SiempreFinRG == Spec => []FinRGConRegistro
<1>1. TypeOK /\ TypeOK' /\ SinOtra /\ FinRGConRegistro /\ [Next]_vars
        => SinOtra' /\ FinRGConRegistro'
  BY PasoSinOtra, PasoRG
<1>2. QED
  BY <1>1, TiposYama, AlPrincipioRG, PTL DEF Spec

-----------------------------------------------------------------------------
(* The transformations. *)
Unica(s) == s.tipo = "T" => \A t, u \in s.tareas : t.bloque = u.bloque => t = u
Unicas(q) == \A m \in Masters : \A i \in DOMAIN q[m] : Unica(q[m][i])

LEMMA UnicasEsUna == UnaPorBloque <=> Unicas(bandeja)
BY DEF UnaPorBloque, Unicas, Unica

LEMMA UnicaEnviada ==
  ASSUME TypeOK, Unicas(bandeja), NEW n \in Masters, NEW msg \in Solicitud, Unica(msg),
         Enviar(n, msg)
  PROVE  Unicas(bandeja')
<1>1. PICK q, r : q = bandeja /\ r = bandeja'
  OBVIOUS
<1>2. q \in [Masters -> Seq(Solicitud)] /\ (r = q \/ r = [q EXCEPT ![n] = Append(@, msg)])
  BY <1>1 DEF TypeOK, Enviar
<1>3. CASE r = q
  BY <1>1, <1>3
<1>4. CASE r = [q EXCEPT ![n] = Append(@, msg)]
  <2>1. PICK s, l : s = Append(q[n], msg) /\ l = Len(q[n]) + 1
    OBVIOUS
  <2>2. /\ DOMAIN s = 1..l /\ s[l] = msg /\ \A i \in DOMAIN q[n] : s[i] = q[n][i]
        /\ DOMAIN s = DOMAIN q[n] \cup {l}
    BY <1>2, <2>1, Agregada
  <2>3. \A i \in DOMAIN s : Unica(s[i])
    BY <1>1, <2>2 DEF Unicas
  <2>4. r[n] = s /\ \A m \in Masters \ {n} : r[m] = q[m]
    BY <1>2, <1>4, <2>1
  <2>5. QED
    BY <1>1, <2>3, <2>4 DEF Unicas
<1>5. QED
  BY <1>2, <1>3, <1>4

LEMMA UnicaTomada ==
  ASSUME TypeOK, Unicas(bandeja), NEW m \in Masters, Terminar(m) \/ (Atendido(m) /\ bandeja[m] # <<>>)
  PROVE  Unicas(bandeja')
<1>1. PICK q, r : q = bandeja /\ r = bandeja'
  OBVIOUS
<1>2. q \in [Masters -> Seq(Solicitud)]
  BY <1>1 DEF TypeOK
<1>3. PICK s : /\ r = [q EXCEPT ![m] = s]
               /\ s = <<>> \/ (s = Tail(q[m]) /\ q[m] # <<>>)
  BY <1>1 DEF Terminar, Atendido
<1>4. \A i \in DOMAIN s : Unica(s[i])
  <2>1. CASE s = <<>>
    BY <2>1
  <2>2. CASE s = Tail(q[m]) /\ q[m] # <<>>
    <3>1. PICK p \in Seq(Solicitud) : p = q[m]
      BY <1>2
    <3>2. \A i \in DOMAIN s : i + 1 \in DOMAIN p /\ s[i] = p[i + 1]
      BY <2>2, <3>1
    <3>3. \A i \in DOMAIN p : Unica(p[i])
      BY <1>1, <3>1 DEF Unicas
    <3>4. QED
      BY <3>2, <3>3
  <2>3. QED
    BY <1>3, <2>1, <2>2
<1>5. r[m] = s /\ \A n \in Masters \ {m} : r[n] = q[n]
  BY <1>2, <1>3
<1>6. QED
  BY <1>1, <1>4, <1>5 DEF Unicas

LEMMA PasoUna ==
  ASSUME TypeOK, UnaPorBloque, [Next]_vars PROVE UnaPorBloque'
<1> SUFFICES Unicas(bandeja')
  BY DEF UnaPorBloque, Unicas, Unica
<1> USE UnicasEsUna
<1>1. CASE bandeja' = bandeja
  BY <1>1
<1>2. ASSUME NEW n \in Masters, NEW msg \in Solicitud, msg.tipo # "T", Enviar(n, msg)
      PROVE  Unicas(bandeja')
  BY <1>2, UnicaEnviada DEF Unica
<1>3. CASE RecibirBloques
  <2>1. PICK m \in Masters, job \in Jobs, nodo \in [Bloques -> Nodos], otra \in [Bloques -> Nodos] :
          Enviar(m, PedidoT(job, nodo))
    BY <1>3, AlPlanificar
  <2>2. PICK msg : msg = PedidoT(job, nodo)
    OBVIOUS
  <2>3. msg \in Solicitud
    BY <2>2, SonNuevos
  <2>4. Unica(msg)
    <3>1. SUFFICES ASSUME NEW t \in msg.tareas, NEW u \in msg.tareas, t.bloque = u.bloque
                   PROVE  t = u
      BY DEF Unica
    <3>2. PICK b \in Bloques : t = [etapa |-> "T", nodo |-> nodo[b], job |-> job, bloque |-> b]
      BY <2>2 DEF PedidoT
    <3>3. PICK c \in Bloques : u = [etapa |-> "T", nodo |-> nodo[c], job |-> job, bloque |-> c]
      BY <2>2 DEF PedidoT
    <3>4. b = c
      BY <3>1, <3>2, <3>3
    <3>5. QED
      BY <3>2, <3>3, <3>4
  <2>5. QED
    BY <2>1, <2>2, <2>3, <2>4, UnicaEnviada
<1>4. ASSUME NEW k, NEW e, Marca(k, e) PROVE Unicas(bandeja')
  BY <1>1, <1>4 DEF Marca, SinEnviar
<1>5. ASSUME NEW k, NEW etapa, NEW tipo, tipo # "T", MarcaYAgrega(k, etapa, tipo)
      PROVE  Unicas(bandeja')
  BY <1>2, <1>5 DEF MarcaYAgrega
<1>6. ASSUME NEW m \in Masters, FinTransformacionOk(m) PROVE Unicas(bandeja')
  BY <1>1, <1>4, <1>5, <1>6, EfectoTOk
<1>7. ASSUME NEW m \in Masters, FinTransformacionMal(m) PROVE Unicas(bandeja')
  BY <1>1, <1>2, <1>4, <1>7, EfectoTMal
<1>8. ASSUME NEW m \in Masters, FinReduccionLocalOk(m) PROVE Unicas(bandeja')
  BY <1>1, <1>4, <1>5, <1>8, EfectoRLOk
<1>9. ASSUME NEW m \in Masters, FinReduccionGlobalOk(m) PROVE Unicas(bandeja')
  BY <1>1, <1>5, <1>9, EfectoRGOk
<1>10. ASSUME NEW m \in Masters, FinReduccionLocalMal(m) \/ FinReduccionGlobalMal(m)
       PROVE  Unicas(bandeja')
  BY <1>1, <1>4, <1>10, EfectoAbortar
<1>11. ASSUME NEW m \in Masters, PasoMaster(m) PROVE Unicas(bandeja')
  <2>1. CASE VerCierre(m)
    BY <2>1, UnicaTomada DEF VerCierre
  <2>2. CASE ~VerCierre(m)
    <3>1. bandeja[m] # <<>>
      BY <1>11, <2>2 DEF PasoMaster, RecibirT, RecibirReplan, RecibirRL, RecibirRG, RecibirAF,
                          MasterRecibe
    <3>2. Terminar(m) \/ Atendido(m)
      BY <1>11, <2>2 DEF PasoMaster, RecibirT, RecibirReplan, RecibirRL, RecibirRG, RecibirAF
    <3>3. QED
      BY <3>1, <3>2, UnicaTomada
  <2>3. QED
    BY <2>1, <2>2
<1>12. ASSUME NEW m \in Masters, NEW t, NEW exito, TerminarHilo(m, t, exito) PROVE Unicas(bandeja')
  BY <1>1, <1>12, UnicaTomada DEF TerminarHilo
<1>13. ASSUME NEW m \in Masters, Matar(m) PROVE Unicas(bandeja')
  BY <1>13, UnicaTomada DEF Matar
<1>14. ASSUME NEW m \in Masters,
              Conectar(m) \/ Handshake(m) \/ SolicitudTransformacion(m) \/ CerrarRota(m)
                \/ TerminarAF(m)
       PROVE  Unicas(bandeja')
  BY <1>1, <1>14 DEF Conectar, Handshake, SolicitudTransformacion, CerrarRota, TerminarAF, SinEnviar
<1>15. CASE UNCHANGED vars
  BY <1>1, <1>15 DEF vars
<1>16. QED
  BY <1>3, <1>6, <1>7, <1>8, <1>9, <1>10, <1>11, <1>12, <1>13, <1>14, <1>15 DEF Next, PasoYama

LEMMA LanzaT ==
  ASSUME TypeOK, UnaPorBloque, NEW b \in Bloques
  PROVE  Lanza(PedidosT(b), TareasDe(b))
<1>1. \A t \in TareasDe(b) : t.etapa = "T" /\ t.bloque = b
  BY DEF TareasDe
<1>2. ASSUME NEW m \in Masters, bandeja[m] # <<>>
      PROVE  /\ Head(bandeja[m]).tipo = "T"
                  => \/ Head(bandeja[m]).tareas \cap TareasDe(b) = {}
                     \/ /\ Head(bandeja[m]) \in PedidosT(b)
                        /\ \A t, u \in Head(bandeja[m]).tareas \cap TareasDe(b) : t = u
             /\ [etapa |-> "RG", nodo |-> Head(bandeja[m]).encargado, job |-> Head(bandeja[m]).job]
                  \notin TareasDe(b)
  <2>1. PICK s : s = Head(bandeja[m])
    OBVIOUS
  <2>2. s \in Solicitud /\ s = bandeja[m][1] /\ 1 \in DOMAIN bandeja[m]
    BY <1>2, <2>1, ColaDe DEF TypeOK
  <2>3. s.tipo = "T" => \A t, u \in s.tareas : t.bloque = u.bloque => t = u
    BY <2>2 DEF UnaPorBloque
  <2>4. s.tipo = "T" => \A t, u \in s.tareas \cap TareasDe(b) : t = u
    BY <1>1, <2>3
  <2>5. s.tipo = "T" /\ s.tareas \cap TareasDe(b) # {} => s \in PedidosT(b)
    BY <1>1, <2>2 DEF PedidosT
  <2>6. [etapa |-> "RG", nodo |-> s.encargado, job |-> s.job] \notin TareasDe(b)
    <3>1. PICK x : x = [etapa |-> "RG", nodo |-> s.encargado, job |-> s.job]
      OBVIOUS
    <3>2. x.etapa # "T"
      BY <3>1
    <3>3. QED
      BY <1>1, <3>1, <3>2
  <2>7. QED
    BY <2>1, <2>4, <2>5, <2>6
<1>3. QED
  BY <1>1, <1>2 DEF Lanza

LEMMA PedidosDeT == \A b \in Bloques : \A s \in PedidosT(b) : s.tipo = "T"
BY DEF PedidosT

(* Marking a record takes it out of those in process, and no other. *)
LEMMA EnCursoMarcada ==
  ASSUME TypeOK, NEW k \in DOMAIN tabla, NEW e \in {"ERROR", "FINALIZADOOK"}, NEW b \in Bloques
  PROVE  /\ Marcada(k, e) \in Seq(Registro)
         /\ Cardinality(Posiciones(tabla, EnCurso(b))) - 1
              <= Cardinality(Posiciones(Marcada(k, e), EnCurso(b)))
         /\ tabla[k] \notin EnCurso(b)
              => Cardinality(Posiciones(tabla, EnCurso(b)))
                   <= Cardinality(Posiciones(Marcada(k, e), EnCurso(b)))
<1>1. tabla \in Seq(Registro)
  BY DEF TypeOK
<1>2. PICK t, u : t = tabla /\ u = Marcada(k, e)
  OBVIOUS
<1>3. u \in Seq(Registro) /\ t \in Seq(Registro)
  BY <1>1, <1>2, PosMarcada
<1>4. \A j \in DOMAIN t \ {k} : j \in DOMAIN u /\ u[j] = t[j]
  <2>1. PICK x : x = [tabla[k] EXCEPT !.estado = e]
    OBVIOUS
  <2>2. u = [t EXCEPT ![k] = x]
    BY <1>1, <1>2, <2>1 DEF Marcada
  <2>3. QED
    BY <1>3, <2>2
<1>5. Cardinality(Posiciones(t, EnCurso(b))) - 1 <= Cardinality(Posiciones(u, EnCurso(b)))
  BY <1>3, <1>4, PosMenosUna
<1>6. ASSUME t[k] \notin EnCurso(b)
      PROVE  Cardinality(Posiciones(t, EnCurso(b))) <= Cardinality(Posiciones(u, EnCurso(b)))
  <2>1. \A j \in DOMAIN t : t[j] \in EnCurso(b) => j \in DOMAIN u /\ u[j] \in EnCurso(b)
    BY <1>4, <1>6
  <2>2. QED
    BY <1>3, <2>1, PosMonotona
<1>7. QED
  BY <1>2, <1>3, <1>5, <1>6

LEMMA EnCursoMarcaYAgrega ==
  ASSUME TypeOK, NEW k \in DOMAIN tabla, NEW etapa, NEW tipo, MarcaYAgrega(k, etapa, tipo),
         NEW b \in Bloques
  PROVE  /\ Cardinality(Posiciones(tabla, EnCurso(b))) - 1
              <= Cardinality(Posiciones(tabla', EnCurso(b)))
         /\ tabla[k] \notin EnCurso(b)
              => Cardinality(Posiciones(tabla, EnCurso(b)))
                   <= Cardinality(Posiciones(tabla', EnCurso(b)))
<1>1. PICK u : u = Marcada(k, "FINALIZADOOK")
  OBVIOUS
<1>2. PICK g, h : /\ g = Cardinality(Posiciones(tabla, EnCurso(b)))
                  /\ h = Cardinality(Posiciones(u, EnCurso(b)))
  OBVIOUS
<1>3. u \in Seq(Registro) /\ g - 1 <= h /\ (tabla[k] \notin EnCurso(b) => g <= h)
  BY <1>1, <1>2, EnCursoMarcada
<1>4. PICK r \in Registro : tabla' = Append(u, r)
  BY <1>1 DEF MarcaYAgrega
<1>5. PICK v : v = Append(u, r)
  OBVIOUS
<1>6. v \in Seq(Registro) /\ \A j \in DOMAIN u : j \in DOMAIN v /\ v[j] = u[j]
  <2>1. /\ v \in Seq(Registro) /\ DOMAIN v = 1..(Len(u) + 1) /\ \A j \in DOMAIN u : v[j] = u[j]
    BY <1>3, <1>5, Agregada
  <2>2. DOMAIN u \subseteq DOMAIN v
    BY <1>3, <2>1
  <2>3. QED
    BY <2>1, <2>2
<1>7. PICK i : i = Cardinality(Posiciones(v, EnCurso(b)))
  OBVIOUS
<1>8. h <= i
  BY <1>2, <1>3, <1>6, <1>7, PosMonotona
<1>9. g \in Nat /\ h \in Nat /\ i \in Nat
  BY <1>2, <1>3, <1>6, <1>7, PosFinitas DEF TypeOK
<1>10. g - 1 <= i /\ (tabla[k] \notin EnCurso(b) => g <= i)
  BY <1>3, <1>8, <1>9
<1>11. QED
  BY <1>2, <1>4, <1>5, <1>7, <1>10

(* Planning a job brings a record in process of every block. *)
LEMMA EnCursoNuevos ==
  ASSUME TypeOK, NEW m \in Masters, NEW job \in Jobs, NEW nodo \in [Bloques -> Nodos],
         NEW otra \in [Bloques -> Nodos], tabla' = tabla \o Nuevos(m, job, nodo, otra),
         NEW b \in Bloques
  PROVE  Cardinality(Posiciones(tabla, EnCurso(b))) + 1
           <= Cardinality(Posiciones(tabla', EnCurso(b)))
<1>1. PICK t, n, u : t = tabla /\ n = Nuevos(m, job, nodo, otra) /\ u = t \o n
  OBVIOUS
<1>2. t \in Seq(Registro) /\ n \in Seq(Registro)
  BY <1>1, SonNuevos DEF TypeOK
<1>3. PICK i, k : i = b + 1 /\ k = Len(t) + i
  OBVIOUS
<1>4. i \in DOMAIN n /\ n[i] \in EnCurso(b)
  <2>1. b \in Nat /\ i \in 1..NBloques /\ i - 1 = b
    BY <1>3, Parametros DEF Bloques
  <2>2. n[i] = [master |-> m, job |-> job, etapa |-> "T", nodo |-> nodo[b],
                otra |-> otra[b], bloque |-> b, estado |-> "ENPROCESO"]
    BY <1>1, <2>1 DEF Nuevos
  <2>3. i \in DOMAIN n
    BY <1>1, <2>1 DEF Nuevos
  <2>4. n[i] \in Registro
    BY <1>2, <2>3
  <2>5. QED
    BY <2>2, <2>3, <2>4 DEF EnCurso
<1>5. /\ u \in Seq(Registro) /\ k \in DOMAIN u /\ u[k] = n[i]
      /\ \A j \in DOMAIN t : j \in DOMAIN u /\ u[j] = t[j]
  BY <1>1, <1>2, <1>3, <1>4, Concatenadas
<1>6. k \notin DOMAIN t
  BY <1>2, <1>3, <1>4
<1>7. Cardinality(Posiciones(t, EnCurso(b))) + 1 <= Cardinality(Posiciones(u, EnCurso(b)))
  BY <1>2, <1>4, <1>5, <1>6, PosMasUna
<1>8. QED
  BY <1>1, <1>7

(* The two sides of PedidasConRegistro, for a block. *)
LEMMA FormaT ==
  ASSUME NEW q \in [Masters -> Seq(Solicitud)], NEW a \in [Masters -> Seq(Aviso)],
         NEW h \in [Masters -> [Tarea -> Nat]], NEW t \in Seq(Registro), NEW b \in Bloques
  PROVE  /\ EnViaje(q, a, h, PedidosT(b), TareasDe(b)) \in Nat
         /\ Cardinality(Posiciones(t, EnCurso(b))) \in Nat
         /\ EnViaje(q, a, h, PedidosT(b), TareasDe(b))
              = Cardinality(Mensajes(q, PedidosT(b)))
                  + (Cardinality(Mensajes(a, Noticias(TareasDe(b))))
                       + Cardinality(Corriendo(h, TareasDe(b))))
         /\ Cardinality(Mensajes(q, PedidosT(b))) \in Nat
         /\ Cardinality(Mensajes(a, Noticias(TareasDe(b))))
              + Cardinality(Corriendo(h, TareasDe(b))) \in Nat
<1>1. PICK x, y, z :
        /\ x = Cardinality(Mensajes(q, PedidosT(b)))
        /\ y = Cardinality(Mensajes(a, Noticias(TareasDe(b))))
        /\ z = Cardinality(Corriendo(h, TareasDe(b)))
  OBVIOUS
<1>2. TareasDe(b) \in SUBSET Tarea /\ IsFiniteSet(TareasDe(b))
  BY TareasFinitas
<1>3. x \in Nat /\ y \in Nat /\ z \in Nat
  BY <1>1, <1>2, CuentasNaturales
<1>4. x + y + z \in Nat /\ x + y + z = x + (y + z) /\ y + z \in Nat
  BY <1>3
<1>5. EnViaje(q, a, h, PedidosT(b), TareasDe(b)) = x + y + z
  BY <1>1 DEF EnViaje
<1>6. Cardinality(Posiciones(t, EnCurso(b))) \in Nat
  BY PosFinitas
<1>7. QED
  BY <1>1, <1>3, <1>4, <1>5, <1>6

LEMMA PasoT ==
  ASSUME TypeOK, TypeOK', UnaPorBloque, [Next]_vars, NEW b \in Bloques,
         EnViaje(bandeja, aYama, hilos, PedidosT(b), TareasDe(b))
           <= Cardinality(Posiciones(tabla, EnCurso(b)))
  PROVE  EnViaje(bandeja', aYama', hilos', PedidosT(b), TareasDe(b))
           <= Cardinality(Posiciones(tabla', EnCurso(b)))
<1> DEFINE V0 == EnViaje(bandeja, aYama, hilos, PedidosT(b), TareasDe(b))
           V1 == EnViaje(bandeja', aYama', hilos', PedidosT(b), TareasDe(b))
           G0 == Cardinality(Posiciones(tabla, EnCurso(b)))
           G1 == Cardinality(Posiciones(tabla', EnCurso(b)))
           B0 == Cardinality(Mensajes(bandeja, PedidosT(b)))
           B1 == Cardinality(Mensajes(bandeja', PedidosT(b)))
           Meta == V1 <= G1
<1> SUFFICES Meta
  OBVIOUS
<1>1. /\ TareasDe(b) \in SUBSET Tarea /\ IsFiniteSet(TareasDe(b))
      /\ Lanza(PedidosT(b), TareasDe(b))
  BY TareasFinitas, LanzaT
<1>2. V0 \in Nat /\ G0 \in Nat /\ B0 \in Nat /\ V0 <= G0
  BY FormaT DEF TypeOK
<1>3. V1 \in Nat /\ G1 \in Nat /\ B1 \in Nat
  BY FormaT DEF TypeOK
<1>4. ASSUME NEW w \in {-1, 0, 1}, V1 <= V0 + w, G0 + w <= G1 PROVE V1 <= G1
  <2>1. PICK v, g, x, y : v = V0 /\ g = G0 /\ x = V1 /\ y = G1
    OBVIOUS
  <2>2. v \in Nat /\ g \in Nat /\ v <= g /\ x \in Nat /\ y \in Nat /\ x <= v + w /\ g + w <= y
    BY <1>2, <1>3, <1>4, <2>1
  <2>3. x <= y
    BY <2>2
  <2>4. QED
    BY <2>1, <2>3
<1>5. ASSUME NEW m \in Masters, NEW etapa, RecibeFin(m, etapa), NEW n \in {0, 1},
             n = 1 => Head(aYama[m]) \in Noticias(TareasDe(b)), B1 <= B0, G0 - n <= G1
      PROVE  V1 <= G1
  <2>1. Recibe(m, "FIN") /\ hilos' = hilos
    BY <1>5, Ajeno DEF RecibeFin
  <2>2. PICK x \in {0, 1} : x = 0
    OBVIOUS
  <2>3. B1 <= B0 + x
    BY <1>2, <1>3, <1>5, <2>2
  <2>4. V1 <= V0 + (x - n)
    BY <1>1, <1>5, <2>1, <2>3, ViajeFin
  <2>5. PICK w \in {-1, 0, 1} : w = x - n /\ w = 0 - n
    BY <2>2
  <2>6. G0 + w <= G1
    BY <1>2, <1>3, <1>5, <2>5
  <2>7. QED
    BY <1>4, <2>4, <2>5, <2>6
<1>6. ASSUME NEW m \in Masters, NEW etapa, RecibeFin(m, etapa), B1 <= B0, G0 <= G1
      PROVE  V1 <= G1
  <2>1. PICK x \in {0, 1} : x = 0
    OBVIOUS
  <2>2. G0 - x <= G1 /\ x # 1
    BY <1>2, <1>3, <1>6, <2>1
  <2>3. QED
    BY <1>5, <1>6, <2>2
<1>7. ASSUME tabla' = tabla PROVE G0 <= G1
  BY <1>2, <1>7
<1>8. ASSUME bandeja' = bandeja PROVE B1 <= B0
  BY <1>2, <1>8
<1>9. ASSUME NEW n \in Masters, NEW msg \in Solicitud, Enviar(n, msg)
      PROVE  B1 <= B0 + 1 /\ (msg.tipo # "T" => B1 <= B0)
  BY <1>9, CuentaEnviado, PedidosDeT
<1>10. ASSUME NEW k \in DOMAIN tabla, NEW e \in {"ERROR", "FINALIZADOOK"}, Marca(k, e)
       PROVE  G0 - 1 <= G1 /\ (tabla[k] \notin EnCurso(b) => G0 <= G1) /\ B1 <= B0
  BY <1>8, <1>10, EnCursoMarcada DEF Marca, SinEnviar
<1>11. ASSUME NEW k \in DOMAIN tabla, NEW etapa, NEW tipo, tipo # "T", MarcaYAgrega(k, etapa, tipo)
       PROVE  G0 - 1 <= G1 /\ (tabla[k] \notin EnCurso(b) => G0 <= G1) /\ B1 <= B0
  <2>1. B1 <= B0
    BY <1>9, <1>11 DEF MarcaYAgrega
  <2>2. G0 - 1 <= G1 /\ (tabla[k] \notin EnCurso(b) => G0 <= G1)
    BY <1>11, EnCursoMarcaYAgrega
  <2>3. QED
    BY <2>1, <2>2
<1>12. ASSUME NEW m \in Masters, RecibeFin(m, "T"), Head(aYama[m]).tarea.bloque = b
       PROVE  Head(aYama[m]) \in Noticias(TareasDe(b))
  <2>1. PICK a, t : a = Head(aYama[m]) /\ t = a.tarea
    OBVIOUS
  <2>2. a \in Aviso /\ a.tipo = "FIN" /\ t \in Tarea /\ t.etapa = "T" /\ t.bloque = b
    BY <1>12, <2>1, Recibida, FinRecibido DEF RecibeFin
  <2>3. t \in TareasDe(b)
    BY <2>2 DEF Tarea, TareaT, TareasDe
  <2>4. a \in Noticias(TareasDe(b))
    BY <2>1, <2>2, <2>3 DEF Aviso, Noticias
  <2>5. QED
    BY <2>1, <2>4
(* The end of a transformation takes its own block's record, or none. *)
<1>13. ASSUME NEW m \in Masters, RecibeFin(m, "T"), B1 <= B0,
              NEW k \in EnProceso(Head(aYama[m]).tarea.bloque, Head(aYama[m]).tarea.job),
              G0 - 1 <= G1, tabla[k] \notin EnCurso(b) => G0 <= G1
       PROVE  V1 <= G1
  <2>1. CASE Head(aYama[m]).tarea.bloque = b
    <3>1. PICK n \in {0, 1} : n = 1
      OBVIOUS
    <3>2. G0 - n <= G1
      BY <1>13, <3>1
    <3>3. Head(aYama[m]) \in Noticias(TareasDe(b))
      BY <1>12, <1>13, <2>1
    <3>4. QED
      BY <1>5, <1>13, <3>2, <3>3
  <2>2. CASE Head(aYama[m]).tarea.bloque # b
    <3>1. tabla[k] \notin EnCurso(b)
      BY <2>2 DEF EnProceso, EnCurso
    <3>2. QED
      BY <1>6, <1>13, <3>1
  <2>3. QED
    BY <2>1, <2>2
<1>14. ASSUME RecibirBloques PROVE Meta
  <2>1. PICK m \in Masters, job \in Jobs, nodo \in [Bloques -> Nodos], otra \in [Bloques -> Nodos] :
          /\ tabla' = tabla \o Nuevos(m, job, nodo, otra)
          /\ Enviar(m, PedidoT(job, nodo))
    BY <1>14, AlPlanificar
  <2>2. PICK msg : msg = PedidoT(job, nodo)
    OBVIOUS
  <2>3. msg \in Solicitud
    BY <2>2, SonNuevos
  <2>4. B1 <= B0 + 1
    BY <1>9, <2>1, <2>2, <2>3
  <2>5. G0 + 1 <= G1
    BY <2>1, EnCursoNuevos
  <2>6. aYama' = aYama /\ hilos' = hilos
    BY <1>14 DEF RecibirBloques, procesos
  <2>7. PICK w \in {-1, 0, 1} : w = 1
    OBVIOUS
  <2>8. V1 <= V0 + w
    <3>1. /\ Cardinality(Mensajes(aYama', Noticias(TareasDe(b))))
               <= Cardinality(Mensajes(aYama, Noticias(TareasDe(b)))) + 0
          /\ Cardinality(Corriendo(hilos', TareasDe(b))) <= Cardinality(Corriendo(hilos, TareasDe(b))) + 0
      BY <1>1, <2>6, Quietas
    <3>2. w \in Int /\ 0 \in Int /\ w + 0 + 0 <= w
      BY <2>7
    <3>3. B1 <= B0 + w
      BY <2>4, <2>7
    <3>4. QED
      BY <1>1, <3>1, <3>2, <3>3, Balance
  <2>9. QED
    BY <1>4, <2>5, <2>7, <2>8
<1>15. ASSUME ~RecibirBloques, \A m \in Masters : ~EsFin(m) PROVE Meta
  <2>1. PICK x \in {-1, 0, 1} : x = 0
    OBVIOUS
  <2>2. V1 <= V0 + x
    BY <1>1, <1>15, <2>1, ViajeDemas
  <2>3. G0 + x <= G1
    BY <1>2, <1>3, <1>7, <1>15, <2>1, LosDemas
  <2>4. QED
    BY <1>4, <2>2, <2>3
<1>16. ASSUME NEW m \in Masters, FinTransformacionOk(m) PROVE V1 <= G1
  <2>1. RecibeFin(m, "T")
    BY <1>16 DEF FinTransformacionOk
  <2>2. CASE UNCHANGED <<tabla, bandeja>>
    BY <1>6, <1>7, <1>8, <2>1, <2>2
  <2>3. ASSUME NEW k \in EnProceso(Head(aYama[m]).tarea.bloque, Head(aYama[m]).tarea.job),
               Marca(k, "FINALIZADOOK") \/ MarcaYAgrega(k, "RL", "RL")
        PROVE  V1 <= G1
    <3>1. k \in DOMAIN tabla
      BY DEF EnProceso
    <3>2. G0 - 1 <= G1 /\ (tabla[k] \notin EnCurso(b) => G0 <= G1) /\ B1 <= B0
      BY <1>10, <1>11, <2>3, <3>1
    <3>3. QED
      BY <1>13, <2>1, <3>2
  <2>4. QED
    BY <1>16, <2>2, <2>3, EfectoTOk
<1>17. ASSUME NEW m \in Masters, FinTransformacionMal(m) PROVE V1 <= G1
  <2>1. RecibeFin(m, "T")
    BY <1>17 DEF FinTransformacionMal
  <2>2. CASE UNCHANGED <<tabla, bandeja>>
    BY <1>6, <1>7, <1>8, <2>1, <2>2
  <2>3. ASSUME NEW k \in EnProceso(Head(aYama[m]).tarea.bloque, Head(aYama[m]).tarea.job),
               Marca(k, "ERROR")
        PROVE  V1 <= G1
    <3>1. k \in DOMAIN tabla
      BY DEF EnProceso
    <3>2. G0 - 1 <= G1 /\ (tabla[k] \notin EnCurso(b) => G0 <= G1) /\ B1 <= B0
      BY <1>10, <2>3, <3>1
    <3>3. QED
      BY <1>13, <2>1, <3>2
  <2>4. ASSUME NEW k \in EnProceso(Head(aYama[m]).tarea.bloque, Head(aYama[m]).tarea.job),
               tabla' = [tabla EXCEPT ![k].etapa = "T", ![k].nodo = tabla[k].otra,
                                      ![k].otra = tabla[k].nodo]
        PROVE  G0 <= G1
    <3>1. PICK t, u : t = tabla /\ u = tabla'
      OBVIOUS
    <3>2. t \in Seq(Registro) /\ u \in Seq(Registro) /\ k \in DOMAIN t
      BY <3>1 DEF TypeOK, EnProceso
    <3>3. PICK x : x = [t[k] EXCEPT !.etapa = "T", !.nodo = t[k].otra, !.otra = t[k].nodo]
      OBVIOUS
    <3>4. u = [t EXCEPT ![k] = x]
      BY <2>4, <3>1, <3>2, <3>3
    <3>5. x.etapa = "T" /\ x.bloque = t[k].bloque /\ x.estado = t[k].estado
      BY <3>2, <3>3 DEF Registro
    <3>6. DOMAIN u = DOMAIN t /\ u[k] = x /\ \A j \in DOMAIN t \ {k} : u[j] = t[j]
      BY <3>2, <3>4
    <3>7. x \in Registro
      BY <3>2, <3>6
    <3>8. t[k] \in EnCurso(b) => x \in EnCurso(b)
      BY <3>5, <3>7 DEF EnCurso
    <3>9. \A j \in DOMAIN t : t[j] \in EnCurso(b) => j \in DOMAIN u /\ u[j] \in EnCurso(b)
      BY <3>6, <3>8
    <3>10. Cardinality(Posiciones(t, EnCurso(b))) <= Cardinality(Posiciones(u, EnCurso(b)))
      BY <3>2, <3>9, PosMonotona
    <3>11. QED
      BY <3>1, <3>10
  <2>5. ASSUME NEW msg \in Solicitud, msg.tipo = "REPLAN", Enviar(m, msg) PROVE B1 <= B0
    BY <1>9, <2>5
  <2>6. QED
    BY <1>6, <1>17, <2>1, <2>2, <2>3, <2>4, <2>5, EfectoTMal
<1>18. ASSUME NEW k \in DOMAIN tabla, tabla[k].etapa # "T" PROVE tabla[k] \notin EnCurso(b)
  BY <1>18 DEF EnCurso
<1>19. ASSUME NEW m \in Masters, FinReduccionLocalOk(m) PROVE V1 <= G1
  <2>1. RecibeFin(m, "RL")
    BY <1>19 DEF FinReduccionLocalOk
  <2>2. G0 <= G1 /\ B1 <= B0
    BY <1>7, <1>8, <1>10, <1>11, <1>18, <1>19, EfectoRLOk
  <2>3. QED
    BY <1>6, <2>1, <2>2
<1>20. ASSUME NEW m \in Masters, FinReduccionGlobalOk(m) PROVE V1 <= G1
  <2>1. RecibeFin(m, "RG")
    BY <1>20 DEF FinReduccionGlobalOk
  <2>2. G0 <= G1 /\ B1 <= B0
    BY <1>7, <1>8, <1>11, <1>18, <1>20, EfectoRGOk
  <2>3. QED
    BY <1>6, <2>1, <2>2
<1>21. ASSUME NEW m \in Masters, FinReduccionLocalMal(m) \/ FinReduccionGlobalMal(m)
       PROVE  V1 <= G1
  <2>1. PICK etapa : RecibeFin(m, etapa)
    BY <1>21 DEF FinReduccionLocalMal, FinReduccionGlobalMal
  <2>2. G0 <= G1 /\ B1 <= B0
    BY <1>7, <1>8, <1>10, <1>18, <1>21, EfectoAbortar
  <2>3. QED
    BY <1>6, <2>1, <2>2
<1>22. /\ RecibirBloques => Meta
       /\ \A m \in Masters : EsFin(m) => Meta
       /\ (~RecibirBloques /\ \A m \in Masters : ~EsFin(m)) => Meta
  <2> HIDE DEF V0, V1, G0, G1, B0, B1
  <2>1. QED
    BY <1>14, <1>15, <1>16, <1>17, <1>19, <1>20, <1>21 DEF EsFin
<1> HIDE DEF Meta
<1>23. QED
  BY <1>22

LEMMA PasoPedidas ==
  ASSUME TypeOK, TypeOK', UnaPorBloque, PedidasConRegistro, [Next]_vars
  PROVE  PedidasConRegistro'
<1> SUFFICES ASSUME NEW b \in Bloques
             PROVE  Cardinality(Mensajes(bandeja', PedidosT(b)))
                      + (Cardinality(Mensajes(aYama', Noticias(TareasDe(b))))
                           + Cardinality(Corriendo(hilos', TareasDe(b))))
                      <= Cardinality(Posiciones(tabla', EnCurso(b)))
  BY DEF PedidasConRegistro, Pendientes
<1>1. /\ bandeja \in [Masters -> Seq(Solicitud)] /\ aYama \in [Masters -> Seq(Aviso)]
      /\ hilos \in [Masters -> [Tarea -> Nat]] /\ tabla \in Seq(Registro)
      /\ bandeja' \in [Masters -> Seq(Solicitud)] /\ aYama' \in [Masters -> Seq(Aviso)]
      /\ hilos' \in [Masters -> [Tarea -> Nat]] /\ tabla' \in Seq(Registro)
  BY DEF TypeOK
<1>2. Cardinality(Mensajes(bandeja, PedidosT(b)))
        + (Cardinality(Mensajes(aYama, Noticias(TareasDe(b))))
             + Cardinality(Corriendo(hilos, TareasDe(b))))
        <= Cardinality(Posiciones(tabla, EnCurso(b)))
  BY DEF PedidasConRegistro, Pendientes
<1>3. EnViaje(bandeja, aYama, hilos, PedidosT(b), TareasDe(b))
        <= Cardinality(Posiciones(tabla, EnCurso(b)))
  BY <1>1, <1>2, FormaT
<1>4. EnViaje(bandeja', aYama', hilos', PedidosT(b), TareasDe(b))
        <= Cardinality(Posiciones(tabla', EnCurso(b)))
  BY <1>3, PasoT
<1>5. QED
  BY <1>1, <1>4, FormaT

LEMMA AlPrincipioT == Init => UnaPorBloque /\ PedidasConRegistro
<1> SUFFICES ASSUME Init PROVE UnaPorBloque /\ PedidasConRegistro
  OBVIOUS
<1>1. UnaPorBloque
  BY DEF Init, UnaPorBloque
<1>2. ASSUME NEW b \in Bloques
      PROVE  Cardinality(Mensajes(bandeja, PedidosT(b)))
               + (Cardinality(Mensajes(aYama, Noticias(TareasDe(b))))
                    + Cardinality(Corriendo(hilos, TareasDe(b))))
               <= Cardinality(Posiciones(tabla, EnCurso(b)))
  <2>1. /\ Cardinality(Mensajes(bandeja, PedidosT(b))) = 0
        /\ Cardinality(Corriendo(hilos, TareasDe(b))) = 0
        /\ Cardinality(Posiciones(tabla, EnCurso(b))) = 0
    BY NadaAlPrincipio, TareasFinitas
  <2>2. Cardinality(Mensajes(aYama, Noticias(TareasDe(b)))) = 0
    BY NadaAlPrincipio, TareasFinitas
  <2>3. QED
    BY <2>1, <2>2
<1>3. QED
  BY <1>1, <1>2 DEF PedidasConRegistro, Pendientes

LEMMA PedidasBasta ==
  ASSUME TypeOK, PedidasConRegistro PROVE FinTConRegistro
<1> SUFFICES ASSUME NEW b \in Bloques
             PROVE  Pendientes(TareasDe(b)) <= Cardinality(Posiciones(tabla, EnCurso(b)))
  BY DEF FinTConRegistro
<1>1. PICK x, y, z : /\ x = Cardinality(Mensajes(bandeja, PedidosT(b)))
                     /\ y = Pendientes(TareasDe(b))
                     /\ z = Cardinality(Posiciones(tabla, EnCurso(b)))
  OBVIOUS
<1>2. x + y <= z
  BY <1>1 DEF PedidasConRegistro
<1>3. x \in Nat /\ y \in Nat /\ z \in Nat
  BY <1>1, FormaT DEF TypeOK, Pendientes
<1>4. QED
  BY <1>1, <1>2, <1>3

(* With any number of masters, whichever record the end of each             *)
(* transformation is attributed to and however many are replanned: every     *)
(* transformation that runs, or whose end is not read yet, has a record of   *)
(* its block in process of its own.  Two FINTRANSFORMACION (772) never need  *)
(* the same one.                                                             *)
THEOREM SiempreFinT == Spec => []FinTConRegistro
<1>1. TypeOK /\ TypeOK' /\ UnaPorBloque /\ PedidasConRegistro /\ [Next]_vars
        => UnaPorBloque' /\ PedidasConRegistro'
  BY PasoUna, PasoPedidas
<1>2. TypeOK /\ PedidasConRegistro => FinTConRegistro
  BY PedidasBasta
<1>3. QED
  BY <1>1, <1>2, TiposYama, AlPrincipioT, PTL DEF Spec

-----------------------------------------------------------------------------
(* With one master.                                                          *)
UnMasterSolo == \A a, c \in Masters : a = c

(* The task t was asked for, runs, or its end is not read yet. *)
Pide(q, t) == \E m \in Masters : \E i \in DOMAIN q[m] : q[m][i].tipo = "T" /\ t \in q[m][i].tareas
Corre(h, t) == \E m \in Masters : h[m][t] > 0
Avisa(a, t) == \E m \in Masters : \E i \in DOMAIN a[m] : a[m][i].tipo = "FIN" /\ a[m][i].tarea = t
Viaja(q, h, a, t) == Pide(q, t) \/ Corre(h, t) \/ Avisa(a, t)

(* Its only job is planned once: the records of the blocks come first. *)
Planificada ==
  \/ tabla = <<>> /\ \A m \in Masters : contJobs[m] = 0
  \/ /\ \A m \in Masters : contJobs[m] = 1
     /\ NBloques <= Len(tabla)
     /\ \A k \in DOMAIN tabla :
          IF k <= NBloques THEN tabla[k].etapa = "T" /\ tabla[k].bloque = k - 1 /\ tabla[k].job = 1
          ELSE tabla[k].etapa # "T"

(* A task on its way is what its record says, and the reduction of its node  *)
(* was not requested.                                                        *)
Debida(u, t) ==
  /\ t.bloque + 1 \in DOMAIN u
  /\ u[t.bloque + 1].estado = "ENPROCESO" /\ u[t.bloque + 1].nodo = t.nodo
  /\ u[t.bloque + 1].job = t.job
  /\ \A k \in DOMAIN u : u[k].etapa = "RL" => u[k].nodo # t.nodo

Debidas == \A t \in TareaT : Viaja(bandeja, hilos, aYama, t) => Debida(tabla, t)

-----------------------------------------------------------------------------
(* What a queue holds after it lost its first message, or all of them, or    *)
(* got one more.                                                             *)
LEMMA ColaTomada ==
  ASSUME NEW X, NEW q \in [Masters -> Seq(X)], NEW m \in Masters, NEW s, NEW r,
         s = <<>> \/ (q[m] # <<>> /\ s = Tail(q[m])), r = [q EXCEPT ![m] = s]
  PROVE  \A n \in Masters : \A i \in DOMAIN r[n] : \E j \in DOMAIN q[n] : r[n][i] = q[n][j]
<1>1. \A i \in DOMAIN s : \E j \in DOMAIN q[m] : s[i] = q[m][j]
  <2>1. CASE s = <<>>
    BY <2>1
  <2>2. CASE q[m] # <<>> /\ s = Tail(q[m])
    <3>1. PICK p \in Seq(X) : p = q[m]
      OBVIOUS
    <3>2. \A i \in DOMAIN s : i + 1 \in DOMAIN p /\ s[i] = p[i + 1]
      BY <2>2, <3>1
    <3>3. QED
      BY <3>1, <3>2
  <2>3. QED
    BY <2>1, <2>2
<1>2. r[m] = s /\ \A n \in Masters \ {m} : r[n] = q[n]
  OBVIOUS
<1>3. QED
  BY <1>1, <1>2

LEMMA ColaAgregada ==
  ASSUME NEW X, NEW q \in [Masters -> Seq(X)], NEW m \in Masters, NEW x, NEW r,
         r = [q EXCEPT ![m] = Append(@, x)]
  PROVE  \A n \in Masters : \A i \in DOMAIN r[n] :
           r[n][i] = x \/ \E j \in DOMAIN q[n] : r[n][i] = q[n][j]
<1>1. PICK p \in Seq(X) : p = q[m]
  OBVIOUS
<1>2. PICK s : s = Append(p, x)
  OBVIOUS
<1>3. \A i \in DOMAIN s : s[i] = x \/ (i \in DOMAIN p /\ s[i] = p[i])
  BY <1>1, <1>2
<1>4. r[m] = s /\ \A n \in Masters \ {m} : r[n] = q[n]
  BY <1>1, <1>2
<1>5. QED
  BY <1>1, <1>3, <1>4

(* No handler but the planning's asks for a task. *)
LEMMA PideEnviado ==
  ASSUME TypeOK, NEW n \in Masters, NEW msg, msg.tipo # "T", Enviar(n, msg), NEW t,
         Pide(bandeja', t)
  PROVE  Pide(bandeja, t)
<1>1. PICK q, r : q = bandeja /\ r = bandeja'
  OBVIOUS
<1>2. q \in [Masters -> Seq(Solicitud)] /\ (r = q \/ r = [q EXCEPT ![n] = Append(@, msg)])
  BY <1>1 DEF TypeOK, Enviar
<1>3. PICK m \in Masters : \E i \in DOMAIN r[m] : r[m][i].tipo = "T" /\ t \in r[m][i].tareas
  BY <1>1 DEF Pide
<1>4. PICK i \in DOMAIN r[m] : r[m][i].tipo = "T" /\ t \in r[m][i].tareas
  BY <1>3
<1>5. CASE r = q
  BY <1>1, <1>5
<1>6. CASE r = [q EXCEPT ![n] = Append(@, msg)]
  <2>1. PICK j \in DOMAIN q[m] : r[m][i] = q[m][j]
    BY <1>2, <1>6, <1>4, ColaAgregada
  <2>2. QED
    BY <1>1, <1>4, <2>1 DEF Pide
<1>7. QED
  BY <1>2, <1>5, <1>6

LEMMA PideTomado ==
  ASSUME TypeOK, NEW m \in Masters, Terminar(m) \/ (Atendido(m) /\ bandeja[m] # <<>>), NEW t,
         Pide(bandeja', t)
  PROVE  Pide(bandeja, t)
<1>1. PICK q, r : q = bandeja /\ r = bandeja'
  OBVIOUS
<1>2. q \in [Masters -> Seq(Solicitud)]
  BY <1>1 DEF TypeOK
<1>3. PICK s : /\ r = [q EXCEPT ![m] = s]
               /\ s = <<>> \/ (q[m] # <<>> /\ s = Tail(q[m]))
  BY <1>1 DEF Terminar, Atendido
<1>4. PICK n \in Masters : \E i \in DOMAIN r[n] : r[n][i].tipo = "T" /\ t \in r[n][i].tareas
  BY <1>1 DEF Pide
<1>5. PICK i \in DOMAIN r[n] : r[n][i].tipo = "T" /\ t \in r[n][i].tareas
  BY <1>4
<1>6. \A l \in Masters : \A k \in DOMAIN r[l] : \E j \in DOMAIN q[l] : r[l][k] = q[l][j]
  <2>1. CASE s = <<>>
    BY <1>2, <1>3, <2>1, ColaTomada
  <2>2. CASE q[m] # <<>> /\ s = Tail(q[m])
    BY <1>2, <1>3, <2>2, ColaTomada
  <2>3. QED
    BY <1>3, <2>1, <2>2
<1>7. PICK j \in DOMAIN q[n] : r[n][i] = q[n][j]
  BY <1>5, <1>6
<1>8. QED
  BY <1>1, <1>5, <1>7 DEF Pide

LEMMA AvisaLeido ==
  ASSUME TypeOK, NEW m \in Masters, NEW tipo, Recibe(m, tipo), NEW t, Avisa(aYama', t)
  PROVE  Avisa(aYama, t)
<1>1. PICK q, r : q = aYama /\ r = aYama'
  OBVIOUS
<1>2. q \in [Masters -> Seq(Aviso)] /\ q[m] # <<>>
  BY <1>1 DEF TypeOK, Recibe
<1>3. PICK s : r = [q EXCEPT ![m] = s] /\ s = Tail(q[m])
  BY <1>1 DEF Recibe
<1>4. PICK n \in Masters : \E i \in DOMAIN r[n] : r[n][i].tipo = "FIN" /\ r[n][i].tarea = t
  BY <1>1 DEF Avisa
<1>5. PICK i \in DOMAIN r[n] : r[n][i].tipo = "FIN" /\ r[n][i].tarea = t
  BY <1>4
<1>6. PICK j \in DOMAIN q[n] : r[n][i] = q[n][j]
  BY <1>2, <1>3, <1>5, ColaTomada
<1>7. QED
  BY <1>1, <1>5, <1>6 DEF Avisa

LEMMA CorreTerminar ==
  ASSUME TypeOK, NEW m \in Masters, Terminar(m), NEW t \in Tarea, Corre(hilos', t)
  PROVE  Corre(hilos, t)
<1>1. PICK h, g : h = hilos /\ g = hilos'
  OBVIOUS
<1>2. h \in [Masters -> [Tarea -> Nat]] /\ g = [h EXCEPT ![m] = SinHilos] /\ SinHilos[t] = 0
  BY <1>1 DEF TypeOK, Terminar, SinHilos
<1>3. PICK n \in Masters : g[n][t] > 0
  BY <1>1 DEF Corre
<1>4. n # m
  BY <1>2, <1>3
<1>5. g[n] = h[n]
  BY <1>2, <1>4
<1>6. QED
  BY <1>1, <1>3, <1>5 DEF Corre

LEMMA CorreLanzado ==
  ASSUME TypeOK, NEW m \in Masters, NEW T, NuevosHilos(m, T), NEW t \in Tarea, Corre(hilos', t)
  PROVE  Corre(hilos, t) \/ t \in T
<1>1. PICK h, g : h = hilos /\ g = hilos'
  OBVIOUS
<1>2. h \in [Masters -> [Tarea -> Nat]]
      /\ g = [h EXCEPT ![m] = [u \in Tarea |-> @[u] + IF u \in T THEN 1 ELSE 0]]
  BY <1>1 DEF TypeOK, NuevosHilos
<1>3. PICK n \in Masters : g[n][t] > 0
  BY <1>1 DEF Corre
<1>4. t \notin T => g[n][t] = h[n][t]
  <2>1. CASE n # m
    BY <1>2, <2>1
  <2>2. CASE n = m
    <3>1. g[n] = [u \in Tarea |-> h[m][u] + IF u \in T THEN 1 ELSE 0]
      BY <1>2, <2>2
    <3>2. g[n][t] = h[m][t] + IF t \in T THEN 1 ELSE 0
      BY <3>1
    <3>3. h[m][t] \in Nat
      BY <1>2
    <3>4. QED
      BY <2>2, <3>2, <3>3
  <2>3. QED
    BY <2>1, <2>2
<1>5. QED
  BY <1>1, <1>3, <1>4 DEF Corre

LEMMA CorreTerminado ==
  ASSUME TypeOK, NEW m \in Masters, NEW x \in Tarea, hilos' = [hilos EXCEPT ![m][x] = @ - 1],
         NEW t \in Tarea, Corre(hilos', t)
  PROVE  Corre(hilos, t)
<1>1. PICK h, g : h = hilos /\ g = hilos'
  OBVIOUS
<1>2. h \in [Masters -> [Tarea -> Nat]] /\ g = [h EXCEPT ![m][x] = @ - 1]
  BY <1>1 DEF TypeOK
<1>3. PICK n \in Masters : g[n][t] > 0
  BY <1>1 DEF Corre
<1>4. g[n][t] = h[n][t] \/ g[n][t] = h[n][t] - 1
  BY <1>2
<1>5. h[n][t] \in Nat
  BY <1>2
<1>6. h[n][t] > 0
  BY <1>3, <1>4, <1>5
<1>7. QED
  BY <1>1, <1>6 DEF Corre

(* Nothing new is asked for, run or told but what a planning asked for.      *)
LEMMA ViajabaAntes ==
  ASSUME TypeOK, [Next]_vars, ~RecibirBloques, NEW t \in TareaT,
         Viaja(bandeja', hilos', aYama', t)
  PROVE  Viaja(bandeja, hilos, aYama, t)
<1> DEFINE Va == Viaja(bandeja, hilos, aYama, t)
           Sube == Pide(bandeja', t) => Pide(bandeja, t)
<1>1. t \in Tarea /\ t.etapa = "T"
  BY DEF Tarea, TareaT
<1>2. CASE bandeja' = bandeja /\ hilos' = hilos /\ aYama' = aYama
  BY <1>2
<1>3. ASSUME NEW m \in Masters, NEW tipo, Recibe(m, tipo), hilos' = hilos, Sube PROVE Va
  BY <1>3, AvisaLeido DEF Viaja
<1>4. ASSUME NEW m \in Masters, NEW etapa, RecibeFin(m, etapa), Sube PROVE Va
  BY <1>3, <1>4, Ajeno DEF RecibeFin
<1>5. ASSUME bandeja' = bandeja PROVE Sube
  BY <1>5
<1>6. ASSUME NEW k, NEW e, Marca(k, e) PROVE Sube
  BY <1>6 DEF Marca, SinEnviar
<1>7. ASSUME NEW k, NEW etapa, NEW tipo, tipo # "T", MarcaYAgrega(k, etapa, tipo) PROVE Sube
  BY <1>7, PideEnviado DEF MarcaYAgrega
<1>8. ASSUME NEW m \in Masters, EsFin(m) PROVE (\E etapa : RecibeFin(m, etapa)) /\ Sube
  <2>1. \E etapa : RecibeFin(m, etapa)
    BY <1>8 DEF EsFin, FinTransformacionOk, FinTransformacionMal, FinReduccionLocalOk,
                FinReduccionLocalMal, FinReduccionGlobalOk, FinReduccionGlobalMal
  <2>2. ASSUME NEW n \in Masters, NEW msg \in Solicitud, msg.tipo = "REPLAN", Enviar(n, msg)
        PROVE  Sube
    BY <2>2, PideEnviado
  <2> HIDE DEF Sube
  <2>3. CASE FinTransformacionOk(m)
    BY <2>1, <1>5, <1>6, <1>7, <2>3, EfectoTOk
  <2>4. CASE FinTransformacionMal(m)
    BY <2>1, <1>5, <1>6, <2>2, <2>4, EfectoTMal
  <2>5. CASE FinReduccionLocalOk(m)
    BY <2>1, <1>5, <1>6, <1>7, <2>5, EfectoRLOk
  <2>6. CASE FinReduccionGlobalOk(m)
    BY <2>1, <1>5, <1>7, <2>6, EfectoRGOk
  <2>7. CASE FinReduccionLocalMal(m) \/ FinReduccionGlobalMal(m)
    BY <2>1, <1>5, <1>6, <2>7, EfectoAbortar
  <2>8. QED
    BY <1>8, <2>1, <2>3, <2>4, <2>5, <2>6, <2>7 DEF EsFin
<1>9. ASSUME NEW m \in Masters, Terminar(m), aYama' = aYama PROVE Va
  BY <1>1, <1>9, PideTomado, CorreTerminar DEF Viaja
<1>10. ASSUME NEW m \in Masters, NEW tipo, MasterRecibe(m, tipo), Atendido(m),
              Corre(hilos', t) => Va
       PROVE  Va
  <2>1. bandeja[m] # <<>> /\ aYama' = aYama
    BY <1>10 DEF MasterRecibe
  <2>2. QED
    BY <1>10, <2>1, PideTomado DEF Viaja
<1>11. ASSUME hilos' = hilos PROVE Corre(hilos', t) => Va
  BY <1>11 DEF Viaja
<1>12. ASSUME NEW m \in Masters, RecibirT(m) PROVE Va
  <2>1. MasterRecibe(m, "T") /\ NuevosHilos(m, Head(bandeja[m]).tareas) /\ Atendido(m)
    BY <1>12 DEF RecibirT
  <2>2. ASSUME t \in Head(bandeja[m]).tareas PROVE Pide(bandeja, t)
    <3>1. bandeja[m] # <<>> /\ Head(bandeja[m]).tipo = "T" /\ bandeja[m] \in Seq(Solicitud)
      BY <2>1 DEF MasterRecibe, TypeOK
    <3>2. Head(bandeja[m]) = bandeja[m][1] /\ 1 \in DOMAIN bandeja[m]
      BY <3>1, ColaDe
    <3>3. QED
      BY <2>2, <3>1, <3>2 DEF Pide
  <2>3. Corre(hilos', t) => Va
    BY <1>1, <2>1, <2>2, CorreLanzado DEF Viaja
  <2>4. QED
    BY <1>10, <2>1, <2>3
<1>13. ASSUME NEW m \in Masters, RecibirReplan(m) PROVE Va
  <2>1. CASE Atendido(m) /\ hilos' = hilos
    BY <1>10, <1>11, <1>13, <2>1 DEF RecibirReplan
  <2>2. CASE Terminar(m)
    BY <1>9, <1>13, <2>2 DEF RecibirReplan, MasterRecibe
  <2>3. QED
    BY <1>13, <2>1, <2>2 DEF RecibirReplan
<1>14. ASSUME NEW m \in Masters, NEW x, x.etapa # "T", NuevosHilos(m, {x})
       PROVE  Corre(hilos', t) => Va
  BY <1>1, <1>14, CorreLanzado DEF Viaja
<1>15. ASSUME NEW m \in Masters, RecibirRL(m) PROVE Va
  <2>1. PICK job : NuevosHilos(m, {[etapa |-> "RL", nodo |-> Head(bandeja[m]).nodo, job |-> job]})
    BY <1>15 DEF RecibirRL
  <2>2. PICK x : x = [etapa |-> "RL", nodo |-> Head(bandeja[m]).nodo, job |-> job]
    OBVIOUS
  <2>3. x.etapa # "T" /\ NuevosHilos(m, {x})
    BY <2>1, <2>2
  <2>4. QED
    BY <1>10, <1>14, <1>15, <2>3 DEF RecibirRL
<1>16. ASSUME NEW m \in Masters, RecibirRG(m) PROVE Va
  <2>1. PICK x : x = [etapa |-> "RG", nodo |-> Head(bandeja[m]).encargado,
                      job |-> Head(bandeja[m]).job]
    OBVIOUS
  <2>2. x.etapa # "T" /\ MasterRecibe(m, "RG")
        /\ (Terminar(m) \/ (NuevosHilos(m, {x}) /\ Atendido(m)))
    BY <1>16, <2>1 DEF RecibirRG
  <2>3. CASE Terminar(m)
    BY <1>9, <2>2, <2>3 DEF MasterRecibe
  <2>4. CASE NuevosHilos(m, {x}) /\ Atendido(m)
    BY <1>10, <1>14, <2>2, <2>4
  <2>5. QED
    BY <2>2, <2>3, <2>4
<1>17. ASSUME NEW m \in Masters, RecibirAF(m) PROVE Va
  BY <1>10, <1>11, <1>17 DEF RecibirAF
<1>18. ASSUME NEW m \in Masters, VerCierre(m) \/ Matar(m) PROVE Va
  BY <1>9, <1>18 DEF VerCierre, Matar
<1>19. ASSUME NEW m \in Masters, NEW x \in Tarea, NEW exito \in BOOLEAN, TerminarHilo(m, x, exito)
       PROVE  Va
  <2>1. CASE Terminar(m) /\ aYama' = aYama
    BY <1>9, <2>1
  <2>2. CASE ~(Terminar(m) /\ aYama' = aYama)
    <3>1. /\ bandeja' = bandeja /\ hilos' = [hilos EXCEPT ![m][x] = @ - 1] /\ hilos[m][x] > 0
          /\ \/ aYama' = aYama
             \/ aYama' = [aYama EXCEPT ![m] = Append(@, [tipo |-> "FIN", tarea |-> x,
                                                         exito |-> exito])]
      BY <1>19, <2>2 DEF TerminarHilo
    <3>2. Corre(hilos', t) => Corre(hilos, t)
      BY <1>1, <3>1, CorreTerminado
    <3>3. Corre(hilos, x)
      BY <3>1 DEF Corre
    <3>4. Avisa(aYama', t) => Avisa(aYama, t) \/ t = x
      <4>1. PICK q, r, a : /\ q = aYama /\ r = aYama'
                           /\ a = [tipo |-> "FIN", tarea |-> x, exito |-> exito]
        OBVIOUS
      <4>2. q \in [Masters -> Seq(Aviso)] /\ (r = q \/ r = [q EXCEPT ![m] = Append(@, a)])
        BY <3>1, <4>1 DEF TypeOK
      <4>3. \A n \in Masters : \A i \in DOMAIN r[n] :
              r[n][i] = a \/ \E j \in DOMAIN q[n] : r[n][i] = q[n][j]
        <5>1. CASE r = q
          BY <5>1
        <5>2. CASE r = [q EXCEPT ![m] = Append(@, a)]
          BY <4>2, <5>2, ColaAgregada
        <5>3. QED
          BY <4>2, <5>1, <5>2
      <4>4. a.tarea = x
        BY <4>1
      <4>5. QED
        BY <4>1, <4>3, <4>4 DEF Avisa
    <3>5. QED
      BY <3>1, <3>2, <3>3, <3>4 DEF Viaja
  <2>3. QED
    BY <2>1, <2>2
<1>20. ASSUME NEW m \in Masters, Handshake(m) \/ SolicitudTransformacion(m) PROVE Va
  <2>1. \E tipo : Recibe(m, tipo) /\ hilos' = hilos /\ bandeja' = bandeja
    BY <1>20 DEF Handshake, SolicitudTransformacion, SinEnviar, procesos
  <2>2. QED
    BY <1>3, <1>5, <2>1
<1>21. ASSUME NEW m \in Masters, CerrarRota(m) \/ TerminarAF(m) PROVE Va
  BY <1>2, <1>21 DEF CerrarRota, TerminarAF, procesos
<1>22. ASSUME NEW m \in Masters, Conectar(m) PROVE Va
  <2>1. hilos' = hilos /\ bandeja' = bandeja
    BY <1>22 DEF Conectar
  <2>2. Avisa(aYama', t) => Avisa(aYama, t)
    <3>1. PICK q, r, s : /\ q = aYama /\ r = aYama'
                         /\ s = <<[tipo |-> "HANDSHAKE"], [tipo |-> "SOLICITUDT"]>>
      OBVIOUS
    <3>2. q \in [Masters -> Seq(Aviso)] /\ r = [q EXCEPT ![m] = s]
      BY <1>22, <3>1 DEF TypeOK, Conectar
    <3>3. r[m] = s /\ \A n \in Masters \ {m} : r[n] = q[n]
      BY <3>2
    <3>4. \A i \in DOMAIN s : s[i].tipo # "FIN"
      BY <3>1
    <3>5. QED
      BY <3>1, <3>3, <3>4 DEF Avisa
  <2>3. QED
    BY <2>1, <2>2 DEF Viaja
<1>23. ASSUME UNCHANGED vars PROVE Va
  BY <1>2, <1>23 DEF vars, procesos
<1> HIDE DEF Va, Sube
<1>24. ASSUME NEW m \in Masters, EsFin(m) PROVE Va
  BY <1>4, <1>8, <1>24
<1>25. ASSUME NEW m \in Masters, PasoYama(m) PROVE Va
  BY <1>20, <1>21, <1>24, <1>25 DEF PasoYama, EsFin
<1>26. ASSUME NEW m \in Masters, PasoMaster(m) PROVE Va
  BY <1>12, <1>13, <1>15, <1>16, <1>17, <1>18, <1>26 DEF PasoMaster
<1>27. Va
  <2>1. CASE UNCHANGED vars
    BY <1>23, <2>1
  <2>2. CASE Next
    <3>1. PICK m \in Masters :
            \/ Conectar(m) \/ PasoYama(m) \/ PasoMaster(m) \/ TerminarAF(m) \/ Matar(m)
            \/ \E x \in Tarea, exito \in BOOLEAN : TerminarHilo(m, x, exito)
      BY <2>2 DEF Next
    <3>2. QED
      BY <1>18, <1>19, <1>21, <1>22, <1>25, <1>26, <3>1
  <2>3. QED
    BY <2>1, <2>2
<1>28. QED
  BY <1>27 DEF Va
-----------------------------------------------------------------------------
(* The only planning: the table has its records, the block b at b + 1.       *)
LEMMA YaPlanificada ==
  ASSUME TypeOK, Planificada, tabla # <<>>
  PROVE  /\ \A m \in Masters : contJobs[m] = 1
         /\ NBloques <= Len(tabla) /\ \A k \in 1..NBloques : k \in DOMAIN tabla
         /\ \A k \in DOMAIN tabla : /\ k \in Nat /\ k >= 1
                                    /\ k <= NBloques => /\ tabla[k].etapa = "T"
                                                        /\ tabla[k].bloque = k - 1 /\ tabla[k].job = 1
                                    /\ k > NBloques => tabla[k].etapa # "T"
<1>1. tabla \in Seq(Registro) /\ NBloques \in Nat
  BY Parametros DEF TypeOK
<1>2. /\ \A m \in Masters : contJobs[m] = 1
      /\ NBloques <= Len(tabla)
      /\ \A k \in DOMAIN tabla :
           IF k <= NBloques THEN tabla[k].etapa = "T" /\ tabla[k].bloque = k - 1 /\ tabla[k].job = 1
           ELSE tabla[k].etapa # "T"
  BY DEF Planificada
<1>3. DOMAIN tabla = 1..Len(tabla) /\ Len(tabla) \in Nat
  BY <1>1
<1>4. QED
  BY <1>1, <1>2, <1>3

(* The record that FINTRANSFORMACION finds is its own.                       *)
LEMMA SuRegistro ==
  ASSUME TypeOK, Planificada, Debidas, NEW m \in Masters, RecibeFin(m, "T"),
         NEW t, t = Head(aYama[m]).tarea, NEW S, S = EnProceso(t.bloque, t.job)
  PROVE  /\ t \in TareaT /\ t.bloque \in Bloques /\ Debida(tabla, t) /\ tabla # <<>>
         /\ t.bloque + 1 \in 1..NBloques /\ t.bloque + 1 \in DOMAIN tabla
         /\ S # {} => Primera(S) = t.bloque + 1
<1>1. PICK a : a = Head(aYama[m])
  OBVIOUS
<1>2. a.tipo = "FIN" /\ t \in Tarea /\ t.etapa = "T" /\ t.bloque \in Bloques /\ t = a.tarea
  BY <1>1, FinRecibido
<1>3. t \in TareaT
  BY <1>2 DEF Tarea, TareaT
<1>4. Avisa(aYama, t)
  <2>1. aYama[m] \in Seq(Aviso) /\ aYama[m] # <<>>
    BY DEF TypeOK, RecibeFin, Recibe
  <2>2. a = aYama[m][1] /\ 1 \in DOMAIN aYama[m]
    BY <1>1, <2>1, ColaDe
  <2>3. QED
    BY <1>2, <2>2 DEF Avisa
<1>5. Debida(tabla, t)
  BY <1>3, <1>4 DEF Debidas, Viaja
<1>6. PICK b, k : b = t.bloque /\ k = b + 1
  OBVIOUS
<1>7. b \in Nat /\ k \in 1..NBloques /\ NBloques \in Nat
  BY <1>2, <1>6, Parametros DEF Bloques
<1>8. k \in DOMAIN tabla /\ tabla # <<>>
  BY <1>5, <1>6 DEF Debida
<1>9. k \in S
  <2>1. tabla[k].estado = "ENPROCESO" /\ tabla[k].job = t.job
    BY <1>5, <1>6 DEF Debida
  <2>2. tabla[k].bloque = k - 1
    BY <1>7, <1>8, YaPlanificada
  <2>3. k - 1 = b
    BY <1>6, <1>7
  <2>4. QED
    BY <1>6, <1>8, <2>1, <2>2, <2>3 DEF EnProceso
<1>10. \A j \in S : j \in Nat /\ k <= j
  <2> SUFFICES ASSUME NEW j \in S PROVE j \in Nat /\ k <= j
    OBVIOUS
  <2>1. j \in DOMAIN tabla /\ tabla[j].bloque = b
    BY <1>6 DEF EnProceso
  <2>2. j \in Nat /\ (j <= NBloques => tabla[j].bloque = j - 1)
    BY <1>8, <2>1, YaPlanificada
  <2>3. CASE j <= NBloques
    BY <1>6, <1>7, <2>1, <2>2, <2>3
  <2>4. CASE j > NBloques
    BY <1>7, <2>2, <2>4
  <2>5. QED
    BY <1>7, <2>2, <2>3, <2>4
<1>11. Primera(S) = k
  <2>1. S \in SUBSET Nat /\ S # {}
    BY <1>9, <1>10
  <2>2. Primera(S) \in S /\ Primera(S) <= k
    BY <1>9, <2>1, Primero
  <2>3. k <= Primera(S) /\ Primera(S) \in Nat
    BY <1>10, <2>2
  <2>4. QED
    BY <1>7, <2>2, <2>3
<1>12. QED
  BY <1>2, <1>3, <1>5, <1>6, <1>7, <1>8, <1>11

(* A task on its way counts.                                                 *)
LEMMA Cuenta ==
  ASSUME NEW q \in [Masters -> Seq(Solicitud)], NEW a \in [Masters -> Seq(Aviso)],
         NEW h \in [Masters -> [Tarea -> Nat]], NEW t \in TareaT, Viaja(q, h, a, t)
  PROVE  EnViaje(q, a, h, PedidosT(t.bloque), TareasDe(t.bloque)) >= 1
<1>1. PICK b : b = t.bloque
  OBVIOUS
<1>2. b \in Bloques /\ t \in TareasDe(b) /\ t \in Tarea /\ t.etapa = "T"
  BY <1>1 DEF TareaT, TareasDe, Tarea
<1>3. TareasDe(b) \in SUBSET Tarea /\ IsFiniteSet(TareasDe(b))
  BY <1>2, TareasFinitas
<1> DEFINE P == Mensajes(q, PedidosT(b))
           A == Mensajes(a, Noticias(TareasDe(b)))
           C == Corriendo(h, TareasDe(b))
<1>4. IsFiniteSet(P) /\ IsFiniteSet(A) /\ IsFiniteSet(C)
  BY <1>3, MensajesFinitos, CorriendoFinito
<1>5. P # {} \/ A # {} \/ C # {}
  <2>1. CASE Pide(q, t)
    <3>1. PICK m \in Masters : \E i \in DOMAIN q[m] : q[m][i].tipo = "T" /\ t \in q[m][i].tareas
      BY <2>1 DEF Pide
    <3>2. PICK i \in DOMAIN q[m] : q[m][i].tipo = "T" /\ t \in q[m][i].tareas
      BY <3>1
    <3>3. q[m][i] \in Solicitud
      <4>1. PICK p \in Seq(Solicitud) : p = q[m]
        OBVIOUS
      <4>2. p[i] \in Solicitud
        BY <3>2, <4>1
      <4>3. QED
        BY <4>1, <4>2
    <3>4. q[m][i] \in PedidosT(b)
      BY <1>1, <3>2, <3>3 DEF PedidosT
    <3>5. <<m, i>> \in P
      BY <3>2, <3>4, EnMensajes
    <3>6. QED
      BY <3>5
  <2>2. CASE Avisa(a, t)
    <3>1. PICK m \in Masters : \E i \in DOMAIN a[m] : a[m][i].tipo = "FIN" /\ a[m][i].tarea = t
      BY <2>2 DEF Avisa
    <3>2. PICK i \in DOMAIN a[m] : a[m][i].tipo = "FIN" /\ a[m][i].tarea = t
      BY <3>1
    <3>3. PICK x : x = a[m][i]
      OBVIOUS
    <3>4. x \in Aviso
      <4>1. PICK p \in Seq(Aviso) : p = a[m]
        OBVIOUS
      <4>2. p[i] \in Aviso
        BY <3>2, <4>1
      <4>3. QED
        BY <3>3, <4>1, <4>2
    <3>5. x \in Noticias(TareasDe(b))
      BY <1>2, <3>2, <3>3, <3>4 DEF Aviso, Noticias
    <3>6. <<m, i>> \in A
      BY <3>2, <3>3, <3>5, EnMensajes
    <3>7. QED
      BY <3>6
  <2>3. CASE Corre(h, t)
    <3>1. PICK m \in Masters : h[m][t] > 0
      BY <2>3 DEF Corre
    <3>2. h[m][t] \in Nat
      BY <1>2
    <3>3. 1 \in 1..h[m][t]
      BY <3>1, <3>2
    <3>4. <<<<m, t>>, 1>> \in C
      BY <1>2, <3>3, EnCorriendo
    <3>5. QED
      BY <3>4
  <2>4. QED
    BY <2>1, <2>2, <2>3 DEF Viaja
<1>6. PICK x, y, z : x = Cardinality(P) /\ y = Cardinality(A) /\ z = Cardinality(C)
  OBVIOUS
<1>7. x \in Nat /\ y \in Nat /\ z \in Nat /\ (x # 0 \/ y # 0 \/ z # 0)
  <2> HIDE DEF P, A, C
  <2>1. x \in Nat /\ y \in Nat /\ z \in Nat
    BY <1>4, <1>6, FS_CardinalityType
  <2>2. (x = 0 => P = {}) /\ (y = 0 => A = {}) /\ (z = 0 => C = {})
    BY <1>4, <1>6, FS_EmptySet
  <2>3. QED
    BY <1>5, <2>1, <2>2
<1>8. x + y + z >= 1
  BY <1>7
<1>9. EnViaje(q, a, h, PedidosT(b), TareasDe(b)) = x + y + z
  BY <1>6 DEF EnViaje
<1>10. QED
  BY <1>1, <1>8, <1>9

(* The ends of transformations ask for no transformation.                    *)
LEMMA SinPedir ==
  ASSUME TypeOK, TypeOK', NEW m \in Masters, FinTransformacionOk(m) \/ FinTransformacionMal(m),
         NEW b \in Bloques
  PROVE  Cardinality(Mensajes(bandeja', PedidosT(b))) <= Cardinality(Mensajes(bandeja, PedidosT(b))) + 0
<1>1. PICK x, y : /\ x = Cardinality(Mensajes(bandeja, PedidosT(b)))
                  /\ y = Cardinality(Mensajes(bandeja', PedidosT(b)))
  OBVIOUS
<1>2. x \in Nat /\ y \in Nat
  BY <1>1, MensajesFinitos DEF TypeOK
<1> DEFINE Meta == y <= x
<1>3. ASSUME bandeja' = bandeja PROVE Meta
  BY <1>1, <1>2, <1>3
<1>4. ASSUME NEW n \in Masters, NEW msg \in Solicitud, msg.tipo # "T", Enviar(n, msg)
      PROVE  Meta
  BY <1>1, <1>4, CuentaEnviado, PedidosDeT
<1>5. ASSUME NEW k, NEW e, Marca(k, e) PROVE Meta
  BY <1>3, <1>5 DEF Marca, SinEnviar
<1>6. ASSUME NEW k, MarcaYAgrega(k, "RL", "RL") PROVE Meta
  BY <1>4, <1>6 DEF MarcaYAgrega
<1> HIDE DEF Meta
<1>7. ASSUME FinTransformacionOk(m) PROVE Meta
  BY <1>3, <1>5, <1>6, <1>7, EfectoTOk
<1>8. ASSUME FinTransformacionMal(m) PROVE Meta
  BY <1>3, <1>4, <1>5, <1>8, EfectoTMal
<1>9. Meta
  BY <1>7, <1>8
<1>10. QED
  BY <1>1, <1>2, <1>9 DEF Meta

(* When the end of a transformation was read no other task of its block is   *)
(* on its way: the block has one record.                                     *)
LEMMA NadieMas ==
  ASSUME TypeOK, TypeOK', UnaPorBloque, PedidasConRegistro, Planificada, tabla # <<>>,
         NEW m \in Masters, RecibeFin(m, "T"), NEW t \in TareaT, t = Head(aYama[m]).tarea,
         Cardinality(Mensajes(bandeja', PedidosT(t.bloque)))
           <= Cardinality(Mensajes(bandeja, PedidosT(t.bloque))) + 0,
         NEW u \in TareaT, u.bloque = t.bloque
  PROVE  ~Viaja(bandeja', hilos', aYama', u)
<1>1. PICK b : b = t.bloque
  OBVIOUS
<1>2. b \in Bloques /\ TareasDe(b) \in SUBSET Tarea /\ IsFiniteSet(TareasDe(b))
  BY <1>1, TareasFinitas DEF TareaT
<1>3. Head(aYama[m]) \in Noticias(TareasDe(b))
  <2>1. PICK a : a = Head(aYama[m])
    OBVIOUS
  <2>2. a \in Aviso /\ a.tipo = "FIN" /\ a.tarea = t
    BY <2>1, Recibida, FinRecibido DEF RecibeFin
  <2>3. t \in TareasDe(b)
    BY <1>1 DEF TareaT, TareasDe
  <2>4. a \in Noticias(TareasDe(b))
    BY <2>2, <2>3 DEF Aviso, Noticias
  <2>5. QED
    BY <2>1, <2>4
<1> DEFINE V0 == EnViaje(bandeja, aYama, hilos, PedidosT(b), TareasDe(b))
           V1 == EnViaje(bandeja', aYama', hilos', PedidosT(b), TareasDe(b))
           G == Cardinality(Posiciones(tabla, EnCurso(b)))
<1>4. V1 <= V0 + (0 - 1)
  <2>1. Recibe(m, "FIN") /\ hilos' = hilos
    BY Ajeno DEF RecibeFin
  <2>2. PICK x \in {0, 1}, y \in {0, 1} : x = 0 /\ y = 1
    OBVIOUS
  <2>3. Cardinality(Mensajes(bandeja', PedidosT(b))) <= Cardinality(Mensajes(bandeja, PedidosT(b))) + x
    BY <1>1, <2>2
  <2>4. V1 <= V0 + (x - y)
    BY <1>2, <1>3, <2>1, <2>3, ViajeFin
  <2>5. QED
    BY <2>2, <2>4
<1>5. V0 \in Nat /\ V1 \in Nat /\ G \in Nat /\ V0 <= G
  <2>1. V0 \in Nat /\ G \in Nat /\ V1 \in Nat
    BY <1>2, FormaT DEF TypeOK
  <2>2. V0 = Cardinality(Mensajes(bandeja, PedidosT(b)))
               + (Cardinality(Mensajes(aYama, Noticias(TareasDe(b))))
                    + Cardinality(Corriendo(hilos, TareasDe(b))))
    BY <1>2, FormaT DEF TypeOK
  <2>3. QED
    BY <1>2, <2>1, <2>2 DEF PedidasConRegistro, Pendientes
<1>6. G <= 1
  <2>1. PICK k : k = b + 1
    OBVIOUS
  <2>2. Posiciones(tabla, EnCurso(b)) \subseteq {k}
    <3> SUFFICES ASSUME NEW j \in Posiciones(tabla, EnCurso(b)) PROVE j = k
      OBVIOUS
    <3>1. j \in DOMAIN tabla /\ tabla[j].etapa = "T" /\ tabla[j].bloque = b
      BY DEF Posiciones, EnCurso
    <3>2. j \in Nat /\ (j > NBloques => tabla[j].etapa # "T")
          /\ (j <= NBloques => tabla[j].bloque = j - 1)
      BY <3>1, YaPlanificada
    <3>3. NBloques \in Nat /\ b \in Nat
      BY <1>2, Parametros DEF Bloques
    <3>4. b = j - 1
      BY <3>1, <3>2, <3>3
    <3>5. QED
      BY <2>1, <3>2, <3>3, <3>4
  <2>3. IsFiniteSet({k}) /\ Cardinality({k}) = 1
    BY FS_Singleton
  <2>4. G <= Cardinality({k})
    BY <2>2, <2>3, FS_Subset
  <2>5. QED
    BY <2>3, <2>4
<1>7. V1 = 0
  <2>1. PICK v, w, g : v = V0 /\ w = V1 /\ g = G
    OBVIOUS
  <2>2. v \in Nat /\ w \in Nat /\ g \in Nat /\ v <= g /\ g <= 1 /\ w <= v + (0 - 1)
    BY <1>4, <1>5, <1>6, <2>1
  <2>3. w = 0
    BY <2>2
  <2>4. QED
    BY <2>1, <2>3
<1>8. SUFFICES ASSUME Viaja(bandeja', hilos', aYama', u) PROVE FALSE
  OBVIOUS
<1>9. EnViaje(bandeja', aYama', hilos', PedidosT(u.bloque), TareasDe(u.bloque)) >= 1
  BY <1>8, Cuenta DEF TypeOK
<1>10. QED
  BY <1>1, <1>7, <1>9

-----------------------------------------------------------------------------
(* What the handlers change of the table, besides the state of the record k  *)
(* and the node of a transformation: they add no transformation.             *)
Cambia(k, u) ==
  /\ \A j \in DOMAIN tabla :
       /\ j \in DOMAIN u
       /\ u[j].etapa = tabla[j].etapa /\ u[j].bloque = tabla[j].bloque /\ u[j].job = tabla[j].job
       /\ tabla[j].etapa = "RL" => u[j].nodo = tabla[j].nodo
       /\ j # k => u[j] = tabla[j]
  /\ \A j \in DOMAIN u \ DOMAIN tabla : u[j].etapa # "T"

LEMMA CambiaMarcada ==
  ASSUME TypeOK, NEW k \in DOMAIN tabla, NEW e \in {"ERROR", "FINALIZADOOK"}
  PROVE  Cambia(k, Marcada(k, e))
<1>1. PICK u, r : u = Marcada(k, e) /\ r = tabla[k]
  OBVIOUS
<1>2. /\ DOMAIN u = DOMAIN tabla /\ u[k] = [r EXCEPT !.estado = e]
      /\ \A j \in DOMAIN tabla \ {k} : u[j] = tabla[j]
  <2>1. /\ DOMAIN Marcada(k, e) = DOMAIN tabla
        /\ Marcada(k, e)[k] = [tabla[k] EXCEPT !.estado = e]
        /\ \A j \in DOMAIN tabla \ {k} : Marcada(k, e)[j] = tabla[j]
    <3>1. e \in {"ENPROCESO", "ERROR", "FINALIZADOOK"}
      OBVIOUS
    <3>2. QED
      BY <3>1, Marcado
  <2>2. QED
    BY <1>1, <2>1
<1>3. r \in Registro
  BY <1>1 DEF TypeOK
<1>4. u[k].etapa = r.etapa /\ u[k].bloque = r.bloque /\ u[k].job = r.job /\ u[k].nodo = r.nodo
  BY <1>2, <1>3 DEF Registro
<1>5. QED
  BY <1>1, <1>2, <1>4 DEF Cambia

LEMMA CambiaAgregada ==
  ASSUME TypeOK, NEW k, NEW u \in Seq(Registro), Cambia(k, u), NEW x \in Registro, x.etapa # "T"
  PROVE  Cambia(k, Append(u, x))
<1>1. PICK w, l : w = Append(u, x) /\ l = Len(u) + 1
  OBVIOUS
<1>2. DOMAIN w = DOMAIN u \cup {l} /\ w[l] = x /\ \A j \in DOMAIN u : w[j] = u[j]
  BY <1>1, Agregada
<1>3. QED
  BY <1>1, <1>2 DEF Cambia

LEMMA CambiaReplanificada ==
  ASSUME TypeOK, NEW k \in DOMAIN tabla, tabla[k].etapa = "T", NEW n, NEW o
  PROVE  Cambia(k, [tabla EXCEPT ![k].etapa = "T", ![k].nodo = n, ![k].otra = o])
<1>1. PICK u, r, x : /\ u = [tabla EXCEPT ![k].etapa = "T", ![k].nodo = n, ![k].otra = o]
                     /\ r = tabla[k] /\ x = [r EXCEPT !.etapa = "T", !.nodo = n, !.otra = o]
  OBVIOUS
<1>2. r \in Registro /\ tabla \in Seq(Registro)
  BY <1>1 DEF TypeOK
<1>3. x.etapa = r.etapa /\ x.bloque = r.bloque /\ x.job = r.job
  BY <1>1, <1>2 DEF Registro
<1>4. u = [tabla EXCEPT ![k] = x]
  BY <1>1, <1>2
<1>5. DOMAIN u = DOMAIN tabla /\ u[k] = x /\ \A j \in DOMAIN tabla \ {k} : u[j] = tabla[j]
  BY <1>2, <1>4
<1>6. QED
  BY <1>1, <1>3, <1>5 DEF Cambia

(* The records of the blocks stay where they were.                           *)
LEMMA PlanQueda ==
  ASSUME TypeOK, TypeOK', Planificada, tabla # <<>>, contJobs' = contJobs, NEW k, Cambia(k, tabla')
  PROVE  Planificada'
<1>1. PICK u : u = tabla'
  OBVIOUS
<1>2. u \in Seq(Registro) /\ NBloques \in Nat \ {0} /\ tabla \in Seq(Registro)
  BY <1>1, Parametros DEF TypeOK
<1>3. NBloques <= Len(u)
  <2>1. NBloques \in DOMAIN tabla
    BY <1>2, YaPlanificada
  <2>2. NBloques \in DOMAIN u
    BY <1>1, <2>1 DEF Cambia
  <2>3. QED
    BY <1>2, <2>2
<1>4. ASSUME NEW j \in DOMAIN u
      PROVE  IF j <= NBloques THEN u[j].etapa = "T" /\ u[j].bloque = j - 1 /\ u[j].job = 1
             ELSE u[j].etapa # "T"
  <2>1. j \in Nat /\ j >= 1
    BY <1>2
  <2>2. CASE j \in DOMAIN tabla
    <3>1. u[j].etapa = tabla[j].etapa /\ u[j].bloque = tabla[j].bloque /\ u[j].job = tabla[j].job
      BY <1>1, <2>2 DEF Cambia
    <3>2. /\ j <= NBloques => tabla[j].etapa = "T" /\ tabla[j].bloque = j - 1 /\ tabla[j].job = 1
          /\ j > NBloques => tabla[j].etapa # "T"
      BY <2>2, YaPlanificada
    <3>3. j <= NBloques \/ j > NBloques
      BY <1>2, <2>1
    <3>4. QED
      BY <3>1, <3>2, <3>3, <2>1, <1>2
  <2>3. CASE j \notin DOMAIN tabla
    <3>1. u[j].etapa # "T"
      BY <1>1, <2>3 DEF Cambia
    <3>2. ~(j <= NBloques)
      <4>1. j <= NBloques => j \in 1..NBloques
        BY <1>2, <2>1
      <4>2. QED
        BY <2>3, <4>1, YaPlanificada
    <3>3. QED
      BY <3>1, <3>2
  <2>4. QED
    BY <2>2, <2>3
<1>5. \A m \in Masters : contJobs'[m] = 1
  BY YaPlanificada
<1>6. QED
  BY <1>1, <1>3, <1>4, <1>5 DEF Planificada

(* A task keeps its record unless that is the one that changed.              *)
LEMMA DebidaQueda ==
  ASSUME NEW k, Cambia(k, tabla'), NEW t, Debida(tabla, t), t.bloque + 1 # k,
         \A j \in DOMAIN tabla' \ DOMAIN tabla : tabla'[j].etapa = "RL" => tabla'[j].nodo # t.nodo
  PROVE  Debida(tabla', t)
BY DEF Cambia, Debida

LEMMA SinPlanear ==
  ASSUME TypeOK, [Next]_vars, ~RecibirBloques PROVE contJobs' = contJobs
<1>1. CASE UNCHANGED vars
  BY <1>1 DEF vars, colaFS
<1>2. ASSUME NEW m \in Masters, PasoYama(m) PROVE contJobs' = contJobs
  BY <1>2 DEF PasoYama, Handshake, SolicitudTransformacion, CerrarRota, colaFS,
              FinTransformacionOk, FinTransformacionMal, FinReduccionLocalOk,
              FinReduccionLocalMal, FinReduccionGlobalOk, FinReduccionGlobalMal, RecibeFin
<1>3. ASSUME NEW m \in Masters, PasoMaster(m) PROVE contJobs' = contJobs
  BY <1>3 DEF PasoMaster, RecibirT, RecibirReplan, RecibirRL, RecibirRG, RecibirAF, VerCierre,
              MasterRecibe, colaFS
<1>4. ASSUME NEW m \in Masters, Conectar(m) \/ TerminarAF(m) \/ Matar(m)
      PROVE  contJobs' = contJobs
  BY <1>4 DEF Conectar, TerminarAF, Matar, colaFS
<1>5. ASSUME NEW m \in Masters, NEW t, NEW exito, TerminarHilo(m, t, exito)
      PROVE  contJobs' = contJobs
  BY <1>5 DEF TerminarHilo, colaFS
<1>6. QED
  BY <1>1, <1>2, <1>3, <1>4, <1>5 DEF Next

(* What the action property says of a step.                                  *)
NuevasRL ==
  \A k \in DOMAIN tabla' \ DOMAIN tabla :
    tabla'[k].etapa = "RL" =>
      LET DelMismo(etapa) == {j \in DOMAIN tabla' \ {k} :
                                tabla'[j].etapa = etapa /\ tabla'[j].nodo = tabla'[k].nodo}
      IN /\ DelMismo("RL") = {} /\ DelMismo("T") # {}
         /\ \A j \in DelMismo("T") : tabla'[j].estado = "FINALIZADOOK"

LEMMA NoPlanea ==
  ASSUME TypeOK, NEW m \in Masters, NEW etapa, RecibeFin(m, etapa) PROVE ~RecibirBloques
<1>1. PICK q, r : q = aYama /\ r = aYama'
  OBVIOUS
<1>2. q \in [Masters -> Seq(Aviso)] /\ q[m] # <<>> /\ r = [q EXCEPT ![m] = Tail(@)]
  BY <1>1 DEF TypeOK, RecibeFin, Recibe
<1>3. PICK p \in Seq(Aviso) : p = q[m]
  BY <1>2
<1>4. p # <<>> /\ r[m] = Tail(p)
  BY <1>2, <1>3
<1>5. Tail(p) # p
  BY <1>4
<1>6. r # q
  BY <1>3, <1>4, <1>5
<1>7. QED
  BY <1>1, <1>6 DEF RecibirBloques

LEMMA Queda ==
  ASSUME TypeOK, TypeOK', Planificada, Debidas, [Next]_vars, ~RecibirBloques,
         NEW k \in DOMAIN tabla, Cambia(k, tabla'),
         \A t \in TareaT : Viaja(bandeja', hilos', aYama', t) =>
           /\ t.bloque + 1 # k
           /\ \A j \in DOMAIN tabla' \ DOMAIN tabla :
                tabla'[j].etapa = "RL" => tabla'[j].nodo # t.nodo
  PROVE  Planificada' /\ Debidas'
<1>1. tabla # <<>> /\ contJobs' = contJobs
  BY SinPlanear
<1>2. Planificada'
  BY <1>1, PlanQueda
<1>3. ASSUME NEW t \in TareaT, Viaja(bandeja', hilos', aYama', t) PROVE Debida(tabla', t)
  <2>1. Debida(tabla, t)
    BY <1>3, ViajabaAntes DEF Debidas
  <2>2. QED
    BY <1>3, <2>1, DebidaQueda
<1>4. QED
  BY <1>2, <1>3 DEF Debidas

LEMMA QuedaIgual ==
  ASSUME TypeOK, TypeOK', Planificada, Debidas, [Next]_vars, ~RecibirBloques, tabla' = tabla
  PROVE  Planificada' /\ Debidas' /\ NuevasRL
<1>1. contJobs' = contJobs
  BY SinPlanear
<1>2. Planificada' /\ NuevasRL
  BY <1>1 DEF Planificada, NuevasRL
<1>3. ASSUME NEW t \in TareaT, Viaja(bandeja', hilos', aYama', t) PROVE Debida(tabla', t)
  BY <1>3, ViajabaAntes DEF Debidas
<1>4. QED
  BY <1>2, <1>3 DEF Debidas

(* Where FINTRANSFORMACION is about to change the record of t, no other task *)
(* loses its own.                                                            *)
LEMMA OtroRegistro ==
  ASSUME TypeOK, TypeOK', UnaPorBloque, PedidasConRegistro, Planificada, tabla # <<>>,
         NEW m \in Masters, FinTransformacionOk(m) \/ FinTransformacionMal(m),
         NEW t \in TareaT, t = Head(aYama[m]).tarea,
         NEW u \in TareaT, Viaja(bandeja', hilos', aYama', u)
  PROVE  u.bloque + 1 # t.bloque + 1 /\ u.bloque + 1 \in 1..NBloques
<1>1. RecibeFin(m, "T")
  BY DEF FinTransformacionOk, FinTransformacionMal
<1>2. PICK b, c : b = t.bloque /\ c = u.bloque
  OBVIOUS
<1>3. b \in Bloques /\ c \in Bloques
  BY <1>2 DEF TareaT
<1>4. b \in Nat /\ c \in Nat /\ c + 1 \in 1..NBloques
  BY <1>3, Parametros DEF Bloques
<1>5. Cardinality(Mensajes(bandeja', PedidosT(b))) <= Cardinality(Mensajes(bandeja, PedidosT(b))) + 0
  BY <1>3, SinPedir
<1>6. c # b
  BY <1>1, <1>2, <1>5, NadieMas
<1>7. QED
  BY <1>2, <1>4, <1>6

LEMMA PasoTOk ==
  ASSUME TypeOK, TypeOK', UnaPorBloque, PedidasConRegistro, Planificada, Debidas, [Next]_vars,
         NEW m \in Masters, FinTransformacionOk(m)
  PROVE  Planificada' /\ Debidas' /\ NuevasRL
<1>1. RecibeFin(m, "T") /\ ~RecibirBloques
  BY NoPlanea DEF FinTransformacionOk
<1>2. PICK t, S : t = Head(aYama[m]).tarea /\ S = EnProceso(t.bloque, t.job)
  OBVIOUS
<1>3. PICK k : k = Primera(S)
  OBVIOUS
<1>4. /\ t \in TareaT /\ Debida(tabla, t) /\ tabla # <<>>
      /\ t.bloque + 1 \in 1..NBloques /\ t.bloque + 1 \in DOMAIN tabla
      /\ S # {} => k = t.bloque + 1
  BY <1>1, <1>2, <1>3, SuRegistro
<1>5. ASSUME NEW u \in TareaT, Viaja(bandeja', hilos', aYama', u)
      PROVE  u.bloque + 1 # t.bloque + 1 /\ u.bloque + 1 \in 1..NBloques /\ Debida(tabla, u)
  BY <1>1, <1>2, <1>4, <1>5, OtroRegistro, ViajabaAntes DEF Debidas
<1>6. CASE UNCHANGED <<tabla, bandeja>>
  BY <1>1, <1>6, QuedaIgual
<1>7. PICK w : w = Marcada(k, "FINALIZADOOK")
  OBVIOUS
<1>8. ASSUME k \in S
      PROVE  /\ k = t.bloque + 1 /\ k \in DOMAIN tabla /\ w \in Seq(Registro)
             /\ DOMAIN w = DOMAIN tabla /\ Cambia(k, w)
             /\ w[k].nodo = tabla[k].nodo
  <2>1. k = t.bloque + 1 /\ k \in DOMAIN tabla
    BY <1>4, <1>8
  <2>2. /\ w \in Seq(Registro) /\ DOMAIN w = DOMAIN tabla
        /\ w[k] = [tabla[k] EXCEPT !.estado = "FINALIZADOOK"]
    <3>1. /\ Marcada(k, "FINALIZADOOK") \in Seq(Registro)
          /\ DOMAIN Marcada(k, "FINALIZADOOK") = DOMAIN tabla
          /\ Marcada(k, "FINALIZADOOK")[k] = [tabla[k] EXCEPT !.estado = "FINALIZADOOK"]
      BY <2>1, Marcado
    <3>2. QED
      BY <1>7, <3>1
  <2>3. Cambia(k, w)
    BY <1>7, <2>1, CambiaMarcada
  <2>4. PICK r \in Registro : r = tabla[k]
    BY <2>1 DEF TypeOK
  <2>5. w[k].nodo = r.nodo
    BY <2>2, <2>4 DEF Registro
  <2>6. QED
    BY <2>1, <2>2, <2>3, <2>4, <2>5
<1>9. CASE k \in S /\ Marca(k, "FINALIZADOOK")
  <2>1. tabla' = w /\ DOMAIN tabla' = DOMAIN tabla
    BY <1>7, <1>8, <1>9 DEF Marca
  <2>2. Cambia(k, tabla')
    BY <1>8, <1>9, <2>1
  <2>3. NuevasRL
    BY <2>1 DEF NuevasRL
  <2>4. QED
    BY <1>1, <1>5, <1>8, <1>9, <2>1, <2>2, <2>3, Queda
<1>10. CASE /\ k \in S /\ TodasOk(w, DelNodo(t.nodo, t.job))
            /\ \E x \in Registro, msg \in Solicitud :
                 /\ tabla' = Append(w, x)
                 /\ x.etapa = "RL" /\ x.otra = Ninguno /\ x.nodo = tabla[k].nodo
                 /\ msg.tipo = "RL" /\ Enviar(m, msg)
  <2>1. PICK x \in Registro : tabla' = Append(w, x) /\ x.etapa = "RL" /\ x.nodo = tabla[k].nodo
    BY <1>10
  <2>2. /\ k = t.bloque + 1 /\ k \in DOMAIN tabla /\ w \in Seq(Registro)
        /\ DOMAIN w = DOMAIN tabla /\ Cambia(k, w) /\ w[k].nodo = tabla[k].nodo
    BY <1>8, <1>10
  <2>3. PICK l : l = Len(w) + 1
    OBVIOUS
  <2>4. /\ DOMAIN tabla' = DOMAIN tabla \cup {l} /\ l \notin DOMAIN tabla
        /\ tabla'[l] = x /\ \A j \in DOMAIN tabla : tabla'[j] = w[j]
    BY <2>1, <2>2, <2>3, Agregada
  <2>5. Cambia(k, tabla')
    BY <2>1, <2>2, CambiaAgregada
  <2>6. x.nodo = t.nodo /\ t.job = 1 /\ tabla[k].etapa = "T"
        /\ \A j \in DOMAIN tabla : tabla[j].etapa = "RL" => tabla[j].nodo # t.nodo
    <3>1. tabla[k].nodo = t.nodo /\ tabla[k].job = t.job
          /\ \A j \in DOMAIN tabla : tabla[j].etapa = "RL" => tabla[j].nodo # t.nodo
      BY <1>4, <2>2 DEF Debida
    <3>2. k <= NBloques
      BY <1>4, <2>2, Parametros
    <3>3. tabla[k].job = 1 /\ tabla[k].etapa = "T"
      BY <1>4, <2>2, <3>2, YaPlanificada
    <3>4. QED
      BY <2>1, <3>1, <3>3
  <2>7. ASSUME NEW j \in DOMAIN tabla, tabla[j].etapa = "T", tabla[j].nodo = t.nodo
        PROVE  w[j].estado = "FINALIZADOOK"
    <3>1. tabla[j].job = 1
      <4>1. ~(j > NBloques) /\ j \in Nat /\ (j <= NBloques => tabla[j].job = 1)
        BY <1>4, <2>7, YaPlanificada
      <4>2. j <= NBloques
        BY <4>1, Parametros
      <4>3. QED
        BY <4>1, <4>2
    <3>2. j \in DelNodo(t.nodo, t.job)
      BY <2>6, <2>7, <3>1 DEF DelNodo
    <3>3. QED
      BY <1>10, <3>2 DEF TodasOk
  <2>8. ASSUME NEW u \in TareaT, Viaja(bandeja', hilos', aYama', u) PROVE u.nodo # t.nodo
    <3>1. SUFFICES ASSUME u.nodo = t.nodo PROVE FALSE
      OBVIOUS
    <3>2. PICK j : j = u.bloque + 1
      OBVIOUS
    <3>3. j # k /\ j \in 1..NBloques /\ j \in DOMAIN tabla
          /\ tabla[j].estado = "ENPROCESO" /\ tabla[j].nodo = t.nodo
      BY <1>5, <2>2, <2>8, <3>1, <3>2 DEF Debida
    <3>4. tabla[j].etapa = "T"
      BY <1>4, <3>3, YaPlanificada
    <3>5. w[j] = tabla[j]
      BY <2>2, <3>3 DEF Cambia
    <3>6. w[j].estado = "FINALIZADOOK"
      BY <2>7, <3>3, <3>4
    <3>7. QED
      BY <3>3, <3>5, <3>6
  <2>9. Planificada' /\ Debidas'
    <3>1. ASSUME NEW u \in TareaT, Viaja(bandeja', hilos', aYama', u)
          PROVE  /\ u.bloque + 1 # k
                 /\ \A j \in DOMAIN tabla' \ DOMAIN tabla :
                      tabla'[j].etapa = "RL" => tabla'[j].nodo # u.nodo
      BY <1>5, <2>2, <2>4, <2>6, <2>8, <3>1
    <3>2. QED
      BY <1>1, <2>2, <2>5, <3>1, Queda
  <2>10. NuevasRL
    <3> DEFINE DelMismo(etapa) == {j \in DOMAIN tabla' \ {l} :
                                     tabla'[j].etapa = etapa /\ tabla'[j].nodo = tabla'[l].nodo}
    <3>1. \A etapa : \A j \in DelMismo(etapa) : j \in DOMAIN tabla /\ tabla[j].etapa = etapa
                                           /\ w[j].nodo = t.nodo
      BY <2>2, <2>4, <2>6 DEF Cambia
    <3>2. \A j \in DOMAIN tabla : tabla[j].etapa = "RL" \/ j # k => w[j].nodo = tabla[j].nodo
      BY <2>2 DEF Cambia
    <3>3. \A j \in DOMAIN tabla : w[j].nodo = tabla[j].nodo
      BY <2>2, <3>2
    <3>4. DelMismo("RL") = {}
      BY <2>6, <3>1, <3>3
    <3>5. k \in DelMismo("T")
      <4>1. w[k].etapa = "T"
        BY <2>2, <2>6 DEF Cambia
      <4>2. tabla'[k].etapa = "T" /\ tabla'[k].nodo = tabla'[l].nodo
        BY <2>1, <2>2, <2>4, <4>1
      <4>3. QED
        BY <2>2, <2>4, <4>2
    <3>6. \A j \in DelMismo("T") : tabla'[j].estado = "FINALIZADOOK"
      BY <2>4, <2>7, <3>1, <3>3
    <3>7. DOMAIN tabla' \ DOMAIN tabla = {l}
      BY <2>4
    <3>8. QED
      BY <3>4, <3>5, <3>6, <3>7 DEF NuevasRL
  <2>11. QED
    BY <2>9, <2>10
<1>11. QED
  BY <1>2, <1>3, <1>6, <1>7, <1>9, <1>10, EfectoTOkExacto

LEMMA PasoTMal ==
  ASSUME TypeOK, TypeOK', UnaPorBloque, PedidasConRegistro, Planificada, Debidas, [Next]_vars,
         NEW m \in Masters, FinTransformacionMal(m)
  PROVE  Planificada' /\ Debidas' /\ NuevasRL
<1>1. RecibeFin(m, "T") /\ ~RecibirBloques
  BY NoPlanea DEF FinTransformacionMal
<1>2. PICK t, S : t = Head(aYama[m]).tarea /\ S = EnProceso(t.bloque, t.job)
  OBVIOUS
<1>3. PICK k : k = Primera(S)
  OBVIOUS
<1>4. /\ t \in TareaT /\ tabla # <<>>
      /\ t.bloque + 1 \in 1..NBloques /\ t.bloque + 1 \in DOMAIN tabla
      /\ S # {} => k = t.bloque + 1
  BY <1>1, <1>2, <1>3, SuRegistro
<1>5. ASSUME NEW u \in TareaT, Viaja(bandeja', hilos', aYama', u)
      PROVE  u.bloque + 1 # t.bloque + 1
  BY <1>2, <1>4, <1>5, OtroRegistro
<1>6. CASE UNCHANGED <<tabla, bandeja>>
  BY <1>1, <1>6, QuedaIgual
<1>7. ASSUME k \in S, Cambia(k, tabla'), DOMAIN tabla' = DOMAIN tabla
      PROVE  Planificada' /\ Debidas' /\ NuevasRL
  <2>1. k = t.bloque + 1 /\ k \in DOMAIN tabla
    BY <1>4, <1>7
  <2>2. NuevasRL
    BY <1>7 DEF NuevasRL
  <2>3. QED
    BY <1>1, <1>5, <1>7, <2>1, <2>2, Queda
<1>8. CASE k \in S /\ Marca(k, "ERROR")
  <2>1. k \in DOMAIN tabla
    BY <1>4, <1>8
  <2>2. Cambia(k, Marcada(k, "ERROR")) /\ DOMAIN Marcada(k, "ERROR") = DOMAIN tabla
    BY <2>1, CambiaMarcada, Marcado
  <2>3. QED
    BY <1>7, <1>8, <2>2 DEF Marca
<1>9. CASE /\ k \in S
           /\ tabla' = [tabla EXCEPT ![k].etapa = "T", ![k].nodo = tabla[k].otra,
                                     ![k].otra = tabla[k].nodo]
  <2>1. k \in DOMAIN tabla /\ tabla[k].etapa = "T"
    <3>1. k \in DOMAIN tabla /\ k \in 1..NBloques /\ NBloques \in Nat
      BY <1>4, <1>9, Parametros
    <3>2. k <= NBloques
      BY <3>1
    <3>3. QED
      BY <1>4, <3>1, <3>2, YaPlanificada
  <2>2. PICK n, o : n = tabla[k].otra /\ o = tabla[k].nodo
    OBVIOUS
  <2>3. Cambia(k, [tabla EXCEPT ![k].etapa = "T", ![k].nodo = n, ![k].otra = o])
    BY <2>1, CambiaReplanificada
  <2>4. Cambia(k, tabla')
    BY <1>9, <2>2, <2>3
  <2>5. DOMAIN tabla' = DOMAIN tabla
    BY <1>9
  <2>6. QED
    BY <1>7, <1>9, <2>4, <2>5
<1>10. QED
  <2>1. \/ UNCHANGED <<tabla, bandeja>>
        \/ /\ k \in S
           /\ \/ Marca(k, "ERROR")
              \/ tabla' = [tabla EXCEPT ![k].etapa = "T", ![k].nodo = tabla[k].otra,
                                        ![k].otra = tabla[k].nodo]
    <3>1. CASE ~UNCHANGED <<tabla, bandeja>>
      <4>1. PICK j \in EnProceso(Head(aYama[m]).tarea.bloque, Head(aYama[m]).tarea.job) :
              /\ j = Primera(EnProceso(Head(aYama[m]).tarea.bloque, Head(aYama[m]).tarea.job))
              /\ \/ Marca(j, "ERROR")
                 \/ tabla' = [tabla EXCEPT ![j].etapa = "T", ![j].nodo = tabla[j].otra,
                                           ![j].otra = tabla[j].nodo]
        BY <3>1, EfectoTMal
      <4>2. j = k /\ k \in S
        BY <1>2, <1>3, <4>1
      <4>3. QED
        BY <4>1, <4>2
    <3>2. QED
      BY <3>1
  <2>2. QED
    BY <1>6, <1>8, <1>9, <2>1

(* The reductions change no record of a block and request no local one.      *)
LEMMA PasoReducciones ==
  ASSUME TypeOK, TypeOK', Planificada, Debidas, [Next]_vars, ~RecibirBloques,
         NEW k \in DOMAIN tabla, tabla[k].etapa # "T", Cambia(k, tabla'),
         \A j \in DOMAIN tabla' \ DOMAIN tabla : tabla'[j].etapa # "RL"
  PROVE  Planificada' /\ Debidas' /\ NuevasRL
<1>1. ASSUME NEW t \in TareaT, Viaja(bandeja', hilos', aYama', t) PROVE t.bloque + 1 # k
  <2>1. PICK j : j = t.bloque + 1
    OBVIOUS
  <2>2. t.bloque \in Bloques
    BY DEF TareaT
  <2>3. j \in 1..NBloques /\ NBloques \in Nat
    BY <2>1, <2>2, Parametros DEF Bloques
  <2>4. tabla[j].etapa = "T"
    BY <2>3, YaPlanificada
  <2>5. QED
    BY <2>1, <2>4
<1>2. NuevasRL
  BY DEF NuevasRL
<1>3. QED
  BY <1>1, <1>2, Queda

LEMMA PasoR ==
  ASSUME TypeOK, TypeOK', Planificada, Debidas, [Next]_vars, NEW m \in Masters,
         \/ FinReduccionLocalOk(m) \/ FinReduccionLocalMal(m)
         \/ FinReduccionGlobalOk(m) \/ FinReduccionGlobalMal(m)
  PROVE  Planificada' /\ Debidas' /\ NuevasRL
<1> DEFINE Meta == Planificada' /\ Debidas' /\ NuevasRL
<1>1. ~RecibirBloques
  BY NoPlanea DEF FinReduccionLocalOk, FinReduccionLocalMal, FinReduccionGlobalOk,
                  FinReduccionGlobalMal
<1>2. ASSUME tabla' = tabla PROVE Meta
  BY <1>1, <1>2, QuedaIgual
<1>3. ASSUME NEW k \in DOMAIN tabla, tabla[k].etapa # "T", NEW e \in {"ERROR", "FINALIZADOOK"},
             Marca(k, e)
      PROVE  Meta
  <2>1. tabla' = Marcada(k, e)
    BY <1>3 DEF Marca
  <2>2. Cambia(k, tabla') /\ DOMAIN tabla' = DOMAIN tabla
    <3>1. e \in {"ENPROCESO", "ERROR", "FINALIZADOOK"}
      OBVIOUS
    <3>2. Cambia(k, Marcada(k, e)) /\ DOMAIN Marcada(k, e) = DOMAIN tabla
      BY <3>1, CambiaMarcada, Marcado
    <3>3. QED
      BY <2>1, <3>2
  <2>3. QED
    BY <1>1, <1>3, <2>2, PasoReducciones
<1>4. ASSUME NEW k \in DOMAIN tabla, tabla[k].etapa # "T", NEW etapa \in {"RG", "AF"}, NEW tipo,
             MarcaYAgrega(k, etapa, tipo)
      PROVE  Meta
  <2>1. PICK u : u = Marcada(k, "FINALIZADOOK")
    OBVIOUS
  <2>2. u \in Seq(Registro) /\ DOMAIN u = DOMAIN tabla /\ Cambia(k, u)
    <3>1. /\ Marcada(k, "FINALIZADOOK") \in Seq(Registro)
          /\ DOMAIN Marcada(k, "FINALIZADOOK") = DOMAIN tabla
          /\ Cambia(k, Marcada(k, "FINALIZADOOK"))
      BY CambiaMarcada, Marcado
    <3>2. QED
      BY <2>1, <3>1
  <2>3. PICK x \in Registro : tabla' = Append(u, x) /\ x.etapa = etapa
    BY <1>4, <2>1 DEF MarcaYAgrega
  <2>4. x.etapa # "T" /\ x.etapa # "RL"
    BY <2>3
  <2>5. Cambia(k, tabla')
    BY <2>2, <2>3, <2>4, CambiaAgregada
  <2>6. PICK l : l = Len(u) + 1
    OBVIOUS
  <2>7. DOMAIN tabla' = DOMAIN u \cup {l} /\ tabla'[l] = x
    BY <2>2, <2>3, <2>6, Agregada
  <2>8. \A j \in DOMAIN tabla' \ DOMAIN tabla : tabla'[j].etapa # "RL"
    BY <2>2, <2>4, <2>7
  <2>9. QED
    BY <1>1, <1>4, <2>5, <2>8, PasoReducciones
<1> HIDE DEF Meta
<1>5. ASSUME FinReduccionLocalOk(m) PROVE Meta
  BY <1>2, <1>3, <1>4, <1>5, EfectoRLOk
<1>6. ASSUME FinReduccionGlobalOk(m) PROVE Meta
  BY <1>2, <1>4, <1>6, EfectoRGOk
<1>7. ASSUME FinReduccionLocalMal(m) \/ FinReduccionGlobalMal(m) PROVE Meta
  BY <1>2, <1>3, <1>7, EfectoAbortar
<1>8. QED
  BY <1>5, <1>6, <1>7 DEF Meta

(* Planning, when the table is empty: with one master it never was before.   *)
LEMMA PasoPlanear ==
  ASSUME TypeOK, TypeOK', Planificada, Debidas, UnMasterSolo, RecibirBloques
  PROVE  Planificada' /\ Debidas' /\ NuevasRL
<1>1. PICK m \in Masters, job \in Jobs, nodo \in [Bloques -> Nodos], otra \in [Bloques -> Nodos] :
        /\ job = contJobs[m] + 1 /\ contJobs' = [contJobs EXCEPT ![m] = job]
        /\ tabla' = tabla \o Nuevos(m, job, nodo, otra)
        /\ Enviar(m, PedidoT(job, nodo))
  BY AlPlanificar
<1>2. tabla = <<>> /\ job = 1 /\ \A n \in Masters : contJobs'[n] = 1
  <2>1. PICK c : c = contJobs[m]
    OBVIOUS
  <2>2. c \in Jobs /\ c + 1 \in Jobs /\ contJobs \in [Masters -> Jobs]
    BY <1>1, <2>1 DEF TypeOK
  <2>3. c = 0 /\ job = 1
    BY <1>1, <2>1, <2>2 DEF Jobs
  <2>4. tabla = <<>>
    <3>1. tabla # <<>> => contJobs[m] = 1
      BY YaPlanificada
    <3>2. QED
      BY <2>1, <2>3, <3>1
  <2>5. \A n \in Masters : n = m
    BY DEF UnMasterSolo
  <2>6. contJobs'[m] = 1
    BY <1>1, <2>2, <2>3
  <2>7. QED
    BY <2>3, <2>4, <2>5, <2>6
<1>3. PICK u : u = Nuevos(m, job, nodo, otra)
  OBVIOUS
<1>4. u \in Seq(Registro) /\ Len(u) = NBloques /\ NBloques \in Nat
  BY <1>3, SonNuevos, Parametros
<1>5. tabla' = u
  BY <1>1, <1>2, <1>3, <1>4
<1>6. DOMAIN u = 1..NBloques
  BY <1>4
<1>7. ASSUME NEW k \in 1..NBloques
      PROVE  /\ u[k].etapa = "T" /\ u[k].bloque = k - 1 /\ u[k].job = job
             /\ u[k].nodo = nodo[k - 1] /\ u[k].estado = "ENPROCESO"
  <2>1. u[k] = [master |-> m, job |-> job, etapa |-> "T", nodo |-> nodo[k - 1],
                otra |-> otra[k - 1], bloque |-> k - 1, estado |-> "ENPROCESO"]
    BY <1>3 DEF Nuevos
  <2>2. QED
    BY <2>1
<1>8. Planificada'
  <2>1. \A k \in DOMAIN u : k <= NBloques
    BY <1>4, <1>6
  <2>2. NBloques <= Len(u)
    BY <1>4
  <2>3. QED
    BY <1>2, <1>5, <1>6, <1>7, <2>1, <2>2 DEF Planificada
<1>9. NuevasRL
  BY <1>5, <1>6, <1>7 DEF NuevasRL
<1>10. ASSUME NEW t \in TareaT, Viaja(bandeja', hilos', aYama', t) PROVE Debida(tabla', t)
  <2>1. ~Viaja(bandeja, hilos, aYama, t)
    <3>1. DOMAIN tabla = {}
      BY <1>2
    <3>2. QED
      BY <3>1 DEF Debidas, Debida
  <2>2. hilos' = hilos /\ aYama' = aYama
    BY DEF RecibirBloques, procesos
  <2>3. Pide(bandeja', t) /\ ~Pide(bandeja, t)
    BY <1>10, <2>1, <2>2 DEF Viaja
  <2>4. PICK q, r, msg : q = bandeja /\ r = bandeja' /\ msg = PedidoT(job, nodo)
    OBVIOUS
  <2>5. q \in [Masters -> Seq(Solicitud)] /\ (r = q \/ r = [q EXCEPT ![m] = Append(@, msg)])
    BY <1>1, <2>4 DEF TypeOK, Enviar
  <2>6. r = [q EXCEPT ![m] = Append(@, msg)]
    BY <2>3, <2>4, <2>5
  <2>7. PICK n \in Masters : \E i \in DOMAIN r[n] : r[n][i].tipo = "T" /\ t \in r[n][i].tareas
    BY <2>3, <2>4 DEF Pide
  <2>8. PICK i \in DOMAIN r[n] : r[n][i].tipo = "T" /\ t \in r[n][i].tareas
    BY <2>7
  <2>9. r[n][i] = msg \/ \E j \in DOMAIN q[n] : r[n][i] = q[n][j]
    BY <2>5, <2>6, <2>8, ColaAgregada
  <2>10. r[n][i] = msg
    BY <2>3, <2>4, <2>8, <2>9 DEF Pide
  <2>11. PICK b \in Bloques : t = [etapa |-> "T", nodo |-> nodo[b], job |-> job, bloque |-> b]
    BY <2>4, <2>8, <2>10 DEF PedidoT
  <2>12. t.bloque = b /\ t.nodo = nodo[b] /\ t.job = job
    BY <2>11
  <2>13. b + 1 \in 1..NBloques /\ (b + 1) - 1 = b
    BY <1>4 DEF Bloques
  <2>14. PICK k \in 1..NBloques : k = b + 1 /\ k - 1 = b
    BY <2>13
  <2>15. u[k].estado = "ENPROCESO" /\ u[k].nodo = t.nodo /\ u[k].job = t.job
    BY <1>7, <2>12, <2>14
  <2>16. \A j \in DOMAIN u : u[j].etapa # "RL"
    BY <1>6, <1>7
  <2>17. QED
    BY <1>5, <1>6, <2>12, <2>14, <2>15, <2>16 DEF Debida
<1>11. QED
  BY <1>8, <1>9, <1>10 DEF Debidas

LEMMA PasoRL ==
  ASSUME UnMasterSolo, TypeOK, TypeOK', UnaPorBloque, PedidasConRegistro, Planificada, Debidas,
         [Next]_vars
  PROVE  Planificada' /\ Debidas' /\ NuevasRL
<1>1. CASE RecibirBloques
  BY <1>1, PasoPlanear
<1>2. ASSUME NEW m \in Masters, EsFin(m) PROVE Planificada' /\ Debidas' /\ NuevasRL
  BY <1>2, PasoTOk, PasoTMal, PasoR DEF EsFin
<1>3. CASE ~RecibirBloques /\ \A m \in Masters : ~EsFin(m)
  BY <1>3, LosDemas, QuedaIgual
<1>4. QED
  BY <1>1, <1>2, <1>3

LEMMA AlPrincipioRL == Init => Planificada /\ Debidas
<1> SUFFICES ASSUME Init PROVE Planificada /\ Debidas
  OBVIOUS
<1>1. Planificada
  BY DEF Init, Planificada
<1>2. ASSUME NEW t \in TareaT PROVE ~Viaja(bandeja, hilos, aYama, t)
  <2>1. t \in Tarea
    BY DEF Tarea
  <2>2. \A m \in Masters : bandeja[m] = <<>> /\ aYama[m] = <<>> /\ hilos[m] = SinHilos
    BY DEF Init
  <2>3. SinHilos[t] = 0
    BY <2>1 DEF SinHilos
  <2>4. QED
    BY <2>2, <2>3 DEF Viaja, Pide, Corre, Avisa
<1>3. QED
  BY <1>1, <1>2 DEF Debidas

(* With one master, and whatever fails or is replanned: a local reduction of *)
(* a node is asked for once, when it has transformations and every one of    *)
(* them has ended well (782-788).                                            *)
THEOREM SiempreRL ==
  ASSUME UnMasterSolo PROVE Spec => RLTrasTransformaciones
<1>1. TypeOK /\ TypeOK' /\ UnaPorBloque /\ PedidasConRegistro /\ Planificada /\ Debidas /\ [Next]_vars
        => /\ Planificada' /\ Debidas'
           /\ [\A k \in DOMAIN tabla' \ DOMAIN tabla :
                 tabla'[k].etapa = "RL" =>
                   LET DelMismo(etapa) == {j \in DOMAIN tabla' \ {k} :
                                             tabla'[j].etapa = etapa /\ tabla'[j].nodo = tabla'[k].nodo}
                   IN /\ DelMismo("RL") = {} /\ DelMismo("T") # {}
                      /\ \A j \in DelMismo("T") : tabla'[j].estado = "FINALIZADOOK"]_vars
  BY PasoRL DEF NuevasRL
<1>2. TypeOK /\ TypeOK' /\ UnaPorBloque /\ PedidasConRegistro /\ [Next]_vars
        => UnaPorBloque' /\ PedidasConRegistro'
  BY PasoUna, PasoPedidas
<1>3. QED
  BY <1>1, <1>2, TiposYama, AlPrincipioT, AlPrincipioRL, PTL DEF Spec, RLTrasTransformaciones

-----------------------------------------------------------------------------
(* The tasks counted, with one master: the local reductions first.           *)
TareasRL(n) == [etapa : {"RL"}, nodo : {n}, job : Jobs]
PedidosRL(n) == [tipo : {"RL"}, nodo : {n}, job : Jobs]
RLEnCurso(n) == {r \in Registro : r.etapa = "RL" /\ r.nodo = n /\ r.estado = "ENPROCESO"}

(* Every local reduction asked for, running or ended and not read yet has a  *)
(* record of its node in process, and a node has one record of them.         *)
RLConRegistro ==
  \A n \in Nodos : EnViaje(bandeja, aYama, hilos, PedidosRL(n), TareasRL(n))
                     <= Cardinality(Posiciones(tabla, RLEnCurso(n)))

UnaRL ==
  \A j, k \in DOMAIN tabla :
    tabla[j].etapa = "RL" /\ tabla[k].etapa = "RL" /\ tabla[j].nodo = tabla[k].nodo => j = k

LEMMA TareasRLFinitas ==
  ASSUME NEW n \in Nodos PROVE TareasRL(n) \in SUBSET Tarea /\ IsFiniteSet(TareasRL(n))
<1>1. IsFiniteSet(Jobs)
  <2>1. 0 \in Int /\ 1 \in Int
    OBVIOUS
  <2>2. QED
    BY <2>1, FS_Interval DEF Jobs
<1> DEFINE f == [j \in Jobs |-> [etapa |-> "RL", nodo |-> n, job |-> j]]
<1>2. f \in [Jobs -> TareasRL(n)]
  BY DEF TareasRL
<1>3. \A t \in TareasRL(n) : f[t.job] = t /\ t.job \in Jobs
  BY DEF TareasRL
<1>4. TareasRL(n) \in SUBSET Tarea
  BY DEF TareasRL, Tarea
<1> HIDE DEF f
<1>5. f \in Surjection(Jobs, TareasRL(n))
  BY <1>2, <1>3 DEF Surjection
<1>6. QED
  BY <1>1, <1>4, <1>5, FS_Surjection

LEMMA LanzaRL ==
  ASSUME TypeOK, NEW n \in Nodos PROVE Lanza(PedidosRL(n), TareasRL(n))
<1>1. \A t \in TareasRL(n) : t.etapa = "RL" /\ t.nodo = n
  BY DEF TareasRL
<1>2. ASSUME NEW m \in Masters, bandeja[m] # <<>>, NEW s, s = Head(bandeja[m])
      PROVE  /\ s.tipo = "T" => s.tareas \cap TareasRL(n) = {}
             /\ s.tipo = "RL" => s \in PedidosRL(n) \/ s.nodo # n
             /\ [etapa |-> "RG", nodo |-> s.encargado, job |-> s.job] \notin TareasRL(n)
  <2>1. s \in Solicitud
    BY <1>2, ColaDe DEF TypeOK
  <2>2. s.tipo = "T" => s.tareas \cap TareasRL(n) = {}
    <3>1. s.tipo = "T" => s.tareas \in SUBSET TareaT
      BY <2>1 DEF Solicitud
    <3>2. \A t \in TareaT : t.etapa = "T"
      BY DEF TareaT
    <3>3. QED
      BY <1>1, <3>1, <3>2
  <2>3. s.tipo = "RL" => s \in PedidosRL(n) \/ s.nodo # n
    BY <2>1 DEF Solicitud, PedidosRL
  <2>4. [etapa |-> "RG", nodo |-> s.encargado, job |-> s.job] \notin TareasRL(n)
    <3>1. PICK x : x = [etapa |-> "RG", nodo |-> s.encargado, job |-> s.job]
      OBVIOUS
    <3>2. x.etapa # "RL"
      BY <3>1
    <3>3. QED
      BY <1>1, <3>1, <3>2
  <2>5. QED
    BY <2>2, <2>3, <2>4
<1>3. QED
  BY <1>1, <1>2 DEF Lanza

LEMMA PedidosDeRL == \A n \in Nodos : \A s \in PedidosRL(n) : s.tipo = "RL" /\ s.nodo = n
BY DEF PedidosRL

(* Both sides are numbers. *)
LEMMA FormaRL ==
  ASSUME NEW q \in [Masters -> Seq(Solicitud)], NEW a \in [Masters -> Seq(Aviso)],
         NEW h \in [Masters -> [Tarea -> Nat]], NEW t \in Seq(Registro), NEW n \in Nodos
  PROVE  /\ EnViaje(q, a, h, PedidosRL(n), TareasRL(n)) \in Nat
         /\ Cardinality(Mensajes(q, PedidosRL(n))) \in Nat
         /\ Cardinality(Mensajes(a, Noticias(TareasRL(n)))) \in Nat
         /\ Cardinality(Posiciones(t, RLEnCurso(n))) \in Nat
         /\ Cardinality(Mensajes(a, Noticias(TareasRL(n))))
              <= EnViaje(q, a, h, PedidosRL(n), TareasRL(n))
<1>1. PICK x, y, z : /\ x = Cardinality(Mensajes(q, PedidosRL(n)))
                     /\ y = Cardinality(Mensajes(a, Noticias(TareasRL(n))))
                     /\ z = Cardinality(Corriendo(h, TareasRL(n)))
  OBVIOUS
<1>2. x \in Nat /\ y \in Nat /\ z \in Nat
  BY <1>1, TareasRLFinitas, CuentasNaturales
<1>3. EnViaje(q, a, h, PedidosRL(n), TareasRL(n)) = x + y + z
  BY <1>1 DEF EnViaje
<1>4. x + y + z \in Nat /\ y <= x + y + z
  BY <1>2
<1>5. QED
  BY <1>1, <1>2, <1>3, <1>4, PosFinitas

(* How the two sides move together. *)
LEMMA SumaRL ==
  ASSUME TypeOK, TypeOK', RLConRegistro, NEW n \in Nodos, NEW w \in {-1, 0, 1},
         EnViaje(bandeja', aYama', hilos', PedidosRL(n), TareasRL(n))
           <= EnViaje(bandeja, aYama, hilos, PedidosRL(n), TareasRL(n)) + w,
         Cardinality(Posiciones(tabla, RLEnCurso(n))) + w
           <= Cardinality(Posiciones(tabla', RLEnCurso(n)))
  PROVE  EnViaje(bandeja', aYama', hilos', PedidosRL(n), TareasRL(n))
           <= Cardinality(Posiciones(tabla', RLEnCurso(n)))
<1>1. PICK v, g, x, y :
        /\ v = EnViaje(bandeja, aYama, hilos, PedidosRL(n), TareasRL(n))
        /\ g = Cardinality(Posiciones(tabla, RLEnCurso(n)))
        /\ x = EnViaje(bandeja', aYama', hilos', PedidosRL(n), TareasRL(n))
        /\ y = Cardinality(Posiciones(tabla', RLEnCurso(n)))
  OBVIOUS
<1>2. v \in Nat /\ g \in Nat /\ x \in Nat /\ y \in Nat
  BY <1>1, FormaRL DEF TypeOK
<1>3. v <= g /\ x <= v + w /\ g + w <= y
  BY <1>1 DEF RLConRegistro
<1>4. x <= y
  BY <1>2, <1>3
<1>5. QED
  BY <1>1, <1>4

(* The end of a task: x messages that ask for the reduction of the node were *)
(* sent, and y news of one were read.                                        *)
LEMMA FinRL ==
  ASSUME TypeOK, TypeOK', RLConRegistro, NEW n \in Nodos,
         NEW m \in Masters, NEW etapa, RecibeFin(m, etapa), NEW x \in {0, 1}, NEW y \in {0, 1},
         y = 1 => etapa = "RL" /\ Head(aYama[m]).tarea.nodo = n,
         Cardinality(Mensajes(bandeja', PedidosRL(n)))
           <= Cardinality(Mensajes(bandeja, PedidosRL(n))) + x,
         Cardinality(Posiciones(tabla, RLEnCurso(n))) + (x - y)
           <= Cardinality(Posiciones(tabla', RLEnCurso(n)))
  PROVE  EnViaje(bandeja', aYama', hilos', PedidosRL(n), TareasRL(n))
           <= Cardinality(Posiciones(tabla', RLEnCurso(n)))
<1>1. Recibe(m, "FIN") /\ hilos' = hilos
  BY Ajeno DEF RecibeFin
<1>2. y = 1 => Head(aYama[m]) \in Noticias(TareasRL(n))
  <2>1. PICK a, t : a = Head(aYama[m]) /\ t = a.tarea
    OBVIOUS
  <2>2. a \in Aviso /\ a.tipo = "FIN" /\ t \in Tarea /\ t.etapa = etapa
    BY <1>1, <2>1, Recibida, FinRecibido
  <2>3. etapa = "RL" /\ t.nodo = n => t \in TareasRL(n)
    BY <2>2 DEF Tarea, TareaT, TareasRL
  <2>4. t \in TareasRL(n) => a \in Noticias(TareasRL(n))
    BY <2>1, <2>2 DEF Aviso, Noticias
  <2>5. QED
    BY <2>1, <2>3, <2>4
<1>3. EnViaje(bandeja', aYama', hilos', PedidosRL(n), TareasRL(n))
        <= EnViaje(bandeja, aYama, hilos, PedidosRL(n), TareasRL(n)) + (x - y)
  BY <1>1, <1>2, TareasRLFinitas, ViajeFin
<1>4. PICK w \in {-1, 0, 1} : w = x - y
  OBVIOUS
<1>5. QED
  BY <1>3, <1>4, SumaRL

-----------------------------------------------------------------------------
(* What a record marked, and perhaps new ones of N, do to the counts.        *)
Marcadas(k, e, N) ==
  /\ k \in DOMAIN tabla /\ tabla'[k] = [tabla[k] EXCEPT !.estado = e]
  /\ \A j \in DOMAIN tabla : j \in DOMAIN tabla' /\ (j # k => tabla'[j] = tabla[j])
  /\ \A j \in DOMAIN tabla' \ DOMAIN tabla : tabla'[j] \in N

LEMMA MarcadasDeMarca ==
  ASSUME TypeOK, NEW k \in DOMAIN tabla, NEW e \in {"ERROR", "FINALIZADOOK"}, Marca(k, e)
  PROVE  Marcadas(k, e, {})
<1>1. /\ DOMAIN Marcada(k, e) = DOMAIN tabla
      /\ Marcada(k, e)[k] = [tabla[k] EXCEPT !.estado = e]
      /\ \A j \in DOMAIN tabla \ {k} : Marcada(k, e)[j] = tabla[j]
  <2>1. e \in {"ENPROCESO", "ERROR", "FINALIZADOOK"}
    OBVIOUS
  <2>2. QED
    BY <2>1, Marcado
<1>2. tabla' = Marcada(k, e)
  BY DEF Marca
<1>3. QED
  BY <1>1, <1>2 DEF Marcadas

LEMMA MarcadasDeAgregar ==
  ASSUME TypeOK, NEW k \in DOMAIN tabla, NEW x \in Registro,
         tabla' = Append(Marcada(k, "FINALIZADOOK"), x)
  PROVE  /\ Marcadas(k, "FINALIZADOOK", {x})
         /\ \E l \in DOMAIN tabla' : l \notin DOMAIN tabla /\ tabla'[l] = x
<1>1. PICK u, l : u = Marcada(k, "FINALIZADOOK") /\ l = Len(u) + 1
  OBVIOUS
<1>2. /\ u \in Seq(Registro) /\ DOMAIN u = DOMAIN tabla
      /\ u[k] = [tabla[k] EXCEPT !.estado = "FINALIZADOOK"]
      /\ \A j \in DOMAIN tabla \ {k} : u[j] = tabla[j]
  <2>1. /\ Marcada(k, "FINALIZADOOK") \in Seq(Registro)
        /\ DOMAIN Marcada(k, "FINALIZADOOK") = DOMAIN tabla
        /\ Marcada(k, "FINALIZADOOK")[k] = [tabla[k] EXCEPT !.estado = "FINALIZADOOK"]
        /\ \A j \in DOMAIN tabla \ {k} : Marcada(k, "FINALIZADOOK")[j] = tabla[j]
    BY Marcado
  <2>2. QED
    BY <1>1, <2>1
<1>3. tabla' = Append(u, x)
  BY <1>1
<1>4. /\ DOMAIN tabla' = DOMAIN u \cup {l} /\ l \notin DOMAIN u /\ tabla'[l] = x
      /\ \A j \in DOMAIN u : tabla'[j] = u[j]
  BY <1>1, <1>2, <1>3, Agregada
<1>5. QED
  BY <1>2, <1>4 DEF Marcadas

LEMMA CambiaDeMarcadas ==
  ASSUME TypeOK, NEW k, NEW e, NEW N, Marcadas(k, e, N), \A x \in N : x.etapa # "T"
  PROVE  Cambia(k, tabla')
<1>1. PICK r \in Registro : r = tabla[k]
  BY DEF Marcadas, TypeOK
<1>2. PICK x : x = [r EXCEPT !.estado = e]
  OBVIOUS
<1>3. x.etapa = r.etapa /\ x.bloque = r.bloque /\ x.job = r.job /\ x.nodo = r.nodo
  BY <1>1, <1>2 DEF Registro
<1>4. tabla'[k] = x
  BY <1>1, <1>2 DEF Marcadas
<1>5. QED
  BY <1>1, <1>3, <1>4 DEF Marcadas, Cambia

(* Two tables hold the same records of R, or the second one more.            *)
LEMMA PosIguales ==
  ASSUME NEW t, NEW u, NEW R,
         \A j : (j \in DOMAIN t /\ t[j] \in R) <=> (j \in DOMAIN u /\ u[j] \in R)
  PROVE  Posiciones(t, R) = Posiciones(u, R)
BY DEF Posiciones

LEMMA PosUnaMas ==
  ASSUME NEW t \in Seq(Registro), NEW u \in Seq(Registro), NEW R, NEW k,
         \A j : j # k => ((j \in DOMAIN t /\ t[j] \in R) <=> (j \in DOMAIN u /\ u[j] \in R)),
         k \in DOMAIN u, u[k] \in R, ~(k \in DOMAIN t /\ t[k] \in R)
  PROVE  Cardinality(Posiciones(u, R)) = Cardinality(Posiciones(t, R)) + 1
<1>1. PICK A, B : A = Posiciones(t, R) /\ B = Posiciones(u, R)
  OBVIOUS
<1>2. B = A \cup {k} /\ k \notin A
  BY <1>1 DEF Posiciones
<1>3. IsFiniteSet(A)
  BY <1>1, PosFinitas
<1>4. Cardinality(A \cup {k}) = Cardinality(A) + 1
  BY <1>2, <1>3, UnoMas
<1>5. QED
  BY <1>1, <1>2, <1>4

LEMMA BienMarcada ==
  ASSUME TypeOK, TypeOK', NEW k, NEW N, Marcadas(k, "FINALIZADOOK", N), N \cap BienHechas = {},
         tabla[k].etapa \in {"T", "RL"}, tabla[k].estado = "ENPROCESO"
  PROVE  Cardinality(Posiciones(tabla', BienHechas)) = Cardinality(Posiciones(tabla, BienHechas)) + 1
<1>1. PICK t, u : t = tabla /\ u = tabla'
  OBVIOUS
<1>2. t \in Seq(Registro) /\ u \in Seq(Registro) /\ k \in DOMAIN t /\ k \in DOMAIN u
  BY <1>1 DEF TypeOK, Marcadas
<1>3. PICK r \in Registro, x \in Registro : r = t[k] /\ x = u[k]
  BY <1>2
<1>4. x = [r EXCEPT !.estado = "FINALIZADOOK"]
  BY <1>1, <1>3 DEF Marcadas
<1>5. x.estado = "FINALIZADOOK" /\ x.etapa = r.etapa
  BY <1>3, <1>4 DEF Registro
<1>6. x \in BienHechas /\ r \notin BienHechas
  BY <1>1, <1>3, <1>5 DEF BienHechas, DeEtapa
<1>7. \A j : j # k => ((j \in DOMAIN t /\ t[j] \in BienHechas) <=> (j \in DOMAIN u /\ u[j] \in BienHechas))
  BY <1>1 DEF Marcadas
<1>8. Cardinality(Posiciones(u, BienHechas)) = Cardinality(Posiciones(t, BienHechas)) + 1
  BY <1>2, <1>3, <1>6, <1>7, PosUnaMas
<1>9. QED
  BY <1>1, <1>8

(* No record that was marked well, and none is.                              *)
LEMMA BienQueda ==
  ASSUME TypeOK, TypeOK', NEW k, NEW e, NEW N, Marcadas(k, e, N), N \cap BienHechas = {},
         \/ tabla[k].etapa \notin {"T", "RL"}
         \/ tabla[k].estado = "ENPROCESO" /\ e # "FINALIZADOOK"
  PROVE  Posiciones(tabla', BienHechas) = Posiciones(tabla, BienHechas)
<1>1. PICK t, u : t = tabla /\ u = tabla'
  OBVIOUS
<1>2. t \in Seq(Registro) /\ u \in Seq(Registro) /\ k \in DOMAIN t /\ k \in DOMAIN u
  BY <1>1 DEF TypeOK, Marcadas
<1>3. PICK r \in Registro, x \in Registro : r = t[k] /\ x = u[k]
  BY <1>2
<1>4. x = [r EXCEPT !.estado = e]
  BY <1>1, <1>3 DEF Marcadas
<1>5. x.estado = e /\ x.etapa = r.etapa
  BY <1>3, <1>4 DEF Registro
<1>6. x \notin BienHechas /\ r \notin BienHechas
  BY <1>1, <1>3, <1>5 DEF BienHechas, DeEtapa
<1>7. \A j : (j \in DOMAIN t /\ t[j] \in BienHechas) <=> (j \in DOMAIN u /\ u[j] \in BienHechas)
  BY <1>1, <1>3, <1>6 DEF Marcadas
<1>8. Posiciones(t, BienHechas) = Posiciones(u, BienHechas)
  BY <1>7, PosIguales
<1>9. QED
  BY <1>1, <1>8

LEMMA EtapaQueda ==
  ASSUME TypeOK, TypeOK', NEW k, NEW e, NEW N, Marcadas(k, e, N), NEW etapa,
         \A x \in N : x.etapa # etapa
  PROVE  Posiciones(tabla', DeEtapa(etapa)) = Posiciones(tabla, DeEtapa(etapa))
<1>1. PICK t, u : t = tabla /\ u = tabla'
  OBVIOUS
<1>2. t \in Seq(Registro) /\ u \in Seq(Registro) /\ k \in DOMAIN t /\ k \in DOMAIN u
  BY <1>1 DEF TypeOK, Marcadas
<1>3. PICK r \in Registro, x \in Registro : r = t[k] /\ x = u[k]
  BY <1>2
<1>4. x = [r EXCEPT !.estado = e]
  BY <1>1, <1>3 DEF Marcadas
<1>5. x \in DeEtapa(etapa) <=> r \in DeEtapa(etapa)
  BY <1>3, <1>4 DEF Registro, DeEtapa
<1>6. \A y \in N : y \notin DeEtapa(etapa)
  BY DEF DeEtapa
<1>7. \A j : (j \in DOMAIN t /\ t[j] \in DeEtapa(etapa)) <=> (j \in DOMAIN u /\ u[j] \in DeEtapa(etapa))
  BY <1>1, <1>3, <1>5, <1>6 DEF Marcadas
<1>8. Posiciones(t, DeEtapa(etapa)) = Posiciones(u, DeEtapa(etapa))
  BY <1>7, PosIguales
<1>9. QED
  BY <1>1, <1>8

(* The local reductions in process of a node: one less at most, and only if  *)
(* the record that changes is one of them.                                   *)
LEMMA RLQuedan ==
  ASSUME TypeOK, TypeOK', NEW k, Cambia(k, tabla'), NEW n \in Nodos
  PROVE  /\ Cardinality(Posiciones(tabla, RLEnCurso(n))) - 1
              <= Cardinality(Posiciones(tabla', RLEnCurso(n)))
         /\ ~(k \in DOMAIN tabla /\ tabla[k] \in RLEnCurso(n))
              => /\ Cardinality(Posiciones(tabla, RLEnCurso(n)))
                      <= Cardinality(Posiciones(tabla', RLEnCurso(n)))
                 /\ (\E l \in DOMAIN tabla' : l \notin DOMAIN tabla /\ tabla'[l] \in RLEnCurso(n))
                      => Cardinality(Posiciones(tabla, RLEnCurso(n))) + 1
                           <= Cardinality(Posiciones(tabla', RLEnCurso(n)))
<1>1. PICK t, u, R : t = tabla /\ u = tabla' /\ R = RLEnCurso(n)
  OBVIOUS
<1>2. t \in Seq(Registro) /\ u \in Seq(Registro)
  BY <1>1 DEF TypeOK
<1>3. \A j \in DOMAIN t : j \in DOMAIN u /\ (j # k => u[j] = t[j])
  BY <1>1 DEF Cambia
<1>4. Cardinality(Posiciones(t, R)) - 1 <= Cardinality(Posiciones(u, R))
  <2>1. \A j \in DOMAIN t \ {k} : t[j] \in R => j \in DOMAIN u /\ u[j] \in R
    BY <1>3
  <2>2. QED
    BY <1>2, <2>1, PosMenosUna
<1>5. ASSUME ~(k \in DOMAIN t /\ t[k] \in R)
      PROVE  /\ Cardinality(Posiciones(t, R)) <= Cardinality(Posiciones(u, R))
             /\ (\E l \in DOMAIN u : l \notin DOMAIN t /\ u[l] \in R)
                  => Cardinality(Posiciones(t, R)) + 1 <= Cardinality(Posiciones(u, R))
  <2>1. \A j \in DOMAIN t : t[j] \in R => j \in DOMAIN u /\ u[j] \in R
    BY <1>3, <1>5
  <2>2. QED
    BY <1>2, <2>1, PosMonotona, PosMasUna
<1>6. QED
  BY <1>1, <1>4, <1>5

(* A node keeps its only local reduction.                                    *)
LEMMA PasoUnaRL ==
  ASSUME UnaRL, NEW k, Cambia(k, tabla'), NuevasRL PROVE UnaRL'
<1> SUFFICES ASSUME NEW i \in DOMAIN tabla', NEW j \in DOMAIN tabla',
                    tabla'[i].etapa = "RL", tabla'[j].etapa = "RL", tabla'[i].nodo = tabla'[j].nodo
             PROVE  i = j
  BY DEF UnaRL
<1>1. CASE i \in DOMAIN tabla /\ j \in DOMAIN tabla
  BY <1>1 DEF UnaRL, Cambia
<1>2. ASSUME NEW a \in DOMAIN tabla' \ DOMAIN tabla, NEW b \in DOMAIN tabla',
             tabla'[a].etapa = "RL", tabla'[b].etapa = "RL", tabla'[a].nodo = tabla'[b].nodo
      PROVE  a = b
  <2>1. {c \in DOMAIN tabla' \ {a} : tabla'[c].etapa = "RL" /\ tabla'[c].nodo = tabla'[a].nodo} = {}
    BY <1>2 DEF NuevasRL
  <2>2. QED
    BY <1>2, <2>1
<1>3. QED
  BY <1>1, <1>2

-----------------------------------------------------------------------------
(* The tasks counted.                                                        *)
LEMMA RealizadasFinitas ==
  ASSUME NEW c \in [Nodos -> Nat]
  PROVE  IsFiniteSet(Realizadas(c)) /\ Cardinality(Realizadas(c)) \in Nat
<1> DEFINE f == [n \in Nodos |-> {n} \X (1..c[n])]
<1>1. \A n \in Nodos : IsFiniteSet(f[n])
  <2> SUFFICES ASSUME NEW n \in Nodos PROVE IsFiniteSet(f[n])
    OBVIOUS
  <2>1. c[n] \in Int /\ 1 \in Int
    OBVIOUS
  <2>2. IsFiniteSet(1..c[n])
    BY <2>1, FS_Interval
  <2>3. IsFiniteSet({n})
    BY FS_Singleton
  <2>4. IsFiniteSet({n} \X (1..c[n]))
    BY <2>2, <2>3, FS_Product
  <2>5. QED
    BY <2>4
<1>2. PICK T : f \in [Nodos -> T]
  <2>1. f \in [Nodos -> {f[n] : n \in Nodos}]
    OBVIOUS
  <2>2. QED
    BY <2>1
<1>3. \A y \in Realizadas(c) : \E n \in Nodos : y \in f[n]
  BY DEF Realizadas
<1> HIDE DEF f
<1>4. IsFiniteSet(Realizadas(c))
  BY <1>1, <1>2, <1>3, Parametros, UnionFinita
<1>5. QED
  BY <1>4, FS_CardinalityType

LEMMA RealizadasUna ==
  ASSUME NEW c \in [Nodos -> Nat], NEW n \in Nodos
  PROVE  Cardinality(Realizadas([c EXCEPT ![n] = @ + 1])) = Cardinality(Realizadas(c)) + 1
<1>1. PICK d, i : d = [c EXCEPT ![n] = @ + 1] /\ i = c[n] + 1
  OBVIOUS
<1>2. /\ i \in Nat /\ d[n] = i /\ i = c[n] + 1
      /\ \A a \in Nodos \ {n} : d[a] = c[a]
  BY <1>1
<1>3. \A y : y \in Realizadas(c) <=> \E a \in Nodos : \E j \in 1..c[a] : y = <<a, j>>
  BY DEF Realizadas
<1>4. \A y : y \in Realizadas(d) <=> \E a \in Nodos : \E j \in 1..d[a] : y = <<a, j>>
  BY DEF Realizadas
<1>5. 1..d[n] = (1..c[n]) \cup {i} /\ i \notin 1..c[n]
  BY <1>2
<1>6. <<n, i>> \notin Realizadas(c)
  BY <1>3, <1>5
<1>7. Realizadas(d) = Realizadas(c) \cup {<<n, i>>}
  <2>1. ASSUME NEW y \in Realizadas(d) PROVE y \in Realizadas(c) \cup {<<n, i>>}
    <3>1. PICK a \in Nodos : \E j \in 1..d[a] : y = <<a, j>>
      BY <1>4, <2>1
    <3>2. PICK j \in 1..d[a] : y = <<a, j>>
      BY <3>1
    <3>3. CASE a = n
      BY <1>3, <1>5, <3>2, <3>3
    <3>4. CASE a # n
      BY <1>2, <1>3, <3>2, <3>4
    <3>5. QED
      BY <3>3, <3>4
  <2>2. ASSUME NEW y \in Realizadas(c) PROVE y \in Realizadas(d)
    <3>1. PICK a \in Nodos : \E j \in 1..c[a] : y = <<a, j>>
      BY <1>3, <2>2
    <3>2. PICK j \in 1..c[a] : y = <<a, j>>
      BY <3>1
    <3>3. j \in 1..d[a]
      BY <1>2, <1>5, <3>2
    <3>4. QED
      BY <1>4, <3>2, <3>3
  <2>3. <<n, i>> \in Realizadas(d)
    BY <1>4, <1>5
  <2>4. QED
    BY <2>1, <2>2, <2>3
<1>8. IsFiniteSet(Realizadas(c))
  BY RealizadasFinitas
<1>9. Cardinality(Realizadas(c) \cup {<<n, i>>}) = Cardinality(Realizadas(c)) + 1
  BY <1>6, <1>8, UnoMas
<1>10. QED
  BY <1>1, <1>7, <1>9

(* One task more on each side, or none.                                      *)
LEMMA CuentaIgual ==
  ASSUME TareasContadas, tareas' = tareas,
         Posiciones(tabla', BienHechas) = Posiciones(tabla, BienHechas),
         Posiciones(tabla', DeEtapa("AF")) = Posiciones(tabla, DeEtapa("AF"))
  PROVE  TareasContadas'
BY DEF TareasContadas

LEMMA CuentaOtra ==
  ASSUME TypeOK, TypeOK', TareasContadas, CuentaUna,
         \/ /\ Cardinality(Posiciones(tabla', BienHechas)) = Cardinality(Posiciones(tabla, BienHechas)) + 1
            /\ Posiciones(tabla', DeEtapa("AF")) = Posiciones(tabla, DeEtapa("AF"))
         \/ /\ Posiciones(tabla', BienHechas) = Posiciones(tabla, BienHechas)
            /\ Cardinality(Posiciones(tabla', DeEtapa("AF"))) = Cardinality(Posiciones(tabla, DeEtapa("AF"))) + 1
  PROVE  TareasContadas'
<1>1. PICK h, a, i, b, c, d :
        /\ h = Cardinality(Posiciones(tabla, BienHechas)) /\ a = Cardinality(Posiciones(tabla, DeEtapa("AF")))
        /\ i = Cardinality(Posiciones(tabla', BienHechas)) /\ b = Cardinality(Posiciones(tabla', DeEtapa("AF")))
        /\ c = Cardinality(Realizadas(tareas)) /\ d = Cardinality(Realizadas(tareas'))
  OBVIOUS
<1>2. h \in Nat /\ a \in Nat /\ c = h + a
  BY <1>1, PosFinitas DEF TypeOK, TareasContadas
<1>3. (i = h + 1 /\ b = a) \/ (i = h /\ b = a + 1)
  BY <1>1
<1>4. d = c + 1
  <2>1. PICK e : e = tareas
    OBVIOUS
  <2>2. PICK n \in Nodos : tareas' = [e EXCEPT ![n] = @ + 1]
    BY <2>1 DEF CuentaUna
  <2>3. e \in [Nodos -> Nat]
    BY <2>1 DEF TypeOK
  <2>4. QED
    BY <1>1, <2>1, <2>2, <2>3, RealizadasUna
<1>5. d = i + b
  BY <1>2, <1>3, <1>4
<1>6. QED
  BY <1>1, <1>5 DEF TareasContadas

(* The record that FINREDUCCIONLOCAL finds is in process.                    *)
LEMMA RLEnProceso ==
  ASSUME TypeOK, RLConRegistro, UnaRL, NEW m \in Masters, RecibeFin(m, "RL"),
         NEW k \in DOMAIN tabla, tabla[k].etapa = "RL", tabla[k].nodo = Head(aYama[m]).tarea.nodo
  PROVE  tabla[k].estado = "ENPROCESO"
<1>1. PICK a, t, n : a = Head(aYama[m]) /\ t = a.tarea /\ n = t.nodo
  OBVIOUS
<1>2. a \in Aviso /\ a.tipo = "FIN" /\ t \in Tarea /\ t.etapa = "RL" /\ n \in Nodos
  BY <1>1, Recibida, FinRecibido DEF RecibeFin
<1>3. a \in Noticias(TareasRL(n))
  <2>1. t \in TareasRL(n)
    BY <1>1, <1>2 DEF Tarea, TareaT, TareasRL
  <2>2. QED
    BY <1>1, <1>2, <2>1 DEF Aviso, Noticias
<1>4. PICK M : M = Mensajes(aYama, Noticias(TareasRL(n)))
  OBVIOUS
<1>5. <<m, 1>> \in M
  <2>1. aYama[m] \in Seq(Aviso) /\ aYama[m] # <<>>
    BY DEF TypeOK, RecibeFin, Recibe
  <2>2. a = aYama[m][1] /\ 1 \in DOMAIN aYama[m]
    BY <1>1, <2>1, ColaDe
  <2>3. QED
    BY <1>3, <1>4, <2>2, EnMensajes
<1>6. IsFiniteSet(M) /\ Cardinality(M) \in Nat
  BY <1>4, MensajesFinitos DEF TypeOK
<1>7. Cardinality(M) # 0
  BY <1>5, <1>6, FS_EmptySet
<1>8. PICK v, g : /\ v = EnViaje(bandeja, aYama, hilos, PedidosRL(n), TareasRL(n))
                  /\ g = Cardinality(Posiciones(tabla, RLEnCurso(n)))
  OBVIOUS
<1>9. Cardinality(M) <= v /\ v <= g /\ v \in Nat /\ g \in Nat
  BY <1>2, <1>4, <1>8, FormaRL DEF TypeOK, RLConRegistro
<1>10. g # 0
  BY <1>6, <1>7, <1>9
<1>11. PICK j : j \in Posiciones(tabla, RLEnCurso(n))
  BY <1>8, <1>10, FS_EmptySet
<1>12. /\ j \in DOMAIN tabla /\ tabla[j].etapa = "RL" /\ tabla[j].nodo = n
       /\ tabla[j].estado = "ENPROCESO"
  BY <1>11 DEF Posiciones, RLEnCurso
<1>13. j = k
  BY <1>1, <1>12 DEF UnaRL
<1>14. QED
  BY <1>12, <1>13

-----------------------------------------------------------------------------
(* What the ends of tasks do to the three invariants.                        *)
Contadas == UnaRL /\ RLConRegistro /\ TareasContadas

(* The end of a task is of no consequence to them. *)
LEMMA FinSinEfecto ==
  ASSUME TypeOK, TypeOK', Contadas, NEW m \in Masters, NEW etapa, RecibeFin(m, etapa),
         UNCHANGED <<tabla, bandeja, tareas>>
  PROVE  Contadas'
<1>1. UnaRL' /\ TareasContadas'
  BY DEF Contadas, UnaRL, TareasContadas
<1>2. ASSUME NEW n \in Nodos
      PROVE  EnViaje(bandeja', aYama', hilos', PedidosRL(n), TareasRL(n))
               <= Cardinality(Posiciones(tabla', RLEnCurso(n)))
  <2>1. PICK x \in {0, 1} : x = 0
    OBVIOUS
  <2>2. PICK b, g : /\ b = Cardinality(Mensajes(bandeja, PedidosRL(n)))
                    /\ g = Cardinality(Posiciones(tabla, RLEnCurso(n)))
    OBVIOUS
  <2>3. b \in Nat /\ g \in Nat
    BY <2>2, FormaRL DEF TypeOK
  <2>4. b <= b + x /\ g + (x - x) <= g /\ x # 1
    BY <2>1, <2>3
  <2>5. /\ Cardinality(Mensajes(bandeja', PedidosRL(n))) = b
        /\ Cardinality(Posiciones(tabla', RLEnCurso(n))) = g
    BY <2>2
  <2>6. QED
    BY <2>1, <2>2, <2>4, <2>5, FinRL DEF Contadas
<1>3. QED
  BY <1>1, <1>2 DEF Contadas, RLConRegistro

(* A record that is no local reduction was changed, and perhaps a local      *)
(* reduction of the node that a message asks for was added.                  *)
LEMMA FinDeOtra ==
  ASSUME TypeOK, TypeOK', Contadas, NEW m \in Masters, NEW etapa, RecibeFin(m, etapa),
         NEW k \in DOMAIN tabla, tabla[k].etapa # "RL", Cambia(k, tabla'), NuevasRL,
         \A n \in Nodos :
           \/ Cardinality(Mensajes(bandeja', PedidosRL(n))) <= Cardinality(Mensajes(bandeja, PedidosRL(n)))
           \/ /\ Cardinality(Mensajes(bandeja', PedidosRL(n))) <= Cardinality(Mensajes(bandeja, PedidosRL(n))) + 1
              /\ \E l \in DOMAIN tabla' : l \notin DOMAIN tabla /\ tabla'[l] \in RLEnCurso(n)
  PROVE  UnaRL' /\ RLConRegistro'
<1>1. UnaRL'
  BY PasoUnaRL DEF Contadas
<1>2. ASSUME NEW n \in Nodos
      PROVE  EnViaje(bandeja', aYama', hilos', PedidosRL(n), TareasRL(n))
               <= Cardinality(Posiciones(tabla', RLEnCurso(n)))
  <2>1. PICK x \in {0, 1}, y \in {0, 1} : x = 0 /\ y = 1
    OBVIOUS
  <2>2. PICK b, c, g, h : /\ b = Cardinality(Mensajes(bandeja, PedidosRL(n)))
                          /\ c = Cardinality(Mensajes(bandeja', PedidosRL(n)))
                          /\ g = Cardinality(Posiciones(tabla, RLEnCurso(n)))
                          /\ h = Cardinality(Posiciones(tabla', RLEnCurso(n)))
    OBVIOUS
  <2>3. b \in Nat /\ c \in Nat /\ g \in Nat /\ h \in Nat
    BY <2>2, FormaRL DEF TypeOK
  <2>4. tabla[k] \notin RLEnCurso(n)
    BY DEF RLEnCurso
  <2>5. /\ g <= h
        /\ (\E l \in DOMAIN tabla' : l \notin DOMAIN tabla /\ tabla'[l] \in RLEnCurso(n)) => g + 1 <= h
    BY <2>2, <2>4, RLQuedan
  <2>6. c <= b \/ (c <= b + 1 /\ g + 1 <= h)
    BY <2>2, <2>5
  <2>7. CASE c <= b
    <3>1. c <= b + x /\ g + (x - x) <= h /\ x # 1
      BY <2>1, <2>3, <2>5, <2>7
    <3>2. QED
      BY <2>1, <2>2, <3>1, FinRL DEF Contadas
  <2>8. CASE c <= b + 1 /\ g + 1 <= h
    <3>1. c <= b + y /\ g + (y - x) <= h /\ x # 1
      BY <2>1, <2>3, <2>8
    <3>2. QED
      BY <2>1, <2>2, <3>1, FinRL DEF Contadas
  <2>9. QED
    BY <2>6, <2>7, <2>8
<1>3. QED
  BY <1>1, <1>2 DEF RLConRegistro

(* The record of a local reduction was marked when its end was read. *)
LEMMA FinDeRL ==
  ASSUME TypeOK, TypeOK', Contadas, NEW m \in Masters, RecibeFin(m, "RL"),
         NEW k \in DOMAIN tabla, tabla[k].nodo = Head(aYama[m]).tarea.nodo,
         Cambia(k, tabla'), NuevasRL,
         \A n \in Nodos :
           Cardinality(Mensajes(bandeja', PedidosRL(n))) <= Cardinality(Mensajes(bandeja, PedidosRL(n)))
  PROVE  UnaRL' /\ RLConRegistro'
<1>1. UnaRL'
  BY PasoUnaRL DEF Contadas
<1>2. ASSUME NEW n \in Nodos
      PROVE  EnViaje(bandeja', aYama', hilos', PedidosRL(n), TareasRL(n))
               <= Cardinality(Posiciones(tabla', RLEnCurso(n)))
  <2>1. PICK x \in {0, 1}, y \in {0, 1} : x = 0 /\ y = 1
    OBVIOUS
  <2>2. PICK b, c, g, h : /\ b = Cardinality(Mensajes(bandeja, PedidosRL(n)))
                          /\ c = Cardinality(Mensajes(bandeja', PedidosRL(n)))
                          /\ g = Cardinality(Posiciones(tabla, RLEnCurso(n)))
                          /\ h = Cardinality(Posiciones(tabla', RLEnCurso(n)))
    OBVIOUS
  <2>3. b \in Nat /\ c \in Nat /\ g \in Nat /\ h \in Nat /\ c <= b
    BY <2>2, FormaRL DEF TypeOK
  <2>4. g - 1 <= h /\ (tabla[k] \notin RLEnCurso(n) => g <= h)
    BY <2>2, RLQuedan
  <2>5. CASE Head(aYama[m]).tarea.nodo = n
    <3>1. c <= b + x /\ g + (x - y) <= h
      BY <2>1, <2>3, <2>4
    <3>2. QED
      BY <2>1, <2>2, <2>5, <3>1, FinRL DEF Contadas
  <2>6. CASE Head(aYama[m]).tarea.nodo # n
    <3>1. tabla[k] \notin RLEnCurso(n)
      BY <2>6 DEF RLEnCurso
    <3>2. c <= b + x /\ g + (x - x) <= h /\ x # 1
      BY <2>1, <2>3, <2>4, <3>1
    <3>3. QED
      BY <2>1, <2>2, <3>2, FinRL DEF Contadas
  <2>7. QED
    BY <2>5, <2>6
<1>3. QED
  BY <1>1, <1>2 DEF RLConRegistro

(* A message of another type asks for no local reduction, nor does silence.  *)
LEMMA SinPedirRL ==
  ASSUME TypeOK, TypeOK', NEW n \in Nodos,
         \/ bandeja' = bandeja
         \/ \E a \in Masters, msg \in Solicitud :
              (msg.tipo # "RL" \/ msg.nodo # n) /\ Enviar(a, msg)
  PROVE  Cardinality(Mensajes(bandeja', PedidosRL(n))) <= Cardinality(Mensajes(bandeja, PedidosRL(n)))
<1>1. CASE bandeja' = bandeja
  <2>1. Cardinality(Mensajes(bandeja, PedidosRL(n))) \in Nat
    BY FormaRL DEF TypeOK
  <2>2. PICK b : b = Cardinality(Mensajes(bandeja, PedidosRL(n)))
    OBVIOUS
  <2>3. b <= b
    BY <2>1, <2>2
  <2>4. QED
    BY <1>1, <2>2, <2>3
<1>2. ASSUME NEW a \in Masters, NEW msg \in Solicitud, msg.tipo # "RL" \/ msg.nodo # n, Enviar(a, msg)
      PROVE  Cardinality(Mensajes(bandeja', PedidosRL(n))) <= Cardinality(Mensajes(bandeja, PedidosRL(n)))
  <2>1. msg \notin PedidosRL(n)
    BY <1>2, PedidosDeRL
  <2>2. QED
    BY <1>2, <2>1, CuentaEnviado
<1>3. QED
  BY <1>1, <1>2

-----------------------------------------------------------------------------
(* The record that FINTRANSFORMACION finds, and then the handlers.          *)
LEMMA EnCursoElDelFin ==
  ASSUME TypeOK, Planificada, Debidas, NEW m \in Masters, RecibeFin(m, "T"),
         NEW t, t = Head(aYama[m]).tarea, NEW S, S = EnProceso(t.bloque, t.job),
         NEW k, k = Primera(S), k \in S
  PROVE  k \in DOMAIN tabla /\ tabla[k].etapa = "T" /\ tabla[k].estado = "ENPROCESO"
<1>1. /\ Debida(tabla, t) /\ tabla # <<>> /\ k = t.bloque + 1
      /\ k \in 1..NBloques /\ k \in DOMAIN tabla /\ NBloques \in Nat
  BY SuRegistro, Parametros
<1>2. k <= NBloques
  BY <1>1
<1>3. tabla[k].etapa = "T"
  BY <1>1, <1>2, YaPlanificada
<1>4. tabla[k].estado = "ENPROCESO"
  BY <1>1 DEF Debida
<1>5. QED
  BY <1>1, <1>3, <1>4

LEMMA ContadasTOk ==
  ASSUME TypeOK, TypeOK', Planificada, Debidas, NuevasRL, Contadas,
         NEW m \in Masters, FinTransformacionOk(m)
  PROVE  Contadas'
<1>1. RecibeFin(m, "T")
  BY DEF FinTransformacionOk
<1>2. PICK t, S : t = Head(aYama[m]).tarea /\ S = EnProceso(t.bloque, t.job)
  OBVIOUS
<1>3. PICK k : k = Primera(S)
  OBVIOUS
<1>5. ASSUME k \in S
      PROVE  k \in DOMAIN tabla /\ tabla[k].etapa = "T" /\ tabla[k].estado = "ENPROCESO"
  BY <1>1, <1>2, <1>3, <1>5, EnCursoElDelFin
(* The record was marked; the new ones, if any, are local reductions. *)
<1>6. ASSUME k \in S, CuentaUna, NEW N, Marcadas(k, "FINALIZADOOK", N),
             \A x \in N : x.etapa = "RL" /\ x.estado = "ENPROCESO",
             \A n \in Nodos :
               \/ Cardinality(Mensajes(bandeja', PedidosRL(n))) <= Cardinality(Mensajes(bandeja, PedidosRL(n)))
               \/ /\ Cardinality(Mensajes(bandeja', PedidosRL(n))) <= Cardinality(Mensajes(bandeja, PedidosRL(n))) + 1
                  /\ \E l \in DOMAIN tabla' : l \notin DOMAIN tabla /\ tabla'[l] \in RLEnCurso(n)
      PROVE  Contadas'
  <2>1. k \in DOMAIN tabla /\ tabla[k].etapa = "T" /\ tabla[k].estado = "ENPROCESO"
    BY <1>5, <1>6
  <2>2. Cambia(k, tabla')
    BY <1>6, CambiaDeMarcadas
  <2>3. UnaRL' /\ RLConRegistro'
    BY <1>1, <1>6, <2>1, <2>2, FinDeOtra
  <2>4. N \cap BienHechas = {}
    BY <1>6 DEF BienHechas
  <2>5. Cardinality(Posiciones(tabla', BienHechas)) = Cardinality(Posiciones(tabla, BienHechas)) + 1
    BY <1>6, <2>1, <2>4, BienMarcada
  <2>6. Posiciones(tabla', DeEtapa("AF")) = Posiciones(tabla, DeEtapa("AF"))
    BY <1>6, EtapaQueda
  <2>7. QED
    BY <1>6, <2>3, <2>5, <2>6, CuentaOtra DEF Contadas
<1>7. CASE UNCHANGED <<tabla, bandeja, tareas>>
  BY <1>1, <1>7, FinSinEfecto
<1>8. CASE k \in S /\ CuentaUna /\ Marca(k, "FINALIZADOOK")
  <2>1. Marcadas(k, "FINALIZADOOK", {})
    BY <1>5, <1>8, MarcadasDeMarca
  <2>2. bandeja' = bandeja
    BY <1>8 DEF Marca, SinEnviar
  <2>3. QED
    BY <1>6, <1>8, <2>1, <2>2, SinPedirRL
<1>9. CASE /\ k \in S /\ CuentaUna
           /\ \E x \in Registro, msg \in Solicitud :
                /\ tabla' = Append(Marcada(k, "FINALIZADOOK"), x)
                /\ x.etapa = "RL" /\ x.estado = "ENPROCESO"
                /\ msg.tipo = "RL" /\ msg.nodo = x.nodo /\ Enviar(m, msg)
  <2>1. PICK x \in Registro, msg \in Solicitud :
          /\ tabla' = Append(Marcada(k, "FINALIZADOOK"), x)
          /\ x.etapa = "RL" /\ x.estado = "ENPROCESO"
          /\ msg.tipo = "RL" /\ msg.nodo = x.nodo /\ Enviar(m, msg)
    BY <1>9
  <2>2. /\ Marcadas(k, "FINALIZADOOK", {x})
        /\ \E l \in DOMAIN tabla' : l \notin DOMAIN tabla /\ tabla'[l] = x
    BY <1>5, <1>9, <2>1, MarcadasDeAgregar
  <2>3. ASSUME NEW n \in Nodos
        PROVE  \/ Cardinality(Mensajes(bandeja', PedidosRL(n))) <= Cardinality(Mensajes(bandeja, PedidosRL(n)))
               \/ /\ Cardinality(Mensajes(bandeja', PedidosRL(n))) <= Cardinality(Mensajes(bandeja, PedidosRL(n))) + 1
                  /\ \E l \in DOMAIN tabla' : l \notin DOMAIN tabla /\ tabla'[l] \in RLEnCurso(n)
    <3>1. CASE x.nodo # n
      BY <2>1, <3>1, SinPedirRL
    <3>2. CASE x.nodo = n
      <4>1. x \in RLEnCurso(n)
        BY <2>1, <3>2 DEF RLEnCurso
      <4>2. Cardinality(Mensajes(bandeja', PedidosRL(n))) <= Cardinality(Mensajes(bandeja, PedidosRL(n))) + 1
        BY <2>1, CuentaEnviado
      <4>3. QED
        BY <2>2, <4>1, <4>2
    <3>3. QED
      BY <3>1, <3>2
  <2>4. \A y \in {x} : y.etapa = "RL" /\ y.estado = "ENPROCESO"
    BY <2>1
  <2>5. QED
    BY <1>6, <1>9, <2>2, <2>3, <2>4
<1>10. QED
  BY <1>2, <1>3, <1>7, <1>8, <1>9, EfectoTOkExacto

LEMMA ContadasTMal ==
  ASSUME TypeOK, TypeOK', Planificada, Debidas, NuevasRL, Contadas,
         NEW m \in Masters, FinTransformacionMal(m)
  PROVE  Contadas'
<1>1. RecibeFin(m, "T")
  BY DEF FinTransformacionMal
<1>2. PICK t, S : t = Head(aYama[m]).tarea /\ S = EnProceso(t.bloque, t.job)
  OBVIOUS
<1>3. PICK k : k = Primera(S)
  OBVIOUS
<1>5. ASSUME k \in S
      PROVE  k \in DOMAIN tabla /\ tabla[k].etapa = "T" /\ tabla[k].estado = "ENPROCESO"
  BY <1>1, <1>2, <1>3, <1>5, EnCursoElDelFin
<1>6. CASE UNCHANGED <<tabla, bandeja, tareas>>
  BY <1>1, <1>6, FinSinEfecto
<1>7. CASE k \in S /\ tareas' = tareas /\ Marca(k, "ERROR")
  <2>1. k \in DOMAIN tabla /\ tabla[k].etapa = "T" /\ tabla[k].estado = "ENPROCESO"
    BY <1>5, <1>7
  <2>2. Marcadas(k, "ERROR", {})
    BY <1>7, <2>1, MarcadasDeMarca
  <2>3. Cambia(k, tabla') /\ bandeja' = bandeja
    BY <1>7, <2>2, CambiaDeMarcadas DEF Marca, SinEnviar
  <2>4. UnaRL' /\ RLConRegistro'
    BY <1>1, <2>1, <2>3, SinPedirRL, FinDeOtra
  <2>5. Posiciones(tabla', BienHechas) = Posiciones(tabla, BienHechas)
    BY <2>1, <2>2, BienQueda
  <2>6. Posiciones(tabla', DeEtapa("AF")) = Posiciones(tabla, DeEtapa("AF"))
    BY <2>2, EtapaQueda
  <2>7. QED
    BY <1>7, <2>4, <2>5, <2>6, CuentaIgual DEF Contadas
<1>8. CASE /\ k \in S /\ tareas' = tareas
           /\ tabla' = [tabla EXCEPT ![k].etapa = "T", ![k].nodo = tabla[k].otra,
                                     ![k].otra = tabla[k].nodo]
           /\ \E msg \in Solicitud : msg.tipo = "REPLAN" /\ Enviar(m, msg)
  <2>1. k \in DOMAIN tabla /\ tabla[k].etapa = "T" /\ tabla[k].estado = "ENPROCESO"
    BY <1>5, <1>8
  <2>2. PICK i, o : i = tabla[k].otra /\ o = tabla[k].nodo
    OBVIOUS
  <2>3. Cambia(k, [tabla EXCEPT ![k].etapa = "T", ![k].nodo = i, ![k].otra = o])
    BY <2>1, CambiaReplanificada
  <2>4. Cambia(k, tabla')
    BY <1>8, <2>2, <2>3
  <2>5. UnaRL' /\ RLConRegistro'
    BY <1>1, <1>8, <2>1, <2>4, SinPedirRL, FinDeOtra
  <2>6. PICK r, x : r = tabla[k] /\ x = [r EXCEPT !.etapa = "T", !.nodo = i, !.otra = o]
    OBVIOUS
  <2>7. x.etapa = "T" /\ x.estado = "ENPROCESO"
    <3>1. r \in Registro
      BY <2>1, <2>6 DEF TypeOK
    <3>2. QED
      BY <2>1, <2>6, <3>1 DEF Registro
  <2>8. /\ DOMAIN tabla' = DOMAIN tabla /\ tabla'[k] = x
        /\ \A j \in DOMAIN tabla : j # k => tabla'[j] = tabla[j]
    <3>1. tabla \in Seq(Registro)
      BY DEF TypeOK
    <3>2. tabla' = [tabla EXCEPT ![k] = x]
      BY <1>8, <2>1, <2>2, <2>6, <3>1
    <3>3. QED
      BY <2>1, <3>1, <3>2
  <2>9. /\ tabla[k] \notin BienHechas /\ tabla'[k] \notin BienHechas
        /\ tabla[k] \notin DeEtapa("AF") /\ tabla'[k] \notin DeEtapa("AF")
    BY <2>1, <2>7, <2>8 DEF BienHechas, DeEtapa
  <2>10. PICK a, u : a = tabla /\ u = tabla'
    OBVIOUS
  <2>11. ASSUME NEW R \in {BienHechas, DeEtapa("AF")}
         PROVE  Posiciones(u, R) = Posiciones(a, R)
    BY <2>8, <2>9, <2>10 DEF Posiciones
  <2>12. QED
    BY <1>8, <2>5, <2>10, <2>11, CuentaIgual DEF Contadas
<1>9. QED
  <2>1. CASE ~UNCHANGED <<tabla, bandeja, tareas>>
    <3>1. PICK j \in EnProceso(Head(aYama[m]).tarea.bloque, Head(aYama[m]).tarea.job) :
            /\ tareas' = tareas
            /\ j = Primera(EnProceso(Head(aYama[m]).tarea.bloque, Head(aYama[m]).tarea.job))
            /\ \/ Marca(j, "ERROR")
               \/ /\ tabla' = [tabla EXCEPT ![j].etapa = "T", ![j].nodo = tabla[j].otra,
                                            ![j].otra = tabla[j].nodo]
                  /\ \E msg \in Solicitud : msg.tipo = "REPLAN" /\ Enviar(m, msg)
      BY <2>1, EfectoTMal
    <3>2. j = k /\ k \in S
      BY <1>2, <1>3, <3>1
    <3>3. QED
      BY <1>7, <1>8, <3>1, <3>2
  <2>2. QED
    BY <1>6, <2>1

LEMMA ContadasRLOk ==
  ASSUME TypeOK, TypeOK', NuevasRL, Contadas, NEW m \in Masters, FinReduccionLocalOk(m)
  PROVE  Contadas'
<1>1. RecibeFin(m, "RL")
  BY DEF FinReduccionLocalOk
<1>2. CASE UNCHANGED <<tabla, bandeja, tareas>>
  BY <1>1, <1>2, FinSinEfecto
<1>3. ASSUME NEW k \in DOMAIN tabla, CuentaUna, tabla[k].etapa = "RL",
             tabla[k].nodo = Head(aYama[m]).tarea.nodo,
             NEW N, Marcadas(k, "FINALIZADOOK", N), \A x \in N : x.etapa = "RG",
             \A n \in Nodos :
               Cardinality(Mensajes(bandeja', PedidosRL(n))) <= Cardinality(Mensajes(bandeja, PedidosRL(n)))
      PROVE  Contadas'
  <2>1. tabla[k].estado = "ENPROCESO"
    BY <1>1, <1>3, RLEnProceso DEF Contadas
  <2>2. Cambia(k, tabla')
    BY <1>3, CambiaDeMarcadas
  <2>3. UnaRL' /\ RLConRegistro'
    BY <1>1, <1>3, <2>2, FinDeRL
  <2>4. N \cap BienHechas = {}
    BY <1>3 DEF BienHechas, DeEtapa
  <2>5. Cardinality(Posiciones(tabla', BienHechas)) = Cardinality(Posiciones(tabla, BienHechas)) + 1
    BY <1>3, <2>1, <2>4, BienMarcada
  <2>6. Posiciones(tabla', DeEtapa("AF")) = Posiciones(tabla, DeEtapa("AF"))
    BY <1>3, EtapaQueda
  <2>7. QED
    BY <1>3, <2>3, <2>5, <2>6, CuentaOtra DEF Contadas
<1>4. ASSUME NEW k \in DOMAIN tabla, CuentaUna, tabla[k].etapa = "RL",
             tabla[k].nodo = Head(aYama[m]).tarea.nodo, Marca(k, "FINALIZADOOK")
      PROVE  Contadas'
  <2>1. Marcadas(k, "FINALIZADOOK", {}) /\ bandeja' = bandeja
    BY <1>4, MarcadasDeMarca DEF Marca, SinEnviar
  <2>2. QED
    BY <1>3, <1>4, <2>1, SinPedirRL
<1>5. ASSUME NEW k \in DOMAIN tabla, CuentaUna, tabla[k].etapa = "RL",
             tabla[k].nodo = Head(aYama[m]).tarea.nodo, MarcaYAgrega(k, "RG", "RG")
      PROVE  Contadas'
  <2>1. PICK x \in Registro, a \in Masters, msg \in Solicitud :
          /\ tabla' = Append(Marcada(k, "FINALIZADOOK"), x)
          /\ x.etapa = "RG" /\ msg.tipo = "RG" /\ Enviar(a, msg)
    BY <1>5 DEF MarcaYAgrega
  <2>2. Marcadas(k, "FINALIZADOOK", {x})
    BY <2>1, MarcadasDeAgregar
  <2>3. ASSUME NEW n \in Nodos
        PROVE  Cardinality(Mensajes(bandeja', PedidosRL(n))) <= Cardinality(Mensajes(bandeja, PedidosRL(n)))
    <3>1. msg.tipo # "RL"
      BY <2>1
    <3>2. QED
      BY <2>1, <3>1, SinPedirRL
  <2>4. \A y \in {x} : y.etapa = "RG"
    BY <2>1
  <2>5. QED
    BY <1>3, <1>5, <2>2, <2>3, <2>4
<1>6. QED
  BY <1>2, <1>4, <1>5, EfectoRLOk

LEMMA ContadasRGOk ==
  ASSUME TypeOK, TypeOK', NuevasRL, Contadas, NEW m \in Masters, FinReduccionGlobalOk(m)
  PROVE  Contadas'
<1>1. RecibeFin(m, "RG")
  BY DEF FinReduccionGlobalOk
<1>2. CASE UNCHANGED <<tabla, bandeja, tareas>>
  BY <1>1, <1>2, FinSinEfecto
<1>3. ASSUME NEW k \in DOMAIN tabla, CuentaUna, tabla[k].etapa = "RG", MarcaYAgrega(k, "AF", "AF")
      PROVE  Contadas'
  <2>1. PICK x \in Registro, a \in Masters, msg \in Solicitud :
          /\ tabla' = Append(Marcada(k, "FINALIZADOOK"), x)
          /\ x.etapa = "AF" /\ msg.tipo = "AF" /\ Enviar(a, msg)
    BY <1>3 DEF MarcaYAgrega
  <2>2. Marcadas(k, "FINALIZADOOK", {x})
    BY <2>1, MarcadasDeAgregar
  <2>3. ASSUME NEW n \in Nodos
        PROVE  Cardinality(Mensajes(bandeja', PedidosRL(n))) <= Cardinality(Mensajes(bandeja, PedidosRL(n)))
    <3>1. msg.tipo # "RL"
      BY <2>1
    <3>2. QED
      BY <2>1, <3>1, SinPedirRL
  <2>4. Cambia(k, tabla')
    <3>1. \A y \in {x} : y.etapa # "T"
      BY <2>1
    <3>2. QED
      BY <2>2, <3>1, CambiaDeMarcadas
  <2>5. UnaRL' /\ RLConRegistro'
    <3>1. tabla[k].etapa # "RL"
      BY <1>3
    <3>2. QED
      BY <1>1, <2>3, <2>4, <3>1, FinDeOtra
  <2>6. Posiciones(tabla', BienHechas) = Posiciones(tabla, BienHechas)
    <3>1. {x} \cap BienHechas = {} /\ tabla[k].etapa \notin {"T", "RL"}
      BY <1>3, <2>1 DEF BienHechas, DeEtapa
    <3>2. QED
      BY <2>2, <3>1, BienQueda
  <2>7. Cardinality(Posiciones(tabla', DeEtapa("AF"))) = Cardinality(Posiciones(tabla, DeEtapa("AF"))) + 1
    BY <1>3, PosMarcaYAgrega
  <2>8. QED
    BY <1>3, <2>5, <2>6, <2>7, CuentaOtra DEF Contadas
<1>4. QED
  BY <1>2, <1>3, EfectoRGOk

LEMMA ContadasAbortar ==
  ASSUME TypeOK, TypeOK', NuevasRL, Contadas, NEW m \in Masters,
         FinReduccionLocalMal(m) \/ FinReduccionGlobalMal(m)
  PROVE  Contadas'
<1>1. PICK etapa : RecibeFin(m, etapa)
  BY DEF FinReduccionLocalMal, FinReduccionGlobalMal
<1>2. CASE UNCHANGED <<tabla, bandeja, tareas>>
  BY <1>1, <1>2, FinSinEfecto
<1>3. ASSUME NEW k \in DOMAIN tabla, tareas' = tareas, tabla[k].etapa \in {"RL", "RG"},
             Marca(k, "ERROR"),
             tabla[k].etapa = "RL" => RecibeFin(m, "RL") /\ tabla[k].nodo = Head(aYama[m]).tarea.nodo
      PROVE  Contadas'
  <2>1. Marcadas(k, "ERROR", {}) /\ bandeja' = bandeja
    BY <1>3, MarcadasDeMarca DEF Marca, SinEnviar
  <2>2. Cambia(k, tabla')
    BY <2>1, CambiaDeMarcadas
  <2>3. \A n \in Nodos :
          Cardinality(Mensajes(bandeja', PedidosRL(n))) <= Cardinality(Mensajes(bandeja, PedidosRL(n)))
    BY <2>1, SinPedirRL
  <2>4. UnaRL' /\ RLConRegistro'
    <3>1. CASE tabla[k].etapa = "RL"
      BY <1>3, <2>2, <2>3, <3>1, FinDeRL
    <3>2. CASE tabla[k].etapa # "RL"
      BY <1>1, <2>2, <2>3, <3>2, FinDeOtra
    <3>3. QED
      BY <3>1, <3>2
  <2>5. Posiciones(tabla', BienHechas) = Posiciones(tabla, BienHechas)
    <3>1. tabla[k].etapa \notin {"T", "RL"} \/ tabla[k].estado = "ENPROCESO"
      <4>1. CASE tabla[k].etapa = "RL"
        BY <1>3, <4>1, RLEnProceso DEF Contadas
      <4>2. CASE tabla[k].etapa # "RL"
        BY <1>3, <4>2
      <4>3. QED
        BY <4>1, <4>2
    <3>2. QED
      BY <2>1, <3>1, BienQueda
  <2>6. Posiciones(tabla', DeEtapa("AF")) = Posiciones(tabla, DeEtapa("AF"))
    BY <2>1, EtapaQueda
  <2>7. QED
    BY <1>3, <2>4, <2>5, <2>6, CuentaIgual DEF Contadas
<1>4. QED
  BY <1>2, <1>3, EfectoAbortar

(* Planning adds transformations in process. *)
LEMMA ContadasPlanear ==
  ASSUME TypeOK, TypeOK', Contadas, RecibirBloques PROVE Contadas'
<1>1. PICK m \in Masters, job \in Jobs, nodo \in [Bloques -> Nodos], otra \in [Bloques -> Nodos] :
        /\ tabla' = tabla \o Nuevos(m, job, nodo, otra)
        /\ Enviar(m, PedidoT(job, nodo))
  BY AlPlanificar
<1>2. PICK n, msg : n = Nuevos(m, job, nodo, otra) /\ msg = PedidoT(job, nodo)
  OBVIOUS
<1>3. /\ n \in Seq(Registro) /\ msg \in Solicitud /\ msg.tipo = "T"
      /\ \A i \in DOMAIN n : n[i].etapa = "T" /\ n[i].estado = "ENPROCESO"
  BY <1>2, SonNuevos DEF Nuevos, PedidoT
<1>4. PICK t, u : t = tabla /\ u = tabla'
  OBVIOUS
<1>5. /\ t \in Seq(Registro) /\ u \in Seq(Registro)
      /\ \A j \in DOMAIN t : j \in DOMAIN u /\ u[j] = t[j]
      /\ \A j \in DOMAIN u \ DOMAIN t : u[j].etapa = "T" /\ u[j].estado = "ENPROCESO"
  <2>1. t \in Seq(Registro) /\ u = t \o n
    BY <1>1, <1>2, <1>4 DEF TypeOK
  <2>2. QED
    BY <1>3, <2>1
<1>6. UnaRL'
  <2>1. ASSUME NEW j \in DOMAIN u, NEW k \in DOMAIN u, u[j].etapa = "RL", u[k].etapa = "RL",
               u[j].nodo = u[k].nodo
        PROVE  j = k
    <3>1. /\ j \in DOMAIN t /\ t[j].etapa = "RL" /\ k \in DOMAIN t /\ t[k].etapa = "RL"
          /\ t[j].nodo = t[k].nodo
      BY <1>5, <2>1
    <3>2. QED
      BY <1>4, <3>1 DEF Contadas, UnaRL
  <2>2. QED
    BY <1>4, <2>1 DEF UnaRL
<1>7. tareas' = tareas /\ aYama' = aYama /\ hilos' = hilos
  BY DEF RecibirBloques, procesos
<1>8. TareasContadas'
  <2>1. ASSUME NEW R \in {BienHechas, DeEtapa("AF")} PROVE Posiciones(u, R) = Posiciones(t, R)
    <3>1. \A j \in DOMAIN u \ DOMAIN t : u[j] \notin R
      BY <1>5 DEF BienHechas, DeEtapa
    <3>2. QED
      BY <1>5, <3>1 DEF Posiciones
  <2>2. QED
    BY <1>4, <1>7, <2>1, CuentaIgual DEF Contadas
<1>9. ASSUME NEW a \in Nodos
      PROVE  EnViaje(bandeja', aYama', hilos', PedidosRL(a), TareasRL(a))
               <= Cardinality(Posiciones(tabla', RLEnCurso(a)))
  <2>1. PICK x \in {-1, 0, 1} : x = 0
    OBVIOUS
  <2>2. PICK b, c, g, h : /\ b = Cardinality(Mensajes(bandeja, PedidosRL(a)))
                          /\ c = Cardinality(Mensajes(bandeja', PedidosRL(a)))
                          /\ g = Cardinality(Posiciones(tabla, RLEnCurso(a)))
                          /\ h = Cardinality(Posiciones(tabla', RLEnCurso(a)))
    OBVIOUS
  <2>3. b \in Nat /\ c \in Nat /\ g \in Nat /\ h \in Nat
    BY <2>2, FormaRL DEF TypeOK
  <2>4. c <= b
    BY <1>1, <1>2, <1>3, <2>2, SinPedirRL
  <2>5. g <= h
    <3>1. \A j \in DOMAIN t : t[j] \in RLEnCurso(a) => j \in DOMAIN u /\ u[j] \in RLEnCurso(a)
      BY <1>5
    <3>2. QED
      BY <1>4, <1>5, <2>2, <3>1, PosMonotona
  <2>6. EnViaje(bandeja', aYama', hilos', PedidosRL(a), TareasRL(a))
          <= EnViaje(bandeja, aYama, hilos, PedidosRL(a), TareasRL(a)) + x
    <3>1. /\ Cardinality(Mensajes(aYama', Noticias(TareasRL(a))))
               <= Cardinality(Mensajes(aYama, Noticias(TareasRL(a)))) + x
          /\ Cardinality(Corriendo(hilos', TareasRL(a))) <= Cardinality(Corriendo(hilos, TareasRL(a))) + x
      BY <1>7, <2>1, TareasRLFinitas, Quietas
    <3>2. x \in Int /\ x + x + x <= x /\ c <= b + x
      BY <2>1, <2>3, <2>4
    <3>3. QED
      BY <2>2, <3>1, <3>2, TareasRLFinitas, Balance
  <2>7. g + x <= h
    BY <2>1, <2>3, <2>5
  <2>8. QED
    BY <2>2, <2>6, <2>7, SumaRL DEF Contadas
<1>10. QED
  BY <1>6, <1>8, <1>9 DEF Contadas, RLConRegistro

LEMMA SinContar ==
  ASSUME [Next]_vars, ~RecibirBloques, \A m \in Masters : ~EsFin(m)
  PROVE  tareas' = tareas
<1>1. CASE UNCHANGED vars
  BY <1>1 DEF vars, datosYama
<1>2. ASSUME NEW m \in Masters, PasoYama(m) PROVE tareas' = tareas
  BY <1>2 DEF PasoYama, EsFin, Handshake, SolicitudTransformacion, CerrarRota, datosYama
<1>3. ASSUME NEW m \in Masters, PasoMaster(m) PROVE tareas' = tareas
  BY <1>3 DEF PasoMaster, RecibirT, RecibirReplan, RecibirRL, RecibirRG, RecibirAF, VerCierre,
              MasterRecibe, datosYama
<1>4. ASSUME NEW m \in Masters, Conectar(m) \/ TerminarAF(m) \/ Matar(m) PROVE tareas' = tareas
  BY <1>4 DEF Conectar, TerminarAF, Matar, datosYama
<1>5. ASSUME NEW m \in Masters, NEW t, NEW exito, TerminarHilo(m, t, exito) PROVE tareas' = tareas
  BY <1>5 DEF TerminarHilo, datosYama
<1>6. QED
  BY <1>1, <1>2, <1>3, <1>4, <1>5 DEF Next

LEMMA ContadasDemas ==
  ASSUME TypeOK, TypeOK', Contadas, [Next]_vars, ~RecibirBloques, \A m \in Masters : ~EsFin(m)
  PROVE  Contadas'
<1>1. tabla' = tabla /\ tareas' = tareas
  BY LosDemas, SinContar
<1>2. UnaRL' /\ TareasContadas'
  BY <1>1 DEF Contadas, UnaRL, TareasContadas
<1>3. ASSUME NEW n \in Nodos
      PROVE  EnViaje(bandeja', aYama', hilos', PedidosRL(n), TareasRL(n))
               <= Cardinality(Posiciones(tabla', RLEnCurso(n)))
  <2>1. PICK x \in {-1, 0, 1} : x = 0
    OBVIOUS
  <2>2. PICK g : g = Cardinality(Posiciones(tabla, RLEnCurso(n)))
    OBVIOUS
  <2>3. g \in Nat
    BY <2>2, FormaRL DEF TypeOK
  <2>4. g + x <= g
    BY <2>1, <2>3
  <2>5. EnViaje(bandeja', aYama', hilos', PedidosRL(n), TareasRL(n))
          <= EnViaje(bandeja, aYama, hilos, PedidosRL(n), TareasRL(n)) + x
    BY <2>1, TareasRLFinitas, LanzaRL, ViajeDemas
  <2>6. QED
    BY <1>1, <2>2, <2>4, <2>5, SumaRL DEF Contadas
<1>4. QED
  BY <1>2, <1>3 DEF Contadas, RLConRegistro

LEMMA PasoContadas ==
  ASSUME TypeOK, TypeOK', Planificada, Debidas, NuevasRL, Contadas, [Next]_vars
  PROVE  Contadas'
<1>1. CASE RecibirBloques
  BY <1>1, ContadasPlanear
<1>2. ASSUME NEW m \in Masters, EsFin(m) PROVE Contadas'
  BY <1>2, ContadasTOk, ContadasTMal, ContadasRLOk, ContadasRGOk, ContadasAbortar DEF EsFin
<1>3. CASE ~RecibirBloques /\ \A m \in Masters : ~EsFin(m)
  BY <1>3, ContadasDemas
<1>4. QED
  BY <1>1, <1>2, <1>3

LEMMA ContadasAlPrincipio == Init => Contadas
<1> SUFFICES ASSUME Init PROVE Contadas
  OBVIOUS
<1>1. UnaRL
  BY DEF Init, UnaRL
<1>2. ASSUME NEW n \in Nodos
      PROVE  EnViaje(bandeja, aYama, hilos, PedidosRL(n), TareasRL(n))
               <= Cardinality(Posiciones(tabla, RLEnCurso(n)))
  <2>1. /\ Cardinality(Mensajes(bandeja, PedidosRL(n))) = 0
        /\ Cardinality(Corriendo(hilos, TareasRL(n))) = 0
        /\ Cardinality(Posiciones(tabla, RLEnCurso(n))) = 0
    BY NadaAlPrincipio, TareasRLFinitas
  <2>2. Cardinality(Mensajes(aYama, Noticias(TareasRL(n)))) = 0
    BY NadaAlPrincipio, TareasRLFinitas
  <2>3. QED
    BY <2>1, <2>2 DEF EnViaje
<1>3. TareasContadas
  <2>1. /\ Cardinality(Posiciones(tabla, BienHechas)) = 0
        /\ Cardinality(Posiciones(tabla, DeEtapa("AF"))) = 0
    <3>1. {} \in SUBSET Tarea
      OBVIOUS
    <3>2. QED
      BY <3>1, NadaAlPrincipio
  <2>2. Realizadas(tareas) = {}
    <3>1. \A n \in Nodos : tareas[n] = 0
      BY DEF Init
    <3>2. \A n \in Nodos : 1..tareas[n] = {}
      BY <3>1
    <3>3. QED
      BY <3>2 DEF Realizadas
  <2>3. Cardinality(Realizadas(tareas)) = 0
    BY <2>2, FS_EmptySet
  <2>4. QED
    BY <2>1, <2>3 DEF TareasContadas
<1>4. QED
  BY <1>1, <1>2, <1>3 DEF Contadas, RLConRegistro

(* With one master, whatever fails or is replanned: contTareasRealizadas,    *)
(* which planificar reads to place the clock, counts every task once, the    *)
(* transformations and local reductions that ended well and the final        *)
(* storages asked for (780, 826, 872).                                        *)
THEOREM SiempreContadas ==
  ASSUME UnMasterSolo PROVE Spec => []TareasContadas
<1>1. TypeOK /\ TypeOK' /\ UnaPorBloque /\ PedidasConRegistro /\ Planificada /\ Debidas
        /\ Contadas /\ [Next]_vars
        => Planificada' /\ Debidas' /\ Contadas'
  BY PasoRL, PasoContadas
<1>2. TypeOK /\ TypeOK' /\ UnaPorBloque /\ PedidasConRegistro /\ [Next]_vars
        => UnaPorBloque' /\ PedidasConRegistro'
  BY PasoUna, PasoPedidas
<1>3. Contadas => TareasContadas
  BY DEF Contadas
<1>4. QED
  BY <1>1, <1>2, <1>3, TiposYama, AlPrincipioT, AlPrincipioRL, ContadasAlPrincipio, PTL DEF Spec
-----------------------------------------------------------------------------
(* The job, with one master: every record is of it, and a transformation is  *)
(* on a node of one of its block's copies, its other node being the other's. *)
EnCopia(r) ==
  \E c \in 1..2 : /\ r.nodo = Archivo[Unico][r.bloque][c]
                  /\ r.otra = Archivo[Unico][r.bloque][3 - c]

DelJob ==
  \A k \in DOMAIN tabla : tabla[k].job = 1 /\ (tabla[k].etapa = "T" => EnCopia(tabla[k]))

(* The record k becomes y, and the new ones are of N.                        *)
Puesto(k, y, N) ==
  /\ k \in DOMAIN tabla /\ y \in Registro /\ tabla'[k] = y
  /\ y.etapa = tabla[k].etapa /\ y.bloque = tabla[k].bloque /\ y.job = tabla[k].job
  /\ \A j \in DOMAIN tabla : j \in DOMAIN tabla' /\ (j # k => tabla'[j] = tabla[j])
  /\ \A j \in DOMAIN tabla' \ DOMAIN tabla : tabla'[j] \in N

LEMMA PuestoDeMarcadas ==
  ASSUME TypeOK, TypeOK', NEW k, NEW e, NEW N, Marcadas(k, e, N)
  PROVE  \E y \in Registro : /\ Puesto(k, y, N) /\ y.estado = e
                             /\ y.nodo = tabla[k].nodo /\ y.otra = tabla[k].otra
<1>1. k \in DOMAIN tabla /\ k \in DOMAIN tabla'
  BY DEF Marcadas
<1>2. PICK r \in Registro, y \in Registro : r = tabla[k] /\ y = tabla'[k]
  BY <1>1 DEF TypeOK
<1>3. y = [r EXCEPT !.estado = e]
  BY <1>2 DEF Marcadas
<1>4. /\ y.estado = e /\ y.nodo = r.nodo /\ y.otra = r.otra
      /\ y.etapa = r.etapa /\ y.bloque = r.bloque /\ y.job = r.job
  BY <1>2, <1>3 DEF Registro
<1>5. QED
  BY <1>1, <1>2, <1>4 DEF Marcadas, Puesto

LEMMA PuestoDeReplan ==
  ASSUME TypeOK, TypeOK', NEW k \in DOMAIN tabla, tabla[k].etapa = "T",
         tabla' = [tabla EXCEPT ![k].etapa = "T", ![k].nodo = tabla[k].otra, ![k].otra = tabla[k].nodo]
  PROVE  \E y \in Registro : /\ Puesto(k, y, {}) /\ y.estado = tabla[k].estado
                             /\ y.nodo = tabla[k].otra /\ y.otra = tabla[k].nodo
<1>1. PICK r \in Registro : r = tabla[k] /\ r.etapa = "T"
  BY DEF TypeOK
<1>2. PICK x : x = [r EXCEPT !.etapa = "T", !.nodo = r.otra, !.otra = r.nodo]
  OBVIOUS
<1>3. /\ x.etapa = r.etapa /\ x.bloque = r.bloque /\ x.job = r.job
      /\ x.estado = r.estado /\ x.nodo = r.otra /\ x.otra = r.nodo
  BY <1>1, <1>2 DEF Registro
<1>4. x \in Registro
  BY <1>1, <1>2 DEF Registro
<1>5. tabla \in Seq(Registro)
  BY DEF TypeOK
<1>6. tabla' = [tabla EXCEPT ![k] = x]
  BY <1>1, <1>2, <1>5
<1>7. /\ DOMAIN tabla' = DOMAIN tabla /\ tabla'[k] = x
      /\ \A j \in DOMAIN tabla \ {k} : tabla'[j] = tabla[j]
  BY <1>5, <1>6
<1>8. QED
  BY <1>1, <1>3, <1>4, <1>7 DEF Puesto

(* What each part of the job sees of a record changed.                       *)
LEMMA DelJobQueda ==
  ASSUME DelJob, NEW k, NEW y \in Registro, NEW N, Puesto(k, y, N),
         \A x \in N : x.etapa # "T" /\ x.job = 1,
         \/ y.nodo = tabla[k].nodo /\ y.otra = tabla[k].otra
         \/ y.nodo = tabla[k].otra /\ y.otra = tabla[k].nodo
  PROVE  DelJob'
<1> SUFFICES ASSUME NEW j \in DOMAIN tabla'
             PROVE  tabla'[j].job = 1 /\ (tabla'[j].etapa = "T" => EnCopia(tabla'[j]))
  BY DEF DelJob, EnCopia
<1>1. CASE j \notin DOMAIN tabla
  BY <1>1 DEF Puesto
<1>2. CASE j \in DOMAIN tabla /\ j # k
  BY <1>2 DEF Puesto, DelJob
<1>3. CASE j = k
  <2>1. tabla'[j] = y /\ y.job = 1 /\ y.bloque = tabla[k].bloque
        /\ (y.etapa = "T" => EnCopia(tabla[k]))
    BY <1>3 DEF Puesto, DelJob
  <2>2. ASSUME EnCopia(tabla[k]) PROVE EnCopia(y)
    <3>1. PICK c \in 1..2 : /\ tabla[k].nodo = Archivo[Unico][y.bloque][c]
                            /\ tabla[k].otra = Archivo[Unico][y.bloque][3 - c]
      BY <2>1, <2>2 DEF EnCopia
    <3>2. PICK d \in 1..2 : d = 3 - c /\ c = 3 - d
      OBVIOUS
    <3>3. CASE y.nodo = tabla[k].nodo /\ y.otra = tabla[k].otra
      BY <3>1, <3>3 DEF EnCopia
    <3>4. CASE y.nodo = tabla[k].otra /\ y.otra = tabla[k].nodo
      <4>1. y.nodo = Archivo[Unico][y.bloque][d] /\ y.otra = Archivo[Unico][y.bloque][3 - d]
        BY <3>1, <3>2, <3>4
      <4>2. QED
        BY <4>1 DEF EnCopia
    <3>5. QED
      BY <3>3, <3>4
  <2>3. QED
    BY <2>1, <2>2
<1>4. QED
  BY <1>1, <1>2, <1>3

LEMMA BloquesQuedan ==
  ASSUME TypeOK, TypeOK', Planificada, NEW k, NEW y \in Registro, NEW N, Puesto(k, y, N)
  PROVE  /\ DOMAIN BloquesDe(tabla) = Bloques
         /\ \A b \in Bloques : /\ b + 1 \in DOMAIN tabla
                               /\ BloquesDe(tabla)[b] = [nodo |-> tabla[b + 1].nodo,
                                                         estado |-> tabla[b + 1].estado]
         /\ tabla[k].etapa = "T" =>
              /\ k - 1 \in Bloques /\ tabla[k].bloque = k - 1 /\ (k - 1) + 1 = k
              /\ BloquesDe(tabla') = [BloquesDe(tabla) EXCEPT
                                        ![k - 1] = [nodo |-> y.nodo, estado |-> y.estado]]
         /\ tabla[k].etapa # "T" => BloquesDe(tabla') = BloquesDe(tabla)
<1>1. PICK t, u : t = tabla /\ u = tabla'
  OBVIOUS
<1>2. t # <<>> /\ u # <<>> /\ k \in DOMAIN t /\ k \in DOMAIN u
      /\ u[k] = y /\ \A j \in DOMAIN t : j \in DOMAIN u /\ (j # k => u[j] = t[j])
  <2>1. t \in Seq(Registro) /\ u \in Seq(Registro)
    BY <1>1 DEF TypeOK
  <2>2. QED
    BY <1>1, <2>1 DEF Puesto
<1>3. NBloques \in Nat \ {0}
  BY Parametros
<1>4. /\ \A b \in Bloques : b \in Nat /\ b + 1 \in DOMAIN t /\ (b + 1) - 1 = b
      /\ k \in Nat /\ k >= 1
      /\ k <= NBloques => t[k].etapa = "T" /\ t[k].bloque = k - 1
      /\ k > NBloques => t[k].etapa # "T"
  BY <1>1, <1>2, <1>3, YaPlanificada DEF Bloques
<1>5. /\ BloquesDe(t) = [b \in Bloques |-> [nodo |-> t[b + 1].nodo, estado |-> t[b + 1].estado]]
      /\ BloquesDe(u) = [b \in Bloques |-> [nodo |-> u[b + 1].nodo, estado |-> u[b + 1].estado]]
  BY <1>2 DEF BloquesDe
<1>6. ASSUME t[k].etapa = "T"
      PROVE  /\ k - 1 \in Bloques /\ t[k].bloque = k - 1 /\ (k - 1) + 1 = k
             /\ BloquesDe(u) = [BloquesDe(t) EXCEPT ![k - 1] = [nodo |-> y.nodo, estado |-> y.estado]]
  <2>1. k \in 1..NBloques /\ t[k].bloque = k - 1 /\ (k - 1) + 1 = k /\ k - 1 \in Bloques
    BY <1>3, <1>4, <1>6 DEF Bloques
  <2>2. \A b \in Bloques : b # k - 1 => u[b + 1] = t[b + 1]
    BY <1>2, <1>4
  <2>3. QED
    BY <1>2, <1>5, <2>1, <2>2
<1>7. ASSUME t[k].etapa # "T" PROVE BloquesDe(u) = BloquesDe(t)
  <2>1. \A b \in Bloques : b + 1 # k
    BY <1>3, <1>4, <1>7 DEF Bloques
  <2>2. \A b \in Bloques : u[b + 1] = t[b + 1]
    BY <1>2, <1>4, <2>1
  <2>3. QED
    BY <1>5, <2>2
<1>8. QED
  BY <1>1, <1>4, <1>5, <1>6, <1>7

LEMMA BloqueCambia ==
  ASSUME TypeOK, TypeOK', Planificada, NEW k, NEW y \in Registro, NEW N, Puesto(k, y, N),
         tabla[k].etapa = "T", NEW b, k = b + 1, k - 1 = b,
         NEW z, z = [nodo |-> y.nodo, estado |-> y.estado]
  PROVE  BloquesDe(tabla') = [BloquesDe(tabla) EXCEPT ![b] = z]
<1>1. BloquesDe(tabla') = [BloquesDe(tabla) EXCEPT ![k - 1] = [nodo |-> y.nodo, estado |-> y.estado]]
  BY BloquesQuedan
<1>2. QED
  BY <1>1

LEMMA CuantosQuedan ==
  ASSUME TypeOK, TypeOK', NEW k, NEW y \in Registro, NEW N, Puesto(k, y, N), NEW etapa,
         \A x \in N : x.etapa # etapa
  PROVE  Cuantos(tabla', etapa) = Cuantos(tabla, etapa)
<1>1. PICK t, u : t = tabla /\ u = tabla'
  OBVIOUS
<1>2. t \in Seq(Registro) /\ k \in DOMAIN t /\ k \in DOMAIN u /\ u[k] = y
  BY <1>1 DEF TypeOK, Puesto
<1>3. PICK r \in Registro : r = t[k]
  BY <1>2
<1>4. y \in DeEtapa(etapa) <=> r \in DeEtapa(etapa)
  BY <1>1, <1>3 DEF DeEtapa, Puesto
<1>5. \A x \in N : x \notin DeEtapa(etapa)
  BY DEF DeEtapa
<1>6. \A j : (j \in DOMAIN t /\ t[j] \in DeEtapa(etapa)) <=> (j \in DOMAIN u /\ u[j] \in DeEtapa(etapa))
  BY <1>1, <1>2, <1>3, <1>4, <1>5 DEF Puesto
<1>7. Posiciones(t, DeEtapa(etapa)) = Posiciones(u, DeEtapa(etapa))
  BY <1>6, PosIguales
<1>8. QED
  BY <1>1, <1>7 DEF Cuantos

(* The local reductions, one by one. *)
LEMMA EsReduccion ==
  ASSUME NEW t \in Seq(Registro), NEW r
  PROVE  r \in ReduccionesDe(t)
           <=> \E k \in DOMAIN t : t[k].etapa = "RL" /\ r = [nodo |-> t[k].nodo, estado |-> t[k].estado]
<1>1. \A k \in DOMAIN t : t[k] \in Registro
  OBVIOUS
<1>2. \A k : k \in Posiciones(t, DeEtapa("RL")) <=> k \in DOMAIN t /\ t[k].etapa = "RL"
  BY <1>1 DEF Posiciones, DeEtapa
<1>3. QED
  BY <1>2 DEF ReduccionesDe

LEMMA ReduccionesQuedan ==
  ASSUME TypeOK, TypeOK', NEW k, NEW y \in Registro, NEW N, Puesto(k, y, N),
         tabla[k].etapa # "RL"
  PROVE  /\ (\A x \in N : x.etapa # "RL") => ReduccionesDe(tabla') = ReduccionesDe(tabla)
         /\ \A x : (N = {x} /\ x.etapa = "RL" /\ \E l \in DOMAIN tabla' : l \notin DOMAIN tabla)
              => ReduccionesDe(tabla') = ReduccionesDe(tabla)
                                           \cup {[nodo |-> x.nodo, estado |-> x.estado]}
<1>1. PICK t, u : t = tabla /\ u = tabla'
  OBVIOUS
<1>2. t \in Seq(Registro) /\ u \in Seq(Registro)
  BY <1>1 DEF TypeOK
<1>3. /\ k \in DOMAIN u /\ u[k].etapa # "RL" /\ t[k].etapa # "RL"
      /\ \A j \in DOMAIN t : j \in DOMAIN u /\ (j # k => u[j] = t[j])
      /\ \A j \in DOMAIN u \ DOMAIN t : u[j] \in N
  BY <1>1 DEF Puesto
<1>4. ASSUME NEW r \in ReduccionesDe(t) PROVE r \in ReduccionesDe(u)
  <2>1. PICK j \in DOMAIN t : t[j].etapa = "RL" /\ r = [nodo |-> t[j].nodo, estado |-> t[j].estado]
    BY <1>2, EsReduccion
  <2>2. j \in DOMAIN u /\ u[j] = t[j]
    BY <1>3, <2>1
  <2>3. QED
    BY <1>2, <2>1, <2>2, EsReduccion
<1>5. ASSUME NEW r \in ReduccionesDe(u)
      PROVE  \/ r \in ReduccionesDe(t)
             \/ \E x \in N : x.etapa = "RL" /\ r = [nodo |-> x.nodo, estado |-> x.estado]
  <2>1. PICK j \in DOMAIN u : u[j].etapa = "RL" /\ r = [nodo |-> u[j].nodo, estado |-> u[j].estado]
    BY <1>2, EsReduccion
  <2>2. CASE j \in DOMAIN t
    <3>1. u[j] = t[j]
      BY <1>3, <2>1, <2>2
    <3>2. QED
      BY <1>2, <2>1, <2>2, <3>1, EsReduccion
  <2>3. CASE j \notin DOMAIN t
    BY <1>3, <2>1, <2>3
  <2>4. QED
    BY <2>2, <2>3
<1>6. (\A x \in N : x.etapa # "RL") => ReduccionesDe(u) = ReduccionesDe(t)
  BY <1>4, <1>5
<1>7. ASSUME NEW x, N = {x}, x.etapa = "RL", NEW l \in DOMAIN u, l \notin DOMAIN t
      PROVE  ReduccionesDe(u) = ReduccionesDe(t) \cup {[nodo |-> x.nodo, estado |-> x.estado]}
  <2>1. [nodo |-> x.nodo, estado |-> x.estado] \in ReduccionesDe(u)
    <3>1. u[l] = x
      BY <1>3, <1>7
    <3>2. QED
      BY <1>2, <1>7, <3>1, EsReduccion
  <2>2. QED
    BY <1>4, <1>5, <1>7, <2>1
<1>8. QED
  BY <1>1, <1>6, <1>7

LEMMA ReduccionPasa ==
  ASSUME TypeOK, TypeOK', UnaRL, NEW k, NEW y \in Registro, NEW N, Puesto(k, y, N),
         tabla[k].etapa = "RL", y.nodo = tabla[k].nodo, \A x \in N : x.etapa # "RL",
         NEW r, r = [nodo |-> tabla[k].nodo, estado |-> tabla[k].estado]
  PROVE  /\ r \in ReduccionesDe(tabla)
         /\ ReduccionesDe(tabla') = (ReduccionesDe(tabla) \ {r})
                                      \cup {[nodo |-> y.nodo, estado |-> y.estado]}
<1>1. PICK t, u, s : t = tabla /\ u = tabla' /\ s = [nodo |-> y.nodo, estado |-> y.estado]
  OBVIOUS
<1>2. t \in Seq(Registro) /\ u \in Seq(Registro)
  BY <1>1 DEF TypeOK
<1>3. /\ k \in DOMAIN t /\ k \in DOMAIN u /\ u[k] = y /\ y.etapa = "RL" /\ t[k].etapa = "RL"
      /\ \A j \in DOMAIN t : j \in DOMAIN u /\ (j # k => u[j] = t[j])
      /\ \A j \in DOMAIN u \ DOMAIN t : u[j].etapa # "RL"
  BY <1>1 DEF Puesto
<1>4. r \in ReduccionesDe(t) /\ s \in ReduccionesDe(u)
  BY <1>1, <1>2, <1>3, EsReduccion
<1>5. ASSUME NEW j \in DOMAIN t, t[j].etapa = "RL", j # k
      PROVE  [nodo |-> t[j].nodo, estado |-> t[j].estado] # r
  <2>1. t[j].nodo # t[k].nodo
    BY <1>1, <1>3, <1>5 DEF UnaRL
  <2>2. QED
    BY <1>1, <2>1
<1>6. ASSUME NEW x \in ReduccionesDe(t), x # r PROVE x \in ReduccionesDe(u)
  <2>1. PICK j \in DOMAIN t : t[j].etapa = "RL" /\ x = [nodo |-> t[j].nodo, estado |-> t[j].estado]
    BY <1>2, EsReduccion
  <2>2. j # k
    BY <1>1, <1>6, <2>1
  <2>3. j \in DOMAIN u /\ u[j] = t[j]
    BY <1>3, <2>1, <2>2
  <2>4. QED
    BY <1>2, <2>1, <2>3, EsReduccion
<1>7. ASSUME NEW x \in ReduccionesDe(u), x # s PROVE x \in ReduccionesDe(t) /\ x # r
  <2>1. PICK j \in DOMAIN u : u[j].etapa = "RL" /\ x = [nodo |-> u[j].nodo, estado |-> u[j].estado]
    BY <1>2, EsReduccion
  <2>2. j # k /\ j \in DOMAIN t
    BY <1>1, <1>3, <1>7, <2>1
  <2>3. u[j] = t[j]
    BY <1>3, <2>2
  <2>4. QED
    BY <1>2, <1>5, <2>1, <2>2, <2>3, EsReduccion
<1>8. ReduccionesDe(u) = (ReduccionesDe(t) \ {r}) \cup {s}
  BY <1>4, <1>6, <1>7
<1>9. QED
  BY <1>1, <1>4, <1>8

(* What the handlers ask of a group of records, they ask of the job.         *)
LEMMA GrupoDeBloques ==
  ASSUME TypeOK, Planificada, DelJob, NEW b \in Bloques, b + 1 \in DOMAIN tabla,
         NEW n, tabla[b + 1].nodo = n, NEW u, u[b + 1].estado = "FINALIZADOOK",
         \A j \in DOMAIN tabla \ {b + 1} : u[j] = tabla[j]
  PROVE  TodasOk(u, DelNodo(n, 1))
           <=> \A d \in Bloques \ {b} : tabla[d + 1].nodo = n => tabla[d + 1].estado = "FINALIZADOOK"
<1>1. NBloques \in Nat \ {0} /\ tabla # <<>>
  <2>1. tabla \in Seq(Registro)
    BY DEF TypeOK
  <2>2. QED
    BY <2>1, Parametros
<1>2. /\ \A d \in Bloques : d \in Nat /\ d + 1 \in DOMAIN tabla /\ tabla[d + 1].etapa = "T"
      /\ \A j \in DOMAIN tabla : tabla[j].etapa = "T" => j - 1 \in Bloques /\ (j - 1) + 1 = j
  BY <1>1, YaPlanificada DEF Bloques
<1>3. ASSUME TodasOk(u, DelNodo(n, 1)), NEW d \in Bloques \ {b}, tabla[d + 1].nodo = n
      PROVE  tabla[d + 1].estado = "FINALIZADOOK"
  <2>1. d + 1 \in DelNodo(n, 1)
    BY <1>2, <1>3 DEF DelNodo, DelJob
  <2>2. d + 1 # b + 1
    BY <1>2, <1>3
  <2>3. QED
    BY <1>2, <1>3, <2>1, <2>2 DEF TodasOk
<1>4. ASSUME \A d \in Bloques \ {b} : tabla[d + 1].nodo = n => tabla[d + 1].estado = "FINALIZADOOK",
             NEW j \in DelNodo(n, 1)
      PROVE  u[j].estado = "FINALIZADOOK"
  <2>1. j \in DOMAIN tabla /\ tabla[j].nodo = n /\ tabla[j].etapa = "T"
    BY DEF DelNodo
  <2>2. CASE j = b + 1
    BY <2>2
  <2>3. CASE j # b + 1
    <3>1. PICK d \in Bloques : d + 1 = j /\ d # b
      BY <1>2, <2>1, <2>3
    <3>2. QED
      BY <1>4, <2>1, <2>3, <3>1
  <2>4. QED
    BY <2>2, <2>3
<1>5. QED
  BY <1>3, <1>4 DEF TodasOk

LEMMA GrupoDeReducciones ==
  ASSUME TypeOK, UnaRL, DelJob, NEW k \in DOMAIN tabla, tabla[k].etapa = "RL",
         NEW u, u[k].estado = "FINALIZADOOK", \A j \in DOMAIN tabla \ {k} : u[j] = tabla[j],
         NEW r, r = [nodo |-> tabla[k].nodo, estado |-> tabla[k].estado]
  PROVE  TodasOk(u, RLDelJob(1)) <=> \A x \in ReduccionesDe(tabla) \ {r} : x.estado = "FINALIZADOOK"
<1>1. PICK t \in Seq(Registro) : t = tabla
  BY DEF TypeOK
<1>2. ASSUME TodasOk(u, RLDelJob(1)), NEW x \in ReduccionesDe(t) \ {r} PROVE x.estado = "FINALIZADOOK"
  <2>1. PICK j \in DOMAIN t : t[j].etapa = "RL" /\ x = [nodo |-> t[j].nodo, estado |-> t[j].estado]
    BY <1>2, EsReduccion
  <2>2. j # k /\ x.estado = t[j].estado
    BY <1>1, <1>2, <2>1
  <2>3. j \in RLDelJob(1)
    BY <1>1, <2>1 DEF RLDelJob, DelJob
  <2>4. QED
    BY <1>1, <1>2, <2>1, <2>2, <2>3 DEF TodasOk
<1>3. ASSUME \A x \in ReduccionesDe(t) \ {r} : x.estado = "FINALIZADOOK", NEW j \in RLDelJob(1), j # k
      PROVE  u[j].estado = "FINALIZADOOK"
  <2>1. j \in DOMAIN t /\ t[j].etapa = "RL" /\ u[j] = t[j]
    BY <1>1, <1>3 DEF RLDelJob
  <2>2. PICK x : x = [nodo |-> t[j].nodo, estado |-> t[j].estado]
    OBVIOUS
  <2>3. x.estado = t[j].estado /\ x.nodo = t[j].nodo
    BY <2>2
  <2>4. x # r
    BY <1>1, <1>3, <2>1, <2>3 DEF UnaRL
  <2>5. x \in ReduccionesDe(t)
    BY <2>1, <2>2, EsReduccion
  <2>6. QED
    BY <1>3, <2>1, <2>3, <2>4, <2>5
<1>4. QED
  BY <1>1, <1>2, <1>3 DEF TodasOk

-----------------------------------------------------------------------------
(* The handlers, as steps of the job.                                        *)
PasoTrabajo == DelJob' /\ (Job!Next \/ UNCHANGED Job!vars)

LEMMA TrabajoQuieto ==
  ASSUME DelJob, tabla' = tabla PROVE PasoTrabajo
<1>1. DelJob'
  BY DEF DelJob, EnCopia
<1>2. UNCHANGED Job!vars
  BY DEF Job!vars
<1>3. QED
  BY <1>1, <1>2 DEF PasoTrabajo

(* The end of a transformation: what its record, the one of its block, tells. *)
LEMMA TrabajoDelFinT ==
  ASSUME TypeOK, Planificada, Debidas, DelJob, NEW m \in Masters, RecibeFin(m, "T"),
         NEW t, t = Head(aYama[m]).tarea, NEW S, S = EnProceso(t.bloque, t.job), S # {},
         NEW b, b = t.bloque
  PROVE  /\ b \in Bloques /\ Primera(S) = b + 1 /\ b + 1 \in DOMAIN tabla /\ (b + 1) - 1 = b
         /\ tabla[b + 1].etapa = "T" /\ tabla[b + 1].bloque = b
         /\ tabla[b + 1].estado = "ENPROCESO" /\ tabla[b + 1].nodo = t.nodo
         /\ t.job = 1 /\ DOMAIN BloquesDe(tabla) = Bloques
         /\ \A d \in Bloques : BloquesDe(tabla)[d] = [nodo |-> tabla[d + 1].nodo,
                                                      estado |-> tabla[d + 1].estado]
         /\ Job!Corre(b)
<1>1. /\ t \in TareaT /\ b \in Bloques /\ Debida(tabla, t) /\ tabla # <<>>
      /\ b + 1 \in 1..NBloques /\ b + 1 \in DOMAIN tabla /\ Primera(S) = b + 1
  BY SuRegistro
<1>2. b \in Nat /\ NBloques \in Nat
  BY <1>1, Parametros DEF Bloques
<1>3. /\ (b + 1) - 1 = b /\ tabla[b + 1].etapa = "T" /\ tabla[b + 1].bloque = b
      /\ tabla[b + 1].job = 1
  <2>1. PICK k : k = b + 1 /\ k - 1 = b /\ k <= NBloques
    BY <1>1, <1>2
  <2>2. tabla[k].etapa = "T" /\ tabla[k].bloque = k - 1 /\ tabla[k].job = 1
    BY <1>1, <2>1, YaPlanificada
  <2>3. QED
    BY <2>1, <2>2
<1>4. /\ tabla[b + 1].estado = "ENPROCESO" /\ tabla[b + 1].nodo = t.nodo
      /\ tabla[b + 1].job = t.job
      /\ \A k \in DOMAIN tabla : tabla[k].etapa = "RL" => tabla[k].nodo # t.nodo
  BY <1>1 DEF Debida
<1>5. BloquesDe(tabla) = [d \in Bloques |-> [nodo |-> tabla[d + 1].nodo, estado |-> tabla[d + 1].estado]]
  BY <1>1 DEF BloquesDe
<1>6. \A r \in ReduccionesDe(tabla) : r.nodo # t.nodo
  <2>1. tabla \in Seq(Registro)
    BY DEF TypeOK
  <2>2. QED
    BY <1>4, <2>1, EsReduccion
<1>7. Job!Corre(b)
  BY <1>1, <1>4, <1>5, <1>6 DEF Job!Corre
<1>8. QED
  BY <1>1, <1>3, <1>4, <1>5, <1>7

LEMMA TrabajoTOk ==
  ASSUME TypeOK, TypeOK', Planificada, Debidas, DelJob, NEW m \in Masters, FinTransformacionOk(m)
  PROVE  PasoTrabajo
<1>1. RecibeFin(m, "T")
  BY DEF FinTransformacionOk
<1>2. PICK t : t = Head(aYama[m]).tarea
  OBVIOUS
<1>3. PICK S, b : S = EnProceso(t.bloque, t.job) /\ b = t.bloque
  OBVIOUS
<1>4. PICK k : k = Primera(S)
  OBVIOUS
<1> DEFINE n == t.nodo
           hecha == Marcada(k, "FINALIZADOOK")
           Ultimo == \A d \in Bloques \ {b} : tabla[d + 1].nodo = n => tabla[d + 1].estado = "FINALIZADOOK"
<1>5. CASE UNCHANGED <<tabla, bandeja, tareas>>
  BY <1>5, TrabajoQuieto
<1>6. ASSUME k \in S
      PROVE  /\ b \in Bloques /\ k = b + 1 /\ k \in DOMAIN tabla /\ (b + 1) - 1 = b
             /\ tabla[k].etapa = "T" /\ tabla[k].bloque = b
             /\ tabla[k].estado = "ENPROCESO" /\ tabla[k].nodo = n
             /\ t.job = 1 /\ DOMAIN BloquesDe(tabla) = Bloques
             /\ \A d \in Bloques : BloquesDe(tabla)[d] = [nodo |-> tabla[d + 1].nodo,
                                                          estado |-> tabla[d + 1].estado]
             /\ Job!Corre(b)
             /\ TodasOk(hecha, DelNodo(t.nodo, t.job)) <=> Ultimo
  <2>1. S # {}
    BY <1>6
  <2>2. /\ b \in Bloques /\ k = b + 1 /\ k \in DOMAIN tabla /\ (b + 1) - 1 = b
        /\ tabla[k].etapa = "T" /\ tabla[k].bloque = b
        /\ tabla[k].estado = "ENPROCESO" /\ tabla[k].nodo = n
        /\ t.job = 1 /\ DOMAIN BloquesDe(tabla) = Bloques
        /\ \A d \in Bloques : BloquesDe(tabla)[d] = [nodo |-> tabla[d + 1].nodo,
                                                     estado |-> tabla[d + 1].estado]
        /\ Job!Corre(b)
    BY <1>1, <1>2, <1>3, <1>4, <2>1, TrabajoDelFinT
  <2>3. PICK u : u = hecha
    OBVIOUS
  <2>4. u[b + 1].estado = "FINALIZADOOK" /\ \A j \in DOMAIN tabla \ {b + 1} : u[j] = tabla[j]
    <3>1. /\ hecha[k] = [tabla[k] EXCEPT !.estado = "FINALIZADOOK"] /\ tabla[k] \in Registro
          /\ \A j \in DOMAIN tabla \ {k} : hecha[j] = tabla[j]
      <4>1. "FINALIZADOOK" \in {"ENPROCESO", "ERROR", "FINALIZADOOK"} /\ k \in DOMAIN tabla
        BY <2>2
      <4>2. tabla[k] \in Registro
        BY <2>2 DEF TypeOK
      <4>3. QED
        BY <4>1, <4>2, Marcado
    <3>2. PICK r \in Registro : r = tabla[k]
      BY <3>1
    <3>3. u[k] = [r EXCEPT !.estado = "FINALIZADOOK"]
      BY <2>3, <3>1, <3>2
    <3>4. u[k].estado = "FINALIZADOOK"
      BY <3>2, <3>3 DEF Registro
    <3>5. QED
      BY <2>2, <2>3, <3>1, <3>4
  <2>5. TodasOk(u, DelNodo(n, 1)) <=> Ultimo
    BY <2>2, <2>4, GrupoDeBloques
  <2>6. QED
    BY <2>2, <2>3, <2>5
<1>7. ASSUME k \in S, NEW N, Marcadas(k, "FINALIZADOOK", N),
             \/ N = {} /\ ~Ultimo
             \/ /\ Ultimo
                /\ \E x : /\ N = {x} /\ x.etapa = "RL" /\ x.nodo = n /\ x.estado = "ENPROCESO"
                          /\ x.job = 1
                /\ \E l \in DOMAIN tabla' : l \notin DOMAIN tabla
      PROVE  PasoTrabajo
  <2>1. PICK y \in Registro : /\ Puesto(k, y, N) /\ y.estado = "FINALIZADOOK"
                              /\ y.nodo = tabla[k].nodo /\ y.otra = tabla[k].otra
    BY <1>7, PuestoDeMarcadas
  <2>2. \A x \in N : x.etapa = "RL" /\ x.job = 1
    BY <1>7
  <2>3. DelJob'
    <3>1. \A x \in N : x.etapa # "T" /\ x.job = 1
      BY <2>2
    <3>2. QED
      BY <2>1, <3>1, DelJobQueda
  <2>4. BloquesDe(tabla') = [BloquesDe(tabla) EXCEPT ![b] = [nodo |-> n, estado |-> "FINALIZADOOK"]]
    <3>1. k - 1 = b /\ tabla[k].etapa = "T" /\ y.nodo = n
      BY <1>6, <1>7, <2>1
    <3>2. PICK z : z = [nodo |-> y.nodo, estado |-> y.estado]
      OBVIOUS
    <3>3. BloquesDe(tabla') = [BloquesDe(tabla) EXCEPT ![b] = z]
      BY <1>6, <1>7, <2>1, <3>1, <3>2, BloqueCambia
    <3>4. z = [nodo |-> n, estado |-> "FINALIZADOOK"]
      BY <2>1, <3>1, <3>2
    <3>5. QED
      BY <3>1, <3>3, <3>4
  <2>5. ReduccionesDe(tabla') = IF Ultimo
                                THEN ReduccionesDe(tabla) \cup {[nodo |-> n, estado |-> "ENPROCESO"]}
                                ELSE ReduccionesDe(tabla)
    <3>1. tabla[k].etapa # "RL"
      BY <1>6, <1>7
    <3>2. CASE ~Ultimo
      <4>1. \A x \in N : x.etapa # "RL"
        BY <1>7, <3>2
      <4>2. QED
        BY <2>1, <3>1, <3>2, <4>1, ReduccionesQuedan
    <3>3. CASE Ultimo
      <4>1. PICK x : N = {x} /\ x.etapa = "RL" /\ x.nodo = n /\ x.estado = "ENPROCESO"
        BY <1>7, <3>3
      <4>2. \E l \in DOMAIN tabla' : l \notin DOMAIN tabla
        BY <1>7, <3>3
      <4>3. ReduccionesDe(tabla') = ReduccionesDe(tabla) \cup {[nodo |-> x.nodo, estado |-> x.estado]}
        BY <2>1, <3>1, <4>1, <4>2, ReduccionesQuedan
      <4>4. QED
        BY <3>3, <4>1, <4>3
    <3>4. QED
      BY <3>2, <3>3
  <2>6. Cuantos(tabla', "RG") = Cuantos(tabla, "RG") /\ Cuantos(tabla', "AF") = Cuantos(tabla, "AF")
    <3>1. \A x \in N : x.etapa # "RG" /\ x.etapa # "AF"
      BY <2>2
    <3>2. QED
      BY <2>1, <3>1, CuantosQuedan
  <2>7. Ultimo <=> \A d \in DOMAIN BloquesDe(tabla) \ {b} :
                     BloquesDe(tabla)[d].nodo = BloquesDe(tabla)[b].nodo
                       => BloquesDe(tabla)[d].estado = "FINALIZADOOK"
    BY <1>6, <1>7
  <2>8. BloquesDe(tabla)[b].nodo = n
    BY <1>6, <1>7
  <2> HIDE DEF Ultimo
  <2>9. Job!TerminarBloque(b)
    BY <1>6, <1>7, <2>4, <2>5, <2>6, <2>7, <2>8 DEF Job!TerminarBloque, Job!En
  <2>10. QED
    BY <1>6, <1>7, <2>3, <2>9 DEF PasoTrabajo, Job!Next
<1>8. CASE /\ k \in S /\ ~TodasOk(hecha, DelNodo(t.nodo, t.job)) /\ Marca(k, "FINALIZADOOK")
  <2>1. Marcadas(k, "FINALIZADOOK", {})
    BY <1>6, <1>8, MarcadasDeMarca
  <2>2. QED
    BY <1>6, <1>7, <1>8, <2>1
<1>9. CASE /\ k \in S /\ TodasOk(hecha, DelNodo(t.nodo, t.job))
           /\ \E x \in Registro :
                /\ tabla' = Append(hecha, x) /\ x.etapa = "RL" /\ x.nodo = tabla[k].nodo
                /\ x.estado = "ENPROCESO" /\ x.job = tabla[k].job
  <2>1. PICK x \in Registro :
                /\ tabla' = Append(hecha, x) /\ x.etapa = "RL" /\ x.nodo = tabla[k].nodo
                /\ x.estado = "ENPROCESO" /\ x.job = tabla[k].job
    BY <1>9
  <2>2. Marcadas(k, "FINALIZADOOK", {x}) /\ \E l \in DOMAIN tabla' : l \notin DOMAIN tabla
    BY <1>6, <1>9, <2>1, MarcadasDeAgregar
  <2>3. x.job = 1 /\ x.nodo = n
    BY <1>6, <1>9, <2>1 DEF DelJob
  <2>4. QED
    BY <1>6, <1>7, <1>9, <2>1, <2>2, <2>3
<1> HIDE DEF n, hecha, Ultimo
<1>10. QED
  BY <1>2, <1>3, <1>4, <1>5, <1>8, <1>9, EfectoTOkExacto DEF hecha

LEMMA TrabajoTMal ==
  ASSUME TypeOK, TypeOK', Planificada, Debidas, DelJob, NEW m \in Masters, FinTransformacionMal(m)
  PROVE  PasoTrabajo
<1>1. RecibeFin(m, "T")
  BY DEF FinTransformacionMal
<1>2. PICK t : t = Head(aYama[m]).tarea
  OBVIOUS
<1>3. PICK S, b : S = EnProceso(t.bloque, t.job) /\ b = t.bloque
  OBVIOUS
<1>4. PICK k : k = Primera(S)
  OBVIOUS
<1>5. CASE UNCHANGED <<tabla, bandeja, tareas>>
  BY <1>5, TrabajoQuieto
<1>6. ASSUME k \in S
      PROVE  /\ b \in Bloques /\ k = b + 1 /\ k \in DOMAIN tabla /\ k - 1 = b
             /\ tabla[k].etapa = "T" /\ tabla[k].bloque = b
             /\ tabla[k].estado = "ENPROCESO"
             /\ DOMAIN BloquesDe(tabla) = Bloques
             /\ BloquesDe(tabla)[b] = [nodo |-> tabla[k].nodo, estado |-> tabla[k].estado]
             /\ Job!Corre(b)
  <2>1. S # {}
    BY <1>6
  <2>2. QED
    BY <1>1, <1>2, <1>3, <1>4, <2>1, TrabajoDelFinT
<1>7. ASSUME k \in S, NEW y \in Registro, NEW z, Puesto(k, y, {}),
             z = [nodo |-> y.nodo, estado |-> y.estado],
             \/ /\ tabla[k].otra \in Registrados /\ y.estado = "ENPROCESO"
                /\ y.nodo = tabla[k].otra /\ y.otra = tabla[k].nodo
             \/ /\ tabla[k].otra \notin Registrados /\ y.estado = "ERROR"
                /\ y.nodo = tabla[k].nodo /\ y.otra = tabla[k].otra
      PROVE  PasoTrabajo
  <2>1. DelJob'
    BY <1>7, DelJobQueda
  <2>2. BloquesDe(tabla') = [BloquesDe(tabla) EXCEPT ![b] = z]
    BY <1>6, <1>7, BloqueCambia
  <2>3. ReduccionesDe(tabla') = ReduccionesDe(tabla)
    <3>1. tabla[k].etapa # "RL"
      BY <1>6, <1>7
    <3>2. QED
      BY <1>7, <3>1, ReduccionesQuedan
  <2>4. Cuantos(tabla', "RG") = Cuantos(tabla, "RG") /\ Cuantos(tabla', "AF") = Cuantos(tabla, "AF")
    BY <1>7, CuantosQuedan
  <2>5. PICK c \in 1..2 : /\ tabla[k].nodo = Archivo[Unico][b][c]
                          /\ tabla[k].otra = Archivo[Unico][b][3 - c]
    BY <1>6, <1>7 DEF DelJob, EnCopia
  <2>6. BloquesDe(tabla)[b].nodo = tabla[k].nodo
    BY <1>6, <1>7
  <2>7. z = IF Archivo[Unico][b][3 - c] \in Registrados
            THEN [nodo |-> Archivo[Unico][b][3 - c], estado |-> "ENPROCESO"]
            ELSE [nodo |-> tabla[k].nodo, estado |-> "ERROR"]
    BY <1>7, <2>5
  <2>8. Job!FallarBloque(b)
    BY <1>6, <1>7, <2>2, <2>3, <2>4, <2>5, <2>6, <2>7 DEF Job!FallarBloque, Job!En
  <2>9. QED
    BY <1>6, <1>7, <2>1, <2>8 DEF PasoTrabajo, Job!Next
<1>8. CASE k \in S /\ tabla[k].otra \notin Registrados /\ Marca(k, "ERROR")
  <2>1. Marcadas(k, "ERROR", {})
    BY <1>6, <1>8, MarcadasDeMarca
  <2>2. PICK y \in Registro : /\ Puesto(k, y, {}) /\ y.estado = "ERROR"
                              /\ y.nodo = tabla[k].nodo /\ y.otra = tabla[k].otra
    BY <2>1, PuestoDeMarcadas
  <2>3. QED
    BY <1>7, <1>8, <2>2
<1>9. CASE /\ k \in S /\ tabla[k].otra \in Registrados
           /\ tabla' = [tabla EXCEPT ![k].etapa = "T", ![k].nodo = tabla[k].otra, ![k].otra = tabla[k].nodo]
  <2>1. PICK y \in Registro : /\ Puesto(k, y, {}) /\ y.estado = tabla[k].estado
                              /\ y.nodo = tabla[k].otra /\ y.otra = tabla[k].nodo
    BY <1>6, <1>9, PuestoDeReplan
  <2>2. QED
    BY <1>6, <1>7, <1>9, <2>1
<1>10. QED
  <2>1. EnProceso(Head(aYama[m]).tarea.bloque, Head(aYama[m]).tarea.job) = S
    BY <1>2, <1>3
  <2>2. QED
    BY <1>4, <1>5, <1>8, <1>9, <2>1, EfectoTMal

LEMMA TrabajoRLOk ==
  ASSUME TypeOK, TypeOK', Planificada, UnaRL, RLConRegistro, DelJob, NEW m \in Masters,
         FinReduccionLocalOk(m)
  PROVE  PasoTrabajo
<1>1. RecibeFin(m, "RL")
  BY DEF FinReduccionLocalOk
<1>2. CASE UNCHANGED <<tabla, bandeja, tareas>>
  BY <1>2, TrabajoQuieto
<1>3. ASSUME NEW k \in DOMAIN tabla, tabla[k].etapa = "RL",
             tabla[k].nodo = Head(aYama[m]).tarea.nodo,
             NEW N, Marcadas(k, "FINALIZADOOK", N), \A x \in N : x.etapa = "RG" /\ x.job = 1,
             NEW Todas \in BOOLEAN, Todas <=> TodasOk(Marcada(k, "FINALIZADOOK"), RLDelJob(1)),
             Cuantos(tabla', "RG") = IF Todas THEN Cuantos(tabla, "RG") + 1 ELSE Cuantos(tabla, "RG")
      PROVE  PasoTrabajo
  <2>1. tabla[k].estado = "ENPROCESO"
    BY <1>1, <1>3, RLEnProceso
  <2>2. PICK y \in Registro : /\ Puesto(k, y, N) /\ y.estado = "FINALIZADOOK"
                              /\ y.nodo = tabla[k].nodo /\ y.otra = tabla[k].otra
    BY <1>3, PuestoDeMarcadas
  <2>3. \A x \in N : x.etapa # "T" /\ x.etapa # "RL" /\ x.etapa # "AF" /\ x.job = 1
    BY <1>3
  <2>4. DelJob'
    BY <2>2, <2>3, DelJobQueda
  <2>5. BloquesDe(tabla') = BloquesDe(tabla)
    BY <1>3, <2>2, BloquesQuedan
  <2>6. PICK r, s : /\ r = [nodo |-> tabla[k].nodo, estado |-> tabla[k].estado]
                    /\ s = [nodo |-> y.nodo, estado |-> y.estado]
    OBVIOUS
  <2>7. r \in ReduccionesDe(tabla) /\ ReduccionesDe(tabla') = (ReduccionesDe(tabla) \ {r}) \cup {s}
    BY <1>3, <2>2, <2>3, <2>6, ReduccionPasa
  <2>8. r.estado = "ENPROCESO" /\ s = [nodo |-> r.nodo, estado |-> "FINALIZADOOK"]
    BY <2>1, <2>2, <2>6
  <2>9. Todas <=> \A x \in ReduccionesDe(tabla) \ {r} : x.estado = "FINALIZADOOK"
    <3>1. PICK u : u = Marcada(k, "FINALIZADOOK")
      OBVIOUS
    <3>2. u[k].estado = "FINALIZADOOK" /\ \A j \in DOMAIN tabla \ {k} : u[j] = tabla[j]
      <4>1. "FINALIZADOOK" \in {"ENPROCESO", "ERROR", "FINALIZADOOK"}
        OBVIOUS
      <4>2. /\ u[k] = [tabla[k] EXCEPT !.estado = "FINALIZADOOK"]
            /\ \A j \in DOMAIN tabla \ {k} : u[j] = tabla[j]
        BY <1>3, <3>1, <4>1, Marcado
      <4>3. PICK q \in Registro : q = tabla[k]
        BY <1>3 DEF TypeOK
      <4>4. u[k].estado = "FINALIZADOOK"
        BY <4>2, <4>3 DEF Registro
      <4>5. QED
        BY <4>2, <4>4
    <3>3. TodasOk(u, RLDelJob(1)) <=> \A x \in ReduccionesDe(tabla) \ {r} : x.estado = "FINALIZADOOK"
      BY <1>3, <2>6, <3>2, GrupoDeReducciones
    <3>4. QED
      BY <1>3, <3>1, <3>3
  <2>10. Cuantos(tabla', "AF") = Cuantos(tabla, "AF")
    BY <2>2, <2>3, CuantosQuedan
  <2>11. Job!TerminarReduccion(r)
    BY <1>3, <2>5, <2>7, <2>8, <2>9, <2>10 DEF Job!TerminarReduccion, Job!Pasa, Job!En
  <2>12. QED
    BY <2>4, <2>7, <2>11 DEF PasoTrabajo, Job!Next
<1>4. ASSUME NEW k \in DOMAIN tabla, tabla[k].etapa = "RL",
             tabla[k].nodo = Head(aYama[m]).tarea.nodo,
             ~TodasOk(Marcada(k, "FINALIZADOOK"), RLDelJob(tabla[k].job)), Marca(k, "FINALIZADOOK")
      PROVE  PasoTrabajo
  <2>1. Marcadas(k, "FINALIZADOOK", {})
    BY <1>4, MarcadasDeMarca
  <2>2. ~TodasOk(Marcada(k, "FINALIZADOOK"), RLDelJob(1))
    BY <1>4 DEF DelJob
  <2>3. Cuantos(tabla', "RG") = Cuantos(tabla, "RG")
    <3>1. PICK y \in Registro : Puesto(k, y, {})
      BY <2>1, PuestoDeMarcadas
    <3>2. QED
      BY <3>1, CuantosQuedan
  <2>4. PICK Todas \in BOOLEAN : ~Todas
    BY FALSE \in BOOLEAN
  <2>5. QED
    BY <1>3, <1>4, <2>1, <2>2, <2>3, <2>4
<1>5. ASSUME NEW k \in DOMAIN tabla, tabla[k].etapa = "RL",
             tabla[k].nodo = Head(aYama[m]).tarea.nodo,
             TodasOk(Marcada(k, "FINALIZADOOK"), RLDelJob(tabla[k].job)), MarcaYAgrega(k, "RG", "RG")
      PROVE  PasoTrabajo
  <2>1. tabla[k].job = 1
    BY <1>5 DEF DelJob
  <2>2. PICK x \in Registro : /\ tabla' = Append(Marcada(k, "FINALIZADOOK"), x)
                              /\ x.etapa = "RG" /\ x.job = 1
    BY <1>5, <2>1 DEF MarcaYAgrega
  <2>3. Marcadas(k, "FINALIZADOOK", {x}) /\ \A z \in {x} : z.etapa = "RG" /\ z.job = 1
    BY <1>5, <2>2, MarcadasDeAgregar
  <2>4. TodasOk(Marcada(k, "FINALIZADOOK"), RLDelJob(1))
    BY <1>5, <2>1
  <2>5. Cuantos(tabla', "RG") = Cuantos(tabla, "RG") + 1
    BY <1>5, PosMarcaYAgrega DEF Cuantos
  <2>6. PICK Todas \in BOOLEAN : Todas
    BY TRUE \in BOOLEAN
  <2>7. PICK N : N = {x}
    OBVIOUS
  <2>8. Marcadas(k, "FINALIZADOOK", N) /\ \A z \in N : z.etapa = "RG" /\ z.job = 1
    BY <2>3, <2>7
  <2>9. Todas <=> TodasOk(Marcada(k, "FINALIZADOOK"), RLDelJob(1))
    BY <2>4, <2>6
  <2>10. Cuantos(tabla', "RG") = IF Todas THEN Cuantos(tabla, "RG") + 1 ELSE Cuantos(tabla, "RG")
    BY <2>5, <2>6
  <2>11. QED
    BY <1>3, <1>5, <2>8, <2>9, <2>10
<1>6. QED
  BY <1>2, <1>4, <1>5, EfectoRLOkExacto

(* The end of a global reduction: one more was asked for than was stored.    *)
LEMMA PorAlmacenar ==
  ASSUME TypeOK, FinRGConRegistro, NEW m \in Masters, RecibeFin(m, "RG")
  PROVE  /\ Cuantos(tabla, "AF") \in Nat /\ Cuantos(tabla, "RG") \in Nat
         /\ Cuantos(tabla, "AF") < Cuantos(tabla, "RG")
<1>1. PICK a, t : a = Head(aYama[m]) /\ t = a.tarea
  OBVIOUS
<1>2. a \in Aviso /\ a.tipo = "FIN" /\ t \in Tarea /\ t.etapa = "RG"
  BY <1>1, Recibida, FinRecibido DEF RecibeFin
<1>3. a \in Noticias(TareasRG)
  <2>1. t \in TareasRG
    BY <1>2 DEF Tarea, TareaT, TareasRG
  <2>2. QED
    BY <1>1, <1>2, <2>1 DEF Aviso, Noticias
<1>4. PICK M : M = Mensajes(aYama, Noticias(TareasRG))
  OBVIOUS
<1>5. <<m, 1>> \in M
  <2>1. aYama[m] \in Seq(Aviso) /\ aYama[m] # <<>>
    BY DEF TypeOK, RecibeFin, Recibe
  <2>2. a = aYama[m][1] /\ 1 \in DOMAIN aYama[m]
    BY <1>1, <2>1, ColaDe
  <2>3. QED
    BY <1>3, <1>4, <2>2, EnMensajes
<1>6. IsFiniteSet(M) /\ Cardinality(M) \in Nat
  BY <1>4, MensajesFinitos DEF TypeOK
<1>7. Cardinality(M) # 0
  BY <1>5, <1>6, FS_EmptySet
<1>8. PICK p, c, f, g :
        /\ p = Cardinality(Mensajes(bandeja, PedidosRG)) /\ c = Cardinality(Corriendo(hilos, TareasRG))
        /\ f = Cuantos(tabla, "AF") /\ g = Cuantos(tabla, "RG")
  OBVIOUS
<1>9. p \in Nat /\ c \in Nat
  BY <1>8, TareasFinitas, CuentasNaturales DEF TypeOK
<1>10. f \in Nat /\ g \in Nat
  BY <1>8, FormaRG DEF Cuantos
<1>11. f + p + (Cardinality(M) + c) <= g
  BY <1>4, <1>8 DEF FinRGConRegistro, Pendientes, Cuantos
<1>12. f < g
  BY <1>6, <1>7, <1>9, <1>10, <1>11
<1>13. QED
  BY <1>8, <1>10, <1>12

LEMMA TrabajoRGOk ==
  ASSUME TypeOK, TypeOK', Planificada, FinRGConRegistro, DelJob, NEW m \in Masters,
         FinReduccionGlobalOk(m)
  PROVE  PasoTrabajo
<1>1. Cuantos(tabla, "AF") < Cuantos(tabla, "RG")
  BY PorAlmacenar DEF FinReduccionGlobalOk
<1>2. CASE UNCHANGED <<tabla, bandeja, tareas>>
  BY <1>2, TrabajoQuieto
<1>3. ASSUME NEW k \in DOMAIN tabla, tabla[k].etapa = "RG", MarcaYAgrega(k, "AF", "AF")
      PROVE  PasoTrabajo
  <2>1. PICK x \in Registro : /\ tabla' = Append(Marcada(k, "FINALIZADOOK"), x)
                              /\ x.etapa = "AF" /\ x.job = 1
    BY <1>3 DEF MarcaYAgrega, DelJob
  <2>2. PICK N : N = {x}
    OBVIOUS
  <2>3. /\ Marcadas(k, "FINALIZADOOK", N)
        /\ \A z \in N : /\ z.etapa # "T" /\ z.etapa # "RL" /\ z.etapa # "RG"
                        /\ z.job = 1
    BY <1>3, <2>1, <2>2, MarcadasDeAgregar
  <2>4. PICK y \in Registro : /\ Puesto(k, y, N)
                              /\ y.nodo = tabla[k].nodo /\ y.otra = tabla[k].otra
    BY <2>3, PuestoDeMarcadas
  <2>5. tabla[k].etapa # "T" /\ tabla[k].etapa # "RL"
    BY <1>3
  <2>6. DelJob'
    BY <2>3, <2>4, DelJobQueda
  <2>7. BloquesDe(tabla') = BloquesDe(tabla)
    BY <2>4, <2>5, BloquesQuedan
  <2>8. ReduccionesDe(tabla') = ReduccionesDe(tabla)
    BY <2>3, <2>4, <2>5, ReduccionesQuedan
  <2>9. Cuantos(tabla', "RG") = Cuantos(tabla, "RG")
    BY <2>3, <2>4, CuantosQuedan
  <2>10. Cuantos(tabla', "AF") = Cuantos(tabla, "AF") + 1
    BY <1>3, PosMarcaYAgrega DEF Cuantos
  <2>11. Job!Almacenar
    BY <1>1, <2>7, <2>8, <2>9, <2>10 DEF Job!Almacenar
  <2>12. QED
    BY <2>6, <2>11 DEF PasoTrabajo, Job!Next
<1>4. QED
  BY <1>2, <1>3, EfectoRGOk

LEMMA TrabajoAbortar ==
  ASSUME TypeOK, TypeOK', Planificada, UnaRL, RLConRegistro, DelJob, NEW m \in Masters,
         FinReduccionLocalMal(m) \/ FinReduccionGlobalMal(m)
  PROVE  PasoTrabajo
<1>1. CASE UNCHANGED <<tabla, bandeja, tareas>>
  BY <1>1, TrabajoQuieto
<1>2. ASSUME NEW k \in DOMAIN tabla, tabla[k].etapa \in {"RL", "RG"}, Marca(k, "ERROR"),
             tabla[k].etapa = "RL" => RecibeFin(m, "RL") /\ tabla[k].nodo = Head(aYama[m]).tarea.nodo
      PROVE  PasoTrabajo
  <2>1. Marcadas(k, "ERROR", {})
    BY <1>2, MarcadasDeMarca
  <2>2. PICK y \in Registro : /\ Puesto(k, y, {}) /\ y.estado = "ERROR"
                              /\ y.nodo = tabla[k].nodo /\ y.otra = tabla[k].otra
    BY <2>1, PuestoDeMarcadas
  <2>3. DelJob'
    BY <2>2, DelJobQueda
  <2>4. BloquesDe(tabla') = BloquesDe(tabla)
    BY <1>2, <2>2, BloquesQuedan
  <2>5. Cuantos(tabla', "RG") = Cuantos(tabla, "RG") /\ Cuantos(tabla', "AF") = Cuantos(tabla, "AF")
    BY <2>2, CuantosQuedan
  <2>6. CASE tabla[k].etapa = "RG"
    <3>1. ReduccionesDe(tabla') = ReduccionesDe(tabla)
      BY <2>2, <2>6, ReduccionesQuedan
    <3>2. UNCHANGED Job!vars
      BY <2>4, <2>5, <3>1 DEF Job!vars
    <3>3. QED
      BY <2>3, <3>2 DEF PasoTrabajo
  <2>7. CASE tabla[k].etapa = "RL"
    <3>1. tabla[k].estado = "ENPROCESO"
      BY <1>2, <2>7, RLEnProceso
    <3>2. PICK r, s : /\ r = [nodo |-> tabla[k].nodo, estado |-> tabla[k].estado]
                      /\ s = [nodo |-> y.nodo, estado |-> y.estado]
      OBVIOUS
    <3>3. r \in ReduccionesDe(tabla) /\ ReduccionesDe(tabla') = (ReduccionesDe(tabla) \ {r}) \cup {s}
      BY <2>2, <2>7, <3>2, ReduccionPasa
    <3>4. r.estado = "ENPROCESO" /\ s = [nodo |-> r.nodo, estado |-> "ERROR"]
      BY <2>2, <3>1, <3>2
    <3>5. Job!FallarReduccion(r)
      BY <2>4, <2>5, <3>3, <3>4 DEF Job!FallarReduccion, Job!Pasa, Job!En
    <3>6. QED
      BY <2>3, <3>3, <3>5 DEF PasoTrabajo, Job!Next
  <2>8. QED
    BY <1>2, <2>6, <2>7
<1>3. QED
  BY <1>1, <1>2, EfectoAbortar

LEMMA TrabajoPlanear ==
  ASSUME TypeOK, TypeOK', Planificada, UnMasterSolo, DelJob, RecibirBloques
  PROVE  PasoTrabajo
<1>1. PICK m \in Masters, job \in Jobs, nodo \in [Bloques -> Nodos], otra \in [Bloques -> Nodos] :
        /\ job = contJobs[m] + 1 /\ contJobs' = [contJobs EXCEPT ![m] = job]
        /\ tabla' = tabla \o Nuevos(m, job, nodo, otra)
        /\ carga' = [n \in Nodos |-> carga[n] + Cardinality({b \in Bloques : nodo[b] = n})]
        /\ Enviar(m, PedidoT(job, nodo))
        /\ \A b \in Bloques :
             /\ nodo[b] \in Registrados
             /\ \E c \in 1..2 : nodo[b] = Archivo[m][b][c] /\ otra[b] = Archivo[m][b][3 - c]
  BY AlPlanificar
<1>2. tabla = <<>> /\ job = 1
  <2>1. PICK c : c = contJobs[m]
    OBVIOUS
  <2>2. c \in Jobs /\ c + 1 \in Jobs
    BY <1>1, <2>1 DEF TypeOK
  <2>3. c = 0 /\ job = 1
    BY <1>1, <2>1, <2>2 DEF Jobs
  <2>4. tabla # <<>> => contJobs[m] = 1
    BY YaPlanificada
  <2>5. QED
    BY <2>1, <2>3, <2>4
<1>3. PICK u : u = Nuevos(m, job, nodo, otra)
  OBVIOUS
<1>4. u \in Seq(Registro) /\ Len(u) = NBloques /\ NBloques \in Nat \ {0}
  BY <1>3, SonNuevos, Parametros
<1>5. tabla' = u /\ DOMAIN u = 1..NBloques /\ u # <<>>
  BY <1>1, <1>2, <1>3, <1>4
<1>6. ASSUME NEW k \in 1..NBloques
      PROVE  /\ u[k].etapa = "T" /\ u[k].bloque = k - 1 /\ u[k].job = 1
             /\ u[k].nodo = nodo[k - 1] /\ u[k].otra = otra[k - 1] /\ u[k].estado = "ENPROCESO"
  <2>1. u[k] = [master |-> m, job |-> job, etapa |-> "T", nodo |-> nodo[k - 1],
                otra |-> otra[k - 1], bloque |-> k - 1, estado |-> "ENPROCESO"]
    BY <1>3 DEF Nuevos
  <2>2. QED
    BY <1>2, <2>1
<1>7. m = Unico
  <2>1. Unico \in Masters
    BY <1>1 DEF Unico
  <2>2. QED
    BY <2>1 DEF UnMasterSolo
<1>8. DelJob'
  <2>1. ASSUME NEW k \in 1..NBloques PROVE EnCopia(u[k])
    <3>1. PICK b \in Bloques : b = k - 1
      BY <1>4 DEF Bloques
    <3>2. u[k].bloque = b /\ u[k].nodo = nodo[b] /\ u[k].otra = otra[b]
      BY <1>6, <3>1
    <3>3. QED
      BY <1>1, <1>7, <3>2 DEF EnCopia
  <2>2. \A k \in DOMAIN u : u[k].job = 1 /\ (u[k].etapa = "T" => EnCopia(u[k]))
    BY <1>5, <1>6, <2>1
  <2>3. QED
    BY <1>5, <2>2 DEF DelJob, EnCopia
<1>9. BloquesDe(tabla) = Job!SinPlan
  BY <1>2 DEF BloquesDe, Job!SinPlan
<1>10. BloquesDe(tabla') = [b \in Bloques |-> [nodo |-> nodo[b], estado |-> "ENPROCESO"]]
  <2>1. \A b \in Bloques : b + 1 \in 1..NBloques /\ (b + 1) - 1 = b
    BY <1>4 DEF Bloques
  <2>2. \A b \in Bloques : u[b + 1].nodo = nodo[b] /\ u[b + 1].estado = "ENPROCESO"
    BY <1>6, <2>1
  <2>3. QED
    BY <1>5, <2>2 DEF BloquesDe
<1>11. ReduccionesDe(tabla) = {} /\ ReduccionesDe(tabla') = {}
  <2>1. tabla \in Seq(Registro) /\ DOMAIN tabla = {}
    BY <1>2 DEF TypeOK
  <2>2. \A r : r \notin ReduccionesDe(tabla)
    BY <2>1, EsReduccion
  <2>3. \A r : r \notin ReduccionesDe(u)
    BY <1>4, <1>5, <1>6, EsReduccion
  <2>4. QED
    BY <1>5, <2>2, <2>3
<1>12. ASSUME NEW etapa \in {"RG", "AF"} PROVE Cuantos(tabla', etapa) = Cuantos(tabla, etapa)
  <2>1. Posiciones(tabla, DeEtapa(etapa)) = {}
    BY <1>2 DEF Posiciones
  <2>2. Posiciones(u, DeEtapa(etapa)) = {}
    BY <1>5, <1>6 DEF Posiciones, DeEtapa
  <2>3. QED
    BY <1>5, <2>1, <2>2 DEF Cuantos
<1>13. Job!Planear
  <2>1. nodo \in [Bloques -> Registrados]
    BY <1>1
  <2>2. \A b \in Bloques : \E c \in 1..2 : nodo[b] = Archivo[Unico][b][c]
    BY <1>1, <1>7
  <2>3. QED
    BY <1>9, <1>10, <1>11, <1>12, <2>1, <2>2 DEF Job!Planear, Job!En
<1>14. QED
  BY <1>8, <1>13 DEF PasoTrabajo, Job!Next

LEMMA TrabajoPaso ==
  ASSUME TypeOK, TypeOK', UnMasterSolo, Planificada, Debidas, UnaRL, RLConRegistro,
         FinRGConRegistro, DelJob, [Next]_vars
  PROVE  PasoTrabajo
<1>1. CASE RecibirBloques
  BY <1>1, TrabajoPlanear
<1>2. ASSUME NEW m \in Masters, EsFin(m) PROVE PasoTrabajo
  BY <1>2, TrabajoTOk, TrabajoTMal, TrabajoRLOk, TrabajoRGOk, TrabajoAbortar DEF EsFin
<1>3. CASE ~RecibirBloques /\ \A m \in Masters : ~EsFin(m)
  BY <1>3, LosDemas, TrabajoQuieto
<1>4. QED
  BY <1>1, <1>2, <1>3

LEMMA TrabajoAlPrincipio == Init => DelJob /\ Job!Init
<1> SUFFICES ASSUME Init PROVE DelJob /\ Job!Init
  OBVIOUS
<1>1. tabla = <<>> /\ DOMAIN tabla = {}
  BY DEF Init
<1>2. DelJob
  BY <1>1 DEF DelJob
<1>3. BloquesDe(tabla) = Job!SinPlan
  BY <1>1 DEF BloquesDe, Job!SinPlan
<1>4. \A R : Posiciones(tabla, R) = {}
  BY <1>1 DEF Posiciones
<1>5. ReduccionesDe(tabla) = {}
  BY <1>4 DEF ReduccionesDe
<1>6. Cuantos(tabla, "RG") = 0 /\ Cuantos(tabla, "AF") = 0
  BY <1>4, FS_EmptySet DEF Cuantos
<1>7. QED
  BY <1>2, <1>3, <1>5, <1>6 DEF Job!Init

(* With one master, what the handlers of accion do to tablaDeEstados is what *)
(* Trabajo promises of a job, whatever is delivered when, fails, is          *)
(* replanned, dies or is read uninitialised (684-878).                       *)
THEOREM CumpleTrabajo ==
  ASSUME UnMasterSolo PROVE Spec => ImplementaTrabajo
<1>1. TypeOK /\ TypeOK' /\ UnaPorBloque /\ PedidasConRegistro /\ Planificada /\ Debidas
        /\ Contadas /\ [Next]_vars
        => Planificada' /\ Debidas' /\ Contadas'
  BY PasoRL, PasoContadas
<1>2. TypeOK /\ TypeOK' /\ UnaPorBloque /\ PedidasConRegistro /\ [Next]_vars
        => UnaPorBloque' /\ PedidasConRegistro'
  BY PasoUna, PasoPedidas
<1>3. TypeOK /\ TypeOK' /\ Planificada /\ Debidas /\ Contadas /\ FinRGConRegistro /\ DelJob
        /\ [Next]_vars
        => DelJob' /\ [Job!Next]_Job!vars
  BY TrabajoPaso DEF PasoTrabajo, Contadas
<1>4. QED
  BY <1>1, <1>2, <1>3, TiposYama, SiempreFinRG, AlPrincipioT, AlPrincipioRL, ContadasAlPrincipio,
     TrabajoAlPrincipio, PTL DEF Spec, ImplementaTrabajo, Job!Spec
=============================================================================
