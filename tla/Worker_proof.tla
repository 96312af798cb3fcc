---------------------------- MODULE Worker_proof ----------------------------
(***************************************************************************)
(* What the files of a worker hold, for any number of masters, of blocks   *)
(* (whoever shares their numbers), of other nodes and of global            *)
(* reductions: the types, the outputs of a master's own blocks, a result   *)
(* without repetitions, and a complete one unless two processes met.       *)
(***************************************************************************)
EXTENDS Worker, FiniteSetTheorems, TLAPS

(* A global reduction waits for the local one, its children for it, and it   *)
(* for its children; there is no result before the first one.                *)
Fases ==
  /\ \A p \in Reducciones : pcRL[p[1]] # "fin" => pcRG[p] = "inicio"
  /\ \A h \in Hijos : /\ pcRG[<<h[1], h[2]>>] = "inicio" <=> pcHijo[h] = "no"
                      /\ pcRG[<<h[1], h[2]>>] \notin {"inicio", "espera"} => pcHijo[h] = "fin"
  /\ \A m \in Masters : pcRL[m] # "fin" => rg[m] = Vacio

(* The first invariant. *)
IInv == TypeOK /\ Fases

-----------------------------------------------------------------------------
(* The parts that the origins and the processes are built from. *)
LEMMA Partes1 ==
  ASSUME NEW m \in Masters
  PROVE  /\ \A b \in Bloques[m] : /\ b \in Numeros /\ <<m, b>> \in Transformaciones
                                  /\ <<m, b>> \in Origenes
         /\ \A n \in Otros[m] : n \in Nodos /\ <<m, n>> \in Origenes
         /\ \A r \in Rondas[m] : <<m, r>> \in Reducciones
         /\ \A r \in Rondas[m], n \in Otros[m] : <<m, r, n>> \in Hijos
<1>1. \A b \in Bloques[m] : b \in Numeros /\ <<m, b>> \in Transformaciones
  BY DEF Numeros, Transformaciones
<1>2. \A n \in Otros[m] : n \in Nodos
  BY DEF Nodos
<1>3. \A r \in Rondas[m] : <<m, r>> \in Reducciones
  BY DEF Reducciones
<1>4. \A r \in Rondas[m], n \in Otros[m] : <<m, r, n>> \in Hijos
  <2> SUFFICES ASSUME NEW r \in Rondas[m], NEW n \in Otros[m]
               PROVE  <<m, r, n>> \in Hijos
    OBVIOUS
  <2> DEFINE p == <<m, r>>
  <2>1. p \in Reducciones /\ p[1] = m /\ p[2] = r
    BY <1>3
  <2>2. <<p[1], p[2], n>> \in {<<p[1], p[2], x>> : x \in Otros[p[1]]}
    BY <2>1
  <2>3. QED
    BY <2>1, <2>2 DEF Hijos
<1>5. QED
  BY <1>1, <1>2, <1>3, <1>4 DEF Origenes

(* A child is one of some global reduction. *)
LEMMA Partes2 ==
  ASSUME NEW h \in Hijos
  PROVE  /\ h[1] \in Masters /\ h[2] \in Rondas[h[1]] /\ h[3] \in Otros[h[1]]
         /\ h = <<h[1], h[2], h[3]>> /\ <<h[1], h[2]>> \in Reducciones
         /\ <<h[1], h[3]>> \in Origenes
<1>1. PICK p \in Reducciones : h \in {<<p[1], p[2], n>> : n \in Otros[p[1]]}
  BY DEF Hijos
<1>2. p[1] \in Masters /\ p[2] \in Rondas[p[1]]
  BY DEF Reducciones
<1>3. PICK n \in Otros[p[1]] : h = <<p[1], p[2], n>>
  BY <1>1
<1>4. h[1] = p[1] /\ h[2] = p[2] /\ h[3] = n
  BY <1>3
<1>5. QED
  BY <1>2, <1>3, <1>4, Partes1

(* A transformation and a reduction are those of a master. *)
LEMMA Partes3 ==
  /\ \A p \in Transformaciones : /\ p = <<p[1], p[2]>> /\ p[1] \in Masters
                                 /\ p[2] \in Bloques[p[1]]
  /\ \A p \in Reducciones : p = <<p[1], p[2]>> /\ p[1] \in Masters /\ p[2] \in Rondas[p[1]]
BY DEF Transformaciones, Reducciones

(* A node of a reduction is no block of it. *)
LEMMA Ajenos ==
  ASSUME NEW m \in Masters, NEW u \in Masters, NEW n \in Otros[u]
  PROVE  n \notin Bloques[m]
BY Partes

LEMMA Contenido ==
  /\ Vacio \in Contenidos /\ \A o \in Origenes : Vacio[o] = 0
  /\ \A o \in Origenes : /\ Solo(o) \in Contenidos /\ Solo(o)[o] = 1
                         /\ \A x \in Origenes \ {o} : Solo(o)[x] = 0
BY DEF Vacio, Solo, Contenidos

(* A file written from its beginning holds a content, and nothing else than  *)
(* what was written when it was empty.                                       *)
LEMMA AlEscribir ==
  ASSUME NEW c \in Contenidos
  PROVE  /\ Encima(c, Vacio) = {c}
         /\ \A viejo \in Contenidos : Encima(c, viejo) \subseteq Contenidos
<1>1. \A o \in Origenes : c[o] \in Nat
  BY DEF Contenidos
<1>2. Encima(c, Vacio) = {c}
  <2>1. \A o \in Origenes : Vacio[o] <= c[o]
    BY <1>1, Contenido
  <2>2. QED
    BY <2>1 DEF Encima
<1>3. ASSUME NEW viejo \in Contenidos, NEW x \in Encima(c, viejo)
      PROVE  x \in Contenidos
  <2>1. CASE x = c
    BY <2>1
  <2>2. CASE x # c
    <3>1. PICK f \in Restos(viejo) :
            x = [o \in Origenes |-> IF o \in DOMAIN f THEN c[o] + f[o] ELSE c[o]]
      BY <1>3, <2>2 DEF Encima
    <3>2. \A o \in Origenes : viejo[o] \in Nat
      BY DEF Contenidos
    <3>3. \A o \in DOMAIN f : f[o] \in Nat
      BY <3>2 DEF Restos
    <3>4. QED
      BY <1>1, <3>1, <3>3 DEF Contenidos
  <2>3. QED
    BY <2>1, <2>2
<1>4. QED
  BY <1>2, <1>3

(* What cat reads of some outputs is a content.                              *)
LEMMA Juntar ==
  ASSUME TypeOK, NEW m \in Masters
  PROVE  Union(Bloques[m]) \in Contenidos
<1> DEFINE B == Bloques[m]
<1>1. B \in SUBSET Numeros /\ IsFiniteSet(B)
  BY Partes, Partes1
<1>2. ASSUME NEW o \in Origenes PROVE Union(B)[o] \in Nat
  <2> DEFINE Suyos(b) == {b} \X (1..salida[b][o])
             T == {Suyos(b) : b \in B}
             f == [b \in B |-> Suyos(b)]
  <2>1. Union(B)[o] = Cardinality(UNION T)
    BY <1>2 DEF Union
  <2>2. IsFiniteSet(T)
    <3>1. f \in Surjection(B, T)
      BY DEF Surjection
    <3>2. QED
      BY <1>1, <3>1, FS_Surjection
  <2>3. \A b \in B : IsFiniteSet(Suyos(b))
    <3> SUFFICES ASSUME NEW b \in B PROVE IsFiniteSet(Suyos(b))
      OBVIOUS
    <3>1. salida[b][o] \in Nat
      BY <1>1, <1>2 DEF TypeOK, Contenidos
    <3>2. IsFiniteSet(1..salida[b][o]) /\ IsFiniteSet({b})
      <4>1. 1 \in Int /\ salida[b][o] \in Int
        BY <3>1
      <4>2. QED
        BY <4>1, FS_Interval, FS_Singleton
    <3>3. QED
      BY <3>2, FS_Product
  <2>4. IsFiniteSet(UNION T)
    BY <2>2, <2>3, FS_UNION
  <2>5. QED
    BY <2>1, <2>4, FS_CardinalityType
<1>3. QED
  BY <1>2 DEF Union, Contenidos

(* What it reads of outputs with a block each is one of every block. *)
LEMMA JuntarSolos ==
  ASSUME NEW m \in Masters, \A b \in Bloques[m] : salida[b] = Solo(<<m, b>>),
         NEW o \in Origenes
  PROVE  Union(Bloques[m])[o] = IF o[1] = m /\ o[2] \in Bloques[m] THEN 1 ELSE 0
<1> DEFINE B == Bloques[m]
           U == UNION {{b} \X (1..salida[b][o]) : b \in B}
<1>1. Union(B)[o] = Cardinality(U)
  BY DEF Union
<1>2. \A b \in B : salida[b][o] = IF o = <<m, b>> THEN 1 ELSE 0
  <2> SUFFICES ASSUME NEW b \in B PROVE salida[b][o] = IF o = <<m, b>> THEN 1 ELSE 0
    OBVIOUS
  <2>1. salida[b] = Solo(<<m, b>>) /\ <<m, b>> \in Origenes
    BY Partes1
  <2>2. QED
    BY <2>1, Contenido
<1>3. o = <<o[1], o[2]>>
  BY DEF Origenes
<1>4. CASE o[1] = m /\ o[2] \in B
  <2> DEFINE x == o[2]
  <2>1. \A b \in B : salida[b][o] = IF b = x THEN 1 ELSE 0
    BY <1>2, <1>3, <1>4
  <2>2. U = {<<x, 1>>}
    <3>1. {x} \X (1..1) = {<<x, 1>>}
      OBVIOUS
    <3>2. \A b \in B : {b} \X (1..salida[b][o]) = IF b = x THEN {<<x, 1>>} ELSE {}
      BY <2>1, <3>1
    <3>3. QED
      BY <1>4, <3>2
  <2>3. QED
    BY <1>1, <1>4, <2>2, FS_Singleton
<1>5. CASE ~(o[1] = m /\ o[2] \in B)
  <2>1. \A b \in B : salida[b][o] = 0
    BY <1>2, <1>5
  <2>2. U = {}
    BY <2>1
  <2>3. QED
    BY <1>1, <1>5, <2>2, FS_EmptySet
<1>6. QED
  BY <1>4, <1>5

-----------------------------------------------------------------------------
(* The first invariant, action by action. *)
LEMMA PasoTransformacion ==
  ASSUME IInv, NEW m \in Masters, NEW b \in Bloques[m], PasoT(m, b)
  PROVE  IInv'
<1>1. /\ b \in Numeros /\ <<m, b>> \in Transformaciones /\ <<m, b>> \in Origenes
      /\ UNCHANGED <<rl, rg, pcRL, memRL, pcRG, memRG, guardado, pcHijo, memHijo, cruces>>
  BY Partes1 DEF PasoT, EscribirTemporal, Transformar, FinTransformacion, procRL, procRG, procHijo
<1>2. pisados' \subseteq Masters
  BY DEF PasoT, EscribirTemporal, Transformar, FinTransformacion, Pisar, IInv, TypeOK
<1>3. Fases'
  BY <1>1 DEF IInv, Fases
<1>4. TypeOK'
  <2>1. CASE EscribirTemporal(m, b)
    BY <1>1, <1>2, <2>1, Contenido DEF EscribirTemporal, IInv, TypeOK
  <2>2. CASE Transformar(m, b)
    BY <1>1, <1>2, <2>2, Contenido DEF Transformar, IInv, TypeOK
  <2>3. CASE FinTransformacion(m, b)
    <3>1. memT[<<m, b>>] \in Contenidos /\ salida[b] \in Contenidos
      BY <1>1 DEF IInv, TypeOK
    <3>2. salida' \in [Numeros -> Contenidos]
      <4>1. PICK c \in Encima(memT[<<m, b>>], salida[b]) : salida' = [salida EXCEPT ![b] = c]
        BY <2>3 DEF FinTransformacion
      <4>2. c \in Contenidos
        BY <3>1, <4>1, AlEscribir
      <4>3. QED
        BY <4>1, <4>2 DEF IInv, TypeOK
    <3>3. QED
      BY <1>1, <1>2, <2>3, <3>2, Contenido DEF FinTransformacion, IInv, TypeOK
  <2>4. QED
    BY <2>1, <2>2, <2>3 DEF PasoT
<1>5. QED
  BY <1>3, <1>4 DEF IInv

LEMMA PasoLocal ==
  ASSUME IInv, NEW m \in Masters, PasoRL(m)
  PROVE  IInv'
<1>1. UNCHANGED <<tmp, salida, rg, pcT, memT, pcRG, memRG, guardado, pcHijo, memHijo, pisados, cruces>>
  BY DEF PasoRL, ReducirLocal, FinReduccionLocal, procT, procRG, procHijo, historia
<1>2. CASE ReducirLocal(m)
  <2>1. /\ rl' = [rl EXCEPT ![m] = Vacio] /\ memRL' = [memRL EXCEPT ![m] = Union(Bloques[m])]
        /\ pcRL' = [pcRL EXCEPT ![m] = "leido"] /\ pcRL[m] = "inicio"
    BY <1>2 DEF ReducirLocal
  <2>2. TypeOK'
    BY <1>1, <2>1, Juntar, Contenido DEF IInv, TypeOK
  <2>3. Fases'
    BY <1>1, <2>1, Partes3 DEF IInv, TypeOK, Fases
  <2>4. QED
    BY <2>2, <2>3 DEF IInv
<1>3. CASE FinReduccionLocal(m)
  <2>1. /\ rl' = [rl EXCEPT ![m] = memRL[m]] /\ memRL' = [memRL EXCEPT ![m] = Vacio]
        /\ pcRL' = [pcRL EXCEPT ![m] = "fin"]
    BY <1>3 DEF FinReduccionLocal
  <2>2. TypeOK'
    BY <1>1, <2>1, Contenido DEF IInv, TypeOK
  <2>3. Fases'
    BY <1>1, <2>1, Partes3 DEF IInv, TypeOK, Fases
  <2>4. QED
    BY <2>2, <2>3 DEF IInv
<1>4. QED
  BY <1>2, <1>3 DEF PasoRL

LEMMA PasoBifurcar ==
  ASSUME IInv, NEW m \in Masters, NEW r \in Rondas[m], Bifurcar(m, r)
  PROVE  IInv'
<1>1. /\ pcRG[<<m, r>>] = "inicio" /\ pcRL[m] = "fin"
      /\ pcRG' = [pcRG EXCEPT ![<<m, r>>] = "espera"]
      /\ pcHijo' = [h \in Hijos |-> IF h[1] = m /\ h[2] = r THEN "pide" ELSE pcHijo[h]]
      /\ UNCHANGED <<tmp, salida, rl, rg, pcT, memT, pcRL, memRL, memRG, guardado, memHijo,
                     pisados, cruces>>
  BY DEF Bifurcar, archivos, procT, procRL, historia
<1>2. TypeOK'
  BY <1>1 DEF IInv, TypeOK
<1>3. <<m, r>> \in Reducciones /\ DOMAIN pcRG = Reducciones
  BY Partes1 DEF IInv, TypeOK
<1>4. Fases'
  <2>1. \A p \in Reducciones : pcRL[p[1]] # "fin" => pcRG'[p] = "inicio"
    BY <1>1, <1>3 DEF IInv, Fases
  <2>2. ASSUME NEW h \in Hijos
        PROVE  /\ pcRG'[<<h[1], h[2]>>] = "inicio" <=> pcHijo'[h] = "no"
               /\ pcRG'[<<h[1], h[2]>>] \notin {"inicio", "espera"} => pcHijo'[h] = "fin"
    <3>1. CASE h[1] = m /\ h[2] = r
      BY <1>1, <1>3, <3>1
    <3>2. CASE ~(h[1] = m /\ h[2] = r)
      <4>1. <<h[1], h[2]>> \in Reducciones /\ <<h[1], h[2]>> # <<m, r>>
        BY <3>2, Partes2
      <4>2. pcRG'[<<h[1], h[2]>>] = pcRG[<<h[1], h[2]>>] /\ pcHijo'[h] = pcHijo[h]
        BY <1>1, <1>3, <3>2, <4>1
      <4>3. QED
        BY <4>2 DEF IInv, Fases
    <3>3. QED
      BY <3>1, <3>2
  <2>3. QED
    BY <1>1, <2>1, <2>2 DEF IInv, Fases
<1>5. QED
  BY <1>2, <1>4 DEF IInv

(* The steps of a global reduction after its children were forked. *)
PasoResultado(m, r) ==
  VaciarGlobal(m, r) \/ LeerGlobal(m, r) \/ EscribirGlobal(m, r) \/ Almacenar(m, r)

LEMMA PasoGlobal ==
  ASSUME IInv, NEW m \in Masters, NEW r \in Rondas[m], PasoResultado(m, r)
  PROVE  IInv'
<1> DEFINE p == <<m, r>>
<1>1. p \in Reducciones /\ p[1] = m /\ DOMAIN pcRG = Reducciones /\ DOMAIN rg = Masters
  BY Partes1 DEF IInv, TypeOK
<1>2. /\ cruces' \subseteq cruces \cup {m}
      /\ UNCHANGED <<tmp, salida, rl, pcT, memT, pcRL, memRL, pcHijo, memHijo, pisados>>
  BY DEF PasoResultado, VaciarGlobal, LeerGlobal, EscribirGlobal, Almacenar, Cruzar, archivos,
         procT, procRL, procHijo, historia
<1>3. /\ pcRG[p] # "inicio" /\ (pcRG[p] = "espera" => TodosTerminaron(m, r))
      /\ \E pc \in {"vaciado", "leido", "fin", "almacenado"} : pcRG' = [pcRG EXCEPT ![p] = pc]
      /\ \A u \in Masters \ {m} : rg'[u] = rg[u]
  BY <1>1 DEF PasoResultado, VaciarGlobal, LeerGlobal, EscribirGlobal, Almacenar, archivos
<1>4. TypeOK'
  <2>1. rg' \in [Masters -> Contenidos]
    <3>1. CASE EscribirGlobal(m, r)
      <4>1. memRG[p] \in Contenidos /\ rg[m] \in Contenidos
        BY <1>1 DEF IInv, TypeOK
      <4>2. QED
        BY <3>1, <4>1, AlEscribir DEF EscribirGlobal, IInv, TypeOK
    <3>2. CASE ~EscribirGlobal(m, r)
      BY <3>2, Contenido DEF PasoResultado, VaciarGlobal, LeerGlobal, Almacenar, archivos, IInv, TypeOK
    <3>3. QED
      BY <3>1, <3>2
  <2>2. /\ memRG' \in [Reducciones -> Contenidos] /\ guardado' \in [Reducciones -> Contenidos]
    BY Contenido DEF PasoResultado, VaciarGlobal, LeerGlobal, EscribirGlobal, Almacenar, IInv, TypeOK
  <2>3. pcRG' \in [Reducciones -> {"inicio", "espera", "vaciado", "leido", "fin", "almacenado"}]
    BY <1>3 DEF IInv, TypeOK
  <2>4. QED
    BY <1>2, <2>1, <2>2, <2>3 DEF IInv, TypeOK
<1>5. Fases'
  <2>1. pcRL[m] = "fin"
    <3>1. pcRL[p[1]] # "fin" => pcRG[p] = "inicio"
      BY <1>1 DEF IInv, Fases
    <3>2. QED
      BY <1>1, <1>3, <3>1
  <2>2. \A q \in Reducciones : pcRL'[q[1]] # "fin" => pcRG'[q] = "inicio"
    BY <1>1, <1>2, <1>3, <2>1 DEF IInv, Fases
  <2>3. ASSUME NEW h \in Hijos
        PROVE  /\ pcRG'[<<h[1], h[2]>>] = "inicio" <=> pcHijo'[h] = "no"
               /\ pcRG'[<<h[1], h[2]>>] \notin {"inicio", "espera"} => pcHijo'[h] = "fin"
    <3>1. CASE <<h[1], h[2]>> = p
      <4>1. h[1] = m /\ h[2] = r /\ h[3] \in Otros[m] /\ h = <<m, r, h[3]>>
        BY <3>1, Partes2
      <4>2. pcHijo[h] # "no" /\ (pcRG[p] # "espera" => pcHijo[h] = "fin")
        <5>1. /\ pcRG[<<h[1], h[2]>>] = "inicio" <=> pcHijo[h] = "no"
              /\ pcRG[<<h[1], h[2]>>] \notin {"inicio", "espera"} => pcHijo[h] = "fin"
          BY DEF IInv, Fases
        <5>2. pcRG[p] # "inicio" /\ pcRG[<<h[1], h[2]>>] = pcRG[p]
          BY <1>3, <3>1
        <5>3. QED
          BY <5>1, <5>2
      <4>3. pcHijo[h] = "fin"
        <5>1. CASE pcRG[p] = "espera"
          BY <1>3, <4>1, <4>2, <5>1 DEF TodosTerminaron
        <5>2. CASE pcRG[p] # "espera"
          BY <4>2, <5>2
        <5>3. QED
          BY <5>1, <5>2
      <4>4. QED
        BY <1>1, <1>2, <1>3, <3>1, <4>3
    <3>2. CASE <<h[1], h[2]>> # p
      BY <1>1, <1>2, <1>3, <3>2, Partes2 DEF IInv, Fases
    <3>3. QED
      BY <3>1, <3>2
  <2>4. \A u \in Masters : pcRL'[u] # "fin" => rg'[u] = Vacio
    BY <1>2, <1>3, <2>1 DEF IInv, Fases
  <2>5. QED
    BY <2>2, <2>3, <2>4 DEF Fases
<1>6. QED
  BY <1>4, <1>5 DEF IInv

LEMMA PasoDeHijo ==
  ASSUME IInv, NEW h \in Hijos, PasoHijo(h)
  PROVE  IInv'
<1>1. h[1] \in Masters /\ <<h[1], h[3]>> \in Origenes /\ <<h[1], h[2]>> \in Reducciones
  BY Partes2
<1>2. /\ cruces' \subseteq cruces \cup {h[1]}
      /\ UNCHANGED <<tmp, salida, rg, pcT, memT, pcRL, memRL, pcRG, memRG, guardado, pisados>>
      /\ pcHijo[h] \notin {"no", "fin"}
      /\ \E pc \in {"agregado", "ordenando", "truncado", "fin"} : pcHijo' = [pcHijo EXCEPT ![h] = pc]
  BY DEF PasoHijo, Agregar, LeerParaOrdenar, Truncar, EscribirOrdenado, Cruzar, archivos, procT,
         procRL, procRG, historia
<1>3. rl' \in [Masters -> Contenidos]
  <2>1. CASE Agregar(h)
    <3>1. rl[h[1]] \in Contenidos
      BY <1>1 DEF IInv, TypeOK
    <3>2. [rl[h[1]] EXCEPT ![<<h[1], h[3]>>] = @ + 1] \in Contenidos
      BY <1>1, <3>1 DEF Contenidos
    <3>3. rl' = [rl EXCEPT ![h[1]] = [rl[h[1]] EXCEPT ![<<h[1], h[3]>>] = @ + 1]]
      BY <1>1, <2>1 DEF Agregar, IInv, TypeOK
    <3>4. QED
      BY <1>1, <3>2, <3>3 DEF IInv, TypeOK
  <2>2. CASE EscribirOrdenado(h)
    <3>1. memHijo[h] \in Contenidos /\ rl[h[1]] \in Contenidos
      BY <1>1 DEF IInv, TypeOK
    <3>2. QED
      <4>1. PICK c \in Encima(memHijo[h], rl[h[1]]) : rl' = [rl EXCEPT ![h[1]] = c]
        BY <2>2 DEF EscribirOrdenado
      <4>2. c \in Contenidos
        BY <3>1, <4>1, AlEscribir
      <4>3. QED
        BY <1>1, <4>1, <4>2 DEF IInv, TypeOK
  <2>3. CASE LeerParaOrdenar(h) \/ Truncar(h)
    BY <2>3, Contenido DEF LeerParaOrdenar, Truncar, archivos, IInv, TypeOK
  <2>4. QED
    BY <2>1, <2>2, <2>3 DEF PasoHijo
<1>4. memHijo' \in [Hijos -> Contenidos]
  <2>1. \/ memHijo' = memHijo \/ memHijo' = [memHijo EXCEPT ![h] = Vacio]
        \/ memHijo' = [memHijo EXCEPT ![h] = rl[h[1]]]
    BY DEF PasoHijo, Agregar, LeerParaOrdenar, Truncar, EscribirOrdenado
  <2>2. QED
    BY <1>1, <2>1, Contenido DEF IInv, TypeOK
<1>5. TypeOK'
  <2>1. pcHijo' \in [Hijos -> {"no", "pide", "agregado", "ordenando", "truncado", "fin"}]
    BY <1>2 DEF IInv, TypeOK
  <2>2. cruces' \subseteq Masters
    BY <1>1, <1>2 DEF IInv, TypeOK
  <2>3. QED
    BY <1>2, <1>3, <1>4, <2>1, <2>2 DEF IInv, TypeOK
<1>6. Fases'
  <2>1. pcHijo[h] \notin {"no", "fin"} /\ pcHijo'[h] # "no" /\ \A g \in Hijos \ {h} : pcHijo'[g] = pcHijo[g]
    BY <1>2 DEF IInv, TypeOK
  <2>2. pcRG[<<h[1], h[2]>>] = "espera"
    <3>1. pcRG[<<h[1], h[2]>>] = "inicio" <=> pcHijo[h] = "no"
      BY DEF IInv, Fases
    <3>2. pcRG[<<h[1], h[2]>>] \notin {"inicio", "espera"} => pcHijo[h] = "fin"
      BY DEF IInv, Fases
    <3>3. QED
      BY <2>1, <3>1, <3>2
  <2>3. \A g \in Hijos : /\ pcRG[<<g[1], g[2]>>] = "inicio" <=> pcHijo'[g] = "no"
                         /\ pcRG[<<g[1], g[2]>>] \notin {"inicio", "espera"} => pcHijo'[g] = "fin"
    BY <2>1, <2>2 DEF IInv, Fases
  <2>4. QED
    BY <1>2, <2>3 DEF IInv, Fases
<1>7. QED
  BY <1>5, <1>6 DEF IInv

-----------------------------------------------------------------------------
LEMMA Inicio == Init => IInv
<1> SUFFICES ASSUME Init PROVE IInv
  OBVIOUS
<1>1. TypeOK
  BY Contenido DEF Init, TypeOK
<1>2. Fases
  BY Partes2, Partes3 DEF Init, Fases
<1>3. QED
  BY <1>1, <1>2 DEF IInv

(* No step breaks the first invariant. *)
LEMMA Inductivo == IInv /\ [Next]_vars => IInv'
<1> SUFFICES ASSUME IInv, [Next]_vars PROVE IInv'
  OBVIOUS
<1>1. CASE UNCHANGED vars
  BY <1>1 DEF IInv, TypeOK, Fases, vars, archivos, procT, procRL, procRG, procHijo, historia
<1>2. ASSUME NEW p \in Transformaciones, PasoT(p[1], p[2]) PROVE IInv'
  BY <1>2, PasoTransformacion, Partes3
<1>3. ASSUME NEW m \in Masters, PasoRL(m) PROVE IInv'
  BY <1>3, PasoLocal
<1>4. ASSUME NEW h \in Hijos, PasoHijo(h) PROVE IInv'
  BY <1>4, PasoDeHijo
<1>5. ASSUME NEW p \in Reducciones, PasoRG(p[1], p[2]) PROVE IInv'
  BY <1>5, PasoBifurcar, PasoGlobal, Partes3 DEF PasoRG, PasoResultado
<1>6. QED
  BY <1>1, <1>2, <1>3, <1>4, <1>5 DEF Next

LEMMA Siempre == Spec => []IInv
BY Inicio, Inductivo, PTL DEF Spec

(* Every file holds a bag of origins, whatever processes write it, and every *)
(* process follows its steps.                                                *)
THEOREM TiposWorker == Spec => []TypeOK
<1>1. IInv => TypeOK
  BY DEF IInv
<1>2. QED
  BY Siempre, <1>1, PTL

-----------------------------------------------------------------------------
(* The second invariant: what the files hold while nobody else works on the  *)
(* blocks of a master and its processes do not meet.                         *)

(* Until the local reduction reads them, the files of a block lead from the  *)
(* block to its output.                                                      *)
BloqueSeguro(m, b) ==
  /\ pcT[<<m, b>>] = "escrito" => tmp[b] = Solo(<<m, b>>)
  /\ pcT[<<m, b>>] = "leido" => memT[<<m, b>>] = Solo(<<m, b>>) /\ salida[b] = Vacio
  /\ pcT[<<m, b>>] = "fin" => salida[b] = Solo(<<m, b>>)
BloquesSeguros ==
  \A m \in Masters : m \notin pisados /\ pcRL[m] = "inicio" =>
    \A b \in Bloques[m] : BloqueSeguro(m, b)

(* The processes of m that already brought what n reduced. *)
Trajeron(m, n) == {r \in Rondas[m] : pcHijo[<<m, r, n>>] \notin {"no", "pide"}}

(* No block twice, and what n reduced once for each process that brought it. *)
SinRepetir(c, m) ==
  /\ \A b \in Bloques[m] : c[<<m, b>>] <= 1
  /\ \A n \in Otros[m] : c[<<m, n>>] <= Cardinality(Trajeron(m, n))

(* A content with every block of m and all that its children brought. *)
Cubre(c, m) ==
  /\ \A b \in Bloques[m] : c[<<m, b>>] >= 1
  /\ \A h \in Hijos : h[1] = m /\ pcHijo[h] \notin {"no", "pide"} => c[<<m, h[3]>>] >= 1

(* At most one child of m is ordering; what it read covers all, and so does  *)
(* archTempRL unless it emptied it.                                          *)
EnOrden(m) ==
  /\ \A g, h \in Ordenan(m) : g = h
  /\ \A h \in Ordenan(m) : pcHijo[h] # "agregado" => Cubre(memHijo[h], m)
  /\ \A h \in Ordenan(m) : pcHijo[h] # "agregado" => SinRepetir(memHijo[h], m)
  /\ \A h \in Ordenan(m) : pcHijo[h] = "truncado" => rl[m] = Vacio
  /\ (\A h \in Ordenan(m) : pcHijo[h] # "truncado") => Cubre(rl[m], m)
  /\ SinRepetir(rl[m], m)

(* At most one round writes archRG anew, from what covers all; the result is *)
(* whole otherwise, and so is what was stored.                               *)
Resulta(m) ==
  /\ \A p, q \in Reescriben(m) : p = q
  /\ Reescriben(m) # {} => rg[m] = Vacio
  /\ \A p \in Reescriben(m) : pcRG[p] = "leido" => Completo(memRG[p], m)
  /\ \A p \in Reescriben(m) : pcRG[p] = "leido" => SinRepetir(memRG[p], m)
  /\ SinRepetir(rg[m], m)
  /\ Terminada(m) /\ Reescriben(m) = {} => Completo(rg[m], m)
  /\ \A r \in Rondas[m] : pcRG[<<m, r>>] = "almacenado" => Completo(guardado[<<m, r>>], m)

Juntos ==
  \A m \in Masters : m \notin cruces \cup pisados /\ pcRL[m] = "fin" => EnOrden(m) /\ Resulta(m)

IInv2 == BloquesSeguros /\ TransformacionPropia /\ Juntos

(* What the histories name, they name for good. *)
Creciente == pisados \subseteq pisados' /\ cruces \subseteq cruces'

-----------------------------------------------------------------------------
(* The processes that a local reduction counts are as many as can be.        *)
LEMMA Cuantas ==
  ASSUME NEW m \in Masters, NEW n
  PROVE  /\ IsFiniteSet(Trajeron(m, n)) /\ Cardinality(Trajeron(m, n)) \in Nat
         /\ IsFiniteSet(Trajeron(m, n)') /\ Cardinality(Trajeron(m, n)') \in Nat
<1>1. IsFiniteSet(Rondas[m])
  BY Partes
<1>2. Trajeron(m, n) \in SUBSET Rondas[m] /\ Trajeron(m, n)' \in SUBSET Rondas[m]
  BY DEF Trajeron
<1>3. QED
  BY <1>1, <1>2, FS_Subset, FS_CardinalityType

(* An empty file repeats nothing. *)
LEMMA VacioLimpio ==
  ASSUME NEW m \in Masters
  PROVE  SinRepetir(Vacio, m)
BY Contenido, Partes1, Cuantas DEF SinRepetir

(* What repeats nothing goes on repeating nothing while no child is taken    *)
(* back.                                                                     *)
LEMMA Heredan ==
  ASSUME NEW m \in Masters, NEW c \in Contenidos, SinRepetir(c, m),
         \A h \in Hijos : h[1] = m /\ pcHijo[h] \notin {"no", "pide"} => pcHijo'[h] \notin {"no", "pide"}
  PROVE  /\ \A b \in Bloques[m] : c[<<m, b>>] <= 1
         /\ \A n \in Otros[m] : c[<<m, n>>] <= Cardinality(Trajeron(m, n)')
<1> SUFFICES ASSUME NEW n \in Otros[m]
             PROVE  c[<<m, n>>] <= Cardinality(Trajeron(m, n)')
  BY DEF SinRepetir
<1>1. Trajeron(m, n) \in SUBSET Trajeron(m, n)'
  BY Partes1 DEF Trajeron
<1>2. Cardinality(Trajeron(m, n)) <= Cardinality(Trajeron(m, n)')
  BY <1>1, Cuantas, FS_Subset
<1>3. c[<<m, n>>] \in Nat /\ c[<<m, n>>] <= Cardinality(Trajeron(m, n))
  BY Partes1 DEF Contenidos, SinRepetir
<1>4. QED
  BY <1>2, <1>3, Cuantas

(* What a step may do to the reduction of m without being one of its own:    *)
(* to the file that the children order...                                    *)
HijosAparte(m) ==
  /\ rl'[m] = rl[m]
  /\ \A h \in Hijos : h[1] = m =>
       /\ memHijo'[h] = memHijo[h]
       /\ pcHijo'[h] = pcHijo[h] \/ (pcHijo[h] = "no" /\ pcHijo'[h] = "pide")
(* ... and to the result. *)
RondasAparte(m) ==
  /\ rg'[m] = rg[m]
  /\ \A r \in Rondas[m] :
       /\ memRG'[<<m, r>>] = memRG[<<m, r>>] /\ guardado'[<<m, r>>] = guardado[<<m, r>>]
       /\ \/ pcRG'[<<m, r>>] = pcRG[<<m, r>>]
          \/ pcRG[<<m, r>>] = "inicio" /\ pcRG'[<<m, r>>] = "espera"

LEMMA EnOrdenAparte ==
  ASSUME NEW m \in Masters, EnOrden(m), HijosAparte(m)
  PROVE  EnOrden(m)'
<1>1. \A h \in Hijos : h[1] = m =>
        /\ memHijo'[h] = memHijo[h]
        /\ pcHijo'[h] \notin {"no", "pide"} => pcHijo'[h] = pcHijo[h]
        /\ pcHijo[h] \notin {"no", "pide"} => pcHijo'[h] = pcHijo[h]
  BY DEF HijosAparte
<1>2. Ordenan(m)' = Ordenan(m) /\ \A h \in Ordenan(m) : h \in Hijos /\ h[1] = m
  BY <1>1 DEF Ordenan
<1>3. \A c : Cubre(c, m) => /\ \A b \in Bloques[m] : c[<<m, b>>] >= 1
                            /\ \A h \in Hijos : h[1] = m /\ pcHijo'[h] \notin {"no", "pide"} =>
                                 c[<<m, h[3]>>] >= 1
  BY <1>1 DEF Cubre
<1>4. \A h \in Ordenan(m) : pcHijo'[h] = pcHijo[h] /\ memHijo'[h] = memHijo[h]
  BY <1>1, <1>2 DEF Ordenan
<1>5. \A n \in Otros[m] : Trajeron(m, n)' = Trajeron(m, n)
  BY <1>1, Partes1 DEF Trajeron
<1>6. \A h \in Ordenan(m)' : pcHijo'[h] # "agregado" => Cubre(memHijo[h], m)'
  BY <1>2, <1>3, <1>4 DEF EnOrden, Cubre
<1>7. (\A h \in Ordenan(m)' : pcHijo'[h] # "truncado") => Cubre(rl[m], m)'
  BY <1>2, <1>3, <1>4 DEF EnOrden, Cubre, HijosAparte
<1>8. \A h \in Ordenan(m)' : pcHijo'[h] # "agregado" => SinRepetir(memHijo[h], m)'
  BY <1>2, <1>4, <1>5 DEF EnOrden, SinRepetir
<1>9. SinRepetir(rl[m], m)'
  BY <1>5 DEF EnOrden, SinRepetir, HijosAparte
<1>10. \A h \in Ordenan(m)' : pcHijo'[h] = "truncado" => rl'[m] = Vacio
  BY <1>2, <1>4 DEF EnOrden, HijosAparte
<1>11. QED
  BY <1>2, <1>6, <1>7, <1>8, <1>9, <1>10 DEF EnOrden

LEMMA ResultaAparte ==
  ASSUME IInv, NEW m \in Masters, Resulta(m), RondasAparte(m),
         \A h \in Hijos : h[1] = m /\ pcHijo[h] \notin {"no", "pide"} => pcHijo'[h] \notin {"no", "pide"}
  PROVE  Resulta(m)'
<1>1. \A p \in Reducciones : p[1] = m =>
        /\ memRG'[p] = memRG[p] /\ guardado'[p] = guardado[p]
        /\ pcRG'[p] = pcRG[p] \/ (pcRG[p] = "inicio" /\ pcRG'[p] = "espera")
  <2> SUFFICES ASSUME NEW p \in Reducciones, p[1] = m
               PROVE  /\ memRG'[p] = memRG[p] /\ guardado'[p] = guardado[p]
                      /\ pcRG'[p] = pcRG[p] \/ (pcRG[p] = "inicio" /\ pcRG'[p] = "espera")
    OBVIOUS
  <2>1. p = <<m, p[2]>> /\ p[2] \in Rondas[m]
    BY Partes3
  <2>2. QED
    BY <2>1 DEF RondasAparte
<1>2. Reescriben(m)' = Reescriben(m) /\ \A p \in Reescriben(m) : p \in Reducciones /\ p[1] = m
  BY <1>1 DEF Reescriben
<1>3. \A p \in Reescriben(m) : pcRG'[p] = pcRG[p] /\ memRG'[p] = memRG[p]
  BY <1>1, <1>2 DEF Reescriben
<1>4. SinRepetir(rg[m], m)'
  <2>1. rg[m] \in Contenidos
    BY DEF IInv, TypeOK
  <2>2. QED
    BY <2>1, Heredan DEF Resulta, RondasAparte, SinRepetir
<1>5. \A p \in Reescriben(m)' : pcRG'[p] = "leido" => SinRepetir(memRG[p], m)'
  <2> SUFFICES ASSUME NEW p \in Reescriben(m), pcRG[p] = "leido"
               PROVE  SinRepetir(memRG[p], m)'
    BY <1>2, <1>3
  <2>1. memRG[p] \in Contenidos /\ memRG'[p] = memRG[p]
    BY <1>2, <1>3 DEF IInv, TypeOK
  <2>2. QED
    BY <2>1, Heredan DEF Resulta, SinRepetir
<1>6. \A p \in Reescriben(m)' : pcRG'[p] = "leido" => Completo(memRG'[p], m)
  BY <1>2, <1>3 DEF Resulta
<1>7. Terminada(m)' => Terminada(m)
  BY DEF Terminada, RondasAparte
<1>8. Terminada(m)' /\ Reescriben(m)' = {} => Completo(rg'[m], m)
  BY <1>2, <1>7 DEF Resulta, RondasAparte
<1>9. \A r \in Rondas[m] : pcRG'[<<m, r>>] = "almacenado" => Completo(guardado'[<<m, r>>], m)
  BY DEF Resulta, RondasAparte
<1>10. (\A p, q \in Reescriben(m)' : p = q) /\ (Reescriben(m)' # {} => rg'[m] = Vacio)
  BY <1>2 DEF Resulta, RondasAparte
<1>11. QED
  BY <1>4, <1>5, <1>6, <1>8, <1>9, <1>10 DEF Resulta, Completo

(* The second invariant, action by action. *)
LEMMA JuntosAparte ==
  ASSUME IInv, NEW m \in Masters, EnOrden(m), Resulta(m), HijosAparte(m), RondasAparte(m)
  PROVE  EnOrden(m)' /\ Resulta(m)'
<1>1. \A h \in Hijos : h[1] = m /\ pcHijo[h] \notin {"no", "pide"} => pcHijo'[h] \notin {"no", "pide"}
  BY DEF HijosAparte
<1>2. QED
  BY <1>1, EnOrdenAparte, ResultaAparte

LEMMA TransformacionSegunda ==
  ASSUME IInv, IInv2, NEW m \in Masters, NEW b \in Bloques[m], PasoT(m, b)
  PROVE  IInv2'
<1>1. /\ b \in Numeros /\ <<m, b>> \in Transformaciones /\ <<m, b>> \in Origenes
      /\ \A u \in Masters : \A x \in Bloques[u] : x \in Numeros /\ <<u, x>> \in Transformaciones
  BY Partes1
<1>2. /\ UNCHANGED <<rl, rg, pcRL, memRL, pcRG, memRG, guardado, pcHijo, memHijo, cruces>>
      /\ Pisar(m, b)
  BY DEF PasoT, EscribirTemporal, Transformar, FinTransformacion, procRL, procRG, procHijo
<1>3. Creciente
  BY <1>2 DEF Pisar, Creciente
<1>4. /\ \A p \in Transformaciones \ {<<m, b>>} : pcT'[p] = pcT[p] /\ memT'[p] = memT[p]
      /\ \A x \in Numeros \ {b} : tmp'[x] = tmp[x] /\ salida'[x] = salida[x]
  BY <1>1 DEF PasoT, EscribirTemporal, Transformar, FinTransformacion, IInv, TypeOK
<1>5. BloquesSeguros'
  <2> SUFFICES ASSUME NEW u \in Masters, u \notin pisados', pcRL[u] = "inicio",
                      NEW x \in Bloques[u]
               PROVE  BloqueSeguro(u, x)'
    BY <1>2 DEF BloquesSeguros
  <2>1. BloqueSeguro(u, x)
    BY <1>3 DEF IInv2, BloquesSeguros, Creciente
  <2>2. CASE x # b
    BY <1>1, <1>4, <2>1, <2>2 DEF BloqueSeguro
  <2>3. CASE x = b /\ u # m
    <3>1. pcT[<<u, b>>] = "inicio"
      BY <1>2, <2>3 DEF Pisar
    <3>2. QED
      BY <1>1, <1>4, <2>3, <3>1 DEF BloqueSeguro
  <2>4. CASE x = b /\ u = m
    <3>1. CASE EscribirTemporal(m, b)
      BY <1>1, <2>4, <3>1 DEF EscribirTemporal, BloqueSeguro, IInv, TypeOK
    <3>2. CASE Transformar(m, b)
      BY <1>1, <2>1, <2>4, <3>2 DEF Transformar, BloqueSeguro, IInv, TypeOK
    <3>3. CASE FinTransformacion(m, b)
      <4>1. memT[<<m, b>>] = Solo(<<m, b>>) /\ salida[b] = Vacio
        BY <2>1, <2>4, <3>3 DEF FinTransformacion, BloqueSeguro
      <4>2. Encima(memT[<<m, b>>], salida[b]) = {Solo(<<m, b>>)}
        BY <1>1, <4>1, AlEscribir, Contenido
      <4>3. salida' = [salida EXCEPT ![b] = Solo(<<m, b>>)]
        BY <3>3, <4>2 DEF FinTransformacion
      <4>4. salida'[b] = Solo(<<m, b>>) /\ pcT'[<<m, b>>] = "fin"
        BY <1>1, <3>3, <4>3 DEF FinTransformacion, IInv, TypeOK
      <4>5. QED
        BY <2>4, <4>4 DEF BloqueSeguro
    <3>4. QED
      BY <3>1, <3>2, <3>3 DEF PasoT
  <2>5. QED
    BY <2>2, <2>3, <2>4
<1>6. TransformacionPropia'
  BY <1>2, <1>3 DEF IInv2, TransformacionPropia, Creciente
<1>7. Juntos'
  <2>1. \A u \in Masters : HijosAparte(u) /\ RondasAparte(u)
    BY <1>2 DEF HijosAparte, RondasAparte
  <2>2. QED
    BY <1>2, <1>3, <2>1, JuntosAparte DEF IInv2, Juntos, Creciente
<1>8. QED
  BY <1>5, <1>6, <1>7 DEF IInv2

LEMMA ReducirLocalSegunda ==
  ASSUME IInv, IInv2, NEW m \in Masters, ReducirLocal(m)
  PROVE  IInv2'
<1> DEFINE c == Union(Bloques[m])
<1>1. /\ rl' = [rl EXCEPT ![m] = Vacio] /\ memRL' = [memRL EXCEPT ![m] = c]
      /\ pcRL' = [pcRL EXCEPT ![m] = "leido"] /\ pcRL[m] = "inicio"
      /\ \A b \in Bloques[m] : pcT[<<m, b>>] = "fin"
      /\ UNCHANGED <<tmp, salida, rg, pcT, memT, pcRG, memRG, guardado, pcHijo, memHijo, pisados, cruces>>
  BY DEF ReducirLocal, procT, procRG, procHijo, historia
<1>2. /\ pcRL'[m] = "leido" /\ memRL'[m] = c
      /\ \A u \in Masters \ {m} : pcRL'[u] = pcRL[u] /\ memRL'[u] = memRL[u] /\ rl'[u] = rl[u]
  BY <1>1 DEF IInv, TypeOK
<1>3. BloquesSeguros'
  <2> SUFFICES ASSUME NEW u \in Masters, u \notin pisados, pcRL'[u] = "inicio",
                      NEW x \in Bloques[u]
               PROVE  BloqueSeguro(u, x)'
    BY <1>1 DEF BloquesSeguros
  <2>1. BloqueSeguro(u, x)
    BY <1>2 DEF IInv2, BloquesSeguros
  <2>2. QED
    BY <1>1, <2>1 DEF BloqueSeguro
<1>4. TransformacionPropia'
  <2>1. ASSUME m \notin pisados
        PROVE  c = [o \in Origenes |-> IF o[1] = m /\ o[2] \in Bloques[m] THEN 1 ELSE 0]
    <3>1. \A b \in Bloques[m] : salida[b] = Solo(<<m, b>>)
      BY <1>1, <2>1 DEF IInv2, BloquesSeguros, BloqueSeguro
    <3>2. \A o \in Origenes : c[o] = IF o[1] = m /\ o[2] \in Bloques[m] THEN 1 ELSE 0
      BY <3>1, JuntarSolos
    <3>3. QED
      BY <3>2 DEF Union
  <2>2. QED
    BY <1>1, <1>2, <2>1 DEF IInv2, TransformacionPropia
<1>5. Juntos'
  <2>1. \A u \in Masters \ {m} : HijosAparte(u) /\ RondasAparte(u)
    BY <1>1, <1>2 DEF HijosAparte, RondasAparte
  <2>2. QED
    BY <1>1, <1>2, <2>1, JuntosAparte DEF IInv2, Juntos
<1>6. QED
  BY <1>3, <1>4, <1>5 DEF IInv2

LEMMA FinReduccionLocalSegunda ==
  ASSUME IInv, IInv2, NEW m \in Masters, FinReduccionLocal(m)
  PROVE  IInv2'
<1>1. /\ rl' = [rl EXCEPT ![m] = memRL[m]] /\ memRL' = [memRL EXCEPT ![m] = Vacio]
      /\ pcRL' = [pcRL EXCEPT ![m] = "fin"] /\ pcRL[m] = "leido"
      /\ UNCHANGED <<tmp, salida, rg, pcT, memT, pcRG, memRG, guardado, pcHijo, memHijo, pisados, cruces>>
  BY DEF FinReduccionLocal, procT, procRG, procHijo, historia
<1>2. /\ pcRL'[m] = "fin" /\ rl'[m] = memRL[m]
      /\ \A u \in Masters \ {m} : pcRL'[u] = pcRL[u] /\ memRL'[u] = memRL[u] /\ rl'[u] = rl[u]
  BY <1>1 DEF IInv, TypeOK
<1>3. BloquesSeguros'
  <2> SUFFICES ASSUME NEW u \in Masters, u \notin pisados, pcRL'[u] = "inicio",
                      NEW x \in Bloques[u]
               PROVE  BloqueSeguro(u, x)'
    BY <1>1 DEF BloquesSeguros
  <2>1. BloqueSeguro(u, x)
    BY <1>2 DEF IInv2, BloquesSeguros
  <2>2. QED
    BY <1>1, <2>1 DEF BloqueSeguro
<1>4. TransformacionPropia'
  BY <1>1, <1>2 DEF IInv2, TransformacionPropia
<1>5. ASSUME m \notin pisados PROVE EnOrden(m)' /\ Resulta(m)'
  <2>1. /\ \A p \in Reducciones : p[1] = m => pcRG[p] = "inicio"
        /\ \A r \in Rondas[m] : pcRG[<<m, r>>] = "inicio"
        /\ \A h \in Hijos : h[1] = m => pcHijo[h] = "no"
        /\ rg[m] = Vacio
    <3>1. \A p \in Reducciones : p[1] = m => pcRG[p] = "inicio"
      BY <1>1 DEF IInv, Fases
    <3>2. \A r \in Rondas[m] : pcRG[<<m, r>>] = "inicio"
      BY <1>1, Partes1 DEF IInv, Fases
    <3>3. \A h \in Hijos : h[1] = m => pcHijo[h] = "no"
      BY <3>2, Partes2 DEF IInv, Fases
    <3>4. QED
      BY <1>1, <3>1, <3>2, <3>3 DEF IInv, Fases
  <2>2. Ordenan(m)' = {} /\ Reescriben(m)' = {} /\ ~Terminada(m)'
    BY <1>1, <2>1 DEF Ordenan, Reescriben, Terminada
  <2>3. /\ \A b \in Bloques[m] : memRL[m][<<m, b>>] = 1
        /\ \A n \in Otros[m] : memRL[m][<<m, n>>] = 0
    <3>1. memRL[m] = [o \in Origenes |-> IF o[1] = m /\ o[2] \in Bloques[m] THEN 1 ELSE 0]
      BY <1>1, <1>5 DEF IInv2, TransformacionPropia
    <3>2. QED
      BY <3>1, Partes1, Ajenos
  <2>4. Cubre(rl[m], m)'
    BY <1>1, <1>2, <2>1, <2>3 DEF Cubre
  <2>5. SinRepetir(rl[m], m)'
    BY <1>2, <2>3, Cuantas DEF SinRepetir
  <2>6. SinRepetir(rg[m], m)'
    <3>1. \A b \in Bloques[m] : rg'[m][<<m, b>>] = 0
      BY <1>1, <2>1, Contenido, Partes1
    <3>2. \A n \in Otros[m] : rg'[m][<<m, n>>] = 0
      BY <1>1, <2>1, Contenido, Partes1
    <3>3. QED
      BY <3>1, <3>2, Cuantas DEF SinRepetir
  <2>7. EnOrden(m)'
    BY <2>2, <2>4, <2>5 DEF EnOrden
  <2>8. Resulta(m)'
    BY <1>1, <2>1, <2>2, <2>6 DEF Resulta
  <2>9. QED
    BY <2>7, <2>8
<1>6. Juntos'
  <2>1. \A u \in Masters \ {m} : HijosAparte(u) /\ RondasAparte(u)
    BY <1>1, <1>2 DEF HijosAparte, RondasAparte
  <2>2. QED
    BY <1>1, <1>2, <1>5, <2>1, JuntosAparte DEF IInv2, Juntos
<1>7. QED
  BY <1>3, <1>4, <1>6 DEF IInv2

(* The steps of the global reductions of m leave alone its local part, and   *)
(* the reductions of everybody else.                                         *)
LEMMA GlobalSegunda ==
  ASSUME IInv, IInv2, NEW m \in Masters,
         UNCHANGED <<tmp, salida, pcT, memT, pcRL, memRL>>, Creciente,
         m \notin cruces' \cup pisados' /\ pcRL[m] = "fin" => EnOrden(m)' /\ Resulta(m)',
         \A u \in Masters \ {m} : HijosAparte(u) /\ RondasAparte(u)
  PROVE  IInv2'
<1>1. BloquesSeguros'
  BY DEF IInv2, BloquesSeguros, BloqueSeguro, Creciente
<1>2. TransformacionPropia'
  BY DEF IInv2, TransformacionPropia, Creciente
<1>3. Juntos'
  BY JuntosAparte DEF IInv2, Juntos, Creciente
<1>4. QED
  BY <1>1, <1>2, <1>3 DEF IInv2

LEMMA BifurcarSegunda ==
  ASSUME IInv, IInv2, NEW m \in Masters, NEW r \in Rondas[m], Bifurcar(m, r)
  PROVE  IInv2'
<1>1. /\ pcRG[<<m, r>>] = "inicio"
      /\ pcRG' = [pcRG EXCEPT ![<<m, r>>] = "espera"]
      /\ pcHijo' = [h \in Hijos |-> IF h[1] = m /\ h[2] = r THEN "pide" ELSE pcHijo[h]]
      /\ UNCHANGED <<tmp, salida, rl, rg, pcT, memT, pcRL, memRL, memRG, guardado, memHijo,
                     pisados, cruces>>
  BY DEF Bifurcar, archivos, procT, procRL, historia
<1>2. \A h \in Hijos : h[1] = m /\ h[2] = r => pcHijo[h] = "no"
  BY <1>1 DEF IInv, Fases
<1>3. \A p \in Reducciones : pcRG'[p] = IF p = <<m, r>> THEN "espera" ELSE pcRG[p]
  BY <1>1 DEF IInv, TypeOK
<1>4. \A u \in Masters : HijosAparte(u) /\ RondasAparte(u)
  <2>1. \A u \in Masters : HijosAparte(u)
    BY <1>1, <1>2 DEF HijosAparte
  <2>2. \A u \in Masters : RondasAparte(u)
    BY <1>1, <1>3, Partes1 DEF RondasAparte
  <2>3. QED
    BY <2>1, <2>2
<1>5. Creciente
  BY <1>1 DEF Creciente
<1>6. QED
  BY <1>1, <1>4, <1>5, GlobalSegunda, JuntosAparte DEF IInv2, Juntos

(* What a step of the round r of m changes, and what it leaves.              *)
LEMMA CambiaRonda ==
  ASSUME IInv, NEW m \in Masters, NEW r \in Rondas[m], PasoResultado(m, r)
  PROVE  /\ <<m, r>> \in Reducciones
         /\ UNCHANGED <<tmp, salida, rl, pcT, memT, pcRL, memRL, pcHijo, memHijo>>
         /\ pcRL[m] = "fin" /\ Creciente
         /\ \A q \in Reducciones \ {<<m, r>>} :
              pcRG'[q] = pcRG[q] /\ memRG'[q] = memRG[q] /\ guardado'[q] = guardado[q]
         /\ HijosAparte(m) /\ \A u \in Masters \ {m} : HijosAparte(u) /\ RondasAparte(u)
         /\ \A c \in Contenidos : SinRepetir(c, m)' <=> SinRepetir(c, m)
<1> DEFINE p == <<m, r>>
<1>1. p \in Reducciones /\ p[1] = m
  BY Partes1
<1>2. /\ UNCHANGED <<tmp, salida, rl, pcT, memT, pcRL, memRL, pcHijo, memHijo>>
      /\ pcRG[p] # "inicio"
      /\ \A u \in Masters \ {m} : rg'[u] = rg[u]
  BY DEF PasoResultado, VaciarGlobal, LeerGlobal, EscribirGlobal, Almacenar, archivos, procT,
         procRL, procHijo, IInv, TypeOK
<1>3. \A q \in Reducciones \ {p} :
        pcRG'[q] = pcRG[q] /\ memRG'[q] = memRG[q] /\ guardado'[q] = guardado[q]
  BY <1>1 DEF PasoResultado, VaciarGlobal, LeerGlobal, EscribirGlobal, Almacenar, IInv, TypeOK
<1>4. Creciente
  BY DEF PasoResultado, VaciarGlobal, LeerGlobal, EscribirGlobal, Almacenar, Cruzar, Creciente,
         historia
<1>5. pcRL[m] = "fin"
  <2>1. pcRL[p[1]] # "fin" => pcRG[p] = "inicio"
    BY <1>1 DEF IInv, Fases
  <2>2. QED
    BY <1>1, <1>2, <2>1
<1>6. \A u \in Masters : HijosAparte(u)
  BY <1>2 DEF HijosAparte
<1>7. \A u \in Masters \ {m} : RondasAparte(u)
  <2> SUFFICES ASSUME NEW u \in Masters \ {m} PROVE RondasAparte(u)
    OBVIOUS
  <2>1. \A x \in Rondas[u] : <<u, x>> \in Reducciones \ {p}
    BY Partes1
  <2>2. QED
    BY <1>2, <1>3, <2>1 DEF RondasAparte
<1>8. \A n \in Otros[m] : Trajeron(m, n)' = Trajeron(m, n)
  BY <1>2 DEF Trajeron
<1>9. \A c \in Contenidos : SinRepetir(c, m)' <=> SinRepetir(c, m)
  BY <1>8 DEF SinRepetir
<1>10. QED
  BY <1>1, <1>2, <1>3, <1>4, <1>5, <1>6, <1>7, <1>9

(* The children of a round that writes its result all brought theirs.        *)
LEMMA TodoCubierto ==
  ASSUME IInv, NEW m \in Masters, NEW r \in Rondas[m], NEW c, Cubre(c, m),
         pcRG[<<m, r>>] \notin {"inicio", "espera"}
  PROVE  Completo(c, m)
<1>1. \A n \in Otros[m] : c[<<m, n>>] >= 1
  <2> SUFFICES ASSUME NEW n \in Otros[m] PROVE c[<<m, n>>] >= 1
    OBVIOUS
  <2> DEFINE h == <<m, r, n>>
  <2>1. h \in Hijos /\ h[1] = m /\ h[2] = r /\ h[3] = n
    BY Partes1
  <2>2. pcRG[<<h[1], h[2]>>] \notin {"inicio", "espera"} => pcHijo[h] = "fin"
    BY <2>1 DEF IInv, Fases
  <2>3. pcHijo[h] = "fin"
    BY <2>1, <2>2
  <2>4. QED
    BY <2>1, <2>3 DEF Cubre
<1>2. QED
  BY <1>1 DEF Completo, Cubre

(* The result of m after a step of its round r, when no two processes met.   *)
LEMMA ResultadoSegunda ==
  ASSUME IInv, IInv2, NEW m \in Masters, NEW r \in Rondas[m], PasoResultado(m, r),
         m \notin cruces' \cup pisados'
  PROVE  Resulta(m)'
<1> DEFINE p == <<m, r>>
<1>1. /\ p \in Reducciones /\ p[1] = m /\ pcRL[m] = "fin" /\ Creciente
      /\ \A q \in Reducciones \ {p} :
           pcRG'[q] = pcRG[q] /\ memRG'[q] = memRG[q] /\ guardado'[q] = guardado[q]
      /\ UNCHANGED <<rl, pcHijo, memHijo>>
      /\ \A c \in Contenidos : SinRepetir(c, m)' <=> SinRepetir(c, m)
  BY CambiaRonda
<1>2. EnOrden(m) /\ Resulta(m)
  BY <1>1 DEF IInv2, Juntos, Creciente
<1>3. /\ rl[m] \in Contenidos /\ rg[m] \in Contenidos /\ memRG[p] \in Contenidos
      /\ DOMAIN rg = Masters /\ DOMAIN pcRG = Reducciones /\ DOMAIN memRG = Reducciones
      /\ DOMAIN guardado = Reducciones
  BY <1>1 DEF IInv, TypeOK
<1>4. \A q \in Reescriben(m) : q \in Reducciones /\ q[1] = m
  BY DEF Reescriben
<1>5. \A x \in Rondas[m] : <<m, x>> \in Reducciones
  BY Partes1
<1>6. CASE VaciarGlobal(m, r)
  <2>1. /\ pcRG'[p] = "vaciado" /\ rg'[m] = Vacio /\ Reescriben(m) = {}
        /\ memRG' = memRG /\ guardado' = guardado
    BY <1>1, <1>3, <1>6 DEF VaciarGlobal, Cruzar
  <2>2. Reescriben(m)' = {p}
    BY <1>1, <2>1 DEF Reescriben
  <2>3. SinRepetir(rg[m], m)'
    <3>1. SinRepetir(Vacio, m)'
      BY <1>1, VacioLimpio, Contenido
    <3>2. QED
      BY <2>1, <3>1 DEF SinRepetir
  <2>4. \A x \in Rondas[m] : pcRG'[<<m, x>>] = "almacenado" => Completo(guardado'[<<m, x>>], m)
    BY <1>1, <1>2, <1>5, <2>1 DEF Resulta
  <2>5. QED
    BY <2>1, <2>2, <2>3, <2>4 DEF Resulta, Completo
<1>7. CASE LeerGlobal(m, r)
  <2>1. /\ pcRG[p] = "vaciado" /\ pcRG'[p] = "leido" /\ rg' = rg /\ Ordenan(m) = {}
        /\ memRG'[p] = rl[m] /\ guardado' = guardado
    BY <1>1, <1>3, <1>7 DEF LeerGlobal, Cruzar, archivos
  <2>2. Reescriben(m)' = Reescriben(m) /\ p \in Reescriben(m)
    BY <1>1, <2>1 DEF Reescriben
  <2>3. Reescriben(m) = {p} /\ rg[m] = Vacio
    BY <1>2, <2>2 DEF Resulta
  <2>4. Cubre(rl[m], m) /\ SinRepetir(rl[m], m)
    BY <1>2, <2>1 DEF EnOrden
  <2>5. Completo(rl[m], m)
    BY <2>1, <2>4, TodoCubierto
  <2>6. SinRepetir(memRG[p], m)'
    <3>1. SinRepetir(rl[m], m)'
      BY <1>1, <1>3, <2>4 DEF SinRepetir
    <3>2. QED
      BY <1>1, <2>1, <3>1 DEF SinRepetir
  <2>7. SinRepetir(rg[m], m)'
    <3>1. SinRepetir(rg[m], m)
      BY <1>2 DEF Resulta
    <3>2. QED
      BY <1>1, <1>3, <2>1, <3>1 DEF SinRepetir
  <2>8. \A x \in Rondas[m] : pcRG'[<<m, x>>] = "almacenado" => Completo(guardado'[<<m, x>>], m)
    BY <1>1, <1>2, <1>5, <2>1 DEF Resulta
  <2>9. QED
    BY <2>1, <2>2, <2>3, <2>5, <2>6, <2>7, <2>8 DEF Resulta, Completo
<1>8. CASE EscribirGlobal(m, r)
  <2>1. pcRG[p] = "leido" /\ pcRG'[p] = "fin" /\ guardado' = guardado /\ p \in Reescriben(m)
    BY <1>1, <1>3, <1>8 DEF EscribirGlobal, Reescriben
  <2>2. Reescriben(m) = {p} /\ rg[m] = Vacio /\ Completo(memRG[p], m) /\ SinRepetir(memRG[p], m)
    BY <1>2, <2>1 DEF Resulta
  <2>3. rg'[m] = memRG[p]
    <3>1. Encima(memRG[p], rg[m]) = {memRG[p]}
      BY <1>3, <2>2, AlEscribir
    <3>2. QED
      BY <1>3, <1>8, <3>1 DEF EscribirGlobal
  <2>4. Reescriben(m)' = {}
    <3>1. \A q \in Reducciones \ {p} : q[1] = m => pcRG'[q] \notin {"vaciado", "leido"}
      BY <1>1, <2>2 DEF Reescriben
    <3>2. QED
      BY <2>1, <3>1 DEF Reescriben
  <2>5. SinRepetir(rg[m], m)'
    <3>1. SinRepetir(memRG[p], m)
      BY <2>2
    <3>2. \A n \in Otros[m] : Trajeron(m, n)' = Trajeron(m, n)
      BY <1>1 DEF Trajeron
    <3>3. QED
      BY <2>3, <3>1, <3>2 DEF SinRepetir
  <2>6. \A x \in Rondas[m] : pcRG'[<<m, x>>] = "almacenado" => Completo(guardado'[<<m, x>>], m)
    BY <1>1, <1>2, <1>5, <2>1 DEF Resulta
  <2>7. QED
    BY <2>2, <2>3, <2>4, <2>5, <2>6 DEF Resulta, Completo
<1>9. CASE Almacenar(m, r)
  <2>1. /\ pcRG[p] = "fin" /\ pcRG'[p] = "almacenado" /\ rg' = rg /\ Reescriben(m) = {}
        /\ guardado'[p] = rg[m] /\ memRG' = memRG
    BY <1>1, <1>3, <1>9 DEF Almacenar, Cruzar, archivos
  <2>2. Reescriben(m)' = {}
    BY <1>1, <2>1 DEF Reescriben
  <2>3. Completo(rg[m], m)
    BY <1>2, <2>1 DEF Resulta, Terminada
  <2>4. SinRepetir(rg[m], m)'
    <3>1. SinRepetir(rg[m], m)
      BY <1>2 DEF Resulta
    <3>2. \A n \in Otros[m] : Trajeron(m, n)' = Trajeron(m, n)
      BY <1>1 DEF Trajeron
    <3>3. QED
      BY <2>1, <3>1, <3>2 DEF SinRepetir
  <2>5. ASSUME NEW x \in Rondas[m], pcRG'[<<m, x>>] = "almacenado"
        PROVE  Completo(guardado'[<<m, x>>], m)
    <3>1. CASE x = r
      BY <2>1, <2>3, <3>1
    <3>2. CASE x # r
      <4>1. <<m, x>> # p /\ <<m, x>> \in Reducciones
        BY <1>5, <3>2
      <4>2. pcRG[<<m, x>>] = "almacenado" /\ guardado'[<<m, x>>] = guardado[<<m, x>>]
        BY <1>1, <2>5, <4>1
      <4>3. QED
        BY <1>2, <4>2 DEF Resulta
    <3>3. QED
      BY <3>1, <3>2
  <2>6. QED
    BY <2>1, <2>2, <2>3, <2>4, <2>5 DEF Resulta, Completo
<1>10. QED
  BY <1>6, <1>7, <1>8, <1>9 DEF PasoResultado

LEMMA GlobalesSegunda ==
  ASSUME IInv, IInv2, NEW m \in Masters, NEW r \in Rondas[m], PasoResultado(m, r)
  PROVE  IInv2'
<1>1. /\ UNCHANGED <<tmp, salida, pcT, memT, pcRL, memRL>> /\ pcRL[m] = "fin" /\ Creciente
      /\ HijosAparte(m) /\ \A u \in Masters \ {m} : HijosAparte(u) /\ RondasAparte(u)
  BY CambiaRonda
<1>2. m \notin cruces' \cup pisados' => EnOrden(m)' /\ Resulta(m)'
  BY <1>1, ResultadoSegunda, EnOrdenAparte DEF IInv2, Juntos, Creciente
<1>3. QED
  BY <1>1, <1>2, GlobalSegunda

(* What a step of the child h changes, and what it leaves.                   *)
LEMMA CambiaHijo ==
  ASSUME IInv, NEW h \in Hijos, PasoHijo(h)
  PROVE  /\ h[1] \in Masters /\ <<h[1], h[3]>> \in Origenes
         /\ UNCHANGED <<tmp, salida, rg, pcT, memT, pcRL, memRL, pcRG, memRG, guardado>>
         /\ Creciente
         /\ \A g \in Hijos \ {h} : pcHijo'[g] = pcHijo[g] /\ memHijo'[g] = memHijo[g]
         /\ \A g \in Hijos : pcHijo[g] \notin {"no", "pide"} => pcHijo'[g] \notin {"no", "pide"}
         /\ RondasAparte(h[1])
         /\ \A u \in Masters \ {h[1]} : HijosAparte(u) /\ RondasAparte(u)
<1>1. h[1] \in Masters /\ <<h[1], h[3]>> \in Origenes
  BY Partes2
<1>2. UNCHANGED <<tmp, salida, rg, pcT, memT, pcRL, memRL, pcRG, memRG, guardado>>
  BY DEF PasoHijo, Agregar, LeerParaOrdenar, Truncar, EscribirOrdenado, archivos, procT, procRL, procRG
<1>3. Creciente
  BY DEF PasoHijo, Agregar, LeerParaOrdenar, Truncar, EscribirOrdenado, Cruzar, Creciente, historia
<1>4. /\ \A g \in Hijos \ {h} : pcHijo'[g] = pcHijo[g] /\ memHijo'[g] = memHijo[g]
      /\ \A g \in Hijos : pcHijo[g] \notin {"no", "pide"} => pcHijo'[g] \notin {"no", "pide"}
  BY DEF PasoHijo, Agregar, LeerParaOrdenar, Truncar, EscribirOrdenado, IInv, TypeOK
<1>5. \A u \in Masters \ {h[1]} : rl'[u] = rl[u]
  BY <1>1 DEF PasoHijo, Agregar, LeerParaOrdenar, Truncar, EscribirOrdenado, archivos, IInv, TypeOK
<1>6. \A u \in Masters : RondasAparte(u)
  BY <1>2 DEF RondasAparte
<1>7. \A u \in Masters \ {h[1]} : HijosAparte(u)
  BY <1>4, <1>5 DEF HijosAparte
<1>8. QED
  BY <1>1, <1>2, <1>3, <1>4, <1>6, <1>7

LEMMA AgregarSegunda ==
  ASSUME IInv, IInv2, NEW h \in Hijos, Agregar(h),
         h[1] \notin cruces' \cup pisados', pcRL[h[1]] = "fin"
  PROVE  EnOrden(h[1])'
<1> DEFINE m == h[1]
           n == h[3]
           o == <<m, n>>
<1>1. m \in Masters /\ h[2] \in Rondas[m] /\ n \in Otros[m] /\ o \in Origenes /\ h = <<m, h[2], n>>
  BY Partes2
<1>2. /\ pcHijo[h] = "pide" /\ pcHijo'[h] = "agregado" /\ Creciente
      /\ \A g \in Hijos \ {h} : pcHijo'[g] = pcHijo[g] /\ memHijo'[g] = memHijo[g]
      /\ \A g \in Hijos : pcHijo[g] \notin {"no", "pide"} => pcHijo'[g] \notin {"no", "pide"}
  BY CambiaHijo DEF PasoHijo, Agregar, IInv, TypeOK
<1>3. rl[m] \in Contenidos /\ rl'[m] = [rl[m] EXCEPT ![o] = rl[m][o] + 1]
  BY <1>1 DEF Agregar, IInv, TypeOK
<1>4. rl'[m] \in Contenidos /\ rl'[m][o] = rl[m][o] + 1 /\ rl[m][o] \in Nat
      /\ \A x \in Origenes \ {o} : rl'[m][x] = rl[m][x]
  BY <1>1, <1>3 DEF Contenidos
<1>5. EnOrden(m) /\ Ordenan(m) = {}
  <2>1. (Ordenan(m) \ {h}) \cup Leen(m) = {} /\ m \notin cruces \cup pisados
    BY <1>2 DEF Agregar, Cruzar, Creciente
  <2>2. h \notin Ordenan(m)
    BY <1>2 DEF Ordenan
  <2>3. EnOrden(m)
    BY <1>1, <2>1 DEF IInv2, Juntos
  <2>4. QED
    BY <2>1, <2>2, <2>3
<1>6. Ordenan(m)' = {h}
  BY <1>2, <1>5 DEF Ordenan
<1>7. Cubre(rl[m], m) /\ SinRepetir(rl[m], m)
  BY <1>5 DEF EnOrden
<1>8. Cubre(rl[m], m)'
  <2>1. \A x \in Origenes : rl[m][x] >= 1 => rl'[m][x] >= 1
    BY <1>4, <1>3 DEF Contenidos
  <2>2. \A b \in Bloques[m] : rl'[m][<<m, b>>] >= 1
    BY <1>1, <1>7, <2>1, Partes1 DEF Cubre
  <2>3. ASSUME NEW g \in Hijos, g[1] = m, pcHijo'[g] \notin {"no", "pide"}
        PROVE  rl'[m][<<m, g[3]>>] >= 1
    <3>1. CASE g = h
      BY <1>4, <3>1
    <3>2. CASE g # h
      BY <1>2, <1>7, <2>1, <2>3, <3>2, Partes2 DEF Cubre
    <3>3. QED
      BY <3>1, <3>2
  <2>4. QED
    BY <2>2, <2>3 DEF Cubre
<1>9. SinRepetir(rl[m], m)'
  <2>1. Cardinality(Trajeron(m, n)') = Cardinality(Trajeron(m, n)) + 1
    <3>1. Trajeron(m, n)' = Trajeron(m, n) \cup {h[2]} /\ h[2] \notin Trajeron(m, n)
      BY <1>1, <1>2, Partes1 DEF Trajeron
    <3>2. QED
      BY <1>1, <3>1, Cuantas, FS_AddElement
  <2>2. /\ \A b \in Bloques[m] : rl[m][<<m, b>>] <= 1
        /\ \A x \in Otros[m] : rl[m][<<m, x>>] <= Cardinality(Trajeron(m, x)')
    BY <1>1, <1>2, <1>3, <1>7, Heredan
  <2>3. \A b \in Bloques[m] : rl'[m][<<m, b>>] <= 1
    BY <1>1, <1>4, <2>2, Ajenos, Partes1
  <2>4. \A x \in Otros[m] \ {n} : rl'[m][<<m, x>>] <= Cardinality(Trajeron(m, x)')
    BY <1>1, <1>4, <2>2, Partes1
  <2>5. rl'[m][<<m, n>>] <= Cardinality(Trajeron(m, n)')
    BY <1>1, <1>4, <1>7, <2>1, Cuantas DEF SinRepetir
  <2>6. QED
    BY <2>3, <2>4, <2>5 DEF SinRepetir
<1>10. QED
  BY <1>2, <1>6, <1>8, <1>9 DEF EnOrden

(* What h read, emptied and wrote back was its own: no other child of the    *)
(* master was ordering.                                                      *)
LEMMA OrdenarSegunda ==
  ASSUME IInv, IInv2, NEW h \in Hijos, LeerParaOrdenar(h) \/ Truncar(h) \/ EscribirOrdenado(h),
         h[1] \notin cruces' \cup pisados', pcRL[h[1]] = "fin"
  PROVE  EnOrden(h[1])'
<1> DEFINE m == h[1]
<1>1. /\ m \in Masters /\ Creciente
      /\ \A g \in Hijos \ {h} : pcHijo'[g] = pcHijo[g] /\ memHijo'[g] = memHijo[g]
      /\ \A g \in Hijos : pcHijo[g] \notin {"no", "pide"} => pcHijo'[g] \notin {"no", "pide"}
  BY CambiaHijo DEF PasoHijo
<1>2. pcHijo[h] \in {"agregado", "ordenando", "truncado"}
  BY DEF LeerParaOrdenar, Truncar, EscribirOrdenado
<1>3. EnOrden(m) /\ Ordenan(m) = {h}
  <2>1. EnOrden(m)
    BY <1>1 DEF IInv2, Juntos, Creciente
  <2>2. h \in Ordenan(m)
    BY <1>2 DEF Ordenan
  <2>3. QED
    BY <2>1, <2>2 DEF EnOrden
<1>4. rl[m] \in Contenidos /\ memHijo[h] \in Contenidos
  BY <1>1 DEF IInv, TypeOK
<1>5. \/ /\ pcHijo[h] = "agregado" /\ pcHijo'[h] = "ordenando"
         /\ memHijo'[h] = rl[m] /\ rl'[m] = rl[m]
      \/ /\ pcHijo[h] = "ordenando" /\ pcHijo'[h] = "truncado"
         /\ memHijo'[h] = memHijo[h] /\ rl'[m] = Vacio
      \/ /\ pcHijo[h] = "truncado" /\ pcHijo'[h] = "fin"
         /\ rl'[m] = memHijo[h]
  <2>1. CASE LeerParaOrdenar(h)
    BY <2>1 DEF LeerParaOrdenar, archivos, IInv, TypeOK
  <2>2. CASE Truncar(h)
    BY <1>1, <2>2 DEF Truncar, IInv, TypeOK
  <2>3. CASE EscribirOrdenado(h)
    <3>1. rl[m] = Vacio
      BY <1>3, <2>3 DEF EnOrden, EscribirOrdenado
    <3>2. Encima(memHijo[h], rl[m]) = {memHijo[h]}
      BY <1>4, <3>1, AlEscribir
    <3>3. QED
      BY <1>1, <2>3, <3>2 DEF EscribirOrdenado, IInv, TypeOK
  <2>4. QED
    BY <2>1, <2>2, <2>3
<1>6. Ordenan(m)' = IF pcHijo'[h] = "fin" THEN {} ELSE {h}
  <2>1. \A g \in Hijos \ {h} : g[1] = m => g \notin Ordenan(m)'
    BY <1>1, <1>3 DEF Ordenan
  <2>2. QED
    BY <1>5, <2>1 DEF Ordenan
<1>7. \A c : Cubre(c, m) => /\ \A b \in Bloques[m] : c[<<m, b>>] >= 1
                            /\ \A g \in Hijos : g[1] = m /\ pcHijo'[g] \notin {"no", "pide"} =>
                                 c[<<m, g[3]>>] >= 1
  BY <1>1, <1>2 DEF Cubre
<1>8. \A c \in Contenidos : SinRepetir(c, m) =>
        /\ \A b \in Bloques[m] : c[<<m, b>>] <= 1
        /\ \A n \in Otros[m] : c[<<m, n>>] <= Cardinality(Trajeron(m, n)')
  BY <1>1, Heredan
<1>9. pcHijo[h] = "agregado" => Cubre(rl[m], m)
  BY <1>3 DEF EnOrden
<1>10. pcHijo[h] # "agregado" => Cubre(memHijo[h], m) /\ SinRepetir(memHijo[h], m)
  BY <1>3 DEF EnOrden
<1>11. SinRepetir(rl[m], m)
  BY <1>3 DEF EnOrden
<1>12. pcHijo'[h] # "fin" => Cubre(memHijo[h], m)' /\ SinRepetir(memHijo[h], m)'
  BY <1>4, <1>5, <1>7, <1>8, <1>9, <1>10, <1>11 DEF Cubre, SinRepetir
<1>13. pcHijo'[h] # "truncado" => Cubre(rl[m], m)'
  BY <1>5, <1>7, <1>9, <1>10 DEF Cubre
<1>14. SinRepetir(rl[m], m)'
  <2>1. CASE rl'[m] = Vacio
    BY <2>1, Contenido, Partes1, Cuantas, <1>1 DEF SinRepetir
  <2>2. CASE rl'[m] = rl[m]
    BY <1>4, <1>8, <1>11, <2>2 DEF SinRepetir
  <2>3. CASE rl'[m] = memHijo[h] /\ pcHijo[h] # "agregado"
    BY <1>4, <1>8, <1>10, <2>3 DEF SinRepetir
  <2>4. QED
    BY <1>5, <2>1, <2>2, <2>3
<1>15. QED
  BY <1>5, <1>6, <1>12, <1>13, <1>14 DEF EnOrden

LEMMA HijoSegunda ==
  ASSUME IInv, IInv2, NEW h \in Hijos, PasoHijo(h)
  PROVE  IInv2'
<1> DEFINE m == h[1]
<1>1. /\ m \in Masters /\ UNCHANGED <<tmp, salida, pcT, memT, pcRL, memRL>> /\ Creciente
      /\ \A g \in Hijos : pcHijo[g] \notin {"no", "pide"} => pcHijo'[g] \notin {"no", "pide"}
      /\ RondasAparte(m) /\ \A u \in Masters \ {m} : HijosAparte(u) /\ RondasAparte(u)
  BY CambiaHijo
<1>2. ASSUME m \notin cruces' \cup pisados', pcRL[m] = "fin" PROVE EnOrden(m)' /\ Resulta(m)'
  <2>1. EnOrden(m)'
    BY <1>2, AgregarSegunda, OrdenarSegunda DEF PasoHijo
  <2>2. Resulta(m)
    BY <1>1, <1>2 DEF IInv2, Juntos, Creciente
  <2>3. QED
    BY <1>1, <2>1, <2>2, ResultaAparte
<1>3. QED
  BY <1>1, <1>2, GlobalSegunda

-----------------------------------------------------------------------------
LEMMA InicioSegundo == Init => IInv2
<1> SUFFICES ASSUME Init PROVE IInv2
  OBVIOUS
<1>1. BloquesSeguros
  BY Partes1 DEF Init, BloquesSeguros, BloqueSeguro
<1>2. TransformacionPropia /\ Juntos
  BY DEF Init, TransformacionPropia, Juntos
<1>3. QED
  BY <1>1, <1>2 DEF IInv2

(* No step breaks the second invariant. *)
LEMMA InductivoSegundo == IInv /\ IInv2 /\ [Next]_vars => IInv2'
<1> SUFFICES ASSUME IInv, IInv2, [Next]_vars PROVE IInv2'
  OBVIOUS
<1>1. CASE UNCHANGED vars
  <2>1. UNCHANGED <<tmp, salida, rl, rg, pcT, memT, pcRL, memRL, pcRG, memRG, guardado, pcHijo,
                    memHijo, pisados, cruces>>
    BY <1>1 DEF vars, archivos, procT, procRL, procRG, procHijo, historia
  <2>2. \A m \in Masters : HijosAparte(m) /\ RondasAparte(m)
    BY <2>1 DEF HijosAparte, RondasAparte
  <2>3. BloquesSeguros' /\ TransformacionPropia'
    BY <2>1 DEF IInv2, BloquesSeguros, BloqueSeguro, TransformacionPropia
  <2>4. Juntos'
    BY <2>1, <2>2, JuntosAparte DEF IInv2, Juntos
  <2>5. QED
    BY <2>3, <2>4 DEF IInv2
<1>2. ASSUME NEW p \in Transformaciones, PasoT(p[1], p[2]) PROVE IInv2'
  BY <1>2, TransformacionSegunda, Partes3
<1>3. ASSUME NEW m \in Masters, PasoRL(m) PROVE IInv2'
  BY <1>3, ReducirLocalSegunda, FinReduccionLocalSegunda DEF PasoRL
<1>4. ASSUME NEW h \in Hijos, PasoHijo(h) PROVE IInv2'
  BY <1>4, HijoSegunda
<1>5. ASSUME NEW p \in Reducciones, PasoRG(p[1], p[2]) PROVE IInv2'
  BY <1>5, BifurcarSegunda, GlobalesSegunda, Partes3 DEF PasoRG, PasoResultado
<1>6. QED
  BY <1>1, <1>2, <1>3, <1>4, <1>5 DEF Next

LEMMA SiempreSegundo == Spec => []IInv2
BY Siempre, InicioSegundo, InductivoSegundo, PTL DEF Spec

(* The local reduction reads the master's own blocks and nothing else, unless *)
(* another master had a block of the same number half way meanwhile: whatever *)
(* earlier masters left in the files.                                        *)
THEOREM SiemprePropia == Spec => []TransformacionPropia
<1>1. IInv2 => TransformacionPropia
  BY DEF IInv2
<1>2. QED
  BY SiempreSegundo, <1>1, PTL

(* No order of the children and of the rounds makes the result hold a block  *)
(* twice, or the reduction of another node more often than the global one    *)
(* was asked for, unless two processes of the master met in a file or another *)
(* master worked on its blocks meanwhile.                                    *)
THEOREM NuncaDuplica == Spec => []SinDuplicados
<1>1. IInv /\ IInv2 => SinDuplicados
  <2> SUFFICES ASSUME IInv, IInv2, NEW m \in Masters, m \notin cruces \cup pisados
               PROVE  /\ \A b \in Bloques[m] : rg[m][<<m, b>>] <= 1
                      /\ \A n \in Otros[m] :
                           rg[m][<<m, n>>]
                             <= Cardinality({r \in Rondas[m] : pcRG[<<m, r>>] # "inicio"})
    BY DEF SinDuplicados
  <2>1. SinRepetir(rg[m], m)
    <3>1. CASE pcRL[m] = "fin"
      BY <3>1 DEF IInv2, Juntos, Resulta
    <3>2. CASE pcRL[m] # "fin"
      BY <3>2, VacioLimpio DEF IInv, Fases
    <3>3. QED
      BY <3>1, <3>2
  <2>2. ASSUME NEW n \in Otros[m]
        PROVE  rg[m][<<m, n>>]
                 <= Cardinality({r \in Rondas[m] : pcRG[<<m, r>>] # "inicio"})
    <3> DEFINE R == {r \in Rondas[m] : pcRG[<<m, r>>] # "inicio"}
    <3>1. Trajeron(m, n) \in SUBSET R
      <4> SUFFICES ASSUME NEW r \in Trajeron(m, n) PROVE pcRG[<<m, r>>] # "inicio"
        BY DEF Trajeron
      <4>1. <<m, r, n>> \in Hijos /\ pcHijo[<<m, r, n>>] # "no"
        BY Partes1 DEF Trajeron
      <4>2. QED
        BY <4>1 DEF IInv, Fases
    <3>2. IsFiniteSet(R)
      <4>1. IsFiniteSet(Rondas[m]) /\ R \in SUBSET Rondas[m]
        BY Partes
      <4>2. QED
        BY <4>1, FS_Subset
    <3>3. /\ Cardinality(Trajeron(m, n)) <= Cardinality(R)
          /\ Cardinality(R) \in Nat /\ Cardinality(Trajeron(m, n)) \in Nat
      BY <3>1, <3>2, FS_Subset, FS_CardinalityType, Cuantas
    <3>4. rg[m][<<m, n>>] \in Nat
      BY Partes1 DEF IInv, TypeOK, Contenidos
    <3>5. rg[m][<<m, n>>] <= Cardinality(Trajeron(m, n))
      BY <2>1 DEF SinRepetir
    <3>6. QED
      BY <3>3, <3>4, <3>5
  <2>3. QED
    BY <2>1, <2>2 DEF SinRepetir
<1>2. QED
  BY Siempre, SiempreSegundo, <1>1, PTL

(* A reduction that was answered well left a complete result, but for the    *)
(* time in which another round writes it anew, for any number of children    *)
(* and of rounds, unless two processes of the master met in a file or another *)
(* master worked on its blocks meanwhile.                                    *)
THEOREM SiempreCompleto == Spec => []CompletoSinCruces
<1>1. IInv /\ IInv2 => CompletoSinCruces
  <2> SUFFICES ASSUME IInv, IInv2, NEW m \in Masters, Terminada(m), Reescriben(m) = {},
                      m \notin cruces \cup pisados
               PROVE  Completo(rg[m], m)
    BY DEF CompletoSinCruces
  <2>1. pcRL[m] = "fin"
    BY Partes1 DEF Terminada, IInv, Fases
  <2>2. QED
    BY <2>1 DEF IInv2, Juntos, Resulta
<1>2. QED
  BY Siempre, SiempreSegundo, <1>1, PTL

(* What the final storage read is complete, for any number of children and   *)
(* of rounds, unless two processes of the master met in a file (a round that *)
(* writes and the final storage too) or another master worked on its blocks. *)
THEOREM SiempreEntero == Spec => []AlmacenadoEntero
<1>1. IInv /\ IInv2 => AlmacenadoEntero
  <2> SUFFICES ASSUME IInv, IInv2, NEW p \in Reducciones, pcRG[p] = "almacenado",
                      p[1] \notin cruces \cup pisados
               PROVE  Completo(guardado[p], p[1])
    BY DEF AlmacenadoEntero
  <2>1. p[1] \in Masters /\ p[2] \in Rondas[p[1]] /\ p = <<p[1], p[2]>>
    BY Partes3
  <2>2. pcRL[p[1]] = "fin"
    BY DEF IInv, Fases
  <2>3. Resulta(p[1])
    BY <2>1, <2>2 DEF IInv2, Juntos
  <2>4. QED
    BY <2>1, <2>3 DEF Resulta
<1>2. QED
  BY Siempre, SiempreSegundo, <1>1, PTL
=============================================================================
