----------------------- MODULE ExternalConstantProofs -----------------------
(***************************************************************************)
(* Proofs about ExternalConstant for any number of threads, models,         *)
(* directories, constants and mappings, and that it implements ConstantLoad.*)
(***************************************************************************)
EXTENDS ExternalConstant, TLAPS

LEMMA InitInv == Init => IInv
<1>. SUFFICES ASSUME Init PROVE IInv
  OBVIOUS
<1>1. TypeOK
  BY ExternalConstantAssumption DEF Init, TypeOK, PCs, Maps
<1>2. ModelInv /\ MapInv /\ DataInv /\ HandleInv /\ NothingLeaked
  BY DEF Init, ModelInv, MapInv, DataInv, HandleInv, NothingLeaked
<1>. QED BY <1>1, <1>2 DEF IInv

LEMMA OpenSessionKeeps == ASSUME IInv, NEW m \in Models, NEW q \in BOOLEAN, OpenSession(m, q) PROVE IInv'
<1> USE DEF OpenSession, Goto, processVars, globals, maps, locals, SetConstantPath
<1>1. TypeOK'
  BY ExternalConstantAssumption DEF IInv, TypeOK, PCs, Maps
<1>2. ModelInv'
  BY ExternalConstantAssumption DEF IInv, TypeOK, ModelInv
<1>3. MapInv'
  BY ExternalConstantAssumption DEF IInv, TypeOK, ModelInv, MapInv, Maps
<1>4. DataInv'
  BY DEF IInv, TypeOK, ModelInv, MapInv, DataInv
<1>5. HandleInv'
  BY DEF IInv, TypeOK, HandleInv
<1>6. NothingLeaked'
  BY DEF IInv, TypeOK, MapInv, HandleInv, NothingLeaked
<1>. QED BY <1>1, <1>2, <1>3, <1>4, <1>5, <1>6 DEF IInv

LEMMA CloseSessionKeeps == ASSUME IInv, NEW m \in Models, CloseSession(m) PROVE IInv'
<1> USE DEF CloseSession, Goto, processVars, globals, maps, locals
<1>1. TypeOK'
  <2>1. sessions' \in SUBSET Models
    BY ExternalConstantAssumption DEF IInv, TypeOK, PCs, Maps
  <2>2. left' \in SUBSET Maps
    <3>1. left' = left \cup ({constAddr[m]} \ {0})
      OBVIOUS
    <3>2. constAddr[m] # 0 => constAddr[m] \in Maps
      BY DEF IInv, TypeOK, MapInv
    <3>3. left \subseteq Maps
      BY DEF IInv, TypeOK
    <3> HIDE DEF CloseSession
    <3>. QED BY <3>1, <3>2, <3>3
  <2>3. constAddr' \in [Models -> 0..MaxMaps]
    BY ExternalConstantAssumption DEF IInv, TypeOK, PCs, Maps
  <2>4. data' \in [Models -> [1..NumConsts -> 0..MaxMaps]]
    BY ExternalConstantAssumption DEF IInv, TypeOK, PCs, Maps
  <2>. QED BY <2>1, <2>2, <2>3, <2>4 DEF IInv, TypeOK
<1>2. ModelInv'
  BY ExternalConstantAssumption DEF IInv, TypeOK, ModelInv
<1>3. MapInv'
  BY ExternalConstantAssumption DEF IInv, TypeOK, ModelInv, MapInv, Maps
<1>4. DataInv'
  BY DEF IInv, TypeOK, ModelInv, MapInv, DataInv
<1>5. HandleInv'
  BY DEF IInv, TypeOK, HandleInv
<1>6. NothingLeaked'
  BY DEF IInv, TypeOK, MapInv, HandleInv, NothingLeaked
<1>. QED BY <1>1, <1>2, <1>3, <1>4, <1>5, <1>6 DEF IInv

LEMMA CallModelKeeps == ASSUME IInv, NEW t \in Threads, NEW m \in Models, CallModel(t, m) PROVE IInv'
<1> USE DEF CallModel, Goto, processVars, globals, maps, locals
<1>1. TypeOK'
  BY ExternalConstantAssumption DEF IInv, TypeOK, PCs, Maps
<1>2. ModelInv'
  BY ExternalConstantAssumption DEF IInv, TypeOK, ModelInv
<1>3. MapInv'
  BY ExternalConstantAssumption DEF IInv, TypeOK, ModelInv, MapInv, Maps
<1>4. DataInv'
  BY DEF IInv, TypeOK, ModelInv, MapInv, DataInv
<1>5. HandleInv'
  BY DEF IInv, TypeOK, HandleInv
<1>6. NothingLeaked'
  BY DEF IInv, TypeOK, MapInv, HandleInv, NothingLeaked
<1>. QED BY <1>1, <1>2, <1>3, <1>4, <1>5, <1>6 DEF IInv

LEMMA ReturnFromModelKeeps == ASSUME IInv, NEW t \in Threads, ReturnFromModel(t) PROVE IInv'
<1> USE DEF ReturnFromModel, Goto, processVars, globals, maps, locals
<1>1. TypeOK'
  BY ExternalConstantAssumption DEF IInv, TypeOK, PCs, Maps
<1>2. ModelInv'
  BY ExternalConstantAssumption DEF IInv, TypeOK, ModelInv
<1>3. MapInv'
  BY ExternalConstantAssumption DEF IInv, TypeOK, ModelInv, MapInv, Maps
<1>4. DataInv'
  BY DEF IInv, TypeOK, ModelInv, MapInv, DataInv
<1>5. HandleInv'
  BY DEF IInv, TypeOK, HandleInv
<1>6. NothingLeaked'
  BY DEF IInv, TypeOK, MapInv, HandleInv, NothingLeaked
<1>. QED BY <1>1, <1>2, <1>3, <1>4, <1>5, <1>6 DEF IInv

LEMMA TestMappedKeeps == ASSUME IInv, NEW t \in Threads, TestMapped(t) PROVE IInv'
<1> USE DEF TestMapped, Goto, processVars, globals, maps, locals
<1>1. TypeOK'
  BY ExternalConstantAssumption DEF IInv, TypeOK, PCs, Maps
<1>2. ModelInv'
  BY ExternalConstantAssumption DEF IInv, TypeOK, ModelInv
<1>3. MapInv'
  BY ExternalConstantAssumption DEF IInv, TypeOK, ModelInv, MapInv, Maps
<1>4. DataInv'
  BY DEF IInv, TypeOK, ModelInv, MapInv, DataInv
<1>5. HandleInv'
  BY DEF IInv, TypeOK, HandleInv
<1>6. NothingLeaked'
  BY DEF IInv, TypeOK, MapInv, HandleInv, NothingLeaked
<1>. QED BY <1>1, <1>2, <1>3, <1>4, <1>5, <1>6 DEF IInv

LEMMA MakePathKeeps == ASSUME IInv, NEW t \in Threads, MakePath(t) PROVE IInv'
<1> USE DEF MakePath, Goto, processVars, globals, maps, locals
<1>a. data' = data /\ constAddr' = constAddr /\ mod' = mod /\ k' = k
  OBVIOUS
<1>b. pc'[t] \in {"open", "failed"} /\ \A u \in Threads : u # t => pc'[u] = pc[u]
  BY DEF IInv, TypeOK
<1>c. pc'[t] = "failed" => ~fd'[t] /\ ~heap'[t]
  BY DEF IInv, TypeOK, HandleInv
<1>d. \A u \in Threads : u # t => fd'[u] = fd[u] /\ heap'[u] = heap[u]
  BY DEF IInv, TypeOK
<1>1. TypeOK'
  BY ExternalConstantAssumption DEF IInv, TypeOK, PCs, Maps
<1>2. ModelInv'
  BY ExternalConstantAssumption DEF IInv, TypeOK, ModelInv
<1>3. MapInv'
  BY ExternalConstantAssumption DEF IInv, TypeOK, ModelInv, MapInv, Maps
<1>4. DataInv'
  <2>1. \A m \in Models : \A c \in 1..NumConsts : data'[m][c] \in {0, constAddr'[m]}
    BY DEF IInv, TypeOK, ModelInv, MapInv, DataInv
  <2>2. \A u \in Threads : pc'[u] \in {"path", "open", "mmap", "cas", "close"} =>
         k'[u] = 1
    BY DEF IInv, TypeOK, ModelInv, MapInv, DataInv
  <2>3. \A u \in Threads : pc'[u] = "store" => k'[u] <= NumConsts
    BY DEF IInv, TypeOK, ModelInv, MapInv, DataInv
  <2>4. \A u \in Threads : pc'[u] \in {"lookup", "store"} =>
         \A c \in 1..NumConsts : c < k'[u] => data'[mod'[u]][c] # 0
    <3> HIDE DEF MakePath
    <3>. QED BY <1>a, <1>b DEF IInv, DataInv
  <2>5. \A u \in Threads : pc'[u] = "running" =>
         \A c \in 1..NumConsts : data'[mod'[u]][c] # 0
    <3> HIDE DEF MakePath
    <3>. QED BY <1>a, <1>b DEF IInv, DataInv
  <2>. QED BY <2>1, <2>2, <2>3, <2>4, <2>5 DEF DataInv
<1>5. HandleInv'
  BY DEF IInv, TypeOK, HandleInv
<1>6. NothingLeaked'
  <2>1. \A u \in Threads : pc'[u] \in {"idle", "running", "failed"} =>
         ~fd'[u] /\ ~heap'[u]
    <3> HIDE DEF MakePath
    <3>. QED BY <1>b, <1>c, <1>d DEF IInv, NothingLeaked
  <2>2. \A a \in mapped' : \/ a \in left'
                        \/ \E m \in Models : constAddr'[m] = a
                        \/ \E u \in Threads : temp'[u] = a
    BY DEF IInv, TypeOK, MapInv, HandleInv, NothingLeaked
  <2>. QED BY <2>1, <2>2 DEF NothingLeaked
<1>. QED BY <1>1, <1>2, <1>3, <1>4, <1>5, <1>6 DEF IInv

LEMMA OpenFileKeeps == ASSUME IInv, NEW t \in Threads, OpenFile(t) PROVE IInv'
<1> USE DEF OpenFile, Goto, processVars, globals, maps, locals
<1>a. data' = data /\ constAddr' = constAddr /\ mod' = mod /\ k' = k
  OBVIOUS
<1>b. pc'[t] \in {"mmap", "failed"} /\ \A u \in Threads : u # t => pc'[u] = pc[u]
  BY DEF IInv, TypeOK
<1>c. pc'[t] = "failed" => ~fd'[t] /\ ~heap'[t]
  BY DEF IInv, TypeOK, HandleInv
<1>d. \A u \in Threads : u # t => fd'[u] = fd[u] /\ heap'[u] = heap[u]
  BY DEF IInv, TypeOK
<1>1. TypeOK'
  BY ExternalConstantAssumption DEF IInv, TypeOK, PCs, Maps
<1>2. ModelInv'
  BY ExternalConstantAssumption DEF IInv, TypeOK, ModelInv
<1>3. MapInv'
  BY ExternalConstantAssumption DEF IInv, TypeOK, ModelInv, MapInv, Maps
<1>4. DataInv'
  <2>1. \A m \in Models : \A c \in 1..NumConsts : data'[m][c] \in {0, constAddr'[m]}
    BY DEF IInv, TypeOK, ModelInv, MapInv, DataInv
  <2>2. \A u \in Threads : pc'[u] \in {"path", "open", "mmap", "cas", "close"} =>
         k'[u] = 1
    BY DEF IInv, TypeOK, ModelInv, MapInv, DataInv
  <2>3. \A u \in Threads : pc'[u] = "store" => k'[u] <= NumConsts
    BY DEF IInv, TypeOK, ModelInv, MapInv, DataInv
  <2>4. \A u \in Threads : pc'[u] \in {"lookup", "store"} =>
         \A c \in 1..NumConsts : c < k'[u] => data'[mod'[u]][c] # 0
    <3> HIDE DEF OpenFile
    <3>. QED BY <1>a, <1>b DEF IInv, DataInv
  <2>5. \A u \in Threads : pc'[u] = "running" =>
         \A c \in 1..NumConsts : data'[mod'[u]][c] # 0
    <3> HIDE DEF OpenFile
    <3>. QED BY <1>a, <1>b DEF IInv, DataInv
  <2>. QED BY <2>1, <2>2, <2>3, <2>4, <2>5 DEF DataInv
<1>5. HandleInv'
  BY DEF IInv, TypeOK, HandleInv
<1>6. NothingLeaked'
  <2>1. \A u \in Threads : pc'[u] \in {"idle", "running", "failed"} =>
         ~fd'[u] /\ ~heap'[u]
    <3> HIDE DEF OpenFile
    <3>. QED BY <1>b, <1>c, <1>d DEF IInv, NothingLeaked
  <2>2. \A a \in mapped' : \/ a \in left'
                        \/ \E m \in Models : constAddr'[m] = a
                        \/ \E u \in Threads : temp'[u] = a
    BY DEF IInv, TypeOK, MapInv, HandleInv, NothingLeaked
  <2>. QED BY <2>1, <2>2 DEF NothingLeaked
<1>. QED BY <1>1, <1>2, <1>3, <1>4, <1>5, <1>6 DEF IInv

LEMMA MMapFileKeeps == ASSUME IInv, NEW t \in Threads, MMapFile(t) PROVE IInv'
<1>a. /\ data' = data /\ constAddr' = constAddr /\ mod' = mod /\ k' = k
      /\ env' = env /\ sessions' = sessions /\ base' = base /\ left' = left
      /\ pc[t] = "mmap"
  BY DEF MMapFile, processVars, globals, maps
<1>b. /\ pc'[t] \in {"cas", "failed"} /\ \A u \in Threads : u # t => pc'[u] = pc[u]
      /\ pc' \in [Threads -> PCs]
  BY DEF MMapFile, Goto, IInv, TypeOK, PCs
<1>c. /\ pc'[t] = "failed" => ~fd'[t] /\ ~heap'[t]
      /\ \A u \in Threads : u # t => fd'[u] = fd[u] /\ heap'[u] = heap[u]
      /\ fd' \in [Threads -> BOOLEAN] /\ heap' \in [Threads -> BOOLEAN]
  BY DEF MMapFile, Goto, IInv, TypeOK
<1>1. ModelInv'
  BY <1>a, <1>b DEF IInv, TypeOK, ModelInv
<1>2. DataInv'
  BY <1>a, <1>b DEF IInv, DataInv
<1>3. HandleInv'
  BY <1>a, <1>b, <1>c DEF IInv, HandleInv
<1>4. ASSUME NEW a \in Maps, content[a] = NoModel,
             NEW m \in Models, content' = [content EXCEPT ![a] = m],
             mapped' = mapped \cup {a}, temp' = [temp EXCEPT ![t] = a],
             pc' = [pc EXCEPT ![t] = "cas"]
      PROVE  TypeOK' /\ MapInv' /\ NothingLeaked'
  <2>1. content' \in [Maps -> Models \cup {NoModel}] /\ content'[a] = m
    BY <1>4 DEF IInv, TypeOK
  <2>2. \A b \in Maps : b # a => content'[b] = content[b]
    BY <1>4 DEF IInv, TypeOK
  <2>3. temp' \in [Threads -> 0..MaxMaps] /\ temp'[t] = a /\ a # 0
    BY <1>4, ExternalConstantAssumption DEF IInv, TypeOK, Maps
  <2>4. \A u \in Threads : u # t => temp'[u] = temp[u]
    BY <1>4 DEF IInv, TypeOK
  <2>5. pc'[t] = "cas"
    BY <1>4 DEF IInv, TypeOK
  <2>6. a \notin mapped
    BY <1>4 DEF IInv, MapInv
  <2>7. TypeOK'
    BY <1>4, <1>a, <1>b, <1>c, <2>1, <2>3 DEF IInv, TypeOK
  <2>8. \A u \in Threads : temp[u] # 0 => temp[u] \in mapped /\ temp[u] # a
    BY <2>6 DEF IInv, MapInv
  <2>9. \A n \in Models : constAddr[n] # 0 => constAddr[n] \in mapped /\ constAddr[n] # a
    BY <2>6 DEF IInv, MapInv
  <2>10. MapInv'
    <3>1. \A b \in mapped' : content'[b] # NoModel
      BY <1>4, <2>1, <2>2, ExternalConstantAssumption DEF IInv, TypeOK, MapInv
    <3>2. \A n \in Models : constAddr'[n] # 0 => constAddr'[n] \in mapped'
      BY <1>4, <1>a, <2>9
    <3>3. \A u \in Threads : pc'[u] = "cas" <=> temp'[u] # 0
      BY <1>b, <2>3, <2>4, <2>5 DEF IInv, MapInv
    <3>4. \A u \in Threads : temp'[u] # 0 => temp'[u] \in mapped'
      BY <1>4, <2>3, <2>4, <2>8
    <3>5. \A u, v \in Threads : temp'[u] # 0 /\ temp'[u] = temp'[v] => u = v
      BY <2>3, <2>4, <2>8 DEF IInv, MapInv
    <3>6. \A u \in Threads, n \in Models : temp'[u] # 0 => temp'[u] # constAddr'[n]
      BY <1>a, <2>3, <2>4, <2>9 DEF IInv, MapInv
    <3>7. \A u \in Threads : pc'[u] \in {"close", "lookup", "store", "running"} =>
            constAddr'[mod'[u]] # 0
      BY <1>a, <1>b, <2>5 DEF IInv, MapInv
    <3>. QED BY <1>a, <3>1, <3>2, <3>3, <3>4, <3>5, <3>6, <3>7 DEF IInv, MapInv
  <2>11. NothingLeaked'
    <3>1. \A u \in Threads : pc'[u] \in {"idle", "running", "failed"} =>
            ~fd'[u] /\ ~heap'[u]
      BY <1>b, <1>c DEF IInv, NothingLeaked
    <3>2. \A b \in mapped' : \/ b \in left'
                             \/ \E n \in Models : constAddr'[n] = b
                             \/ \E u \in Threads : temp'[u] = b
      <4>. SUFFICES ASSUME NEW b \in mapped', b \notin left',
                           \A n \in Models : constAddr'[n] # b
                    PROVE  \E u \in Threads : temp'[u] = b
        OBVIOUS
      <4>1. CASE b = a
        BY <4>1, <2>3
      <4>2. CASE b # a
        <5>1. PICK u \in Threads : temp[u] = b
          BY <4>2, <1>4, <1>a DEF IInv, NothingLeaked
        <5>2. temp[t] = 0
          BY <1>a DEF IInv, TypeOK, MapInv
        <5>3. b # 0
          BY <4>2, <1>4, ExternalConstantAssumption DEF IInv, TypeOK, Maps
        <5>. QED BY <5>1, <5>2, <5>3, <2>4
      <4>. QED BY <4>1, <4>2
    <3>. QED BY <3>1, <3>2 DEF NothingLeaked
  <2>. QED BY <2>7, <2>10, <2>11
<1>5. ASSUME mapped' = mapped, content' = content, temp' = temp,
             pc' = [pc EXCEPT ![t] = "failed"]
      PROVE  TypeOK' /\ MapInv' /\ NothingLeaked'
  <2>1. pc'[t] = "failed"
    BY <1>5 DEF IInv, TypeOK
  <2>2. TypeOK'
    BY <1>5, <1>a, <1>b, <1>c DEF IInv, TypeOK
  <2>3. MapInv'
    BY <1>5, <1>a, <1>b, <2>1 DEF IInv, MapInv
  <2>4. NothingLeaked'
    BY <1>5, <1>a, <1>b, <1>c DEF IInv, NothingLeaked
  <2>. QED BY <2>2, <2>3, <2>4
<1>6. TypeOK' /\ MapInv' /\ NothingLeaked'
  BY <1>4, <1>5 DEF MMapFile, Goto, maps, Found
<1>. QED BY <1>1, <1>2, <1>3, <1>6 DEF IInv

LEMMA PublishKeeps == ASSUME IInv, NEW t \in Threads, Publish(t) PROVE IInv'
<1>a. /\ data' = data /\ content' = content /\ mod' = mod /\ k' = k /\ left' = left
      /\ env' = env /\ sessions' = sessions /\ base' = base /\ fd' = fd /\ heap' = heap
      /\ pc[t] = "cas"
  BY DEF Publish, processVars
<1>b. /\ pc' = [pc EXCEPT ![t] = "close"] /\ pc'[t] = "close"
      /\ \A u \in Threads : u # t => pc'[u] = pc[u]
      /\ pc' \in [Threads -> PCs]
  BY DEF Publish, Goto, IInv, TypeOK, PCs
<1>c. /\ temp'[t] = 0 /\ \A u \in Threads : u # t => temp'[u] = temp[u]
      /\ temp' \in [Threads -> 0..MaxMaps]
  BY ExternalConstantAssumption DEF Publish, IInv, TypeOK
<1>d. temp[t] # 0 /\ temp[t] \in mapped /\ temp[t] \in 0..MaxMaps
  BY <1>a DEF IInv, TypeOK, MapInv
<1>e. mod[t] \in Models
  BY <1>a DEF IInv, TypeOK, ModelInv
<1>1. ModelInv'
  BY <1>a, <1>b DEF IInv, ModelInv
<1>2. HandleInv'
  BY <1>a, <1>b DEF IInv, HandleInv
<1>3. CASE constAddr[mod[t]] = 0
  <2>1. /\ constAddr' = [constAddr EXCEPT ![mod[t]] = temp[t]] /\ mapped' = mapped
    BY <1>3 DEF Publish
  <2>2. /\ constAddr' \in [Models -> 0..MaxMaps] /\ constAddr'[mod[t]] = temp[t]
        /\ \A n \in Models : n # mod[t] => constAddr'[n] = constAddr[n]
    BY <2>1, <1>d, <1>e DEF IInv, TypeOK
  <2>3. TypeOK'
    BY <2>1, <2>2, <1>a, <1>b, <1>c DEF IInv, TypeOK
  <2>4. MapInv'
    <3>1. \A n \in Models : constAddr'[n] # 0 => constAddr'[n] \in mapped'
      BY <2>1, <2>2, <1>d DEF IInv, MapInv
    <3>2. \A m, n \in Models : constAddr'[m] # 0 /\ constAddr'[m] = constAddr'[n] => m = n
      BY <2>2, <1>d DEF IInv, MapInv
    <3>3. \A u \in Threads : /\ pc'[u] = "cas" <=> temp'[u] # 0
                             /\ temp'[u] # 0 => temp'[u] \in mapped'
      BY <2>1, <1>b, <1>c DEF IInv, MapInv
    <3>4. \A u, v \in Threads : temp'[u] # 0 /\ temp'[u] = temp'[v] => u = v
      BY <1>c DEF IInv, MapInv
    <3>5. \A u \in Threads, n \in Models : temp'[u] # 0 => temp'[u] # constAddr'[n]
      BY <1>c, <1>d, <2>2 DEF IInv, MapInv
    <3>6. \A u \in Threads : pc'[u] \in {"close", "lookup", "store", "running"} =>
            constAddr'[mod'[u]] # 0
      <4>. SUFFICES ASSUME NEW u \in Threads,
                           pc'[u] \in {"close", "lookup", "store", "running"}
                    PROVE  constAddr'[mod[u]] # 0
        BY <1>a
      <4>1. mod[u] \in Models
        BY <1>a, <1>b DEF IInv, TypeOK, ModelInv
      <4>. QED BY <4>1, <1>b, <1>d, <1>e, <2>2 DEF IInv, MapInv
    <3>. QED BY <1>a, <2>1, <3>1, <3>2, <3>3, <3>4, <3>5, <3>6 DEF IInv, MapInv
  <2>5. DataInv'
    <3>1. \A m \in Models : \A c \in 1..NumConsts : data'[m][c] \in {0, constAddr'[m]}
      BY <1>3, <1>a, <2>2 DEF IInv, DataInv
    <3>. QED BY <3>1, <1>a, <1>b DEF IInv, DataInv
  <2>6. NothingLeaked'
    <3>1. \A b \in mapped' : \/ b \in left'
                             \/ \E n \in Models : constAddr'[n] = b
                             \/ \E u \in Threads : temp'[u] = b
      <4>. SUFFICES ASSUME NEW b \in mapped, b \notin left,
                           \A u \in Threads : temp'[u] # b
                    PROVE  \E n \in Models : constAddr'[n] = b
        BY <1>a, <2>1
      <4>1. CASE b = temp[t]
        BY <4>1, <1>e, <2>2
      <4>2. CASE b # temp[t]
        <5>1. PICK n \in Models : constAddr[n] = b
          BY <4>2, <1>c DEF IInv, NothingLeaked
        <5>2. b # 0
          BY ExternalConstantAssumption DEF IInv, TypeOK, Maps
        <5>. QED BY <5>1, <5>2, <1>3, <2>2
      <4>. QED BY <4>1, <4>2
    <3>. QED BY <3>1, <1>a, <1>b DEF IInv, NothingLeaked
  <2>. QED BY <1>1, <1>2, <2>3, <2>4, <2>5, <2>6 DEF IInv
<1>4. CASE constAddr[mod[t]] # 0
  <2>1. constAddr' = constAddr /\ mapped' = mapped \ {temp[t]}
    BY <1>4 DEF Publish
  <2>2. TypeOK'
    BY <2>1, <1>a, <1>b, <1>c DEF IInv, TypeOK
  <2>3. MapInv'
    <3>1. \A n \in Models : constAddr'[n] # 0 => constAddr'[n] \in mapped'
      BY <2>1, <1>d DEF IInv, MapInv
    <3>2. \A u \in Threads : pc'[u] = "cas" <=> temp'[u] # 0
      BY <1>b, <1>c DEF IInv, MapInv
    <3>3. \A u \in Threads : temp'[u] # 0 => temp'[u] \in mapped'
      BY <2>1, <1>c, <1>d DEF IInv, MapInv
    <3>4. \A u, v \in Threads : temp'[u] # 0 /\ temp'[u] = temp'[v] => u = v
      BY <1>c DEF IInv, MapInv
    <3>5. \A u \in Threads, n \in Models : temp'[u] # 0 => temp'[u] # constAddr'[n]
      BY <1>c, <2>1 DEF IInv, MapInv
    <3>6. \A u \in Threads : pc'[u] \in {"close", "lookup", "store", "running"} =>
            constAddr'[mod'[u]] # 0
      BY <1>4, <1>a, <1>b, <2>1 DEF IInv, MapInv
    <3>. QED BY <1>a, <2>1, <3>1, <3>2, <3>3, <3>4, <3>5, <3>6 DEF IInv, MapInv
  <2>4. DataInv'
    BY <1>a, <1>b, <2>1 DEF IInv, DataInv
  <2>5. NothingLeaked'
    <3>1. \A b \in mapped' : \/ b \in left'
                             \/ \E n \in Models : constAddr'[n] = b
                             \/ \E u \in Threads : temp'[u] = b
      BY <1>a, <1>c, <2>1 DEF IInv, NothingLeaked
    <3>. QED BY <3>1, <1>a, <1>b DEF IInv, NothingLeaked
  <2>. QED BY <1>1, <1>2, <2>2, <2>3, <2>4, <2>5 DEF IInv
<1>. QED BY <1>3, <1>4

LEMMA CloseFileKeeps == ASSUME IInv, NEW t \in Threads, CloseFile(t) PROVE IInv'
<1> USE DEF CloseFile, Goto, processVars, globals, maps, locals
<1>1. TypeOK'
  BY ExternalConstantAssumption DEF IInv, TypeOK, PCs, Maps
<1>2. ModelInv'
  BY ExternalConstantAssumption DEF IInv, TypeOK, ModelInv
<1>3. MapInv'
  BY ExternalConstantAssumption DEF IInv, TypeOK, ModelInv, MapInv, Maps
<1>4. DataInv'
  BY DEF IInv, TypeOK, ModelInv, MapInv, DataInv
<1>5. HandleInv'
  BY DEF IInv, TypeOK, HandleInv
<1>6. NothingLeaked'
  BY DEF IInv, TypeOK, MapInv, HandleInv, NothingLeaked
<1>. QED BY <1>1, <1>2, <1>3, <1>4, <1>5, <1>6 DEF IInv

LEMMA LookupKeeps == ASSUME IInv, NEW t \in Threads, Lookup(t) PROVE IInv'
<1> USE DEF Lookup, Goto, processVars, globals, maps, locals
<1>a. /\ data' = data /\ constAddr' = constAddr /\ mod' = mod /\ pc[t] = "lookup"
      /\ mod[t] \in Models /\ k[t] \in 1..(NumConsts + 1) /\ NumConsts \in Nat
  BY ExternalConstantAssumption DEF IInv, TypeOK, ModelInv
<1>b. \A u \in Threads : u # t => pc'[u] = pc[u] /\ k'[u] = k[u]
  BY DEF IInv, TypeOK
<1>c. \/ k[t] > NumConsts /\ pc'[t] = "running"
      \/ k[t] <= NumConsts /\ data[mod[t]][k[t]] # 0 /\ pc'[t] = "lookup" /\ k'[t] = k[t] + 1
      \/ k[t] <= NumConsts /\ pc'[t] = "store" /\ k'[t] = k[t]
  BY <1>a DEF IInv, TypeOK
<1>1. TypeOK'
  <2>1. pc' \in [Threads -> PCs]
    <3>1. \/ pc' = pc
          \/ \E l \in {"running", "store"} : pc' = [pc EXCEPT ![t] = l]
      OBVIOUS
    <3> HIDE DEF Lookup
    <3>. QED BY <3>1 DEF IInv, TypeOK, PCs
  <2>2. k' \in [Threads -> 1..(NumConsts + 1)]
    <3>1. k[t] \in 1..(NumConsts + 1) /\ NumConsts \in Nat
      BY ExternalConstantAssumption DEF IInv, TypeOK
    <3>2. k' = k \/ (k' = [k EXCEPT ![t] = k[t] + 1] /\ k[t] + 1 \in 1..(NumConsts + 1))
      BY <3>1 DEF IInv, DataInv
    <3>. QED BY <3>1, <3>2 DEF IInv, TypeOK
  <2>. QED BY <2>1, <2>2 DEF IInv, TypeOK
<1>2. ModelInv'
  BY ExternalConstantAssumption DEF IInv, TypeOK, ModelInv
<1>3. MapInv'
  BY ExternalConstantAssumption DEF IInv, TypeOK, ModelInv, MapInv, Maps
<1>4. DataInv'
  <2>1. \A m \in Models : \A c \in 1..NumConsts : data'[m][c] \in {0, constAddr'[m]}
    BY DEF IInv, TypeOK, ModelInv, MapInv, DataInv
  <2>2. \A u \in Threads : pc'[u] \in {"path", "open", "mmap", "cas", "close"} =>
         k'[u] = 1
    BY DEF IInv, TypeOK, ModelInv, MapInv, DataInv
  <2>3. \A u \in Threads : pc'[u] = "store" => k'[u] <= NumConsts
    <3> HIDE DEF Lookup
    <3>. QED BY <1>a, <1>b, <1>c DEF IInv, DataInv
  <2>4. \A u \in Threads : pc'[u] \in {"lookup", "store"} =>
         \A c \in 1..NumConsts : c < k'[u] => data'[mod'[u]][c] # 0
    <3> HIDE DEF Lookup
    <3>. QED BY <1>a, <1>b, <1>c DEF IInv, DataInv
  <2>5. \A u \in Threads : pc'[u] = "running" =>
         \A c \in 1..NumConsts : data'[mod'[u]][c] # 0
    <3> HIDE DEF Lookup
    <3>. QED BY <1>a, <1>b, <1>c DEF IInv, DataInv
  <2>. QED BY <2>1, <2>2, <2>3, <2>4, <2>5 DEF DataInv
<1>5. HandleInv'
  BY DEF IInv, TypeOK, HandleInv
<1>6. NothingLeaked'
  BY DEF IInv, TypeOK, MapInv, HandleInv, NothingLeaked
<1>. QED BY <1>1, <1>2, <1>3, <1>4, <1>5, <1>6 DEF IInv

LEMMA StoreKeeps == ASSUME IInv, NEW t \in Threads, Store(t) PROVE IInv'
<1> USE DEF Store, Goto, processVars, globals, maps, locals
<1>a. /\ constAddr' = constAddr /\ mod' = mod /\ pc[t] = "store"
      /\ mod[t] \in Models /\ k[t] \in 1..NumConsts /\ NumConsts \in Nat
      /\ constAddr[mod[t]] # 0
  BY ExternalConstantAssumption DEF IInv, TypeOK, ModelInv, MapInv, DataInv
<1>b. \A u \in Threads : u # t => pc'[u] = pc[u] /\ k'[u] = k[u]
  BY DEF IInv, TypeOK
<1>c. pc'[t] = "lookup" /\ k'[t] = k[t] + 1
  BY <1>a DEF IInv, TypeOK
<1>d. \A m \in Models : \A c \in 1..NumConsts :
        data'[m][c] = IF m = mod[t] /\ c = k[t] THEN constAddr[m] ELSE data[m][c]
  BY <1>a DEF IInv, TypeOK
<1>1. TypeOK'
  <2>1. data' \in [Models -> [1..NumConsts -> 0..MaxMaps]]
    BY ExternalConstantAssumption DEF IInv, TypeOK, PCs, Maps
  <2>2. k' \in [Threads -> 1..(NumConsts + 1)]
    <3>1. k[t] \in 1..(NumConsts + 1) /\ NumConsts \in Nat
      BY ExternalConstantAssumption DEF IInv, TypeOK
    <3>2. k' = [k EXCEPT ![t] = k[t] + 1] /\ k[t] + 1 \in 1..(NumConsts + 1)
      BY <3>1 DEF IInv, DataInv
    <3>. QED BY <3>1, <3>2 DEF IInv, TypeOK
  <2>3. pc' \in [Threads -> PCs]
    BY ExternalConstantAssumption DEF IInv, TypeOK, PCs, Maps
  <2>. QED BY <2>1, <2>2, <2>3 DEF IInv, TypeOK
<1>2. ModelInv'
  BY ExternalConstantAssumption DEF IInv, TypeOK, ModelInv
<1>3. MapInv'
  BY ExternalConstantAssumption DEF IInv, TypeOK, ModelInv, MapInv, Maps
<1>4. DataInv'
  <2>1. \A m \in Models : \A c \in 1..NumConsts : data'[m][c] \in {0, constAddr'[m]}
    BY DEF IInv, TypeOK, ModelInv, MapInv, DataInv
  <2>2. \A u \in Threads : pc'[u] \in {"path", "open", "mmap", "cas", "close"} =>
         k'[u] = 1
    BY DEF IInv, TypeOK, ModelInv, MapInv, DataInv
  <2>3. \A u \in Threads : pc'[u] = "store" => k'[u] <= NumConsts
    BY DEF IInv, TypeOK, ModelInv, MapInv, DataInv
  <2>4. \A u \in Threads : pc'[u] \in {"lookup", "store"} =>
         \A c \in 1..NumConsts : c < k'[u] => data'[mod'[u]][c] # 0
    <3> HIDE DEF Store
    <3>. SUFFICES ASSUME NEW u \in Threads, pc'[u] \in {"lookup", "store"},
                         NEW c \in 1..NumConsts, c < k'[u]
                  PROVE  data'[mod[u]][c] # 0
      BY <1>a
    <3>1. mod[u] \in Models
      BY <1>a, <1>b DEF IInv, TypeOK, ModelInv
    <3>2. CASE u = t
      BY <3>1, <3>2, <1>a, <1>c, <1>d DEF IInv, DataInv
    <3>3. CASE u # t
      BY <3>1, <3>3, <1>a, <1>b, <1>d DEF IInv, DataInv
    <3>. QED BY <3>2, <3>3
  <2>5. \A u \in Threads : pc'[u] = "running" =>
         \A c \in 1..NumConsts : data'[mod'[u]][c] # 0
    BY DEF IInv, TypeOK, ModelInv, MapInv, DataInv
  <2>. QED BY <2>1, <2>2, <2>3, <2>4, <2>5 DEF DataInv
<1>5. HandleInv'
  BY DEF IInv, TypeOK, HandleInv
<1>6. NothingLeaked'
  BY DEF IInv, TypeOK, MapInv, HandleInv, NothingLeaked
<1>. QED BY <1>1, <1>2, <1>3, <1>4, <1>5, <1>6 DEF IInv

LEMMA NextKeeps == IInv /\ [Next]_vars => IInv'
<1>. SUFFICES ASSUME IInv, [Next]_vars PROVE IInv'
  OBVIOUS
<1>1. ASSUME NEW m \in Models, NEW q \in BOOLEAN, OpenSession(m, q) PROVE IInv'
  BY <1>1, OpenSessionKeeps
<1>2. ASSUME NEW m \in Models, CloseSession(m) PROVE IInv'
  BY <1>2, CloseSessionKeeps
<1>3. ASSUME NEW t \in Threads, ThreadStep(t) PROVE IInv'
  BY <1>3, CallModelKeeps, ReturnFromModelKeeps, TestMappedKeeps, MakePathKeeps,
     OpenFileKeeps, MMapFileKeeps, PublishKeeps, CloseFileKeeps, LookupKeeps,
     StoreKeeps DEF ThreadStep, LoadStep
<1>4. CASE UNCHANGED vars
  BY <1>4 DEF vars, IInv, TypeOK, ModelInv, MapInv, DataInv, HandleInv, NothingLeaked
<1>. QED BY <1>1, <1>2, <1>3, <1>4 DEF Next

LEMMA Invariance == Spec => []IInv
BY InitInv, NextKeeps, PTL DEF Spec

-----------------------------------------------------------------------------
(* Safety of the loader                                                      *)

(* Every variable keeps its type, whatever the interleaving of the loads.    *)
THEOREM TypeCorrect == Spec => []TypeOK
<1>1. IInv => TypeOK
  BY DEF IInv
<1>. QED BY <1>1, Invariance, PTL

(* omLoadConstantsFromFile: a thread that runs the graph finds every         *)
(* constant pointing into the one mapping published by the compare-and-swap. *)
THEOREM AlwaysReady == Spec => []ConstantsReady
<1>1. IInv => ConstantsReady
  <2>. SUFFICES ASSUME IInv, NEW t \in Threads, pc[t] = "running"
                PROVE  /\ constAddr[mod[t]] \in mapped
                       /\ \A c \in 1..NumConsts : data[mod[t]][c] = constAddr[mod[t]]
    BY DEF ConstantsReady
  <2>1. mod[t] \in Models
    BY DEF IInv, TypeOK, ModelInv
  <2>2. constAddr[mod[t]] # 0
    BY DEF IInv, MapInv
  <2>3. constAddr[mod[t]] \in mapped
    BY <2>1, <2>2 DEF IInv, MapInv
  <2>4. ASSUME NEW c \in 1..NumConsts PROVE data[mod[t]][c] = constAddr[mod[t]]
    BY <2>1, <2>4 DEF IInv, DataInv
  <2>. QED BY <2>3, <2>4
<1>. QED BY <1>1, Invariance, PTL

(* omMMapBinaryFile: no race and no error path leaks a mapping, a descriptor *)
(* or a path buffer.                                                         *)
THEOREM NeverLeaks == Spec => []NothingLeaked
<1>1. IInv => NothingLeaked
  BY DEF IInv
<1>. QED BY <1>1, Invariance, PTL

(* omMMapBinaryFile: while the library is open, a published mapping is       *)
(* neither replaced nor unmapped.                                            *)
THEOREM PublishedStays == Spec => PublishedIsStable
<1>. DEFINE Stays == \A m \in Models : constAddr[m] # 0 /\ m \in sessions' =>
                       constAddr'[m] = constAddr[m] /\ constAddr[m] \in mapped'
<1>1. IInv /\ [Next]_vars => Stays
  <2>. SUFFICES ASSUME IInv, [Next]_vars, NEW m \in Models, constAddr[m] # 0, m \in sessions'
                PROVE  constAddr'[m] = constAddr[m] /\ constAddr[m] \in mapped'
    OBVIOUS
  <2>1. constAddr[m] \in mapped
    BY DEF IInv, MapInv
  <2>2. CASE UNCHANGED <<constAddr, mapped>>
    BY <2>1, <2>2
  <2>3. ASSUME NEW n \in Models, CloseSession(n) PROVE constAddr'[m] = constAddr[m] /\ mapped' = mapped
    BY <2>3 DEF CloseSession, IInv, TypeOK
  <2>4. ASSUME NEW t \in Threads, MMapFile(t) PROVE constAddr'[m] = constAddr[m] /\ mapped \subseteq mapped'
    BY <2>4 DEF MMapFile, globals, maps
  <2>5. ASSUME NEW t \in Threads, Publish(t)
        PROVE  constAddr'[m] = constAddr[m] /\ constAddr[m] \in mapped'
    <3>1. temp[t] # 0 /\ temp[t] # constAddr[m]
      BY <2>5 DEF Publish, IInv, MapInv
    <3>2. constAddr'[m] = constAddr[m]
      BY <2>5 DEF Publish, IInv, TypeOK
    <3>. QED BY <2>1, <2>5, <3>1, <3>2 DEF Publish
  <2>6. \/ UNCHANGED <<constAddr, mapped>>
        \/ \E n \in Models : CloseSession(n)
        \/ \E t \in Threads : MMapFile(t) \/ Publish(t)
    BY DEF Next, ThreadStep, LoadStep, OpenSession, CallModel, ReturnFromModel,
       TestMapped, MakePath, OpenFile, CloseFile, Lookup, Store, globals, maps, vars
  <2>. QED BY <2>1, <2>2, <2>3, <2>4, <2>5, <2>6
<1>2. Stays => [Stays]_vars
  OBVIOUS
<1>3. IInv /\ [Next]_vars => [Stays]_vars
  BY <1>1
<1>4. Spec => [][Stays]_vars
  BY <1>3, Invariance, PTL DEF Spec
<1>. QED BY <1>4 DEF PublishedIsStable

-----------------------------------------------------------------------------
(* With a file name of its own a model never maps another model's file.      *)

LEMMA OwnInit == Init => OwnInv
BY DEF Init, OwnInv

LEMMA OwnKept == ASSUME DistinctFileNames, IInv, OwnInv, [Next]_vars PROVE OwnInv'
<1>1. ASSUME NEW t \in Threads, CallModel(t, mod'[t]) \/ ReturnFromModel(t),
             mod' = [mod EXCEPT ![t] = mod'[t]],
             UNCHANGED <<temp, constAddr, content>>
      PROVE  OwnInv'
  <2>1. temp[t] = 0
    BY <1>1 DEF IInv, MapInv, CallModel, ReturnFromModel
  <2>2. \A u \in Threads : u # t => mod'[u] = mod[u]
    BY <1>1 DEF IInv, TypeOK
  <2>. QED BY <1>1, <2>1, <2>2 DEF OwnInv
<1>2. ASSUME NEW t \in Threads, NEW m \in Models, CallModel(t, m) PROVE OwnInv'
  <2>1. mod' = [mod EXCEPT ![t] = m] /\ mod'[t] = m
    BY <1>2 DEF CallModel, IInv, TypeOK
  <2>2. UNCHANGED <<temp, constAddr, content>>
    BY <1>2 DEF CallModel, locals, globals, maps
  <2>. QED BY <1>1, <1>2, <2>1, <2>2
<1>3. ASSUME NEW t \in Threads, ReturnFromModel(t) PROVE OwnInv'
  <2>1. mod' = [mod EXCEPT ![t] = NoModel] /\ mod'[t] = NoModel
    BY <1>3 DEF ReturnFromModel, IInv, TypeOK
  <2>2. UNCHANGED <<temp, constAddr, content>>
    BY <1>3 DEF ReturnFromModel, locals, globals, maps
  <2>. QED BY <1>1, <1>3, <2>1, <2>2
<1>4. ASSUME NEW m \in Models, CloseSession(m) PROVE OwnInv'
  <2>1. \A n \in Models : constAddr'[n] \in {0, constAddr[n]}
    BY <1>4 DEF CloseSession, IInv, TypeOK
  <2>2. UNCHANGED <<temp, content, mod>>
    BY <1>4 DEF CloseSession, locals
  <2>. QED BY <2>1, <2>2 DEF OwnInv
<1>5. ASSUME NEW t \in Threads, MMapFile(t) PROVE OwnInv'
  <2>1. UNCHANGED <<mod, constAddr>>
    BY <1>5 DEF MMapFile, globals
  <2>2. CASE UNCHANGED <<content, temp>>
    BY <2>1, <2>2 DEF OwnInv
  <2>3. ASSUME NEW a \in Maps, content[a] = NoModel, NEW m \in Found(t),
               content' = [content EXCEPT ![a] = m], temp' = [temp EXCEPT ![t] = a]
        PROVE  OwnInv'
    <3>1. mod[t] \in Models
      BY <1>5 DEF MMapFile, IInv, TypeOK, ModelInv
    <3>2. m = mod[t]
      BY <2>3, <3>1 DEF Found, DistinctFileNames
    <3>3. content'[a] = mod[t] /\ \A b \in Maps : b # a => content'[b] = content[b]
      BY <2>3, <3>2 DEF IInv, TypeOK
    <3>4. temp'[t] = a /\ \A u \in Threads : u # t => temp'[u] = temp[u]
      BY <2>3 DEF IInv, TypeOK
    <3>5. \A b \in mapped : b \in Maps /\ b # a
      BY <2>3 DEF IInv, TypeOK, MapInv
    <3>6. ASSUME NEW u \in Threads, temp'[u] # 0 PROVE content'[temp'[u]] = mod[u]
      <4>1. CASE u = t
        BY <4>1, <3>3, <3>4
      <4>2. CASE u # t
        BY <4>2, <3>3, <3>4, <3>5, <3>6 DEF IInv, MapInv, OwnInv
      <4>. QED BY <4>1, <4>2
    <3>7. ASSUME NEW n \in Models, constAddr[n] # 0 PROVE content'[constAddr[n]] = n
      BY <3>3, <3>5, <3>7 DEF IInv, MapInv, OwnInv
    <3>. QED BY <2>1, <3>6, <3>7 DEF OwnInv
  <2>. QED BY <1>5, <2>2, <2>3 DEF MMapFile, maps
<1>6. ASSUME NEW t \in Threads, Publish(t) PROVE OwnInv'
  <2>1. UNCHANGED <<mod, content>> /\ temp' = [temp EXCEPT ![t] = 0] /\ temp[t] # 0
    BY <1>6 DEF Publish, IInv, MapInv
  <2>2. mod[t] \in Models
    BY <1>6 DEF Publish, IInv, TypeOK, ModelInv
  <2>3. \A u \in Threads : temp'[u] \in {0, temp[u]}
    BY <2>1 DEF IInv, TypeOK
  <2>4. \A n \in Models : \/ constAddr'[n] = constAddr[n]
                          \/ n = mod[t] /\ constAddr'[n] = temp[t]
    BY <1>6, <2>2 DEF Publish, IInv, TypeOK
  <2>. QED BY <2>1, <2>3, <2>4 DEF OwnInv
<1>7. CASE UNCHANGED <<temp, constAddr, content, mod>>
  BY <1>7 DEF OwnInv
<1>8. \/ UNCHANGED <<temp, constAddr, content, mod>>
      \/ \E m \in Models : CloseSession(m)
      \/ \E t \in Threads : \/ \E m \in Models : CallModel(t, m)
                            \/ ReturnFromModel(t) \/ MMapFile(t) \/ Publish(t)
  BY DEF Next, ThreadStep, LoadStep, OpenSession, TestMapped, MakePath, OpenFile,
     CloseFile, Lookup, Store, globals, maps, locals, vars
<1>. QED BY <1>2, <1>3, <1>4, <1>5, <1>6, <1>7, <1>8

(* A model whose constants file has a name of its own runs with the          *)
(* constants of its own file, whatever directory OM_CONSTANT_PATH names.     *)
THEOREM OwnWithDistinctNames == ASSUME DistinctFileNames PROVE Spec => []OwnConstants
<1>1. IInv /\ OwnInv => OwnConstants
  <2>. SUFFICES ASSUME IInv, OwnInv, NEW t \in Threads, pc[t] = "running"
                PROVE  content[constAddr[mod[t]]] = mod[t]
    BY DEF OwnConstants
  <2>1. mod[t] \in Models /\ constAddr[mod[t]] # 0
    BY DEF IInv, TypeOK, ModelInv, MapInv
  <2>. QED BY <2>1 DEF OwnInv
<1>2. IInv /\ OwnInv /\ [Next]_vars => OwnInv'
  BY OwnKept
<1>. QED BY <1>1, <1>2, OwnInit, Invariance, PTL DEF Spec

-----------------------------------------------------------------------------
(* The refinement                                                            *)

LEMMA AbstractInit == Init => Abstract!Init
BY DEF Init, Abstract!Init, StatusOf

(* A step that changes one program counter changes one abstract status.      *)
LEMMA StatusChange ==
  ASSUME IInv, NEW t \in Threads, NEW l, pc' = [pc EXCEPT ![t] = l]
  PROVE  /\ [u \in Threads |-> StatusOf(u)]' =
              [[u \in Threads |-> StatusOf(u)] EXCEPT
                 ![t] = IF l \in {"idle", "running", "failed"} THEN l ELSE "loading"]
<1>1. pc' \in [Threads -> PCs \cup {l}] /\ pc'[t] = l
  BY DEF IInv, TypeOK
<1>2. \A u \in Threads : u # t => pc'[u] = pc[u]
  BY DEF IInv, TypeOK
<1>. QED BY <1>1, <1>2 DEF StatusOf

LEMMA AbstractStep == IInv /\ [Next]_vars => [Abstract!Next]_(Abstract!vars)
<1>. DEFINE status == [t \in Threads |-> StatusOf(t)]
<1>. SUFFICES ASSUME IInv, [Next]_vars
              PROVE  Abstract!Next \/ UNCHANGED <<constAddr, status, mod>>
  BY DEF Abstract!vars
<1>1. ASSUME NEW t \in Threads, NEW m \in Models, CallModel(t, m) PROVE Abstract!Call(t, m)
  <2>1. status' = [status EXCEPT ![t] = "loading"]
    BY <1>1, StatusChange DEF CallModel, Goto
  <2>2. status[t] = "idle"
    BY <1>1 DEF CallModel, StatusOf
  <2>. QED BY <1>1, <2>1, <2>2 DEF CallModel, Abstract!Call, globals
<1>2. ASSUME NEW t \in Threads, ReturnFromModel(t) PROVE Abstract!Return(t)
  <2>1. status' = [status EXCEPT ![t] = "idle"]
    BY <1>2, StatusChange DEF ReturnFromModel, Goto
  <2>2. status[t] \in {"running", "failed"}
    BY <1>2 DEF ReturnFromModel, StatusOf
  <2>. QED BY <1>2, <2>1, <2>2 DEF ReturnFromModel, Abstract!Return, globals
<1>3. ASSUME NEW m \in Models, CloseSession(m) PROVE Abstract!Unload(m)
  <2>1. status' = status
    BY <1>3 DEF CloseSession, StatusOf
  <2>. QED BY <1>3, <2>1 DEF CloseSession, Abstract!Unload
<1>4. ASSUME NEW t \in Threads, NEW l, status[t] = "loading", pc' = [pc EXCEPT ![t] = l],
             l \notin {"idle", "running", "failed"}
      PROVE  status' = status
  <2>1. status' = [status EXCEPT ![t] = "loading"]
    BY <1>4, StatusChange
  <2>. QED BY <1>4, <2>1
<1>5. ASSUME NEW t \in Threads, status[t] = "loading", pc' = [pc EXCEPT ![t] = "failed"],
             UNCHANGED <<constAddr, mod>>
      PROVE  Abstract!Fail(t)
  BY <1>5, StatusChange DEF Abstract!Fail
<1>6. ASSUME NEW t \in Threads, MakePath(t) \/ OpenFile(t) \/ MMapFile(t)
      PROVE  Abstract!Fail(t) \/ UNCHANGED <<constAddr, status, mod>>
  <2>1. status[t] = "loading" /\ UNCHANGED <<constAddr, mod>>
    BY <1>6 DEF MakePath, OpenFile, MMapFile, StatusOf, globals
  <2>2. \/ pc' = [pc EXCEPT ![t] = "failed"]
        \/ \E l \in {"open", "mmap", "cas"} : pc' = [pc EXCEPT ![t] = l]
    BY <1>6 DEF MakePath, OpenFile, MMapFile, Goto
  <2>. QED BY <1>4, <1>5, <2>1, <2>2
<1>7. ASSUME NEW t \in Threads, Publish(t)
      PROVE  Abstract!Next \/ UNCHANGED <<constAddr, status, mod>>
  <2>1. status[t] = "loading" /\ UNCHANGED mod /\ pc' = [pc EXCEPT ![t] = "close"]
    BY <1>7 DEF Publish, StatusOf, Goto
  <2>2. status' = status
    BY <1>4, <2>1
  <2>3. CASE constAddr[mod[t]] = 0
    <3>1. temp[t] \in Maps
      BY <1>7 DEF Publish, IInv, TypeOK, MapInv
    <3>2. Abstract!Publish(t, temp[t])
      BY <1>7, <2>1, <2>2, <2>3 DEF Publish, Abstract!Publish
    <3>. QED BY <3>1, <3>2 DEF Abstract!Next
  <2>4. CASE constAddr[mod[t]] # 0
    BY <1>7, <2>1, <2>2, <2>4 DEF Publish
  <2>. QED BY <2>3, <2>4
<1>8. ASSUME NEW t \in Threads, TestMapped(t) \/ CloseFile(t) \/ Store(t)
      PROVE  UNCHANGED <<constAddr, status, mod>>
  <2>1. status[t] = "loading" /\ UNCHANGED <<constAddr, mod>>
    BY <1>8 DEF TestMapped, CloseFile, Store, StatusOf, globals
  <2>2. \E l \in {"path", "lookup"} : pc' = [pc EXCEPT ![t] = l]
    BY <1>8 DEF TestMapped, CloseFile, Store, Goto
  <2>. QED BY <1>4, <2>1, <2>2
<1>9. ASSUME NEW t \in Threads, Lookup(t)
      PROVE  Abstract!Run(t) \/ UNCHANGED <<constAddr, status, mod>>
  <2>1. status[t] = "loading" /\ UNCHANGED <<constAddr, mod>>
    BY <1>9 DEF Lookup, StatusOf, globals
  <2>2. CASE pc' = [pc EXCEPT ![t] = "running"]
    <3>1. constAddr[mod[t]] # 0
      BY <1>9 DEF Lookup, IInv, MapInv
    <3>2. status' = [status EXCEPT ![t] = "running"]
      BY <2>2, StatusChange
    <3>. QED BY <2>1, <3>1, <3>2 DEF Abstract!Run
  <2>3. CASE pc' = [pc EXCEPT ![t] = "store"]
    BY <1>4, <2>1, <2>3
  <2>4. CASE UNCHANGED pc
    BY <2>1, <2>4 DEF StatusOf
  <2>. QED BY <1>9, <2>2, <2>3, <2>4 DEF Lookup, Goto
<1>10. ASSUME UNCHANGED <<pc, constAddr, mod>> PROVE UNCHANGED <<constAddr, status, mod>>
  BY <1>10 DEF StatusOf
<1>11. \/ \E m \in Models : CloseSession(m)
       \/ \E t \in Threads :
            \/ \E m \in Models : CallModel(t, m)
            \/ ReturnFromModel(t) \/ MakePath(t) \/ OpenFile(t) \/ MMapFile(t)
            \/ Publish(t) \/ TestMapped(t) \/ CloseFile(t) \/ Store(t) \/ Lookup(t)
       \/ UNCHANGED <<pc, constAddr, mod>>
  BY DEF Next, ThreadStep, LoadStep, OpenSession, globals, vars
<1>. HIDE DEF status
<1>. QED BY <1>1, <1>2, <1>3, <1>6, <1>7, <1>8, <1>9, <1>10, <1>11 DEF Abstract!Next

(* The races of omMMapBinaryFile and omGetExternalConstantAddr implement the *)
(* abstract loader: one block published per model, before anyone runs it.    *)
THEOREM ImplementsConstantLoad == Spec => Refines
<1>1. Spec => Abstract!Spec
  BY AbstractInit, AbstractStep, Invariance, PTL DEF Spec, Abstract!Spec
<1>. QED BY <1>1 DEF Refines

-----------------------------------------------------------------------------
(***************************************************************************)
(* What can be proved of LoadReturns without fairness: a load is bounded.   *)
(* It takes no lock, so that its steps are never held up by another thread. *)
(***************************************************************************)
StepsFrom(l, n) ==
  CASE l = "test" -> 2 * NumConsts + 8
    [] l = "path" -> 2 * NumConsts + 7
    [] l = "open" -> 2 * NumConsts + 6
    [] l = "mmap" -> 2 * NumConsts + 5
    [] l = "cas" -> 2 * NumConsts + 4
    [] l = "close" -> 2 * NumConsts + 3
    [] l = "lookup" -> 2 * (NumConsts + 1 - n) + 1
    [] l = "store" -> 2 * (NumConsts + 1 - n)
    [] OTHER -> 0

(* The most steps that a load still takes.                                   *)
StepsLeft(t) == StepsFrom(pc[t], k[t])

(* A step of a load takes it nearer to its end, and nothing that another     *)
(* thread does, to constAddr or to the constants, takes it back.             *)
LoadsAdvance ==
  [][\A t \in Threads :
       /\ LoadStep(t) => StepsLeft(t)' \in 0..(StepsLeft(t) - 1)
       /\ ~LoadStep(t) /\ StepsLeft(t) # 0 => StepsLeft(t)' = StepsLeft(t)]_vars

LEMMA LoadStepAdvances ==
  ASSUME IInv, NEW t \in Threads, LoadStep(t)
  PROVE  /\ \A u \in Threads \ {t} : pc'[u] = pc[u] /\ k'[u] = k[u]
         /\ StepsLeft(t)' \in 0..(StepsLeft(t) - 1)
<1>. DEFINE Goes(l, n) == /\ pc' = [pc EXCEPT ![t] = l]
                          /\ k' = [k EXCEPT ![t] = n]
            Bound == \E l \in PCs, n \in 1..(NumConsts + 1) :
                       Goes(l, n) /\ StepsFrom(l, n) \in 0..(StepsFrom(pc[t], k[t]) - 1)
<1>1. /\ NumConsts \in Nat /\ k[t] \in 1..(NumConsts + 1)
      /\ pc \in [Threads -> PCs] /\ k \in [Threads -> 1..(NumConsts + 1)]
  BY ExternalConstantAssumption DEF IInv, TypeOK
<1>2. ASSUME NEW l \in PCs, NEW n \in 1..(NumConsts + 1), Goes(l, n),
             StepsFrom(l, n) \in 0..(StepsFrom(pc[t], k[t]) - 1)
      PROVE  Bound
  BY <1>2
<1>3. ASSUME NEW l \in PCs, pc' = [pc EXCEPT ![t] = l], UNCHANGED k,
             StepsFrom(l, k[t]) \in 0..(StepsFrom(pc[t], k[t]) - 1)
      PROVE  Bound
  <2>1. Goes(l, k[t])
    BY <1>1, <1>3
  <2>. QED BY <1>1, <1>3, <2>1
<1>. SUFFICES Bound
  BY <1>1 DEF StepsLeft
<1>. HIDE DEF Bound
<1>4. CASE TestMapped(t)
  <2>1. PICK l \in {"lookup", "path"} : pc' = [pc EXCEPT ![t] = l]
    BY <1>4 DEF TestMapped, Goto
  <2>2. Goes(l, 1) /\ StepsFrom(l, 1) \in 0..(StepsFrom(pc[t], k[t]) - 1)
    BY <1>1, <1>4, <2>1 DEF TestMapped, StepsFrom
  <2>3. l \in PCs /\ 1 \in 1..(NumConsts + 1)
    BY <1>1 DEF PCs
  <2>. QED BY <1>2, <2>2, <2>3
<1>5. CASE MakePath(t) \/ OpenFile(t) \/ MMapFile(t)
  <2>1. PICK l \in {"open", "mmap", "cas", "failed"} :
          pc' = [pc EXCEPT ![t] = l] /\ StepsFrom(l, k[t]) \in 0..(StepsFrom(pc[t], k[t]) - 1)
    <3>1. CASE MakePath(t)
      <4>1. pc' = [pc EXCEPT ![t] = "open"] \/ pc' = [pc EXCEPT ![t] = "failed"]
        BY <3>1 DEF MakePath, Goto
      <4>. QED BY <1>1, <3>1, <4>1 DEF MakePath, StepsFrom
    <3>2. CASE OpenFile(t)
      <4>1. pc' = [pc EXCEPT ![t] = "mmap"] \/ pc' = [pc EXCEPT ![t] = "failed"]
        BY <3>2 DEF OpenFile, Goto
      <4>. QED BY <1>1, <3>2, <4>1 DEF OpenFile, StepsFrom
    <3>3. CASE MMapFile(t)
      <4>1. pc' = [pc EXCEPT ![t] = "cas"] \/ pc' = [pc EXCEPT ![t] = "failed"]
        BY <3>3 DEF MMapFile, Goto
      <4>. QED BY <1>1, <3>3, <4>1 DEF MMapFile, StepsFrom
    <3>. QED BY <1>5, <3>1, <3>2, <3>3
  <2>2. UNCHANGED k /\ l \in PCs
    BY <1>5, <2>1 DEF MakePath, OpenFile, MMapFile, PCs
  <2>. QED BY <1>3, <2>1, <2>2
<1>6. CASE Publish(t)
  <2>1. /\ pc' = [pc EXCEPT ![t] = "close"] /\ UNCHANGED k
        /\ StepsFrom("close", k[t]) \in 0..(StepsFrom(pc[t], k[t]) - 1)
    BY <1>1, <1>6 DEF Publish, Goto, StepsFrom
  <2>. QED BY <1>3, <2>1 DEF PCs
<1>7. CASE CloseFile(t)
  <2>1. /\ pc' = [pc EXCEPT ![t] = "lookup"] /\ UNCHANGED k
        /\ StepsFrom("lookup", k[t]) \in 0..(StepsFrom(pc[t], k[t]) - 1)
    BY <1>1, <1>7 DEF CloseFile, Goto, StepsFrom
  <2>. QED BY <1>3, <2>1 DEF PCs
<1>8. CASE Lookup(t)
  <2>1. pc[t] = "lookup"
    BY <1>8 DEF Lookup
  <2>2. StepsFrom("lookup", k[t]) = 2 * (NumConsts + 1 - k[t]) + 1
    BY DEF StepsFrom
  <2>3. CASE k[t] > NumConsts
    <3>1. pc' = [pc EXCEPT ![t] = "running"] /\ UNCHANGED k
      BY <1>8, <2>3 DEF Lookup, Goto
    <3>2. StepsFrom("running", k[t]) \in 0..(StepsFrom(pc[t], k[t]) - 1)
      BY <1>1, <2>1, <2>2 DEF StepsFrom
    <3>. QED BY <1>3, <3>1, <3>2 DEF PCs
  <2>4. CASE k[t] <= NumConsts /\ data[mod[t]][k[t]] # 0
    <3>1. k[t] + 1 \in 1..(NumConsts + 1) /\ Goes("lookup", k[t] + 1)
      BY <1>1, <1>8, <2>1, <2>4 DEF Lookup
    <3>2. StepsFrom("lookup", k[t] + 1) \in 0..(StepsFrom(pc[t], k[t]) - 1)
      BY <1>1, <2>1, <2>2, <2>4 DEF StepsFrom
    <3>. QED BY <1>2, <3>1, <3>2 DEF PCs
  <2>5. CASE k[t] <= NumConsts /\ data[mod[t]][k[t]] = 0
    <3>1. pc' = [pc EXCEPT ![t] = "store"] /\ UNCHANGED k
      BY <1>1, <1>8, <2>5 DEF Lookup, Goto
    <3>2. StepsFrom("store", k[t]) \in 0..(StepsFrom(pc[t], k[t]) - 1)
      BY <1>1, <2>1, <2>2 DEF StepsFrom
    <3>. QED BY <1>3, <3>1, <3>2 DEF PCs
  <2>. QED BY <1>1, <2>3, <2>4, <2>5
<1>9. CASE Store(t)
  <2>1. pc[t] = "store" /\ k[t] <= NumConsts
    BY <1>9 DEF Store, IInv, DataInv
  <2>2. k[t] + 1 \in 1..(NumConsts + 1) /\ Goes("lookup", k[t] + 1)
    BY <1>1, <1>9, <2>1 DEF Store, Goto
  <2>3. StepsFrom("lookup", k[t] + 1) \in 0..(StepsFrom(pc[t], k[t]) - 1)
    BY <1>1, <2>1 DEF StepsFrom
  <2>. QED BY <1>2, <2>2, <2>3 DEF PCs
<1>. QED BY <1>4, <1>5, <1>6, <1>7, <1>8, <1>9 DEF LoadStep

(* Whatever the other threads do, omLoadConstantsFromFile ends after at most *)
(* eight steps and two for every constant of the model.                     *)
THEOREM LoadsAlwaysAdvance == Spec => LoadsAdvance
<1>. DEFINE Advance == \A t \in Threads :
              /\ LoadStep(t) => StepsLeft(t)' \in 0..(StepsLeft(t) - 1)
              /\ ~LoadStep(t) /\ StepsLeft(t) # 0 => StepsLeft(t)' = StepsLeft(t)
<1>1. IInv /\ [Next]_vars => [Advance]_vars
  <2>. SUFFICES ASSUME IInv, Next, NEW t \in Threads
                PROVE  /\ LoadStep(t) => StepsLeft(t)' \in 0..(StepsLeft(t) - 1)
                       /\ ~LoadStep(t) /\ StepsLeft(t) # 0 => StepsLeft(t)' = StepsLeft(t)
    OBVIOUS
  <2>1. LoadStep(t) => StepsLeft(t)' \in 0..(StepsLeft(t) - 1)
    BY LoadStepAdvances
  <2>2. ASSUME ~LoadStep(t), StepsLeft(t) # 0
        PROVE  pc'[t] = pc[t] /\ k'[t] = k[t]
    <3>1. pc[t] \notin {"idle", "running", "failed"}
      BY <2>2 DEF StepsLeft, StepsFrom
    <3>2. \/ \E u \in Threads : LoadStep(u)
          \/ \E u \in Threads : (\E m \in Models : CallModel(u, m)) \/ ReturnFromModel(u)
          \/ UNCHANGED <<pc, k>>
      BY DEF Next, ThreadStep, OpenSession, CloseSession, locals
    <3>3. ASSUME NEW u \in Threads, (\E m \in Models : CallModel(u, m)) \/ ReturnFromModel(u)
          PROVE  pc'[t] = pc[t] /\ k'[t] = k[t]
      BY <3>1, <3>3 DEF CallModel, ReturnFromModel, Goto, locals, IInv, TypeOK
    <3>. QED BY <2>2, <3>2, <3>3, LoadStepAdvances
  <2>. QED BY <2>1, <2>2 DEF StepsLeft
<1>. QED BY <1>1, Invariance, PTL DEF Spec, LoadsAdvance
=============================================================================
