--------------------------- MODULE DispatcherProofs ---------------------------
(***************************************************************************)
(* For every set of handlers, methods, wrappers and calls: each dispatcher *)
(* owns the wrappers in its table, frees none twice and loses none but     *)
(* those that addMethod refused; handlers whose tables are not outdated    *)
(* answer alike; and system.listMethods and system.methodSignature tell    *)
(* the truth about what can be called.                                     *)
(***************************************************************************)
EXTENDS Dispatcher, WellFoundedInduction, SequenceTheorems, FunctionTheorems,
        FiniteSetTheorems, TLAPS

(***************************************************************************)
(* WrappersOwned says nothing of the wrappers still to be made; that no    *)
(* process has one of them is what keeps a new method's wrapper its own.   *)
(***************************************************************************)
FreshUnused == \A p \in Processes : live[p] \cap fresh = {}

IInv == TypeOK /\ WrappersOwned /\ FreshUnused

(***************************************************************************)
(* The table of system methods has none that is dynamic.                   *)
(***************************************************************************)
LEMMA SystemTable ==
    \A k \in DOMAIN setupSystemMethods :
        /\ k = Key(setupSystemMethods[k].name, setupSystemMethods[k].sig)
        /\ setupSystemMethods[k].calltype = "CallSystem"
        /\ setupSystemMethods[k].wrapper = NoWrapper
<1>1. ASSUME NEW k \in DOMAIN setupSystemMethods
      PROVE  setupSystemMethods[k] \in SystemMethods
             /\ k = Key(setupSystemMethods[k].name, setupSystemMethods[k].sig)
    <2>1. PICK m \in SystemMethods : Key(m.name, m.sig) = k  BY DEF setupSystemMethods
    <2>2. setupSystemMethods[k] = CHOOSE n \in SystemMethods : Key(n.name, n.sig) = k
        BY DEF setupSystemMethods
    <2> QED  BY <2>1, <2>2
<1>2. ASSUME NEW m \in SystemMethods
      PROVE  m.calltype = "CallSystem" /\ m.wrapper = NoWrapper
    <2>1. \A name, sig, ret : /\ SystemMethod(name, sig, ret).calltype = "CallSystem"
                              /\ SystemMethod(name, sig, ret).wrapper = NoWrapper
        BY DEF SystemMethod
    <2>2. \E name, sig, ret : m = SystemMethod(name, sig, ret)  BY DEF SystemMethods
    <2> QED  BY <2>1, <2>2
<1> QED  BY <1>1, <1>2

LEMMA InitIInv == Init => IInv
<1> SUFFICES ASSUME Init PROVE IInv  OBVIOUS
<1>1. \A p \in Processes : \A k \in DOMAIN methods[p] :
        /\ p = Server /\ methods[p] = setupSystemMethods
        /\ k = Key(methods[p][k].name, methods[p][k].sig)
        /\ methods[p][k].calltype = "CallSystem" /\ methods[p][k].wrapper = NoWrapper
    <2> SUFFICES ASSUME NEW p \in Processes, NEW k \in DOMAIN methods[p]
                 PROVE  /\ p = Server /\ methods[p] = setupSystemMethods
                        /\ k = Key(methods[p][k].name, methods[p][k].sig)
                        /\ methods[p][k].calltype = "CallSystem"
                        /\ methods[p][k].wrapper = NoWrapper
        OBVIOUS
    <2>1. p = Server /\ methods[p] = setupSystemMethods  BY DEF Init, NoMethods
    <2> QED  BY <2>1, SystemTable
<1>2. TypeOK
    <2>1. status \in [Processes -> {"unborn", "running", "destroyed", "crashed"}]
        BY DEF Init
    <2>2. \A p \in Processes : \A k \in DOMAIN methods[p] :
            /\ k = Key(methods[p][k].name, methods[p][k].sig)
            /\ methods[p][k].wrapper \in Wrappers <=> methods[p][k].calltype = "CallDynamic"
        BY <1>1, WrapperAssumption
    <2> QED  BY <2>1, <2>2 DEF Init, TypeOK
<1>3. \A p \in Processes : Dynamic(p) = {}  BY <1>1 DEF Dynamic
<1>4. WrappersOwned  BY <1>3 DEF Init, WrappersOwned, Registered
<1>5. FreshUnused  BY DEF Init, FreshUnused
<1> QED  BY <1>2, <1>4, <1>5 DEF IInv

(***************************************************************************)
(* What TypeOK and WrappersOwned ask of one table T, together with the     *)
(* live wrappers L of its process and the refused ones R.                  *)
(***************************************************************************)
IsDynamic(T, k) == T[k].calltype = "CallDynamic"
GoodTable(T) ==
    \A k \in DOMAIN T : /\ k = Key(T[k].name, T[k].sig)
                        /\ T[k].wrapper \in Wrappers <=> IsDynamic(T, k)
OwnsAll(T, L, R) ==
    /\ \A k \in DOMAIN T : IsDynamic(T, k) => T[k].wrapper \in L
    /\ \A w \in L : w \in R \/ \E k \in DOMAIN T : IsDynamic(T, k) /\ T[k].wrapper = w
    /\ \A k, l \in DOMAIN T :
        IsDynamic(T, k) /\ IsDynamic(T, l) /\ T[k].wrapper = T[l].wrapper => k = l

LEMMA OwnedTables ==
    ASSUME IInv, NEW p \in Processes
    PROVE  GoodTable(methods[p]) /\ OwnsAll(methods[p], live[p], refused) /\ ~doubleFree[p]
<1>1. GoodTable(methods[p])  BY DEF IInv, TypeOK, GoodTable, IsDynamic
<1>2. OwnsAll(methods[p], live[p], refused)
    BY DEF IInv, WrappersOwned, Registered, Dynamic, OwnsAll, IsDynamic
<1>3. ~doubleFree[p]  BY DEF IInv, WrappersOwned
<1> QED  BY <1>1, <1>2, <1>3

LEMMA TablesOwned ==
    ASSUME \A p \in Processes : /\ GoodTable(methods'[p])
                                /\ OwnsAll(methods'[p], live'[p], refused')
                                /\ ~doubleFree'[p]
                                /\ live'[p] \cap fresh' = {},
           status' \in [Processes -> {"unborn", "running", "destroyed", "crashed"}],
           DOMAIN methods' = Processes, DOMAIN answer' = Processes,
           live' \in [Processes -> SUBSET Wrappers],
           doubleFree' \in [Processes -> BOOLEAN],
           fresh' \subseteq Wrappers, refused' \subseteq Wrappers, stale' \subseteq Handlers
    PROVE  IInv'
<1>1. TypeOK'
    <2>1. \A p \in Processes : \A k \in DOMAIN methods'[p] :
            /\ k = Key(methods'[p][k].name, methods'[p][k].sig)
            /\ methods'[p][k].wrapper \in Wrappers
                    <=> methods'[p][k].calltype = "CallDynamic"
        BY DEF GoodTable, IsDynamic
    <2> QED  BY <2>1 DEF TypeOK, Key
<1>2. WrappersOwned'
    <2> SUFFICES ASSUME NEW p \in Processes
                 PROVE  /\ ~doubleFree'[p]
                        /\ Registered(p)' \subseteq live'[p]
                        /\ live'[p] \subseteq Registered(p)' \cup refused'
                        /\ \A k, l \in Dynamic(p)' :
                            methods'[p][k].wrapper = methods'[p][l].wrapper => k = l
        BY DEF WrappersOwned
    <2>1. OwnsAll(methods'[p], live'[p], refused') /\ ~doubleFree'[p]  OBVIOUS
    <2> QED  BY <2>1 DEF OwnsAll, IsDynamic, Registered, Dynamic
<1>3. FreshUnused'  BY DEF FreshUnused
<1> QED  BY <1>1, <1>2, <1>3 DEF IInv

(***************************************************************************)
(* A step that gives the server table T and live wrappers L.               *)
(***************************************************************************)
LEMMA ServerStep ==
    ASSUME IInv, NEW T, NEW L \in SUBSET Wrappers,
           methods' = [methods EXCEPT ![Server] = T], GoodTable(T),
           live' = [live EXCEPT ![Server] = L], OwnsAll(T, L, refused'),
           doubleFree' = doubleFree,
           refused \subseteq refused', refused' \subseteq Wrappers,
           fresh' \subseteq fresh, L \cap fresh' = {},
           status' \in [Processes -> {"unborn", "running", "destroyed", "crashed"}],
           DOMAIN answer' = Processes, stale' \subseteq Handlers
    PROVE  IInv'
<1>1. Server \in Processes  BY DEF Processes
<1>2. /\ DOMAIN methods = Processes /\ live \in [Processes -> SUBSET Wrappers]
      /\ fresh \subseteq Wrappers /\ doubleFree \in [Processes -> BOOLEAN]
    BY DEF IInv, TypeOK
<1>3. ASSUME NEW p \in Processes
      PROVE  /\ GoodTable(methods'[p])
             /\ OwnsAll(methods'[p], live'[p], refused')
             /\ ~doubleFree'[p]
             /\ live'[p] \cap fresh' = {}
    <2>1. ~doubleFree'[p]  BY OwnedTables
    <2>2. CASE p = Server
        <3>1. methods'[p] = T /\ live'[p] = L  BY <1>1, <1>2, <2>2
        <3> QED  BY <2>1, <3>1
    <2>3. CASE p # Server
        <3>1. methods'[p] = methods[p] /\ live'[p] = live[p]  BY <1>1, <1>2, <2>3
        <3>2. GoodTable(methods[p]) /\ OwnsAll(methods[p], live[p], refused)  BY OwnedTables
        <3>3. OwnsAll(methods[p], live[p], refused')  BY <3>2 DEF OwnsAll
        <3>4. live[p] \cap fresh' = {}  BY DEF IInv, FreshUnused
        <3> QED  BY <2>1, <3>1, <3>2, <3>3, <3>4
    <2> QED  BY <2>2, <2>3
<1>4. DOMAIN methods' = Processes /\ live' \in [Processes -> SUBSET Wrappers]
    BY <1>1, <1>2
<1>5. fresh' \subseteq Wrappers  BY <1>2
<1> QED  BY <1>2, <1>3, <1>4, <1>5, TablesOwned

(***************************************************************************)
(* The actions that add a method.                                          *)
(***************************************************************************)
LEMMA AddedIsGood ==
    ASSUME IInv, NEW m, NEW w, w \in Wrappers <=> m.calltype = "CallDynamic"
    PROVE  GoodTable(addMethodDescriptor(m, w))
<1> DEFINE T == addMethodDescriptor(m, w)
<1>1. GoodTable(methods[Server])  BY OwnedTables DEF Processes
<1>2. ASSUME NEW k \in DOMAIN T
      PROVE  /\ k = Key(T[k].name, T[k].sig)
             /\ T[k].wrapper \in Wrappers <=> IsDynamic(T, k)
    <2>1. CASE k = Key(m.name, m.sig)
        BY <2>1 DEF addMethodDescriptor, NewMethod, IsDynamic
    <2>2. CASE k # Key(m.name, m.sig)
        <3>1. k \in DOMAIN methods[Server] /\ T[k] = methods[Server][k]
            BY <2>2 DEF addMethodDescriptor
        <3> QED  BY <1>1, <3>1 DEF GoodTable, IsDynamic
    <2> QED  BY <2>1, <2>2
<1> QED  BY <1>2 DEF GoodTable

LEMMA AddStaticStep ==
    ASSUME IInv, NEW m \in Methods, AddStatic(m) PROVE IInv'
<1> DEFINE T == addMethodDescriptor(m, NoWrapper)
           old == methods[Server]
<1>1. GoodTable(T)  BY AddedIsGood, WrapperAssumption DEF AddStatic
<1>2. OwnsAll(old, live[Server], refused)  BY OwnedTables DEF Processes
<1>3. \A k \in DOMAIN T : IsDynamic(T, k) => k \in DOMAIN old /\ T[k] = old[k]
    BY DEF addMethodDescriptor, NewMethod, IsDynamic, AddStatic
<1>4. \A k \in DOMAIN old : k \in DOMAIN T /\ T[k] = old[k]
    BY DEF addMethodDescriptor, AddStatic
<1>5. OwnsAll(T, live[Server], refused')
    <2> HIDE DEF T, old
    <2>1. refused' = refused  BY DEF AddStatic
    <2> QED  BY <1>2, <1>3, <1>4, <2>1 DEF OwnsAll, IsDynamic
<1>6. live[Server] \in SUBSET Wrappers /\ live' = [live EXCEPT ![Server] = live[Server]]
    BY DEF AddStatic, IInv, TypeOK, Processes
<1>7. live[Server] \cap fresh = {}  BY DEF IInv, FreshUnused, Processes
<1>8. /\ methods' = [methods EXCEPT ![Server] = T]
      /\ DOMAIN answer' = Processes /\ stale' \subseteq Handlers
      /\ refused \subseteq Wrappers /\ status' = status
      /\ UNCHANGED <<doubleFree, fresh, refused>>
    BY DEF AddStatic, TableIs, IInv, TypeOK
<1>9. status \in [Processes -> {"unborn", "running", "destroyed", "crashed"}]
    BY DEF IInv, TypeOK
<1> HIDE DEF T
<1> QED  BY <1>1, <1>5, <1>6, <1>7, <1>8, <1>9, ServerStep

LEMMA AddDynamicStep ==
    ASSUME IInv, NEW m \in Methods, NEW w \in Wrappers, AddDynamic(m, w) PROVE IInv'
<1> DEFINE T == addMethodDescriptor(m, w)
           L == live[Server] \cup {w}
           old == methods[Server]
           new == Key(m.name, m.sig)
<1>1. GoodTable(T)  BY AddedIsGood DEF AddDynamic
<1>2. OwnsAll(old, live[Server], refused)  BY OwnedTables DEF Processes
<1>3. live[Server] \in SUBSET Wrappers /\ live[Server] \cap fresh = {}
    BY DEF IInv, TypeOK, FreshUnused, Processes
<1>4. w \in fresh /\ w \notin live[Server]  BY <1>3 DEF AddDynamic
<1>5. /\ DOMAIN T = DOMAIN old \cup {new} /\ new \notin DOMAIN old
      /\ T[new].wrapper = w /\ \A k \in DOMAIN old : T[k] = old[k]
      /\ IsDynamic(T, new)
    BY DEF addMethodDescriptor, NewMethod, IsDynamic, AddDynamic
<1>6. OwnsAll(T, L, refused')
    <2> HIDE DEF T, old, new
    <2>1. refused' = refused  BY DEF AddDynamic
    <2>2. \A k \in DOMAIN T : IsDynamic(T, k) => T[k].wrapper \in L
        BY <1>2, <1>5 DEF OwnsAll, IsDynamic
    <2>3. \A v \in L : v \in refused' \/ \E k \in DOMAIN T : IsDynamic(T, k) /\ T[k].wrapper = v
        <3>1. ASSUME NEW v \in live[Server], v \notin refused'
              PROVE  \E k \in DOMAIN T : IsDynamic(T, k) /\ T[k].wrapper = v
            <4>1. PICK k \in DOMAIN old : IsDynamic(old, k) /\ old[k].wrapper = v
                BY <1>2, <2>1, <3>1 DEF OwnsAll
            <4> QED  BY <1>5, <4>1 DEF IsDynamic
        <3> QED  BY <1>5, <3>1
    <2>4. ASSUME NEW k \in DOMAIN T, NEW l \in DOMAIN T, IsDynamic(T, k), IsDynamic(T, l),
                 T[k].wrapper = T[l].wrapper
          PROVE  k = l
        <3>1. ASSUME NEW j \in DOMAIN old, IsDynamic(T, j) PROVE T[j].wrapper # w
            BY <1>2, <1>4, <1>5, <3>1 DEF OwnsAll, IsDynamic
        <3>2. CASE k = new \/ l = new  BY <1>5, <2>4, <3>1, <3>2
        <3>3. CASE k # new /\ l # new
            BY <1>2, <1>5, <2>4, <3>3 DEF OwnsAll, IsDynamic
        <3> QED  BY <3>2, <3>3
    <2> QED  BY <2>2, <2>3, <2>4 DEF OwnsAll
<1>7. L \in SUBSET Wrappers /\ live' = [live EXCEPT ![Server] = L]
    BY <1>3 DEF AddDynamic, MakeWrapper
<1>8. fresh' \subseteq fresh /\ L \cap fresh' = {}
    BY <1>3, <1>4 DEF AddDynamic, MakeWrapper
<1>9. /\ methods' = [methods EXCEPT ![Server] = T]
      /\ DOMAIN answer' = Processes /\ stale' \subseteq Handlers
      /\ refused \subseteq Wrappers
      /\ UNCHANGED <<status, doubleFree, refused>>
    BY DEF AddDynamic, TableIs, IInv, TypeOK
<1>10. status \in [Processes -> {"unborn", "running", "destroyed", "crashed"}]
    BY DEF IInv, TypeOK
<1> HIDE DEF T, L
<1> QED  BY <1>1, <1>6, <1>7, <1>8, <1>9, <1>10, ServerStep

LEMMA AddDynamicThrowsStep ==
    ASSUME IInv, NEW m \in Methods, NEW w \in Wrappers, AddDynamicThrows(m, w) PROVE IInv'
<1> DEFINE L == live[Server] \cup {w}
<1>1. GoodTable(methods[Server]) /\ OwnsAll(methods[Server], live[Server], refused)
    BY OwnedTables DEF Processes
<1>2. live[Server] \in SUBSET Wrappers /\ live[Server] \cap fresh = {}
    BY DEF IInv, TypeOK, FreshUnused, Processes
<1>3. refused' = refused \cup {w}  BY DEF AddDynamicThrows
<1>4. OwnsAll(methods[Server], L, refused')  BY <1>1, <1>3 DEF OwnsAll
<1>5. L \in SUBSET Wrappers /\ live' = [live EXCEPT ![Server] = L]
    BY <1>2 DEF AddDynamicThrows, MakeWrapper
<1>6. fresh' \subseteq fresh /\ L \cap fresh' = {}
    BY <1>2 DEF AddDynamicThrows, MakeWrapper
<1>7. methods' = methods /\ doubleFree' = doubleFree  BY DEF AddDynamicThrows
<1>8. live \in [Processes -> SUBSET Wrappers] /\ Server \in Processes
    BY DEF IInv, TypeOK, Processes
<1>9. ASSUME NEW p \in Processes
      PROVE  /\ GoodTable(methods'[p])
             /\ OwnsAll(methods'[p], live'[p], refused')
             /\ ~doubleFree'[p]
             /\ live'[p] \cap fresh' = {}
    <2>1. GoodTable(methods'[p]) /\ ~doubleFree'[p]  BY <1>7, OwnedTables
    <2>2. OwnsAll(methods[p], live[p], refused')  BY <1>3, OwnedTables DEF OwnsAll
    <2>3. live[p] \cap fresh' = {}  BY <1>6 DEF IInv, FreshUnused
    <2>4. live'[p] = IF p = Server THEN L ELSE live[p]  BY <1>5, <1>8
    <2> QED  BY <1>4, <1>6, <1>7, <2>1, <2>2, <2>3, <2>4
<1>10. /\ DOMAIN methods' = Processes /\ DOMAIN answer' = Processes
       /\ stale' \subseteq Handlers /\ refused' \subseteq Wrappers
       /\ fresh' \subseteq Wrappers
       /\ status' \in [Processes -> {"unborn", "running", "destroyed", "crashed"}]
       /\ doubleFree' \in [Processes -> BOOLEAN]
    BY <1>3, <1>6 DEF AddDynamicThrows, IInv, TypeOK
<1>11. live' \in [Processes -> SUBSET Wrappers]  BY <1>5, <1>8
<1> HIDE DEF L
<1> QED  BY <1>9, <1>10, <1>11, TablesOwned

(***************************************************************************)
(* Removal: the methods at keys leave the table, their wrappers the heap.  *)
(* The table's wrappers are live and all different, so that Free deletes   *)
(* none twice.                                                             *)
(***************************************************************************)
Without(keys) == [k \in DOMAIN methods[Server] \ keys |-> methods[Server][k]]
Freed(keys) == {methods[Server][k].wrapper :
                    k \in {j \in keys : methods[Server][j].calltype = "CallDynamic"}}

LEMMA FreeDeletesOnce ==
    ASSUME IInv, NEW keys \in SUBSET DOMAIN methods[Server], Free(Server, keys)
    PROVE  /\ doubleFree' = doubleFree
           /\ live' = [live EXCEPT ![Server] = live[Server] \ Freed(keys)]
<1> DEFINE dynamic == {k \in keys : methods[Server][k].calltype = "CallDynamic"}
           bad == \/ doubleFree[Server]
                  \/ \E k \in dynamic : methods[Server][k].wrapper \notin live[Server]
                  \/ \E k, l \in dynamic :
                        k # l /\ methods[Server][k].wrapper = methods[Server][l].wrapper
<1>1. OwnsAll(methods[Server], live[Server], refused) /\ ~doubleFree[Server]
    BY OwnedTables DEF Processes
<1>2. ~bad  BY <1>1 DEF OwnsAll, IsDynamic
<1>3. doubleFree' = [doubleFree EXCEPT ![Server] = bad]  BY DEF Free
<1>4. /\ doubleFree \in [Processes -> BOOLEAN] /\ live \in [Processes -> SUBSET Wrappers]
      /\ Server \in Processes
    BY DEF IInv, TypeOK, Processes
<1>5. doubleFree' = doubleFree
    <2> HIDE DEF bad
    <2>1. bad = FALSE  BY <1>2, <1>3 DEF bad
    <2>2. doubleFree[Server] = FALSE  BY <1>1, <1>4
    <2> QED  BY <1>3, <1>4, <2>1, <2>2
<1>6. live' = [live EXCEPT ![Server] = live[Server] \ Freed(keys)]
    BY <1>4 DEF Free, Freed
<1> QED  BY <1>5, <1>6

LEMMA RemoveKeysStep ==
    ASSUME IInv, NEW keys \in SUBSET DOMAIN methods[Server], Free(Server, keys),
           TableIs(Without(keys)),
           status' \in [Processes -> {"unborn", "running", "destroyed", "crashed"}],
           UNCHANGED <<fresh, refused>>
    PROVE  IInv'
<1> DEFINE old == methods[Server]
           T == Without(keys)
           L == live[Server] \ Freed(keys)
<1>1. GoodTable(old) /\ OwnsAll(old, live[Server], refused)  BY OwnedTables DEF Processes
<1>2. DOMAIN T = DOMAIN old \ keys /\ \A k \in DOMAIN T : T[k] = old[k]  BY DEF Without
<1>3. GoodTable(T)
    <2> HIDE DEF T
    <2> QED  BY <1>1, <1>2 DEF GoodTable, IsDynamic
<1>4. \A v : v \in Freed(keys) <=> \E k \in keys : IsDynamic(old, k) /\ old[k].wrapper = v
    BY DEF Freed, IsDynamic
<1>5. OwnsAll(T, L, refused')
    <2> HIDE DEF T
    <2>1. ASSUME NEW k \in DOMAIN T, IsDynamic(T, k) PROVE T[k].wrapper \in L
        <3>1. IsDynamic(old, k) /\ k \in DOMAIN old /\ k \notin keys
            BY <1>2, <2>1 DEF IsDynamic
        <3>2. old[k].wrapper \in live[Server]  BY <1>1, <3>1 DEF OwnsAll
        <3>3. old[k].wrapper \notin Freed(keys)  BY <1>1, <1>4, <3>1 DEF OwnsAll
        <3> QED  BY <1>2, <3>2, <3>3
    <2>2. ASSUME NEW v \in L, v \notin refused
          PROVE  \E k \in DOMAIN T : IsDynamic(T, k) /\ T[k].wrapper = v
        <3>1. PICK k \in DOMAIN old : IsDynamic(old, k) /\ old[k].wrapper = v
            BY <1>1, <2>2 DEF OwnsAll
        <3>2. k \in DOMAIN T  BY <1>2, <1>4, <2>2, <3>1
        <3> QED  BY <1>2, <3>1, <3>2 DEF IsDynamic
    <2>3. \A k, l \in DOMAIN T :
            IsDynamic(T, k) /\ IsDynamic(T, l) /\ T[k].wrapper = T[l].wrapper => k = l
        BY <1>1, <1>2 DEF OwnsAll, IsDynamic
    <2> QED  BY <2>1, <2>2, <2>3 DEF OwnsAll
<1>6. live' = [live EXCEPT ![Server] = L] /\ doubleFree' = doubleFree  BY FreeDeletesOnce
<1>7. /\ L \in SUBSET Wrappers /\ L \cap fresh' = {}
      /\ refused' \subseteq Wrappers
      /\ methods' = [methods EXCEPT ![Server] = T]
      /\ DOMAIN answer' = Processes /\ stale' \subseteq Handlers
    BY DEF IInv, TypeOK, FreshUnused, Processes, TableIs
<1> HIDE DEF T, L
<1> QED  BY <1>3, <1>5, <1>6, <1>7, ServerStep

LEMMA RemoveStep ==
    ASSUME IInv, NEW name, RemoveMethod(name) PROVE IInv'
<1>1. PICK removed \in SUBSET Overloads(methods[Server], name) \ {{}} :
        /\ Free(Server, removed)
        /\ TableIs(Without(removed))
    BY DEF RemoveMethod, Without
<1>2. removed \in SUBSET DOMAIN methods[Server]  BY DEF Overloads
<1>3. /\ status' \in [Processes -> {"unborn", "running", "destroyed", "crashed"}]
      /\ UNCHANGED <<fresh, refused>>
    BY DEF RemoveMethod, IInv, TypeOK
<1> QED  BY <1>1, <1>2, <1>3, RemoveKeysStep

LEMMA DestroyStep == ASSUME IInv, Destroy PROVE IInv'
<1>1. Without(DOMAIN methods[Server]) = NoMethods  BY DEF Without, NoMethods
<1>2. /\ status' \in [Processes -> {"unborn", "running", "destroyed", "crashed"}]
      /\ UNCHANGED <<fresh, refused>>
      /\ Free(Server, DOMAIN methods[Server])
    BY DEF Destroy, IInv, TypeOK, Processes
<1>3. TableIs(Without(DOMAIN methods[Server]))  BY <1>1 DEF Destroy
<1> QED  BY <1>2, <1>3, RemoveKeysStep

(***************************************************************************)
(* The other actions.                                                      *)
(***************************************************************************)
LEMMA SetEnabledStep ==
    ASSUME IInv, NEW key, NEW ena, setEnabled(key, ena) PROVE IInv'
<1> DEFINE old == methods[Server]
           T == [old EXCEPT ![key].enabled = ena]
<1>1. GoodTable(old) /\ OwnsAll(old, live[Server], refused)  BY OwnedTables DEF Processes
<1>2. DOMAIN T = DOMAIN old
      /\ \A k \in DOMAIN T : /\ T[k].name = old[k].name /\ T[k].sig = old[k].sig
                              /\ T[k].wrapper = old[k].wrapper
                              /\ T[k].calltype = old[k].calltype
    OBVIOUS
<1>3. GoodTable(T)
    <2> HIDE DEF T
    <2> QED  BY <1>1, <1>2 DEF GoodTable, IsDynamic
<1>4. OwnsAll(T, live[Server], refused')
    <2> HIDE DEF T
    <2>1. refused' = refused  BY DEF setEnabled
    <2> QED  BY <1>1, <1>2, <2>1 DEF OwnsAll, IsDynamic
<1>5. /\ live[Server] \in SUBSET Wrappers /\ live' = [live EXCEPT ![Server] = live[Server]]
      /\ live[Server] \cap fresh' = {}
    BY DEF setEnabled, IInv, TypeOK, FreshUnused, Processes
<1>6. /\ methods' = [methods EXCEPT ![Server] = T]
      /\ DOMAIN answer' = Processes /\ stale' \subseteq Handlers
      /\ refused \subseteq Wrappers
      /\ UNCHANGED <<status, doubleFree, fresh, refused>>
    BY DEF setEnabled, TableIs, IInv, TypeOK
<1>7. status \in [Processes -> {"unborn", "running", "destroyed", "crashed"}]
    BY DEF IInv, TypeOK
<1> HIDE DEF T
<1> QED  BY <1>3, <1>4, <1>5, <1>6, <1>7, ServerStep

LEMMA StartStep ==
    ASSUME IInv, NEW hs \in SUBSET Handlers, Start(hs) PROVE IInv'
<1>1. Server \in Processes /\ hs \subseteq Processes  BY DEF Processes
<1>2. \A f : Copy(f, hs) = [p \in Processes |-> IF p \in hs THEN f[Server] ELSE f[p]]
    BY DEF Copy
<1>3. ASSUME NEW p \in Processes
      PROVE  \E q \in Processes : /\ methods'[p] = methods[q] /\ live'[p] = live[q]
                                  /\ doubleFree'[p] = doubleFree[q]
                                  /\ status'[p] = status[q]
    <2>1. CASE p \in hs  BY <1>1, <1>2, <2>1 DEF Start
    <2>2. CASE p \notin hs  BY <1>1, <1>2, <2>2 DEF Start
    <2> QED  BY <2>1, <2>2
<1>4. UNCHANGED <<fresh, refused, stale>>  BY DEF Start
<1>5. \A p \in Processes : /\ GoodTable(methods'[p])
                           /\ OwnsAll(methods'[p], live'[p], refused')
                           /\ ~doubleFree'[p]
                           /\ live'[p] \cap fresh' = {}
    BY <1>3, <1>4, OwnedTables DEF IInv, FreshUnused
<1>6. /\ DOMAIN methods' = Processes /\ DOMAIN answer' = Processes
      /\ DOMAIN status' = Processes /\ status' = [p \in Processes |-> status'[p]]
      /\ live' = [p \in Processes |-> live'[p]]
      /\ doubleFree' = [p \in Processes |-> doubleFree'[p]]
    BY DEF Start, Copy
<1>7. /\ status' \in [Processes -> {"unborn", "running", "destroyed", "crashed"}]
      /\ live' \in [Processes -> SUBSET Wrappers]
      /\ doubleFree' \in [Processes -> BOOLEAN]
    BY <1>3, <1>6 DEF IInv, TypeOK
<1>8. fresh' \subseteq Wrappers /\ refused' \subseteq Wrappers /\ stale' \subseteq Handlers
    BY <1>4 DEF IInv, TypeOK
<1> QED  BY <1>5, <1>6, <1>7, <1>8, TablesOwned

\* A step that leaves tables and wrappers alone.
LEMMA OtherSteps ==
    ASSUME IInv, UNCHANGED <<methods, live, doubleFree, fresh, refused, stale>>,
           status' \in [Processes -> {"unborn", "running", "destroyed", "crashed"}],
           DOMAIN answer' = Processes
    PROVE  IInv'
<1>1. TypeOK'  BY DEF IInv, TypeOK
<1>2. WrappersOwned'  BY DEF IInv, WrappersOwned, Registered, Dynamic
<1>3. FreshUnused'  BY DEF IInv, FreshUnused
<1> QED  BY <1>1, <1>2, <1>3 DEF IInv

LEMMA NextIInv == IInv /\ [Next]_vars => IInv'
<1> SUFFICES ASSUME IInv, [Next]_vars PROVE IInv'  OBVIOUS
<1>1. ASSUME NEW m \in Methods, AddStatic(m) PROVE IInv'  BY <1>1, AddStaticStep
<1>2. ASSUME NEW m \in Methods, NEW w \in Wrappers, AddDynamic(m, w) PROVE IInv'
    BY <1>2, AddDynamicStep
<1>3. ASSUME NEW m \in Methods, NEW w \in Wrappers, AddDynamicThrows(m, w) PROVE IInv'
    BY <1>3, AddDynamicThrowsStep
<1>4. ASSUME NEW name, RemoveMethod(name) PROVE IInv'  BY <1>4, RemoveStep
<1>5. ASSUME NEW name, RemoveMethodCrashes(name) PROVE IInv'
    <2>1. /\ UNCHANGED <<methods, live, doubleFree, fresh, refused, stale>>
          /\ DOMAIN answer' = Processes
          /\ status' \in [Processes -> {"unborn", "running", "destroyed", "crashed"}]
        BY <1>5 DEF RemoveMethodCrashes, IInv, TypeOK
    <2> QED  BY <2>1, OtherSteps
<1>6. ASSUME NEW k, NEW ena, setEnabled(k, ena) PROVE IInv'  BY <1>6, SetEnabledStep
<1>7. ASSUME NEW hs \in SUBSET Handlers, Start(hs) PROVE IInv'  BY <1>7, StartStep
<1>8. ASSUME Destroy PROVE IInv'  BY <1>8, DestroyStep
<1>9. ASSUME NEW p \in Processes, NEW call \in Calls, Dispatch(p, call) PROVE IInv'
    <2>1. PICK resp : answer' = [answer EXCEPT ![p] = [call |-> call, resp |-> resp]]
        BY <1>9 DEF Dispatch
    <2>2. /\ UNCHANGED <<methods, live, doubleFree, fresh, refused, stale>>
          /\ DOMAIN answer' = Processes
          /\ status' \in [Processes -> {"unborn", "running", "destroyed", "crashed"}]
        BY <1>9, <2>1 DEF Dispatch, IInv, TypeOK
    <2> QED  BY <2>2, OtherSteps
<1>10. CASE UNCHANGED vars
    <2>1. /\ UNCHANGED <<methods, live, doubleFree, fresh, refused, stale>>
          /\ DOMAIN answer' = Processes
          /\ status' \in [Processes -> {"unborn", "running", "destroyed", "crashed"}]
        BY <1>10 DEF vars, IInv, TypeOK
    <2> QED  BY <2>1, OtherSteps
<1> QED  BY <1>1, <1>2, <1>3, <1>4, <1>5, <1>6, <1>7, <1>8, <1>9, <1>10 DEF Next

(***************************************************************************)
(* Every dispatcher owns what is in its table: dispatcher.h says so of     *)
(* addMethod and of the destructor, and with the exception of wrappers     *)
(* that addMethod refused it is true, also of removeMethod's half-finished *)
(* work and of the copies in forked handlers.                              *)
(***************************************************************************)
THEOREM Ownership == Spec => []WrappersOwned
<1>1. IInv => WrappersOwned  BY DEF IInv
<1> QED  BY InitIInv, NextIInv, <1>1, PTL DEF Spec

(* Every variable keeps its type, and every method is found under its key. *)
THEOREM TableType == Spec => []TypeOK
<1>1. IInv => TypeOK  BY DEF IInv
<1> QED  BY InitIInv, NextIInv, <1>1, PTL DEF Spec

-----------------------------------------------------------------------------
(***************************************************************************)
(* A handler that is not outdated has the server's table, and the last     *)
(* response of every process that runs is one its table still gives.       *)
(***************************************************************************)
SameTable == \A h \in Handlers \ stale : status[h] = "running" => methods[h] = methods[Server]
Answered(p) ==
    answer[p] # NoAnswer => \E call, resp : /\ answer[p] = [call |-> call, resp |-> resp]
                                           /\ resp \in Responses(methods[p], call)
AgreeInv ==
    /\ SameTable
    /\ stale \subseteq Handlers
    /\ \A p \in Processes : status[p] = "running" => Answered(p)
    /\ \A h \in stale : status[h] # "unborn"

(***************************************************************************)
(* A change of the server's table outdates every handler that runs and     *)
(* forgets the server's answer.                                            *)
(***************************************************************************)
LEMMA TableIsAgrees ==
    ASSUME IInv, AgreeInv, NEW T, TableIs(T), \A h \in Handlers : status'[h] = status[h]
    PROVE  AgreeInv'
<1>1. Server \in Processes /\ \A h \in Handlers : h \in Processes /\ h # Server
    BY ServerAssumption DEF Processes
<1>2. DOMAIN methods = Processes /\ DOMAIN answer = Processes  BY DEF IInv, TypeOK
<1>3. answer'[Server] = NoAnswer  BY <1>1, <1>2 DEF TableIs
<1>4. ASSUME NEW h \in Handlers
      PROVE  answer'[h] = answer[h] /\ methods'[h] = methods[h] /\ status'[h] = status[h]
    BY <1>1, <1>2, <1>4 DEF TableIs
<1>5. SameTable'  BY <1>4 DEF SameTable, TableIs
<1>6. stale' \subseteq Handlers /\ \A h \in stale' : status'[h] # "unborn"
    BY <1>4 DEF TableIs
<1>7. ASSUME NEW p \in Processes, status'[p] = "running" PROVE Answered(p)'
    <2>1. CASE p = Server  BY <1>3, <2>1 DEF Answered, NoAnswer
    <2>2. CASE p \in Handlers
        <3>1. Answered(p)  BY <1>4, <1>7, <2>2 DEF AgreeInv
        <3> QED  BY <1>4, <2>2, <3>1 DEF Answered, NoAnswer, Responses, hasMethod
    <2> QED  BY <2>1, <2>2 DEF Processes
<1> QED  BY <1>5, <1>6, <1>7 DEF AgreeInv

LEMMA AgreeNext == IInv /\ AgreeInv /\ [Next]_vars => AgreeInv'
<1> SUFFICES ASSUME IInv, AgreeInv, [Next]_vars PROVE AgreeInv'  OBVIOUS
<1>0. /\ Server \in Processes /\ \A h \in Handlers : h \in Processes /\ h # Server
      /\ DOMAIN methods = Processes /\ DOMAIN answer = Processes /\ DOMAIN status = Processes
    BY ServerAssumption DEF Processes, IInv, TypeOK
<1>1. ASSUME NEW T, TableIs(T), UNCHANGED status PROVE AgreeInv'
    BY <1>1, TableIsAgrees
<1>2. ASSUME UNCHANGED <<methods, answer, stale>>,
             \A p \in Processes : status'[p] \in {status[p], "crashed"}
      PROVE  AgreeInv'
    <2>1. SameTable'  BY <1>0, <1>2 DEF AgreeInv, SameTable
    <2>2. ASSUME NEW p \in Processes, status'[p] = "running" PROVE Answered(p)'
        <3>1. Answered(p)  BY <1>2, <2>2 DEF AgreeInv
        <3> QED  BY <1>2, <3>1 DEF Answered, NoAnswer, Responses, hasMethod
    <2>3. stale' \subseteq Handlers /\ \A h \in stale' : status'[h] # "unborn"
        BY <1>0, <1>2 DEF AgreeInv
    <2> QED  BY <2>1, <2>2, <2>3 DEF AgreeInv
<1>3. ASSUME NEW m \in Methods, AddStatic(m) PROVE AgreeInv'
    BY <1>1, <1>3 DEF AddStatic
<1>4. ASSUME NEW m \in Methods, NEW w \in Wrappers, AddDynamic(m, w) PROVE AgreeInv'
    BY <1>1, <1>4 DEF AddDynamic
<1>5. ASSUME NEW m \in Methods, NEW w \in Wrappers, AddDynamicThrows(m, w) PROVE AgreeInv'
    BY <1>2, <1>5 DEF AddDynamicThrows
<1>6. ASSUME NEW name, RemoveMethod(name) PROVE AgreeInv'
    BY <1>1, <1>6 DEF RemoveMethod
<1>7. ASSUME NEW name, RemoveMethodCrashes(name) PROVE AgreeInv'
    BY <1>0, <1>2, <1>7 DEF RemoveMethodCrashes
<1>8. ASSUME NEW k, NEW ena, setEnabled(k, ena) PROVE AgreeInv'
    BY <1>1, <1>8 DEF setEnabled
<1>9. ASSUME NEW hs \in SUBSET Handlers, Start(hs) PROVE AgreeInv'
    <2>1. ASSUME NEW p \in Processes
          PROVE  /\ status'[p] = IF p \in hs THEN status[Server] ELSE status[p]
                 /\ methods'[p] = IF p \in hs THEN methods[Server] ELSE methods[p]
                 /\ answer'[p] = IF p \in hs THEN NoAnswer ELSE answer[p]
        BY <1>9 DEF Start, Copy
    <2>2. stale' = stale /\ status[Server] = "running" /\ Server \notin hs
        BY <1>0, <1>9 DEF Start
    <2>3. SameTable'  BY <1>0, <2>1, <2>2 DEF AgreeInv, SameTable
    <2>4. \A h \in stale : h \notin hs  BY <1>9 DEF Start, AgreeInv
    <2>5. ASSUME NEW p \in Processes, status'[p] = "running" PROVE Answered(p)'
        <3>1. CASE p \in hs  BY <2>1, <3>1 DEF Answered, NoAnswer
        <3>2. CASE p \notin hs
            <4>1. Answered(p)  BY <2>1, <2>5, <3>2 DEF AgreeInv
            <4> QED  BY <2>1, <3>2, <4>1 DEF Answered, NoAnswer, Responses, hasMethod
        <3> QED  BY <3>1, <3>2
    <2> QED  BY <1>0, <2>1, <2>2, <2>3, <2>4, <2>5 DEF AgreeInv
<1>10. CASE Destroy
    <2>1. \A h \in Handlers : status'[h] = status[h]  BY <1>0, <1>10 DEF Destroy
    <2> QED  BY <1>10, <2>1, TableIsAgrees DEF Destroy
<1>11. ASSUME NEW p \in Processes, NEW call \in Calls, Dispatch(p, call) PROVE AgreeInv'
    <2>1. PICK resp \in Responses(methods[p], call) :
            answer' = [answer EXCEPT ![p] = [call |-> call, resp |-> resp]]
        BY <1>11 DEF Dispatch
    <2>2. UNCHANGED <<status, methods, stale>>  BY <1>11 DEF Dispatch
    <2>3. ASSUME NEW q \in Processes, status'[q] = "running" PROVE Answered(q)'
        <3>1. CASE q = p
            <4>1. answer'[q] = [call |-> call, resp |-> resp]  BY <1>0, <2>1, <3>1
            <4>2. resp \in Responses(methods[q], call)'  BY <2>1, <2>2, <3>1 DEF Responses, hasMethod
            <4> QED  BY <4>1, <4>2 DEF Answered
        <3>2. CASE q # p
            <4>1. answer'[q] = answer[q] /\ Answered(q)
                BY <1>0, <2>1, <2>2, <2>3, <3>2 DEF AgreeInv
            <4> QED  BY <2>2, <4>1 DEF Answered, NoAnswer, Responses, hasMethod
        <3> QED  BY <3>1, <3>2
    <2> QED  BY <2>2, <2>3 DEF AgreeInv, SameTable
<1>12. CASE UNCHANGED vars  BY <1>2, <1>12 DEF vars
<1> QED  BY <1>3, <1>4, <1>5, <1>6, <1>7, <1>8, <1>9, <1>10, <1>11, <1>12 DEF Next

(***************************************************************************)
(* Whether a response says "method not found" is a matter of the table and *)
(* the call alone, if no worker throws that fault code itself.             *)
(***************************************************************************)
SaysNotFound(resp) ==
    /\ ~resp.ok
    /\ getMember(resp.value, <<"faultCode">>) = Integer(MethodNotFoundError)

LEMMA FaultCode ==
    ASSUME NEW code, NEW phrase
    PROVE  SaysNotFound(setFault(code, phrase)) <=> code = MethodNotFoundError
<1> DEFINE members == {<<"faultCode">>, <<"faultString">>}
           v == setFault(code, phrase).value
<1>1. v.struct = [n \in members |-> IF n = <<"faultCode">> THEN Integer(code) ELSE RpcString(phrase)]
      /\ setFault(code, phrase).ok = FALSE
    BY DEF setFault, Struct
<1>2. getMember(v, <<"faultCode">>) = Integer(code)  BY <1>1 DEF getMember
<1>3. Integer(code) = Integer(MethodNotFoundError) <=> code = MethodNotFoundError
    <2>1. Integer(code).int = code /\ Integer(MethodNotFoundError).int = MethodNotFoundError
        BY DEF Integer
    <2> QED  BY <2>1
<1> QED  BY <1>1, <1>2, <1>3 DEF SaysNotFound

LEMMA OneVerdict ==
    ASSUME MethodNotFoundError \notin FaultCodes, NEW T, NEW call,
           NEW r \in Responses(T, call), NEW s \in Responses(T, call)
    PROVE  SaysNotFound(r) <=> SaysNotFound(s)
<1>1. \A v : ~SaysNotFound(setResult(v))  BY DEF SaysNotFound, setResult
<1>2. CASE ~hasMethod(T, call) \/ ~T[KeyOf(call)].enabled
    BY <1>2 DEF Responses
<1>3. CASE hasMethod(T, call) /\ T[KeyOf(call)].enabled
    <2>1. ASSUME NEW x \in Responses(T, call) PROVE ~SaysNotFound(x)
        <3>1. CASE \E v : x = setResult(v)  BY <1>1, <3>1
        <3>2. CASE \E code \in FaultCodes : x = setFault(code, <<>>)  BY <3>2, FaultCode
        <3> QED  BY <1>3, <2>1, <3>1, <3>2 DEF Responses
    <2> QED  BY <2>1
<1> QED  BY <1>2, <1>3

(* Unless a worker itself throws the fault code of an unknown method, it    *)
(* does not matter which up-to-date process a client gets: they know the    *)
(* same methods.                                                            *)
THEOREM Agreement == MethodNotFoundError \notin FaultCodes => (Spec => []AnswersAgree)
<1> SUFFICES ASSUME MethodNotFoundError \notin FaultCodes PROVE Spec => []AnswersAgree
    OBVIOUS
<1>1. Init => AgreeInv
    <2> SUFFICES ASSUME Init PROVE AgreeInv  OBVIOUS
    <2>1. \A h \in Handlers : status[h] = "unborn"
        BY ServerAssumption DEF Init, Processes
    <2>2. \A p \in Processes : answer[p] = NoAnswer  BY DEF Init
    <2>3. stale = {}  BY DEF Init
    <2> QED  BY <2>1, <2>2, <2>3 DEF AgreeInv, SameTable, Answered
<1>2. AgreeInv => AnswersAgree
    <2> SUFFICES ASSUME AgreeInv,
                        NEW p \in Processes \ stale, status[p] = "running", answer[p] # NoAnswer,
                        NEW q \in Processes \ stale, status[q] = "running", answer[q] # NoAnswer,
                        answer[p].call = answer[q].call
                 PROVE  NotFound(p) <=> NotFound(q)
        BY DEF AnswersAgree
    <2>1. methods[p] = methods[Server] /\ methods[q] = methods[Server]
        BY DEF AgreeInv, SameTable, Processes
    <2>2. /\ answer[p].resp \in Responses(methods[Server], answer[p].call)
          /\ answer[q].resp \in Responses(methods[Server], answer[p].call)
        <3>1. ASSUME NEW r \in Processes, status[r] = "running", answer[r] # NoAnswer
              PROVE  answer[r].resp \in Responses(methods[r], answer[r].call)
            <4>1. PICK call, resp : /\ answer[r] = [call |-> call, resp |-> resp]
                                    /\ resp \in Responses(methods[r], call)
                BY <3>1 DEF AgreeInv, Answered
            <4>2. answer[r].resp = resp /\ answer[r].call = call  BY <4>1
            <4> QED  BY <4>1, <4>2
        <3> QED  BY <2>1, <3>1
    <2>3. SaysNotFound(answer[p].resp) <=> SaysNotFound(answer[q].resp)  BY <2>2, OneVerdict
    <2> QED  BY <2>3 DEF NotFound, SaysNotFound
<1>3. IInv /\ AgreeInv /\ [Next]_vars => AgreeInv'  BY AgreeNext
<1> QED  BY InitIInv, NextIInv, <1>1, <1>2, <1>3, PTL DEF Spec

-----------------------------------------------------------------------------
(***************************************************************************)
(* AsSeq lists each member of a finite set once.  It is a fold, defined by *)
(* recursion on sets; that such a function exists, and what it returns, is *)
(* proved by induction on the number of members.  (The induction theorems  *)
(* of the library take an operator; NatInd takes a set instead.)           *)
(***************************************************************************)
PickOf(T) == CHOOSE x \in T : TRUE
Unrolls(g, D) == g = [T \in D |-> IF T = {} THEN <<>> ELSE Append(g[T \ {PickOf(T)}], PickOf(T))]
LEMMA AsSeqUnrolls ==
  ASSUME NEW S
  PROVE AsSeq(S) = (CHOOSE g : Unrolls(g, SUBSET S))[S]
BY DEF AsSeq, FoldSet, MapThenFoldSet, Unrolls, PickOf

LEMMA NatMinimum ==
  ASSUME NEW T, T \subseteq Nat, T # {}
  PROVE  \E n \in T : \A m \in T : n <= m
<1> DEFINE R == OpToRel(<, Nat)
<1>1. PICK n \in T : \A m \in T : ~(<<m, n>> \in R)
  BY NatLessThanWellFounded, WFMin
<1>2. \A x, y \in Nat : <<x, y>> \in R <=> x < y
  BY DEF OpToRel
<1> HIDE DEF R
<1>3. ASSUME NEW m \in T PROVE n <= m
  <2>1. n \in Nat /\ m \in Nat /\ ~(m < n)
    BY <1>1, <1>2
  <2> QED BY <2>1
<1> QED BY <1>3

LEMMA NatInd ==
  ASSUME NEW P, 0 \in P, \A n \in Nat : n \in P => n + 1 \in P
  PROVE  Nat \subseteq P
<1> SUFFICES ASSUME Nat \ P # {} PROVE FALSE
  OBVIOUS
<1>1. PICK n \in Nat \ P : \A m \in Nat \ P : n <= m
  BY NatMinimum
<1>2. n # 0 /\ n - 1 \in Nat
  BY <1>1
<1>3. n - 1 \in P
  BY <1>1, <1>2
<1> QED BY <1>1, <1>2, <1>3

Small(S, n) == {T \in SUBSET S : Cardinality(T) <= n}

LEMMA SmallStep ==
  ASSUME NEW S, IsFiniteSet(S), NEW T \in SUBSET S, T # {}
  PROVE  /\ PickOf(T) \in T
         /\ T \ {PickOf(T)} \in SUBSET S
         /\ Cardinality(T \ {PickOf(T)}) = Cardinality(T) - 1
         /\ Cardinality(T) \in Nat \ {0}
<1>1. IsFiniteSet(T) BY FS_Subset
<1>2. PickOf(T) \in T BY DEF PickOf
<1>3. Cardinality(T \ {PickOf(T)}) = Cardinality(T) - 1
  BY <1>1, <1>2, FS_RemoveElement
<1>4. Cardinality(T) \in Nat /\ Cardinality(T) # 0
  BY <1>1, FS_CardinalityType, FS_EmptySet
<1> QED BY <1>2, <1>3, <1>4

LEMMA UnrolledExists ==
  ASSUME NEW S, IsFiniteSet(S), NEW n \in Nat
  PROVE  \E g : Unrolls(g, Small(S, n))
<1> DEFINE P == {k \in Nat : \E g : Unrolls(g, Small(S, k))}
<1>1. 0 \in P
  <2>1. Small(S, 0) = {{}}
    <3>1. ASSUME NEW T \in SUBSET S PROVE Cardinality(T) <= 0 <=> T = {}
      <4>1. IsFiniteSet(T) BY FS_Subset
      <4> QED BY <4>1, FS_EmptySet, FS_CardinalityType
    <3> QED BY <3>1 DEF Small
  <2> DEFINE g == [T \in {{}} |-> <<>>]
  <2>2. Unrolls(g, Small(S, 0))
    BY <2>1 DEF Unrolls
  <2> QED BY <2>2
<1>2. ASSUME NEW k \in Nat, k \in P PROVE k + 1 \in P
  <2>1. PICK g : Unrolls(g, Small(S, k))
    BY <1>2
  <2> DEFINE h == [T \in Small(S, k + 1) |->
                     IF T = {} THEN <<>> ELSE Append(g[T \ {PickOf(T)}], PickOf(T))]
  <2>2. ASSUME NEW T \in Small(S, k + 1), T # {}
        PROVE  T \ {PickOf(T)} \in Small(S, k)
    BY <2>2, SmallStep DEF Small
  <2>3. ASSUME NEW T \in Small(S, k) PROVE T \in Small(S, k + 1) /\ h[T] = g[T]
    <3>1. T \in Small(S, k + 1)
      <4>1. IsFiniteSet(T) BY FS_Subset DEF Small
      <4>2. Cardinality(T) \in Nat BY <4>1, FS_CardinalityType
      <4> QED BY <4>2 DEF Small
    <3>2. g[T] = IF T = {} THEN <<>> ELSE Append(g[T \ {PickOf(T)}], PickOf(T))
      BY <2>1 DEF Unrolls
    <3> QED BY <3>1, <3>2
  <2>4. ASSUME NEW T \in Small(S, k + 1)
        PROVE  h[T] = IF T = {} THEN <<>> ELSE Append(h[T \ {PickOf(T)}], PickOf(T))
    BY <2>2, <2>3
  <2>5. Unrolls(h, Small(S, k + 1))
    BY <2>4 DEF Unrolls
  <2> QED BY <2>5
<1> HIDE DEF P
<1>3. Nat \subseteq P
  BY <1>1, <1>2, NatInd
<1> QED BY <1>3 DEF P

LEMMA AsSeqLists ==
  ASSUME NEW S, IsFiniteSet(S)
  PROVE  /\ AsSeq(S) \in Seq(S)
         /\ ToSet(AsSeq(S)) = S
         /\ Len(AsSeq(S)) = Cardinality(S)
<1> DEFINE g == CHOOSE f : Unrolls(f, SUBSET S)
           Lists(T) == g[T] \in Seq(T) /\ ToSet(g[T]) = T /\ Len(g[T]) = Cardinality(T)
           P == {k \in Nat : \A T \in SUBSET S : Cardinality(T) = k => Lists(T)}
<1>1. Unrolls(g, SUBSET S)
  <2>1. Cardinality(S) \in Nat /\ Small(S, Cardinality(S)) = SUBSET S
    BY FS_CardinalityType, FS_Subset DEF Small
  <2>2. \E h : Unrolls(h, Small(S, Cardinality(S)))
    BY <2>1, UnrolledExists
  <2>3. Unrolls(CHOOSE f : Unrolls(f, SUBSET S), SUBSET S)
    BY <2>1, <2>2, Zenon
  <2> QED BY <2>3
<1>2. ASSUME NEW T \in SUBSET S
      PROVE  g[T] = IF T = {} THEN <<>> ELSE Append(g[T \ {PickOf(T)}], PickOf(T))
  <2> HIDE DEF g
  <2> QED BY <1>1 DEF Unrolls
<1> HIDE DEF g
<1>3. 0 \in P
  <2>1. ASSUME NEW T \in SUBSET S, Cardinality(T) = 0 PROVE Lists(T)
    <3>1. T = {}
      BY <2>1, FS_Subset, FS_EmptySet
    <3>2. g[T] = <<>> BY <1>2, <3>1
    <3> QED BY <2>1, <3>1, <3>2 DEF ToSet
  <2> QED BY <2>1
<1>4. ASSUME NEW k \in Nat, k \in P PROVE k + 1 \in P
  <2>1. ASSUME NEW T \in SUBSET S, Cardinality(T) = k + 1 PROVE Lists(T)
    <3>1. T # {} BY <2>1, FS_EmptySet
    <3> DEFINE x == PickOf(T)
               U == T \ {x}
    <3>2. x \in T /\ U \in SUBSET S /\ Cardinality(U) = k
      BY <2>1, <3>1, SmallStep
    <3>3. Lists(U) BY <1>4, <3>2
    <3>4. g[T] = Append(g[U], x) BY <1>2, <3>1
    <3> HIDE DEF x
    <3>5. g[U] \in Seq(T) BY <3>2, <3>3, SeqMonotonic
    <3>6. g[T] \in Seq(T) /\ Len(g[T]) = k + 1
      BY <2>1, <3>2, <3>3, <3>4, <3>5
    <3>7. ToSet(g[T]) = ToSet(g[U]) \cup {x}
      <4>1. DOMAIN g[U] = 1 .. Len(g[U]) /\ Len(g[U]) \in Nat
        BY <3>5
      <4>2. /\ DOMAIN g[T] = 1 .. Len(g[U]) + 1
            /\ \A i \in 1 .. Len(g[U]) : g[T][i] = g[U][i]
            /\ g[T][Len(g[U]) + 1] = x
        BY <3>2, <3>4, <3>5
      <4>3. ASSUME NEW y PROVE y \in ToSet(g[T]) <=> y \in ToSet(g[U]) \cup {x}
        <5>1. y \in ToSet(g[T]) <=> \E i \in 1 .. Len(g[U]) + 1 : y = g[T][i]
          BY <4>2 DEF ToSet
        <5>2. y \in ToSet(g[U]) <=> \E i \in 1 .. Len(g[U]) : y = g[U][i]
          BY <4>1 DEF ToSet
        <5>3. ASSUME NEW i \in 1 .. Len(g[U]) + 1
              PROVE  i \in 1 .. Len(g[U]) \/ i = Len(g[U]) + 1
          BY <4>1
        <5>4. Len(g[U]) + 1 \in 1 .. Len(g[U]) + 1
              /\ \A i \in 1 .. Len(g[U]) : i \in 1 .. Len(g[U]) + 1
          BY <4>1
        <5>5. ASSUME y \in ToSet(g[T]) PROVE y \in ToSet(g[U]) \cup {x}
          BY <4>2, <5>1, <5>2, <5>3, <5>5
        <5>6. ASSUME y \in ToSet(g[U]) \cup {x} PROVE y \in ToSet(g[T])
          BY <4>2, <5>1, <5>2, <5>4, <5>6
        <5> QED BY <5>5, <5>6
      <4> QED BY <4>3
    <3> QED BY <2>1, <3>2, <3>3, <3>6, <3>7
  <2> QED BY <2>1
<1> HIDE DEF P
<1>5. Nat \subseteq P BY <1>3, <1>4, NatInd
<1>6. Lists(S)
  <2>1. Cardinality(S) \in Nat BY FS_CardinalityType
  <2> QED BY <1>5, <2>1 DEF P
<1> QED BY <1>6, AsSeqUnrolls DEF g, Lists

-----------------------------------------------------------------------------
(***************************************************************************)
(* Tables are finite, and the signatures in them are those of methods that *)
(* somebody may add.                                                       *)
(***************************************************************************)
Signatures == {m.sig : m \in Named}
Listable(T) == IsFiniteSet(DOMAIN T) /\ \A k \in DOMAIN T : T[k].sig \in Signatures
ListInv == \A p \in Processes : Listable(methods[p])

LEMMA ListInit == Init => ListInv
<1> SUFFICES ASSUME Init, NEW p \in Processes PROVE Listable(methods[p])
    BY DEF ListInv
<1>1. CASE p = Server
    <2>1. methods[p] = setupSystemMethods  BY <1>1 DEF Init
    <2>2. IsFiniteSet(DOMAIN setupSystemMethods)
        <3> DEFINE K(name, sig) == Key(Text(name), sig)
                   Ks == {K("ulxmlrpcpp.pretty_print", <<"bool">>),
                          K("system.listMethods", <<>>),
                          K("system.listMethods", <<"string">>),
                          K("system.methodSignature", <<"string">>),
                          K("system.methodHelp", <<"string">>),
                          K("system.getCapabilities", <<>>)}
        <3>1. \A name, sig, ret : /\ SystemMethod(name, sig, ret).name = Text(name)
                                  /\ SystemMethod(name, sig, ret).sig = sig
            BY DEF SystemMethod
        <3>2. DOMAIN setupSystemMethods = {Key(m.name, m.sig) : m \in SystemMethods}
            BY DEF setupSystemMethods
        <3>3. ASSUME NEW m \in SystemMethods PROVE Key(m.name, m.sig) \in Ks
            <4>1. PICK name, sig, ret : /\ m = SystemMethod(name, sig, ret)
                                        /\ K(name, sig) \in Ks
                <5> HIDE DEF K
                <5> QED  BY DEF SystemMethods
            <4> QED  BY <3>1, <4>1
        <3>4. DOMAIN setupSystemMethods \subseteq Ks  BY <3>2, <3>3
        <3> HIDE DEF K
        <3>5. \A a, b, c, d, e, f : IsFiniteSet({a, b, c, d, e, f})
            <4> TAKE a, b, c, d, e, f
            <4>1. IsFiniteSet({a} \cup {b})  BY FS_Singleton, FS_AddElement
            <4>2. IsFiniteSet(({a} \cup {b}) \cup {c})  BY <4>1, FS_AddElement
            <4>3. IsFiniteSet((({a} \cup {b}) \cup {c}) \cup {d})  BY <4>2, FS_AddElement
            <4>4. IsFiniteSet(((({a} \cup {b}) \cup {c}) \cup {d}) \cup {e})
                BY <4>3, FS_AddElement
            <4>5. IsFiniteSet((((({a} \cup {b}) \cup {c}) \cup {d}) \cup {e}) \cup {f})
                BY <4>4, FS_AddElement
            <4>6. {a, b, c, d, e, f} = (((({a} \cup {b}) \cup {c}) \cup {d}) \cup {e}) \cup {f}
                OBVIOUS
            <4> QED  BY <4>5, <4>6
        <3>6. IsFiniteSet(Ks)  BY <3>5
        <3> QED  BY <3>4, <3>6, FS_Subset
    <2>3. ASSUME NEW k \in DOMAIN setupSystemMethods
          PROVE  setupSystemMethods[k].sig \in Signatures
        <3>1. PICK m \in SystemMethods : Key(m.name, m.sig) = k  BY DEF setupSystemMethods
        <3>2. setupSystemMethods[k] = CHOOSE n \in SystemMethods : Key(n.name, n.sig) = k
            BY DEF setupSystemMethods
        <3>3. setupSystemMethods[k] \in SystemMethods  BY <3>1, <3>2
        <3> QED  BY <3>3 DEF Signatures, Named
    <2> QED  BY <2>1, <2>2, <2>3 DEF Listable
<1>2. CASE p # Server
    <2>1. methods[p] = NoMethods  BY <1>2 DEF Init
    <2> QED  BY <2>1, FS_EmptySet DEF Listable, NoMethods
<1> QED  BY <1>1, <1>2

LEMMA ListNext == IInv /\ ListInv /\ [Next]_vars => ListInv'
<1> SUFFICES ASSUME IInv, ListInv, [Next]_vars PROVE ListInv'  OBVIOUS
<1>0. Server \in Processes /\ DOMAIN methods = Processes  BY DEF Processes, IInv, TypeOK
<1>1. ASSUME NEW T, methods' = [methods EXCEPT ![Server] = T], Listable(T) PROVE ListInv'
    BY <1>0, <1>1 DEF ListInv
<1>2. ASSUME NEW K \in SUBSET DOMAIN methods[Server], TableIs([k \in K |-> methods[Server][k]])
      PROVE  ListInv'
    <2>1. Listable([k \in K |-> methods[Server][k]])
        BY <1>0, FS_Subset DEF ListInv, Listable
    <2> QED  BY <1>1, <1>2, <2>1 DEF TableIs
<1>3. ASSUME NEW m \in Methods, NEW w, TableIs(addMethodDescriptor(m, w)) PROVE ListInv'
    <2> DEFINE T == addMethodDescriptor(m, w)
    <2>1. IsFiniteSet(DOMAIN T)
        BY <1>0, FS_AddElement DEF addMethodDescriptor, ListInv, Listable
    <2>2. ASSUME NEW k \in DOMAIN T PROVE T[k].sig \in Signatures
        <3>1. CASE k = Key(m.name, m.sig)
            BY <3>1 DEF addMethodDescriptor, NewMethod, Signatures, Named
        <3>2. CASE k # Key(m.name, m.sig)
            BY <1>0, <3>2 DEF addMethodDescriptor, ListInv, Listable
        <3> QED  BY <3>1, <3>2
    <2> QED  BY <1>1, <1>3, <2>1, <2>2 DEF TableIs, Listable
<1>4. ASSUME UNCHANGED methods PROVE ListInv'  BY <1>4 DEF ListInv
<1>5. ASSUME NEW m \in Methods, AddStatic(m) PROVE ListInv'  BY <1>3, <1>5 DEF AddStatic
<1>6. ASSUME NEW m \in Methods, NEW w \in Wrappers, AddDynamic(m, w) PROVE ListInv'
    BY <1>3, <1>6 DEF AddDynamic
<1>7. ASSUME NEW m \in Methods, NEW w \in Wrappers, AddDynamicThrows(m, w) PROVE ListInv'
    BY <1>4, <1>7 DEF AddDynamicThrows
<1>8. ASSUME NEW name, RemoveMethod(name) PROVE ListInv'  BY <1>2, <1>8 DEF RemoveMethod
<1>9. ASSUME NEW name, RemoveMethodCrashes(name) PROVE ListInv'
    BY <1>4, <1>9 DEF RemoveMethodCrashes
<1>10. ASSUME NEW k, NEW ena, setEnabled(k, ena) PROVE ListInv'
    <2>1. Listable([methods[Server] EXCEPT ![k].enabled = ena])
        <3> DEFINE T == [methods[Server] EXCEPT ![k].enabled = ena]
        <3>1. DOMAIN T = DOMAIN methods[Server]  OBVIOUS
        <3>2. ASSUME NEW l \in DOMAIN T PROVE T[l].sig \in Signatures
            <4>1. CASE l = k  
                <5>1. T[l] = [methods[Server][k] EXCEPT !.enabled = ena]  BY <4>1
                <5> QED  BY <1>0, <4>1, <5>1 DEF ListInv, Listable
            <4>2. CASE l # k  BY <1>0, <4>2 DEF ListInv, Listable
            <4> QED  BY <4>1, <4>2
        <3> QED  BY <1>0, <3>1, <3>2 DEF ListInv, Listable
    <2> QED  BY <1>1, <1>10, <2>1 DEF setEnabled, TableIs
<1>11. ASSUME NEW hs \in SUBSET Handlers, Start(hs) PROVE ListInv'
    BY <1>0, <1>11 DEF Start, Copy, ListInv
<1>12. CASE Destroy
    <2>1. Listable(NoMethods)  BY FS_EmptySet DEF NoMethods, Listable
    <2> QED  BY <1>1, <1>12, <2>1 DEF Destroy, TableIs
<1>13. ASSUME NEW p \in Processes, NEW call \in Calls, Dispatch(p, call) PROVE ListInv'
    BY <1>4, <1>13 DEF Dispatch
<1>14. CASE UNCHANGED vars  BY <1>4, <1>14 DEF vars
<1> QED  BY <1>5, <1>6, <1>7, <1>8, <1>9, <1>10, <1>11, <1>12, <1>13, <1>14 DEF Next

LEMMA KeyParts ==
    ASSUME NEW name, NEW other, NEW sig, NEW sig2, Key(name, sig) = Key(other, sig2)
    PROVE  name = other /\ (sig # <<"void">> /\ sig2 # <<"void">> => sig = sig2)
BY DEF Key

(***************************************************************************)
(* The signatures a call can have and the overloads of a name match.       *)
(***************************************************************************)
Callable(T, name) ==
    {sig \in (Signatures \ {<<"void">>}) \cup {<<>>} : Key(name, sig) \in DOMAIN T}

LEMMA CallableOverloads ==
    ASSUME NEW T, GoodTable(T), Listable(T), NEW name
    PROVE  /\ IsFiniteSet(Overloads(T, name))
           /\ Cardinality(Callable(T, name)) = Cardinality(Overloads(T, name))
<1> DEFINE C == Callable(T, name)
           O == Overloads(T, name)
           f == [sig \in C |-> Key(name, sig)]
<1>1. IsFiniteSet(O)  BY FS_Subset DEF Overloads, Listable
<1>2. ASSUME NEW sig \in C PROVE f[sig] \in O
    <2>1. f[sig] \in DOMAIN T /\ f[sig] = Key(T[f[sig]].name, T[f[sig]].sig)
        BY DEF Callable, GoodTable
    <2>2. T[f[sig]].name = name  BY <2>1, KeyParts
    <2> QED  BY <2>1, <2>2 DEF Overloads
<1>3. ASSUME NEW s \in C, NEW t \in C, f[s] = f[t] PROVE s = t
    <2>1. s # <<"void">> /\ t # <<"void">>  BY DEF Callable
    <2> QED  BY <1>3, <2>1, KeyParts
<1>4. ASSUME NEW k \in O PROVE \E sig \in C : f[sig] = k
    <2>1. k = Key(name, T[k].sig) /\ T[k].sig \in Signatures /\ k \in DOMAIN T
        BY DEF Overloads, GoodTable, Listable
    <2>2. CASE T[k].sig = <<"void">>
        <3>1. Key(name, <<>>) = k  BY <2>1, <2>2 DEF Key
        <3> QED  BY <2>1, <3>1 DEF Callable
    <2>3. CASE T[k].sig # <<"void">>  BY <2>1, <2>3 DEF Callable
    <2> QED  BY <2>2, <2>3
<1> HIDE DEF C, O
<1>5. f \in Bijection(C, O)
    <2>1. f \in [C -> O]  BY <1>2
    <2> QED  BY <1>3, <1>4, <2>1, Fun_IsBij
<1>6. ExistsBijection(O, C)  BY <1>5, Fun_ExistsBij, Fun_ExistsBijSymmetric
<1> QED  BY <1>1, <1>6, FS_Bijection DEF C, O

LEMMA ListedNames ==
    ASSUME NEW T, Listable(T), NEW name, name # <<>>
    PROVE  RpcString(name) \in ToSet(listMethods(T).array) <=> Overloads(T, name) # {}
<1> DEFINE Names == {T[k].name : k \in DOMAIN T} \ {<<>>}
           s == AsSeq(Names)
<1>1. IsFiniteSet(Names)
    <2> DEFINE f == [k \in DOMAIN T |-> T[k].name]
    <2>1. f \in Surjection(DOMAIN T, {T[k].name : k \in DOMAIN T})  BY Fun_IsSurj
    <2>2. IsFiniteSet({T[k].name : k \in DOMAIN T})  BY <2>1, FS_Surjection DEF Listable
    <2> QED  BY <2>2, FS_Subset
<1>2. ToSet(s) = Names  BY <1>1, AsSeqLists
<1>3. listMethods(T).array = [i \in DOMAIN s |-> RpcString(s[i])]
    BY DEF listMethods, Strings, Array
<1> HIDE DEF s
<1>4. \A a, b : RpcString(a) = RpcString(b) => a = b
    <2> TAKE a, b
    <2>1. RpcString(a).string = a /\ RpcString(b).string = b  BY DEF RpcString
    <2> QED  BY <2>1
<1>5. RpcString(name) \in ToSet(listMethods(T).array) <=> name \in ToSet(s)
    BY <1>3, <1>4 DEF ToSet
<1>6. name \in Names <=> Overloads(T, name) # {}  BY DEF Overloads
<1> QED  BY <1>2, <1>5, <1>6

LEMMA SignatureRows ==
    ASSUME NEW T, GoodTable(T), Listable(T), NEW name
    PROVE  LET rows == methodSignature(T, name)
           IN  /\ rows.type = "RpcArray" <=> Overloads(T, name) # {}
               /\ rows.type = "RpcArray" => Len(rows.array) = Cardinality(Overloads(T, name))
<1> DEFINE keys == AsSeq(Overloads(T, name))
<1>1. IsFiniteSet(Overloads(T, name))  BY CallableOverloads
<1>2. /\ keys \in Seq(Overloads(T, name))
      /\ Len(keys) = Cardinality(Overloads(T, name))
    BY <1>1, AsSeqLists
<1>3. keys = <<>> <=> Overloads(T, name) = {}
    BY <1>1, <1>2, FS_EmptySet, EmptySeq
<1>4. methodSignature(T, name) =
        IF keys = <<>> THEN Integer(1)
        ELSE Array([i \in DOMAIN keys |-> SignatureRow(T[keys[i]])])
    BY DEF methodSignature
<1> HIDE DEF keys
<1>5. CASE keys = <<>>  BY <1>3, <1>4, <1>5 DEF Integer
<1>6. CASE keys # <<>>
    <2> DEFINE rows == [i \in DOMAIN keys |-> SignatureRow(T[keys[i]])]
    <2>1. /\ methodSignature(T, name).type = "RpcArray"
          /\ methodSignature(T, name).array = rows
        BY <1>4, <1>6 DEF Array
    <2>2. DOMAIN rows = 1 .. Len(keys) /\ Len(keys) \in Nat  BY <1>2
    <2> HIDE DEF rows
    <2>3. Len(rows) = Len(keys)  BY <2>2
    <2> QED  BY <1>2, <1>3, <1>6, <2>1, <2>3
<1> QED  BY <1>5, <1>6

(* What the introspection methods tell is true of every process's table,   *)
(* whatever has been added, removed, or forked before: a name is listed if *)
(* and only if it has signatures, and as many of them as calls can have.   *)
THEOREM Introspection == Spec => []ListedIsCallable
<1>1. IInv /\ ListInv => ListedIsCallable
    <2> SUFFICES ASSUME IInv, ListInv, NEW p \in Processes,
                        NEW name \in {m.name : m \in Named} \ {<<>>}
                 PROVE  LET rows == methodSignature(methods[p], name)
                        IN /\ RpcString(name) \in ToSet(listMethods(methods[p]).array)
                                <=> rows.type = "RpcArray"
                           /\ rows.type = "RpcArray" =>
                                Len(rows.array) = Cardinality(Callable(methods[p], name))
        BY DEF ListedIsCallable, Callable, Signatures
    <2>1. GoodTable(methods[p]) /\ Listable(methods[p])  BY OwnedTables DEF ListInv
    <2> QED  BY <2>1, CallableOverloads, ListedNames, SignatureRows
<1> QED  BY InitIInv, NextIInv, ListInit, ListNext, <1>1, PTL DEF Spec

=============================================================================
