-------------------- MODULE ModuleTopologyManagerProofs ---------------------
(***************************************************************************)
(* Proofs about ModuleTopologyManager for any number of names, addresses,  *)
(* requests and threads.                                                   *)
(***************************************************************************)
EXTENDS ModuleTopologyManager, FiniteSets, TLAPS

(***************************************************************************)
(* The inductive invariant, in parts.                                      *)
(***************************************************************************)
Maybe(S) == S \cup {NULL}
Index == [Name -> Maybe(Topo)]

Phase == {"appInit", "initialized", "validating", "serving", "stopped", "cleared", "exited"}
LoadPC == {"idle", "monitor", "pool", "modify", "grace", "storageAdd", "wait", "delete"}
CallPC == {"idle", "pick", "picked", "running"}

MainType == phase \in Phase /\ app_initialized \in BOOLEAN

DbdType ==
  /\ index \in Index
  /\ view \in [Reader -> Maybe(Index)]
  /\ modifying \in BOOLEAN
  /\ old \subseteq Reader

MemType ==
  /\ heap \in [Topo -> {"free", "live"}]
  /\ tested \in [Topo -> BOOLEAN]
  /\ refs \in [Topo -> Nat]
  /\ storage \subseteq Topo
  /\ monitors \subseteq Name

LoadType ==
  /\ pc \in [Loader -> LoadPC]
  /\ name \in [Loader -> Maybe(Name)]
  /\ topo \in [Loader -> Maybe(Topo)]
  /\ replaced \in [Loader -> SUBSET Topo]

ReqType == rpc \in [Request -> CallPC] /\ final \in [Request -> Maybe(Topo)]

TypeOK == MainType /\ DbdType /\ MemType /\ LoadType /\ ReqType

\* What a thread inside add_topology or remove_topology has in its locals, and
\* which of them is inside Modify().
LoadInv ==
  /\ \A k \in Loader : pc[k] # "idle" => name[k] \in Name
  /\ \A k \in Loader : topo[k] # NULL => pc[k] \in {"modify", "grace", "storageAdd"}
  /\ \A k \in Loader : pc[k] = "storageAdd" => topo[k] # NULL
  /\ \A k \in Loader : replaced[k] # {} => pc[k] \in {"grace", "storageAdd", "wait", "delete"}
  /\ modifying <=> \E k \in Loader : pc[k] = "grace"
  /\ \A k, l \in Loader : pc[k] = "grace" /\ pc[l] = "grace" => k = l
  /\ phase = "exited" => \A k \in Loader : pc[k] = "idle"

\* Every allocated topology belongs to the storage or to the one thread that
\* is about to hand it over, and to one of them only.
HeapInv ==
  /\ \A t \in storage : heap[t] = "live"
  /\ \A k \in Loader : topo[k] # NULL => heap[topo[k]] = "live" /\ topo[k] \notin storage
  /\ \A k, l \in Loader : topo[k] # NULL /\ topo[k] = topo[l] => k = l
  /\ \A t \in Topo : heap[t] = "live" => t \in storage \/ \E k \in Loader : topo[k] = t

\* A topology is unlisted before its Modify(), listed under one name after it,
\* and has been taken out by at most one thread once it is unlisted again.
ListInv ==
  /\ \A n, m \in Name : index[n] # NULL /\ index[n] = index[m] => n = m
  /\ \A k \in Loader : pc[k] = "modify" /\ topo[k] # NULL => topo[k] \notin Listed(index)
  /\ \A k, l \in Loader : pc[k] = "modify" /\ topo[k] # NULL => topo[k] \notin replaced[l]
  /\ \A k \in Loader : \A t \in replaced[k] : t \notin Listed(index)
  /\ \A k, l \in Loader : \A t \in replaced[k] : t \in replaced[l] => k = l

\* A reader only sees what is listed, or what the Modify() that waits for it
\* has taken out.
ViewInv ==
  /\ \A r \in Reader : view[r] # NULL =>
       \A t \in Listed(view[r]) :
         \/ t \in Listed(index)
         \/ \E k \in Loader : pc[k] = "grace" /\ t \in replaced[k] /\ r \in old
  /\ ~modifying => old = {}

Using(t) == {r \in Request : final[r] = t}

\* The reference count of a topology is the number of requests that picked it
\* and are not done with it.
CountIsExact == \A t \in Topo : IsFiniteSet(Using(t)) /\ refs[t] = Cardinality(Using(t))

\* A topology in use has references: this follows from CountIsExact, and is all
\* that most of the proof needs of it.
UsedInv == \A r \in Request : final[r] # NULL => refs[final[r]] # 0

\* A request holds a ScopedPtr until it has picked; the topology it picked is
\* listed there.  A topology about to be deleted is used by no request.
RequestInv ==
  /\ \A r \in Request : rpc[r] \in {"pick", "picked"} => view[r] # NULL
  /\ \A r \in Request : rpc[r] \in {"idle", "pick"} => final[r] = NULL
  /\ \A r \in Request : rpc[r] = "picked" /\ final[r] # NULL => final[r] \in Listed(view[r])
  /\ \A r \in Request : rpc[r] = "running" => final[r] # NULL
  /\ phase # "serving" => \A r \in Request : rpc[r] = "idle"
  /\ \A k \in Loader : pc[k] = "delete" => \A t \in replaced[k] : Using(t) = {}

\* What is listed, taken out or used is allocated until the process exits.
LiveInv ==
  phase # "exited" =>
    /\ \A t \in Listed(index) : heap[t] = "live"
    /\ \A k \in Loader : \A t \in replaced[k] : heap[t] = "live"
    /\ \A r \in Request : final[r] # NULL => heap[final[r]] = "live"

IInv ==
  /\ TypeOK /\ LoadInv /\ HeapInv /\ ListInv /\ ViewInv
  /\ CountIsExact /\ UsedInv /\ RequestInv /\ LiveInv

(***************************************************************************)
(* IInv is inductive.                                                      *)
(***************************************************************************)

\* The constants, fact by fact.
LEMMA NullIsNoTopo == \A t \in Topo : t # NULL
  BY ConstantsAssumption, Zenon

LEMMA NullIsNoIndex == NULL \notin Index
  BY ConstantsAssumption, Zenon DEF Index, Maybe

LEMMA ReadersDiffer == /\ \A r \in Request \cup Inspector : r # Main
                       /\ \A r \in Request, m \in Inspector : r # m
  BY ConstantsAssumption, Zenon

\* What Listed() lists are addresses.
LEMMA ListedType == \A ix \in Index : Listed(ix) \subseteq Topo
  BY Zenon DEF Index, Maybe, Listed

\* Listed() leaves nothing out.
LEMMA ListedAll == \A ix \in Index, n \in Name : ix[n] # NULL => ix[n] \in Listed(ix)
  BY Zenon DEF Listed

\* Index::replace and Index::remove list the new topology instead of the one of
\* that name, which was listed under no other.
LEMMA ListedAfterModify ==
  ASSUME NEW ix \in Index, NEW n \in Name, NEW t \in Maybe(Topo),
         \A p, q \in Name : ix[p] # NULL /\ ix[p] = ix[q] => p = q
  PROVE  Listed([ix EXCEPT ![n] = t]) = (Listed(ix) \ {ix[n]}) \cup ({t} \ {NULL})
  BY Zenon DEF Index, Maybe, Listed

\* What a Modify() publishes, and what it takes out.
LEMMA Published ==
  ASSUME IInv, NEW k \in Loader, Modify(k)
  PROVE  /\ name[k] \in Name
         /\ index' = [index EXCEPT ![name[k]] = topo[k]]
         /\ Listed(index') = (Listed(index) \ {index[name[k]]}) \cup ({topo[k]} \ {NULL})
         /\ pc[k] = "modify" /\ pc' = [pc EXCEPT ![k] = "grace"]
         /\ replaced[k] = {}
         /\ replaced' = [replaced EXCEPT ![k] = {index[name[k]]} \ {NULL}]
         /\ {index[name[k]]} \ {NULL} \subseteq Listed(index)
         /\ UNCHANGED <<topo, view, phase, heap, final>>
<1>1. name[k] \in Name /\ topo[k] \in Maybe(Topo) /\ index \in Index /\ replaced[k] = {}
  BY Zenon DEF IInv, TypeOK, DbdType, LoadType, LoadInv, Modify
<1>2. index' = [index EXCEPT ![name[k]] = topo[k]]
  BY Zenon DEF Modify, DBD!Publish, ApplyModifier
<1>3. {index[name[k]]} \ {NULL} \subseteq Listed(index)
  BY <1>1, Zenon DEF Listed
<1>4. \A p, q \in Name : index[p] # NULL /\ index[p] = index[q] => p = q
  BY Zenon DEF IInv, ListInv
<1>5. Listed([index EXCEPT ![name[k]] = topo[k]])
        = (Listed(index) \ {index[name[k]]}) \cup ({topo[k]} \ {NULL})
  BY <1>1, <1>4, ListedAfterModify
<1> QED
  BY <1>1, <1>2, <1>3, <1>5, Zenon DEF Modify, DBD!Publish, Goto, memVars, mainVars, reqVars

\* wait_and_delete waits for the requests that use the topology.
LEMMA UncountedIsUnused ==
  ASSUME UsedInv, NEW t \in Topo, refs[t] = 0
  PROVE  Using(t) = {}
  BY NullIsNoTopo, Zenon DEF UsedInv, Using

\* The picker's choice comes from the Index the request holds.
LEMMA PickedIsListed ==
  ASSUME IInv, NEW r \in Request, PickTopology(r)
  PROVE  \E t \in Maybe(Topo) :
           /\ t # NULL => t \in Listed(view[r])
           /\ final' = [final EXCEPT ![r] = t]
           /\ refs' = IF t # NULL THEN [refs EXCEPT ![t] = @ + 1] ELSE refs
<1>1. PICK n \in Name :
        LET t == IF view[r][n] # NULL THEN view[r][n] ELSE view[r][Served]
        IN  /\ final' = [final EXCEPT ![r] = t]
            /\ refs' = IF t # NULL THEN [refs EXCEPT ![t] = @ + 1] ELSE refs
  BY Zenon DEF PickTopology
<1> DEFINE t == IF view[r][n] # NULL THEN view[r][n] ELSE view[r][Served]
<1>2. view[r] \in Index
  BY Zenon DEF IInv, TypeOK, DbdType, RequestInv, PickTopology, Maybe, Reader
<1>3. t \in Maybe(Topo) /\ (t # NULL => t \in Listed(view[r]))
  BY <1>2, ConstantsAssumption, Zenon DEF Index, Listed
<1> QED
  BY <1>1, <1>3, Zenon

\* Variables that do not change keep their types.
LEMMA Kept ==
  /\ MainType /\ UNCHANGED mainVars => MainType'
  /\ DbdType /\ UNCHANGED dbdVars => DbdType'
  /\ MemType /\ UNCHANGED memVars => MemType'
  /\ LoadType /\ UNCHANGED loadVars => LoadType'
  /\ ReqType /\ UNCHANGED reqVars => ReqType'
  BY Zenon DEF MainType, DbdType, MemType, LoadType, ReqType, mainVars, dbdVars, memVars, loadVars,
         reqVars

\* Every step of every thread keeps the type of every variable.
LEMMA TypeStep == IInv /\ [Next]_vars => TypeOK'
<1> SUFFICES ASSUME IInv, [Next]_vars PROVE TypeOK'
  BY Zenon
<1> USE SMTT(20) DEF IInv, TypeOK
<1>1. CASE UNCHANGED vars
  BY <1>1, Kept, Zenon DEF vars, mainVars, dbdVars, memVars, loadVars, reqVars
<1>2. ASSUME NEW k \in Loader, NEW n \in Name, add_topology(k, n) PROVE TypeOK'
  BY <1>2, Kept, Zenon DEF add_topology, StartAdd, LoadType, LoadPC, Maybe, Goto
<1>3. ASSUME NEW k \in Loader, NEW n \in Name, unloadTopologyByName(k, n) PROVE TypeOK'
  BY <1>3, Kept, Zenon DEF unloadTopologyByName, StartUnload, LoadType, LoadPC, Maybe, Goto
<1>4. ASSUME NEW k \in Loader, EmplaceTopologyMonitor(k) PROVE TypeOK'
  BY <1>4, Kept DEF EmplaceTopologyMonitor, LoadInv, MemType, LoadType, LoadPC, Maybe, Goto
<1>5. ASSUME NEW k \in Loader, CreateTopology(k) PROVE TypeOK'
  BY <1>5, Kept DEF CreateTopology, MainType, MemType, LoadType, LoadPC, Maybe, Goto
<1>6. ASSUME NEW k \in Loader, CreateTopologyFails(k) PROVE TypeOK'
  BY <1>6, Kept, Zenon DEF CreateTopologyFails, LoadType, LoadPC, Maybe, Goto
<1>7. ASSUME NEW k \in Loader, Modify(k) PROVE TypeOK'
  BY <1>7, Kept DEF Modify, DBD!Publish, DBD!Reading, ApplyModifier, LoadInv,
         DbdType, Index, Reader, LoadType, LoadPC, Maybe, Goto
<1>8. ASSUME NEW k \in Loader, ModifyNothing(k) PROVE TypeOK'
  BY <1>8, Kept, Zenon DEF ModifyNothing, LoadType, LoadPC, Maybe, Goto
<1>9. ASSUME NEW k \in Loader, ModifyReturns(k) PROVE TypeOK'
  BY <1>9, Kept, Zenon DEF ModifyReturns, DBD!Return, DbdType, LoadType, LoadPC, Maybe, Goto
<1>10. ASSUME NEW k \in Loader, StorageAdd(k) PROVE TypeOK'
  BY <1>10, Kept DEF StorageAdd, LoadInv, MemType, LoadType, LoadPC, Maybe, Goto
<1>11. ASSUME NEW k \in Loader, WaitReferences(k) PROVE TypeOK'
  BY <1>11, Kept, Zenon DEF WaitReferences, LoadType, LoadPC, Maybe, Goto
<1>12. ASSUME NEW k \in Loader, StorageDelete(k) PROVE TypeOK'
  BY <1>12, Kept, Zenon DEF StorageDelete, MemType, LoadType, LoadPC, Maybe, Goto
<1>13. ASSUME NEW r \in Request, ReadTopologyList(r) PROVE TypeOK'
  BY <1>13, Kept, Zenon DEF ReadTopologyList, StartRequest, DBD!BeginRead, DbdType, Maybe, Reader,
      ReqType, CallPC
<1>14. ASSUME NEW r \in Request, PickTopology(r) PROVE TypeOK'
  <2>1. PICK t \in Maybe(Topo) :
          /\ final' = [final EXCEPT ![r] = t]
          /\ refs' = IF t # NULL THEN [refs EXCEPT ![t] = @ + 1] ELSE refs
    BY <1>14, PickedIsListed, Zenon
  <2>2. final' \in [Request -> Maybe(Topo)] /\ refs' \in [Topo -> Nat]
    BY <2>1 DEF MemType, ReqType, Maybe
  <2> QED
    BY <1>14, <2>2, Kept, Zenon DEF PickTopology, MemType, ReqType, CallPC
<1>15. ASSUME NEW r \in Request, Schedule(r) PROVE TypeOK'
  BY <1>15, Kept, Zenon DEF Schedule, DBD!EndRead, DbdType, Maybe, Reader, ReqType, CallPC
<1>16. ASSUME NEW r \in Request, Finish(r) PROVE TypeOK'
  <2>1. final[r] \in Topo /\ refs[final[r]] \in Nat \ {0}
    BY <1>16, Zenon DEF Finish, MemType, ReqType, Maybe, UsedInv, RequestInv
  <2>2. refs[final[r]] - 1 \in Nat
    BY <2>1
  <2>3. refs' \in [Topo -> Nat]
    BY <1>16, <2>1, <2>2, Zenon DEF Finish, MemType
  <2> QED
    BY <1>16, <2>3, Kept, Zenon DEF Finish, MemType, ReqType, CallPC, Maybe
<1>17. ASSUME NEW m \in Inspector, print_session_using_count(m) PROVE TypeOK'
  BY <1>17, Kept, Zenon DEF print_session_using_count, DBD!BeginRead, DbdType, Maybe, Reader
<1>18. ASSUME NEW m \in Inspector, DeepCopy(m) PROVE TypeOK'
  BY <1>18, Kept, Zenon DEF DeepCopy, DBD!BeginRead, DbdType, Maybe, Reader
<1>19. ASSUME NEW m \in Inspector, Copied(m) PROVE TypeOK'
  BY <1>19, Kept, Zenon DEF Copied, DBD!EndRead, DbdType, Maybe, Reader
<1>20. CASE AppProxyInit
  BY <1>20, Kept, Zenon DEF AppProxyInit, MainType, Phase
<1>21. CASE SetupFails
  BY <1>21, Kept, Zenon DEF SetupFails, MainType, Phase
<1>22. CASE ValidateBegin
  BY <1>22, Kept, Zenon DEF ValidateBegin, DBD!BeginRead, MainType, Phase, DbdType, Maybe, Reader
<1>23. CASE ValidateEnd
  <2>1. tested' \in [Topo -> BOOLEAN]
    BY <1>23, Zenon DEF ValidateEnd, MemType
  <2> QED
    BY <1>23, <2>1, Kept, Zenon DEF ValidateEnd, DBD!EndRead, MainType, Phase, MemType,
           DbdType, Maybe, Reader
<1>24. CASE Stop
  BY <1>24, Kept, Zenon DEF Stop, MainType, Phase
<1>25. CASE clear
  BY <1>25, Kept, Zenon DEF clear, MainType, Phase
<1>26. CASE Exit
  BY <1>26, Kept, Zenon DEF Exit, Destruct, MainType, Phase, MemType
<1> HIDE DEF IInv, TypeOK
<1> QED
  BY <1>1, <1>2, <1>3, <1>4, <1>5, <1>6, <1>7, <1>8, <1>9, <1>10, <1>11, <1>12, <1>13, <1>14,
     <1>15, <1>16, <1>17, <1>18, <1>19, <1>20, <1>21, <1>22, <1>23, <1>24, <1>25, <1>26, Zenon
  DEF Next, Begin, LoadStep, RequestStep, InspectorStep, MainStep, Exited

\* Who allocates, hands over and frees.
LEMMA HeapFrame ==
  [Next]_vars =>
    \/ UNCHANGED <<heap, storage, topo>>
    \/ \E k \in Loader, n \in Name : unloadTopologyByName(k, n)
    \/ \E k \in Loader : CreateTopology(k) \/ StorageAdd(k) \/ StorageDelete(k)
    \/ Exit
  BY Zenon DEF Next, vars, Begin, LoadStep, RequestStep, InspectorStep, MainStep, Exited,
         add_topology, StartAdd, EmplaceTopologyMonitor, CreateTopologyFails, Modify, ModifyNothing,
         ModifyReturns, WaitReferences, ReadTopologyList, StartRequest, PickTopology, Schedule,
         Finish,
         print_session_using_count, DeepCopy, Copied, AppProxyInit, SetupFails,
         ValidateBegin, ValidateEnd, Stop, clear, DBD!BeginRead, DBD!EndRead, DBD!Publish,
         DBD!Reading, DBD!Return, mainVars, dbdVars, memVars, loadVars, reqVars, Goto

\* A topology has one owner, and is freed by nobody else.
LEMMA HeapStep == IInv /\ [Next]_vars => HeapInv'
<1> SUFFICES ASSUME IInv, [Next]_vars PROVE HeapInv'
  BY Zenon
<1> USE SMTT(20) DEF HeapInv, LoadInv, Maybe, IInv, Goto, TypeOK, MemType, LoadType, memVars,
       loadVars
<1>1. CASE UNCHANGED <<heap, storage, topo>>
  BY <1>1, Zenon
<1>2. ASSUME NEW k \in Loader, NEW n \in Name, unloadTopologyByName(k, n) PROVE HeapInv'
  BY <1>2 DEF unloadTopologyByName, StartUnload
<1>3. ASSUME NEW k \in Loader, CreateTopology(k) PROVE HeapInv'
  BY <1>3, NullIsNoTopo DEF CreateTopology, ListInv, LiveInv
<1>4. ASSUME NEW k \in Loader, StorageAdd(k) PROVE HeapInv'
  BY <1>4 DEF StorageAdd
<1>5. ASSUME NEW k \in Loader, StorageDelete(k) PROVE HeapInv'
  BY <1>5 DEF StorageDelete
<1>6. CASE Exit
  BY <1>6 DEF Exit, Destruct
<1> HIDE DEF HeapInv, LoadInv, Maybe, IInv, Goto, TypeOK, MemType, LoadType, memVars, loadVars
<1> QED
  BY <1>1, <1>2, <1>3, <1>4, <1>5, <1>6, HeapFrame, Zenon

\* Who moves a thread inside add_topology or remove_topology, or the main thread.
LEMMA LoadFrame ==
  [Next]_vars =>
    \/ UNCHANGED <<phase, modifying, pc, name, topo, replaced>>
    \/ \E k \in Loader, n \in Name : add_topology(k, n) \/ unloadTopologyByName(k, n)
    \/ \E k \in Loader : EmplaceTopologyMonitor(k) \/ CreateTopology(k) \/ CreateTopologyFails(k)
    \/ \E k \in Loader : Modify(k) \/ ModifyNothing(k) \/ ModifyReturns(k)
    \/ \E k \in Loader : StorageAdd(k) \/ WaitReferences(k) \/ StorageDelete(k)
    \/ AppProxyInit \/ SetupFails \/ ValidateBegin \/ ValidateEnd \/ Stop \/ clear \/ Exit
  BY Zenon DEF Next, vars, Begin, LoadStep, RequestStep, InspectorStep, MainStep, Exited,
         ReadTopologyList, StartRequest, PickTopology, Schedule, Finish, print_session_using_count,
         DeepCopy, Copied, DBD!BeginRead, DBD!EndRead, mainVars, dbdVars, memVars, loadVars,
         reqVars, Goto

\* One Modify() at a time, and locals that are reset on every way out.
LEMMA LoadInvStep == IInv /\ [Next]_vars => LoadInv'
<1> SUFFICES ASSUME IInv, [Next]_vars PROVE LoadInv'
  BY Zenon
<1> USE SMTT(20) DEF LoadInv, IInv, Goto, TypeOK, LoadType, mainVars, dbdVars, loadVars
<1>1. CASE UNCHANGED <<phase, modifying, pc, name, topo, replaced>>
  BY <1>1, Zenon
<1>2. ASSUME NEW k \in Loader, NEW n \in Name, add_topology(k, n) PROVE LoadInv'
  BY <1>2, Zenon DEF add_topology, StartAdd, MayAdd
<1>3. ASSUME NEW k \in Loader, NEW n \in Name, unloadTopologyByName(k, n) PROVE LoadInv'
  BY <1>3, Zenon DEF unloadTopologyByName, StartUnload
<1>4. ASSUME NEW k \in Loader, EmplaceTopologyMonitor(k) PROVE LoadInv'
  BY <1>4 DEF EmplaceTopologyMonitor
<1>5. ASSUME NEW k \in Loader, CreateTopology(k) PROVE LoadInv'
  BY <1>5, NullIsNoTopo DEF CreateTopology
<1>6. ASSUME NEW k \in Loader, CreateTopologyFails(k) PROVE LoadInv'
  BY <1>6, Zenon DEF CreateTopologyFails
<1>7. ASSUME NEW k \in Loader, Modify(k) PROVE LoadInv'
  BY <1>7, Zenon DEF Modify, DBD!Publish, DBD!Reading
<1>8. ASSUME NEW k \in Loader, ModifyNothing(k) PROVE LoadInv'
  BY <1>8, Zenon DEF ModifyNothing
<1>9. ASSUME NEW k \in Loader, ModifyReturns(k) PROVE LoadInv'
  BY <1>9, Zenon DEF ModifyReturns, DBD!Return
<1>10. ASSUME NEW k \in Loader, StorageAdd(k) PROVE LoadInv'
  BY <1>10, Zenon DEF StorageAdd
<1>11. ASSUME NEW k \in Loader, WaitReferences(k) PROVE LoadInv'
  BY <1>11, Zenon DEF WaitReferences
<1>12. ASSUME NEW k \in Loader, StorageDelete(k) PROVE LoadInv'
  BY <1>12, Zenon DEF StorageDelete
<1>13. CASE AppProxyInit
  BY <1>13, Zenon DEF AppProxyInit
<1>14. CASE SetupFails
  BY <1>14, Zenon DEF SetupFails
<1>15. CASE ValidateBegin
  BY <1>15, Zenon DEF ValidateBegin, DBD!BeginRead
<1>16. CASE ValidateEnd
  BY <1>16, Zenon DEF ValidateEnd, DBD!EndRead
<1>17. CASE Stop
  BY <1>17, Zenon DEF Stop
<1>18. CASE clear
  BY <1>18, Zenon DEF clear
<1>19. CASE Exit
  BY <1>19, Zenon DEF Exit, Destruct
<1> HIDE DEF LoadInv, IInv, Goto, TypeOK, LoadType, mainVars, dbdVars, loadVars
<1> QED
  BY <1>1, <1>2, <1>3, <1>4, <1>5, <1>6, <1>7, <1>8, <1>9, <1>10, <1>11, <1>12, <1>13, <1>14,
     <1>15, <1>16, <1>17, <1>18, <1>19, LoadFrame, Zenon

\* Who publishes, and who takes what has been unlisted.
LEMMA ListFrame ==
  [Next]_vars =>
    \/ UNCHANGED <<index, pc, topo, replaced>>
    \/ \E k \in Loader, n \in Name : add_topology(k, n) \/ unloadTopologyByName(k, n)
    \/ \E k \in Loader : EmplaceTopologyMonitor(k) \/ CreateTopology(k) \/ CreateTopologyFails(k)
    \/ \E k \in Loader : Modify(k) \/ ModifyNothing(k) \/ ModifyReturns(k)
    \/ \E k \in Loader : StorageAdd(k) \/ WaitReferences(k) \/ StorageDelete(k)
  BY Zenon DEF Next, vars, Begin, LoadStep, RequestStep, InspectorStep, MainStep, Exited,
         ReadTopologyList, StartRequest, PickTopology, Schedule, Finish, print_session_using_count,
         DeepCopy, Copied, AppProxyInit, SetupFails, ValidateBegin, ValidateEnd, Stop, clear,
         Exit, Destruct, DBD!BeginRead, DBD!EndRead, mainVars, dbdVars, memVars, loadVars, reqVars,
         Goto

\* A Modify() lists an address nobody else knows, and takes out one nobody else has.
LEMMA ListStep == IInv /\ [Next]_vars => ListInv'
<1> SUFFICES ASSUME IInv, [Next]_vars PROVE ListInv'
  BY Zenon
<1> USE SMTT(20) DEF ListInv, IInv, Goto, TypeOK, DbdType, LoadType, dbdVars, loadVars
<1>1. CASE UNCHANGED <<index, pc, topo, replaced>>
  BY <1>1, Zenon
<1>2. ASSUME NEW k \in Loader, NEW n \in Name, add_topology(k, n) PROVE ListInv'
  BY <1>2, Zenon DEF add_topology, StartAdd
<1>3. ASSUME NEW k \in Loader, NEW n \in Name, unloadTopologyByName(k, n) PROVE ListInv'
  BY <1>3, Zenon DEF unloadTopologyByName, StartUnload
<1>4. ASSUME NEW k \in Loader, EmplaceTopologyMonitor(k) PROVE ListInv'
  BY <1>4 DEF EmplaceTopologyMonitor
<1>5. ASSUME NEW k \in Loader, CreateTopology(k) PROVE ListInv'
  BY <1>5 DEF CreateTopology, LoadInv, LiveInv
<1>6. ASSUME NEW k \in Loader, CreateTopologyFails(k) PROVE ListInv'
  BY <1>6, Zenon DEF CreateTopologyFails
<1>7. ASSUME NEW k \in Loader, Modify(k) PROVE ListInv'
  <2>1. /\ name[k] \in Name
        /\ index' = [index EXCEPT ![name[k]] = topo[k]]
        /\ Listed(index') = (Listed(index) \ {index[name[k]]}) \cup ({topo[k]} \ {NULL})
        /\ pc[k] = "modify" /\ pc' = [pc EXCEPT ![k] = "grace"]
        /\ replaced[k] = {}
        /\ replaced' = [replaced EXCEPT ![k] = {index[name[k]]} \ {NULL}]
        /\ {index[name[k]]} \ {NULL} \subseteq Listed(index)
        /\ UNCHANGED <<topo, view, phase, heap, final>>
    BY <1>7, Published, Zenon
  <2>2. \A n, m \in Name : index'[n] # NULL /\ index'[n] = index'[m] => n = m
    BY <2>1, ListedAll
  <2>3. \A l \in Loader : pc'[l] = "modify" /\ topo'[l] # NULL => topo'[l] \notin Listed(index')
    BY <2>1, Zenon DEF HeapInv
  <2>4. \A j, l \in Loader : pc'[j] = "modify" /\ topo'[j] # NULL => topo'[j] \notin replaced'[l]
    BY <2>1, Zenon
  <2>5. \A l \in Loader : \A t \in replaced'[l] : t \notin Listed(index')
    <3> SUFFICES ASSUME NEW l \in Loader, NEW t \in replaced'[l] PROVE t \notin Listed(index')
      BY Zenon
    <3>1. CASE l = k
      BY <2>1, <3>1, Zenon
    <3>2. CASE l # k
      <4>1. t \in replaced[l]
        BY <2>1, <3>2, Zenon
      <4>2. t \notin Listed(index) /\ (topo[k] # NULL => t # topo[k])
        BY <2>1, <4>1
      <4> QED
        BY <2>1, <4>2, Zenon
    <3> QED
      BY <3>1, <3>2, Zenon
  <2>6. \A j, l \in Loader : \A t \in replaced'[j] : t \in replaced'[l] => j = l
    BY <2>1
  <2> QED
    BY <2>2, <2>3, <2>4, <2>5, <2>6, Zenon
<1>8. ASSUME NEW k \in Loader, ModifyNothing(k) PROVE ListInv'
  BY <1>8, Zenon DEF ModifyNothing
<1>9. ASSUME NEW k \in Loader, ModifyReturns(k) PROVE ListInv'
  BY <1>9, Zenon DEF ModifyReturns, DBD!Return
<1>10. ASSUME NEW k \in Loader, StorageAdd(k) PROVE ListInv'
  BY <1>10, Zenon DEF StorageAdd, LoadInv
<1>11. ASSUME NEW k \in Loader, WaitReferences(k) PROVE ListInv'
  BY <1>11, Zenon DEF WaitReferences
<1>12. ASSUME NEW k \in Loader, StorageDelete(k) PROVE ListInv'
  BY <1>12, Zenon DEF StorageDelete
<1> HIDE DEF ListInv, IInv, Goto, TypeOK, DbdType, LoadType, dbdVars, loadVars
<1> QED
  BY <1>1, <1>2, <1>3, <1>4, <1>5, <1>6, <1>7, <1>8, <1>9, <1>10, <1>11, <1>12, ListFrame, Zenon

-----------------------------------------------------------------------------
(* What readers and requests see.                                          *)

\* Who reads the Index, and who changes what readers wait for.
LEMMA ViewFrame ==
  [Next]_vars =>
    \/ UNCHANGED <<view, index, old, modifying, pc, replaced>>
    \/ \E k \in Loader, n \in Name : add_topology(k, n) \/ unloadTopologyByName(k, n)
    \/ \E k \in Loader : EmplaceTopologyMonitor(k) \/ CreateTopology(k) \/ CreateTopologyFails(k)
    \/ \E k \in Loader : Modify(k) \/ ModifyNothing(k) \/ ModifyReturns(k)
    \/ \E k \in Loader : StorageAdd(k) \/ WaitReferences(k) \/ StorageDelete(k)
    \/ \E r \in Request : ReadTopologyList(r) \/ Schedule(r)
    \/ \E m \in Inspector : print_session_using_count(m) \/ DeepCopy(m) \/ Copied(m)
    \/ ValidateBegin \/ ValidateEnd
  BY Zenon DEF Next, vars, Begin, LoadStep, RequestStep, InspectorStep, MainStep, Exited,
         PickTopology, Finish, AppProxyInit, SetupFails, Stop, clear, Exit, Destruct, mainVars,
         dbdVars, memVars, loadVars, reqVars, Goto

\* Modify() returns when no reader sees what it has taken out.
LEMMA ViewStep == IInv /\ [Next]_vars => ViewInv'
<1> SUFFICES ASSUME IInv, [Next]_vars PROVE ViewInv'
  BY Zenon
<1> USE SMTT(20) DEF ViewInv, Reader, IInv, Goto, TypeOK, DbdType, LoadType, dbdVars, loadVars
<1>1. CASE UNCHANGED <<view, index, old, modifying, pc, replaced>>
  BY <1>1, Zenon
<1>2. ASSUME NEW k \in Loader, NEW n \in Name, add_topology(k, n) PROVE ViewInv'
  BY <1>2, Zenon DEF add_topology, StartAdd
<1>3. ASSUME NEW k \in Loader, NEW n \in Name, unloadTopologyByName(k, n) PROVE ViewInv'
  BY <1>3, Zenon DEF unloadTopologyByName, StartUnload
<1>4. ASSUME NEW k \in Loader, EmplaceTopologyMonitor(k) PROVE ViewInv'
  BY <1>4, Zenon DEF EmplaceTopologyMonitor
<1>5. ASSUME NEW k \in Loader, CreateTopology(k) PROVE ViewInv'
  BY <1>5, Zenon DEF CreateTopology
<1>6. ASSUME NEW k \in Loader, CreateTopologyFails(k) PROVE ViewInv'
  BY <1>6, Zenon DEF CreateTopologyFails
<1>7. ASSUME NEW k \in Loader, Modify(k) PROVE ViewInv'
  <2>1. /\ name[k] \in Name
        /\ index' = [index EXCEPT ![name[k]] = topo[k]]
        /\ Listed(index') = (Listed(index) \ {index[name[k]]}) \cup ({topo[k]} \ {NULL})
        /\ pc[k] = "modify" /\ pc' = [pc EXCEPT ![k] = "grace"]
        /\ replaced[k] = {}
        /\ replaced' = [replaced EXCEPT ![k] = {index[name[k]]} \ {NULL}]
        /\ {index[name[k]]} \ {NULL} \subseteq Listed(index)
        /\ UNCHANGED <<topo, view, phase, heap, final>>
    BY <1>7, Published, Zenon
  <2>2. ~modifying /\ modifying' /\ old' = {r \in Reader : view[r] # NULL}
    BY <1>7, Zenon DEF Modify, DBD!Publish, DBD!Reading
  <2>3. ASSUME NEW r \in Reader, view[r] # NULL, NEW t \in Listed(view[r]), t \notin Listed(index')
        PROVE  pc'[k] = "grace" /\ t \in replaced'[k] /\ r \in old'
    <3>1. t \in Listed(index)
      BY <2>2, <2>3, Zenon DEF LoadInv
    <3>2. t = index[name[k]] /\ t # NULL
      BY <2>1, <2>3, <3>1, Zenon DEF Listed
    <3> QED
      BY <2>1, <2>2, <2>3, <3>2, Zenon
  <2> QED
    BY <2>1, <2>2, <2>3, Zenon
<1>8. ASSUME NEW k \in Loader, ModifyNothing(k) PROVE ViewInv'
  BY <1>8, Zenon DEF ModifyNothing
<1>9. ASSUME NEW k \in Loader, ModifyReturns(k) PROVE ViewInv'
  BY <1>9, Zenon DEF ModifyReturns, DBD!Return, LoadInv
<1>10. ASSUME NEW k \in Loader, StorageAdd(k) PROVE ViewInv'
  BY <1>10, Zenon DEF StorageAdd
<1>11. ASSUME NEW k \in Loader, WaitReferences(k) PROVE ViewInv'
  BY <1>11, Zenon DEF WaitReferences
<1>12. ASSUME NEW k \in Loader, StorageDelete(k) PROVE ViewInv'
  BY <1>12, Zenon DEF StorageDelete, LoadInv
<1>13. ASSUME NEW r \in Request, ReadTopologyList(r) PROVE ViewInv'
  BY <1>13, Zenon DEF ReadTopologyList, StartRequest, DBD!BeginRead
<1>14. ASSUME NEW r \in Request, Schedule(r) PROVE ViewInv'
  BY <1>14, Zenon DEF Schedule, DBD!EndRead
<1>15. ASSUME NEW m \in Inspector, print_session_using_count(m) PROVE ViewInv'
  BY <1>15, Zenon DEF print_session_using_count, DBD!BeginRead
<1>16. ASSUME NEW m \in Inspector, DeepCopy(m) PROVE ViewInv'
  BY <1>16, Zenon DEF DeepCopy, DBD!BeginRead
<1>17. ASSUME NEW m \in Inspector, Copied(m) PROVE ViewInv'
  BY <1>17, Zenon DEF Copied, DBD!EndRead
<1>18. CASE ValidateBegin
  BY <1>18, Zenon DEF ValidateBegin, DBD!BeginRead
<1>19. CASE ValidateEnd
  BY <1>19, Zenon DEF ValidateEnd, DBD!EndRead
<1> HIDE DEF ViewInv, Reader, IInv, Goto, TypeOK, DbdType, LoadType, dbdVars, loadVars
<1> QED
  BY <1>1, <1>2, <1>3, <1>4, <1>5, <1>6, <1>7, <1>8, <1>9, <1>10, <1>11, <1>12, <1>13, <1>14,
     <1>15, <1>16, <1>17, <1>18, <1>19, ViewFrame, Zenon

\* Who lists, uses and frees.
LEMMA LiveFrame ==
  [Next]_vars =>
    \/ UNCHANGED <<phase, heap, index, replaced, final>>
    \/ \E k \in Loader : CreateTopology(k) \/ Modify(k) \/ StorageDelete(k)
    \/ \E r \in Request : PickTopology(r) \/ Finish(r)
    \/ AppProxyInit \/ SetupFails \/ ValidateBegin \/ ValidateEnd \/ Stop \/ clear \/ Exit
  BY Zenon DEF Next, vars, Begin, LoadStep, RequestStep, InspectorStep, MainStep, Exited,
         add_topology, StartAdd, unloadTopologyByName, StartUnload, EmplaceTopologyMonitor,
         CreateTopologyFails,
         ModifyNothing, ModifyReturns, StorageAdd, WaitReferences, ReadTopologyList, StartRequest,
         Schedule, print_session_using_count, DeepCopy, Copied, DBD!BeginRead, DBD!EndRead,
         DBD!Return, mainVars, dbdVars, memVars, loadVars, reqVars, Goto

\* What is deleted is listed nowhere, held by nobody and used by no request.
LEMMA LiveStep == IInv /\ [Next]_vars => LiveInv'
<1> SUFFICES ASSUME IInv, [Next]_vars PROVE LiveInv'
  BY Zenon
<1> USE SMTT(20) DEF LiveInv, IInv, Goto, TypeOK, DbdType, MemType, LoadType, ReqType, mainVars,
       dbdVars, memVars, loadVars, reqVars
<1>1. CASE UNCHANGED <<phase, heap, index, replaced, final>>
  BY <1>1, Zenon
<1>2. ASSUME NEW k \in Loader, CreateTopology(k) PROVE LiveInv'
  BY <1>2, ListedType DEF CreateTopology
<1>3. ASSUME NEW k \in Loader, Modify(k) PROVE LiveInv'
  <2>1. /\ name[k] \in Name
        /\ index' = [index EXCEPT ![name[k]] = topo[k]]
        /\ Listed(index') = (Listed(index) \ {index[name[k]]}) \cup ({topo[k]} \ {NULL})
        /\ pc[k] = "modify" /\ pc' = [pc EXCEPT ![k] = "grace"]
        /\ replaced[k] = {}
        /\ replaced' = [replaced EXCEPT ![k] = {index[name[k]]} \ {NULL}]
        /\ {index[name[k]]} \ {NULL} \subseteq Listed(index)
        /\ UNCHANGED <<topo, view, phase, heap, final>>
    BY <1>3, Published, Zenon
  <2>2. topo[k] # NULL => heap[topo[k]] = "live"
    BY Zenon DEF HeapInv
  <2> QED
    BY <2>1, <2>2, Zenon
<1>4. ASSUME NEW k \in Loader, StorageDelete(k) PROVE LiveInv'
  <2>1. \A t \in Topo : heap'[t] # heap[t] => t \in replaced[k]
    BY <1>4, Zenon DEF StorageDelete
  <2>2. \A t \in replaced[k] : t \notin Listed(index) /\ (\A r \in Request : final[r] # t)
    BY <1>4, Zenon DEF StorageDelete, ListInv, RequestInv, Using
  <2>3. \A l \in Loader : \A t \in replaced'[l] : t \in replaced[l] /\ t \notin replaced[k]
    BY <1>4, Zenon DEF StorageDelete, ListInv
  <2>4. Listed(index) \subseteq Topo
    BY ListedType, Zenon
  <2>5. phase' = phase /\ index' = index /\ final' = final
    BY <1>4, Zenon DEF StorageDelete
  <2>6. phase # "exited" => \A t \in Listed(index) : heap'[t] = "live"
    BY <2>1, <2>2, <2>4, Zenon
  <2>7. phase # "exited" => \A l \in Loader : \A t \in replaced'[l] : heap'[t] = "live"
    BY <2>1, <2>3, Zenon
  <2>8. phase # "exited" => \A r \in Request : final[r] # NULL => heap'[final[r]] = "live"
    BY <2>1, <2>2, Zenon DEF Maybe
  <2> QED
    BY <2>5, <2>6, <2>7, <2>8, Zenon
<1>5. ASSUME NEW r \in Request, PickTopology(r) PROVE LiveInv'
  <2>1. PICK t \in Maybe(Topo) :
          (t # NULL => t \in Listed(view[r])) /\ final' = [final EXCEPT ![r] = t]
    BY <1>5, PickedIsListed, Zenon
  <2>2. view[r] # NULL /\ phase = "serving" /\ UNCHANGED <<phase, heap, index, replaced>>
    BY <1>5, Zenon DEF PickTopology, RequestInv
  <2>3. t # NULL => heap[t] = "live"
    BY <2>1, <2>2, Zenon DEF ViewInv, Reader
  <2> QED
    BY <2>1, <2>2, <2>3, Zenon
<1>6. ASSUME NEW r \in Request, Finish(r) PROVE LiveInv'
  BY <1>6, Zenon DEF Finish
<1>7. CASE AppProxyInit
  BY <1>7, Zenon DEF AppProxyInit
<1>8. CASE SetupFails
  BY <1>8, Zenon DEF SetupFails
<1>9. CASE ValidateBegin
  BY <1>9, Zenon DEF ValidateBegin, DBD!BeginRead
<1>10. CASE ValidateEnd
  BY <1>10, Zenon DEF ValidateEnd, DBD!EndRead
<1>11. CASE Stop
  BY <1>11, Zenon DEF Stop
<1>12. CASE clear
  BY <1>12, Zenon DEF clear
<1>13. CASE Exit
  BY <1>13, Zenon DEF Exit, Destruct
<1> HIDE DEF LiveInv, IInv, Goto, TypeOK, DbdType, MemType, LoadType, ReqType, mainVars, dbdVars,
             memVars, loadVars, reqVars
<1> QED
  BY <1>1, <1>2, <1>3, <1>4, <1>5, <1>6, <1>7, <1>8, <1>9, <1>10, <1>11, <1>12, <1>13,
     LiveFrame, Zenon

\* A request picks from the Index it holds, and what is waited for is not picked again.
LEMMA RequestInvStep == IInv /\ [Next]_vars => RequestInv'
<1> SUFFICES ASSUME IInv, [Next]_vars PROVE RequestInv'
  BY Zenon
<1> USE SMTT(20) DEF RequestInv, Using, IInv, Goto, TypeOK, DbdType, LoadType, ReqType, mainVars,
       dbdVars, loadVars, reqVars
<1>1. CASE UNCHANGED vars
  BY <1>1 DEF vars
<1>2. ASSUME NEW k \in Loader, NEW n \in Name, add_topology(k, n) PROVE RequestInv'
  BY <1>2, Zenon DEF add_topology, StartAdd
<1>3. ASSUME NEW k \in Loader, NEW n \in Name, unloadTopologyByName(k, n) PROVE RequestInv'
  BY <1>3, Zenon DEF unloadTopologyByName, StartUnload
<1>4. ASSUME NEW k \in Loader, EmplaceTopologyMonitor(k) PROVE RequestInv'
  BY <1>4 DEF EmplaceTopologyMonitor
<1>5. ASSUME NEW k \in Loader, CreateTopology(k) PROVE RequestInv'
  BY <1>5 DEF CreateTopology
<1>6. ASSUME NEW k \in Loader, CreateTopologyFails(k) PROVE RequestInv'
  BY <1>6 DEF CreateTopologyFails
<1>7. ASSUME NEW k \in Loader, Modify(k) PROVE RequestInv'
  BY <1>7 DEF Modify, DBD!Publish, DBD!Reading
<1>8. ASSUME NEW k \in Loader, ModifyNothing(k) PROVE RequestInv'
  BY <1>8 DEF ModifyNothing
<1>9. ASSUME NEW k \in Loader, ModifyReturns(k) PROVE RequestInv'
  BY <1>9 DEF ModifyReturns, DBD!Return
<1>10. ASSUME NEW k \in Loader, StorageAdd(k) PROVE RequestInv'
  BY <1>10 DEF StorageAdd
<1>11. ASSUME NEW k \in Loader, WaitReferences(k) PROVE RequestInv'
  <2>1. \A t \in replaced[k] : Using(t) = {}
    BY <1>11, UncountedIsUnused, Zenon DEF WaitReferences
  <2> QED
    BY <1>11, <2>1 DEF WaitReferences
<1>12. ASSUME NEW k \in Loader, StorageDelete(k) PROVE RequestInv'
  BY <1>12 DEF StorageDelete
<1>13. ASSUME NEW r \in Request, ReadTopologyList(r) PROVE RequestInv'
  BY <1>13, NullIsNoIndex DEF ReadTopologyList, StartRequest, DBD!BeginRead, Maybe, Reader
<1>14. ASSUME NEW r \in Request, PickTopology(r) PROVE RequestInv'
  <2>1. PICK u \in Maybe(Topo) :
          (u # NULL => u \in Listed(view[r])) /\ final' = [final EXCEPT ![r] = u]
    BY <1>14, PickedIsListed, Zenon
  <2>2. /\ rpc[r] = "pick" /\ rpc' = [rpc EXCEPT ![r] = "picked"]
        /\ UNCHANGED <<phase, view, pc, replaced>>
    BY <1>14, Zenon DEF PickTopology
  <2>3. ASSUME NEW k \in Loader, pc[k] = "delete", NEW t \in replaced[k]
        PROVE  {q \in Request : final'[q] = t} = {}
    <3>1. u # t
      BY <2>1, <2>2, <2>3, NullIsNoTopo DEF ViewInv, ListInv, Reader
    <3> QED
      BY <2>1, <2>3, <3>1, Zenon
  <2> QED
    BY <2>1, <2>2, <2>3, Zenon
<1>15. ASSUME NEW r \in Request, Schedule(r) PROVE RequestInv'
  BY <1>15 DEF Schedule, DBD!EndRead
<1>16. ASSUME NEW r \in Request, Finish(r) PROVE RequestInv'
  BY <1>16, NullIsNoTopo, Zenon DEF Finish
<1>17. ASSUME NEW m \in Inspector, print_session_using_count(m) PROVE RequestInv'
  BY <1>17 DEF print_session_using_count, DBD!BeginRead
<1>18. ASSUME NEW m \in Inspector, DeepCopy(m) PROVE RequestInv'
  BY <1>18 DEF DeepCopy, DBD!BeginRead
<1>19. ASSUME NEW m \in Inspector, Copied(m) PROVE RequestInv'
  BY <1>19, ReadersDiffer DEF Copied, DBD!EndRead
<1>20. CASE AppProxyInit
  BY <1>20, Zenon DEF AppProxyInit
<1>21. CASE SetupFails
  BY <1>21 DEF SetupFails
<1>22. CASE ValidateBegin
  BY <1>22 DEF ValidateBegin, DBD!BeginRead
<1>23. CASE ValidateEnd
  BY <1>23 DEF ValidateEnd, DBD!EndRead
<1>24. CASE Stop
  BY <1>24, Zenon DEF Stop
<1>25. CASE clear
  BY <1>25 DEF clear
<1>26. CASE Exit
  BY <1>26, Zenon DEF Exit, Destruct
<1> HIDE DEF RequestInv, Using, IInv, Goto, TypeOK, DbdType, LoadType, ReqType, mainVars, dbdVars,
             loadVars, reqVars
<1> QED
  BY <1>1, <1>2, <1>3, <1>4, <1>5, <1>6, <1>7, <1>8, <1>9, <1>10, <1>11, <1>12, <1>13, <1>14,
     <1>15, <1>16, <1>17, <1>18, <1>19, <1>20, <1>21, <1>22, <1>23, <1>24, <1>25, <1>26, Zenon
  DEF Next, Begin, LoadStep, RequestStep, InspectorStep, MainStep, Exited

(***************************************************************************)
(* The topology "default" is there from AppProxy::init on.                 *)
(***************************************************************************)
DefaultInv ==
  /\ \A k \in Loader : pc[k] = "modify" /\ topo[k] = NULL => name[k] # Default
  /\ phase \in {"initialized", "validating", "serving"} => index[Served] # NULL
  /\ \A r \in Request : view[r] # NULL => view[r][Served] # NULL
  /\ \A r \in Request : rpc[r] = "picked" => final[r] # NULL

\* unloadTopologyByName spares "default", so that a Modify() of it puts another
\* topology in its place.
LEMMA DefaultStep == Served = Default /\ IInv /\ DefaultInv /\ [Next]_vars => DefaultInv'
<1> SUFFICES ASSUME Served = Default /\ IInv /\ DefaultInv, [Next]_vars PROVE DefaultInv'
  BY Zenon
<1> USE SMTT(20) DEF DefaultInv, IInv, Goto, TypeOK, DbdType, LoadType, ReqType, mainVars, dbdVars,
            loadVars, reqVars
<1>1. CASE UNCHANGED vars
  BY <1>1, Zenon DEF vars
<1>2. ASSUME NEW k \in Loader, NEW n \in Name, add_topology(k, n) PROVE DefaultInv'
  BY <1>2, Zenon DEF add_topology, StartAdd
<1>3. ASSUME NEW k \in Loader, NEW n \in Name, unloadTopologyByName(k, n) PROVE DefaultInv'
  BY <1>3, Zenon DEF unloadTopologyByName, StartUnload
<1>4. ASSUME NEW k \in Loader, EmplaceTopologyMonitor(k) PROVE DefaultInv'
  BY <1>4, Zenon DEF EmplaceTopologyMonitor
<1>5. ASSUME NEW k \in Loader, CreateTopology(k) PROVE DefaultInv'
  BY <1>5, NullIsNoTopo, Zenon DEF CreateTopology
<1>6. ASSUME NEW k \in Loader, CreateTopologyFails(k) PROVE DefaultInv'
  BY <1>6, Zenon DEF CreateTopologyFails
<1>7. ASSUME NEW k \in Loader, Modify(k) PROVE DefaultInv'
  <2>1. /\ name[k] \in Name
        /\ index' = [index EXCEPT ![name[k]] = topo[k]]
        /\ Listed(index') = (Listed(index) \ {index[name[k]]}) \cup ({topo[k]} \ {NULL})
        /\ pc[k] = "modify" /\ pc' = [pc EXCEPT ![k] = "grace"]
        /\ replaced[k] = {}
        /\ replaced' = [replaced EXCEPT ![k] = {index[name[k]]} \ {NULL}]
        /\ {index[name[k]]} \ {NULL} \subseteq Listed(index)
        /\ UNCHANGED <<topo, view, phase, heap, final>>
    BY <1>7, Published, Zenon
  <2>2. name' = name /\ rpc' = rpc
    BY <1>7, Zenon DEF Modify
  <2>3. index[Served] # NULL => index'[Served] # NULL
    BY <2>1
  <2> QED
    BY <2>1, <2>2, <2>3, Zenon
<1>8. ASSUME NEW k \in Loader, ModifyNothing(k) PROVE DefaultInv'
  BY <1>8, Zenon DEF ModifyNothing
<1>9. ASSUME NEW k \in Loader, ModifyReturns(k) PROVE DefaultInv'
  BY <1>9, Zenon DEF ModifyReturns, DBD!Return
<1>10. ASSUME NEW k \in Loader, StorageAdd(k) PROVE DefaultInv'
  BY <1>10, NullIsNoTopo, Zenon DEF StorageAdd
<1>11. ASSUME NEW k \in Loader, WaitReferences(k) PROVE DefaultInv'
  BY <1>11, Zenon DEF WaitReferences
<1>12. ASSUME NEW k \in Loader, StorageDelete(k) PROVE DefaultInv'
  BY <1>12, Zenon DEF StorageDelete
<1>13. ASSUME NEW r \in Request, ReadTopologyList(r) PROVE DefaultInv'
  BY <1>13, NullIsNoIndex, Zenon DEF ReadTopologyList, StartRequest, DBD!BeginRead, RequestInv,
      Reader
<1>14. ASSUME NEW r \in Request, PickTopology(r) PROVE DefaultInv'
  <2>1. view[r] \in Index /\ view[r][Served] # NULL
    BY <1>14, Zenon DEF PickTopology, RequestInv, Maybe, Reader
  <2>2. final'[r] # NULL /\ \A q \in Request : q # r => final'[q] = final[q]
    BY <1>14, <2>1, Zenon DEF PickTopology
  <2> QED
    BY <1>14, <2>2, Zenon DEF PickTopology
<1>15. ASSUME NEW r \in Request, Schedule(r) PROVE DefaultInv'
  BY <1>15, ReadersDiffer, Zenon DEF Schedule, DBD!EndRead, Reader
<1>16. ASSUME NEW r \in Request, Finish(r) PROVE DefaultInv'
  BY <1>16, Zenon DEF Finish
<1>17. ASSUME NEW m \in Inspector, print_session_using_count(m) PROVE DefaultInv'
  BY <1>17, ReadersDiffer, Zenon DEF print_session_using_count, DBD!BeginRead, Reader
<1>18. ASSUME NEW m \in Inspector, DeepCopy(m) PROVE DefaultInv'
  BY <1>18, ReadersDiffer, Zenon DEF DeepCopy, DBD!BeginRead, Reader
<1>19. ASSUME NEW m \in Inspector, Copied(m) PROVE DefaultInv'
  BY <1>19, ReadersDiffer, Zenon DEF Copied, DBD!EndRead, Reader
<1>20. CASE AppProxyInit
  BY <1>20, Zenon DEF AppProxyInit
<1>21. CASE SetupFails
  BY <1>21, Zenon DEF SetupFails
<1>22. CASE ValidateBegin
  BY <1>22, ReadersDiffer, Zenon DEF ValidateBegin, DBD!BeginRead, Reader
<1>23. CASE ValidateEnd
  BY <1>23, ReadersDiffer, Zenon DEF ValidateEnd, DBD!EndRead, Reader
<1>24. CASE Stop
  BY <1>24, Zenon DEF Stop
<1>25. CASE clear
  BY <1>25, Zenon DEF clear
<1>26. CASE Exit
  BY <1>26, Zenon DEF Exit, Destruct
<1> HIDE DEF DefaultInv, IInv, Goto, TypeOK, DbdType, LoadType, ReqType, mainVars, dbdVars,
             loadVars, reqVars
<1> QED
  BY <1>1, <1>2, <1>3, <1>4, <1>5, <1>6, <1>7, <1>8, <1>9, <1>10, <1>11, <1>12, <1>13, <1>14,
     <1>15, <1>16, <1>17, <1>18, <1>19, <1>20, <1>21, <1>22, <1>23, <1>24, <1>25, <1>26, Zenon
  DEF Next, Begin, LoadStep, RequestStep, InspectorStep, MainStep, Exited

(***************************************************************************)
(* Where nothing but the main thread adds topologies before the server     *)
(* runs, whatever a request may pick has been tested.                      *)
(***************************************************************************)
TestedInv ==
  /\ phase \in {"initialized", "validating", "serving"} => app_initialized
  /\ phase \in {"appInit", "initialized", "validating"} => \A k \in BizThread : pc[k] = "idle"
  /\ phase \in {"initialized", "validating"} => pc[Main] = "idle"
  /\ phase = "validating" => view[Main] = index
  /\ phase = "serving" =>
       /\ \A t \in Listed(index) : tested[t]
       /\ \A k \in Loader : topo[k] # NULL => tested[topo[k]]
  /\ \A r \in Request : view[r] # NULL => \A t \in Listed(view[r]) : tested[t]
  /\ \A r \in Request : final[r] # NULL => tested[final[r]]

\* Before the server runs the main thread is alone and tests what is listed; after
\* that CreateSessionLocalDataPool tests each new topology.
LEMMA TestedStep == AppThread = {} /\ IInv /\ TestedInv /\ [Next]_vars => TestedInv'
<1> SUFFICES ASSUME AppThread = {} /\ IInv /\ TestedInv, [Next]_vars PROVE TestedInv'
  BY Zenon
<1> USE SMTT(20) DEF TestedInv, IInv, Goto, TypeOK, DbdType, MemType, LoadType, ReqType, mainVars,
            dbdVars, memVars, loadVars, reqVars
<1>1. CASE UNCHANGED vars
  BY <1>1, Zenon DEF vars
<1>2. ASSUME NEW k \in Loader, NEW n \in Name, add_topology(k, n) PROVE TestedInv'
  BY <1>2, ConstantsAssumption DEF add_topology, StartAdd, MayAdd, Loader
<1>3. ASSUME NEW k \in Loader, NEW n \in Name, unloadTopologyByName(k, n) PROVE TestedInv'
  BY <1>3, ConstantsAssumption, Zenon DEF unloadTopologyByName, StartUnload, Loader
<1>4. ASSUME NEW k \in Loader, EmplaceTopologyMonitor(k) PROVE TestedInv'
  BY <1>4, ConstantsAssumption, Zenon DEF EmplaceTopologyMonitor, Loader
<1>5. ASSUME NEW k \in Loader, CreateTopology(k) PROVE TestedInv'
  <2>1. PICK u \in Topo :
          /\ heap[u] = "free"
          /\ tested' = [tested EXCEPT ![u] = app_initialized]
          /\ topo' = [topo EXCEPT ![k] = u]
    BY <1>5, Zenon DEF CreateTopology
  <2>2. phase # "exited" /\ pc[k] = "pool" /\ pc' = [pc EXCEPT ![k] = "modify"]
    BY <1>5, Zenon DEF CreateTopology, IInv, LoadInv
  <2>3. \A r \in Reader : view[r] # NULL => \A t \in Listed(view[r]) : heap[t] = "live"
    BY <2>2 DEF IInv, ViewInv, LiveInv
  <2>4. \A t \in Listed(index) : t # u
    BY <2>1, <2>2, Zenon DEF IInv, LiveInv
  <2>5. \A r \in Request : final[r] # u
    BY <2>1, <2>2, NullIsNoTopo DEF IInv, LiveInv
  <2>6. \A l \in Loader : topo[l] # u
    BY <2>1, NullIsNoTopo DEF IInv, HeapInv
  <2>7. \A r \in Request : view[r] # NULL => \A t \in Listed(view[r]) : t # u
    BY <2>1, <2>3, Zenon DEF Reader
  <2>8. /\ Listed(index) \subseteq Topo
        /\ \A r \in Request : view[r] # NULL => Listed(view[r]) \subseteq Topo
    BY ListedType, Zenon DEF Maybe, Reader
  <2>9. UNCHANGED <<phase, app_initialized, index, view, final>>
    BY <1>5, Zenon DEF CreateTopology
  <2>10. phase \notin {"initialized", "validating"} /\ (phase = "serving" => app_initialized)
    BY <2>2, Zenon DEF Loader
  <2>11. \A t \in Topo : t # u => tested'[t] = tested[t]
    BY <2>1, Zenon
  <2>12. phase = "serving" =>
           /\ \A t \in Listed(index) : tested'[t]
           /\ \A l \in Loader : topo'[l] # NULL => tested'[topo'[l]]
    BY <2>1, <2>4, <2>6, <2>8, <2>10, <2>11 DEF Maybe
  <2>13. \A r \in Request :
           /\ view[r] # NULL => \A t \in Listed(view[r]) : tested'[t]
           /\ final[r] # NULL => tested'[final[r]]
    BY <2>5, <2>7, <2>8, <2>11 DEF Maybe
  <2>14. phase = "appInit" => \A l \in BizThread : pc'[l] = "idle"
    BY <2>2, Zenon DEF Loader
  <2>15. phase' \in {"initialized", "validating", "serving"} => app_initialized'
    BY <2>9, Zenon
  <2>16. phase' = "serving" =>
           /\ \A t \in Listed(index') : tested'[t]
           /\ \A l \in Loader : topo'[l] # NULL => tested'[topo'[l]]
    BY <2>9, <2>12, Zenon
  <2>17. \A r \in Request :
           /\ view'[r] # NULL => \A t \in Listed(view'[r]) : tested'[t]
           /\ final'[r] # NULL => tested'[final'[r]]
    BY <2>9, <2>13, Zenon
  <2> QED
    BY <2>9, <2>10, <2>14, <2>15, <2>16, <2>17, Zenon
<1>6. ASSUME NEW k \in Loader, CreateTopologyFails(k) PROVE TestedInv'
  BY <1>6, ConstantsAssumption, Zenon DEF CreateTopologyFails, Loader
<1>7. ASSUME NEW k \in Loader, Modify(k) PROVE TestedInv'
  <2>1. /\ name[k] \in Name
        /\ index' = [index EXCEPT ![name[k]] = topo[k]]
        /\ Listed(index') = (Listed(index) \ {index[name[k]]}) \cup ({topo[k]} \ {NULL})
        /\ pc[k] = "modify" /\ pc' = [pc EXCEPT ![k] = "grace"]
        /\ replaced[k] = {}
        /\ replaced' = [replaced EXCEPT ![k] = {index[name[k]]} \ {NULL}]
        /\ {index[name[k]]} \ {NULL} \subseteq Listed(index)
        /\ UNCHANGED <<topo, view, phase, heap, final>>
    BY <1>7, Published, Zenon
  <2>2. phase \notin {"initialized", "validating"}
    BY <2>1, Zenon DEF Loader
  <2>3. phase = "serving" => \A t \in Listed(index') : tested[t]
    BY <2>1
  <2> QED
    BY <1>7, <2>1, <2>2, <2>3, ConstantsAssumption, Zenon DEF Modify, Loader
<1>8. ASSUME NEW k \in Loader, ModifyNothing(k) PROVE TestedInv'
  BY <1>8, ConstantsAssumption, Zenon DEF ModifyNothing, Loader
<1>9. ASSUME NEW k \in Loader, ModifyReturns(k) PROVE TestedInv'
  BY <1>9, ConstantsAssumption, Zenon DEF ModifyReturns, DBD!Return, Loader
<1>10. ASSUME NEW k \in Loader, StorageAdd(k) PROVE TestedInv'
  BY <1>10, ConstantsAssumption, Zenon DEF StorageAdd, Loader
<1>11. ASSUME NEW k \in Loader, WaitReferences(k) PROVE TestedInv'
  BY <1>11, ConstantsAssumption, Zenon DEF WaitReferences, Loader
<1>12. ASSUME NEW k \in Loader, StorageDelete(k) PROVE TestedInv'
  BY <1>12, ConstantsAssumption, Zenon DEF StorageDelete, Loader
<1>13. ASSUME NEW r \in Request, ReadTopologyList(r) PROVE TestedInv'
  BY <1>13, NullIsNoIndex, Zenon DEF ReadTopologyList, StartRequest, DBD!BeginRead, RequestInv,
      Reader
<1>14. ASSUME NEW r \in Request, PickTopology(r) PROVE TestedInv'
  <2>1. PICK u \in Maybe(Topo) :
          (u # NULL => u \in Listed(view[r])) /\ final' = [final EXCEPT ![r] = u]
    BY <1>14, PickedIsListed, Zenon
  <2>2. view[r] # NULL
    BY <1>14, Zenon DEF PickTopology, IInv, RequestInv
  <2> QED
    BY <1>14, <2>1, <2>2, Zenon DEF PickTopology
<1>15. ASSUME NEW r \in Request, Schedule(r) PROVE TestedInv'
  BY <1>15, ReadersDiffer, Zenon DEF Schedule, DBD!EndRead, Reader
<1>16. ASSUME NEW r \in Request, Finish(r) PROVE TestedInv'
  BY <1>16, Zenon DEF Finish
<1>17. ASSUME NEW m \in Inspector, print_session_using_count(m) PROVE TestedInv'
  BY <1>17, ReadersDiffer, Zenon DEF print_session_using_count, DBD!BeginRead, Reader
<1>18. ASSUME NEW m \in Inspector, DeepCopy(m) PROVE TestedInv'
  BY <1>18, ReadersDiffer, Zenon DEF DeepCopy, DBD!BeginRead, Reader
<1>19. ASSUME NEW m \in Inspector, Copied(m) PROVE TestedInv'
  BY <1>19, ReadersDiffer, Zenon DEF Copied, DBD!EndRead, Reader
<1>20. CASE AppProxyInit
  BY <1>20, Zenon DEF AppProxyInit, Loader
<1>21. CASE SetupFails
  BY <1>21, Zenon DEF SetupFails
<1>22. CASE ValidateBegin
  BY <1>22, ReadersDiffer, Zenon DEF ValidateBegin, DBD!BeginRead, Reader
<1>23. CASE ValidateEnd
  <2>1. view[Main] = index /\ view' = [view EXCEPT ![Main] = NULL] /\ UNCHANGED index
    BY <1>23, Zenon DEF ValidateEnd, DBD!EndRead
  <2>2. \A k \in Loader : topo[k] = NULL
    BY <1>23, Zenon DEF ValidateEnd, LoadInv, Loader
  <2>3. \A t \in Topo : tested[t] => tested'[t]
    BY <1>23, Zenon DEF ValidateEnd
  <2>4. /\ Listed(index) \subseteq Topo
        /\ \A r \in Request : view[r] # NULL => Listed(view[r]) \subseteq Topo
    BY ListedType, Zenon DEF Maybe, Reader
  <2>5. phase' = "serving" => \A t \in Listed(index) : tested'[t]
    BY <1>23, <2>1, <2>4, Zenon DEF ValidateEnd
  <2>6. \A r \in Request : r # Main
    BY ConstantsAssumption, Zenon
  <2> QED
    BY <1>23, <2>1, <2>2, <2>3, <2>4, <2>5, <2>6, Zenon DEF ValidateEnd, Maybe, Reader
<1>24. CASE Stop
  BY <1>24, Zenon DEF Stop
<1>25. CASE clear
  BY <1>25, Zenon DEF clear
<1>26. CASE Exit
  BY <1>26, Zenon DEF Exit, Destruct
<1> HIDE DEF TestedInv, IInv, Goto, TypeOK, DbdType, MemType, LoadType, ReqType, mainVars,
             dbdVars, memVars, loadVars, reqVars
<1> QED
  BY <1>1, <1>2, <1>3, <1>4, <1>5, <1>6, <1>7, <1>8, <1>9, <1>10, <1>11, <1>12, <1>13, <1>14,
     <1>15, <1>16, <1>17, <1>18, <1>19, <1>20, <1>21, <1>22, <1>23, <1>24, <1>25, <1>26, Zenon
  DEF Next, Begin, LoadStep, RequestStep, InspectorStep, MainStep, Exited

(***************************************************************************)
(* The count of a topology, and the invariant as a whole.                  *)
(***************************************************************************)
INSTANCE FiniteSetTheorems

\* Initially nothing is allocated, listed or used.
LEMMA InitInv == Init => IInv
<1> SUFFICES ASSUME Init PROVE IInv
  BY Zenon
<1> USE ConstantsAssumption DEF Init, DBD!Init, EmptyIndex, Maybe, Index, Listed
<1>1. TypeOK
  BY Zenon DEF TypeOK, MainType, DbdType, MemType, LoadType, ReqType, Phase, LoadPC, CallPC
<1>2. LoadInv /\ HeapInv /\ ListInv /\ ViewInv /\ LiveInv
  BY Zenon DEF LoadInv, HeapInv, ListInv, ViewInv, LiveInv
<1>3. \A t \in Topo : Using(t) = {}
  BY Zenon DEF Using
<1>4. CountIsExact
  BY <1>3, FS_EmptySet, Zenon DEF CountIsExact
<1>5. UsedInv /\ RequestInv
  BY <1>3, Zenon DEF UsedInv, RequestInv
<1> QED
  BY <1>1, <1>2, <1>4, <1>5, Zenon DEF IInv

\* Who counts.
LEMMA CountFrame ==
  [Next]_vars =>
    \/ UNCHANGED <<refs, final>>
    \/ \E k \in Loader : CreateTopology(k)
    \/ \E r \in Request : PickTopology(r) \/ Finish(r)
  BY Zenon DEF Next, vars, Begin, LoadStep, RequestStep, InspectorStep, MainStep, Exited,
         add_topology, StartAdd, unloadTopologyByName, StartUnload, EmplaceTopologyMonitor,
         CreateTopologyFails,
         Modify, ModifyNothing, ModifyReturns, StorageAdd, WaitReferences, StorageDelete,
         ReadTopologyList, StartRequest, Schedule, print_session_using_count, DeepCopy, Copied,
         AppProxyInit, SetupFails, ValidateBegin, ValidateEnd, Stop, clear, Exit, Destruct,
         DBD!BeginRead, DBD!EndRead, DBD!Publish, DBD!Reading, DBD!Return, mainVars, dbdVars,
         memVars, loadVars, reqVars, Goto

\* The count follows the set of requests that use a topology: one joins it,
\* one leaves it, or it stays.
LEMMA CountStep == IInv /\ [Next]_vars => CountIsExact'
<1> SUFFICES ASSUME IInv, [Next]_vars, NEW t \in Topo
             PROVE  IsFiniteSet(Using(t)') /\ refs'[t] = Cardinality(Using(t)')
  BY Zenon DEF CountIsExact
<1>1. /\ refs \in [Topo -> Nat]
      /\ final \in [Request -> Maybe(Topo)]
      /\ IsFiniteSet(Using(t)) /\ refs[t] = Cardinality(Using(t))
  BY Zenon DEF IInv, TypeOK, MemType, ReqType, CountIsExact
<1>2. CASE UNCHANGED <<refs, final>>
  BY <1>1, <1>2, Zenon DEF Using
<1>3. ASSUME NEW k \in Loader, CreateTopology(k)
      PROVE  IsFiniteSet(Using(t)') /\ refs'[t] = Cardinality(Using(t)')
  <2>1. Using(t)' = Using(t)
    BY <1>3, Zenon DEF CreateTopology, Using, reqVars
  <2>2. PICK u \in Topo : heap[u] = "free" /\ refs' = [refs EXCEPT ![u] = 0]
    BY <1>3, Zenon DEF CreateTopology
  <2>3. phase # "exited"
    BY <1>3, Zenon DEF CreateTopology, IInv, LoadInv
  <2>4. Using(u) = {}
    BY <2>2, <2>3, NullIsNoTopo, Zenon DEF IInv, LiveInv, Using
  <2> QED
    BY <1>1, <2>1, <2>2, <2>4, FS_EmptySet, Zenon
<1>4. ASSUME NEW r \in Request, PickTopology(r)
      PROVE  IsFiniteSet(Using(t)') /\ refs'[t] = Cardinality(Using(t)')
  <2>1. PICK u \in Maybe(Topo) :
          /\ final' = [final EXCEPT ![r] = u]
          /\ refs' = IF u # NULL THEN [refs EXCEPT ![u] = @ + 1] ELSE refs
    BY <1>4, PickedIsListed, Zenon
  <2>2. final[r] = NULL
    BY <1>4, Zenon DEF IInv, RequestInv, PickTopology
  <2>3. CASE u = t
    <3>1. Using(t)' = Using(t) \cup {r} /\ r \notin Using(t)
      BY <1>1, <2>1, <2>2, <2>3, NullIsNoTopo, Zenon DEF Using
    <3>2. refs'[t] = refs[t] + 1
      BY <1>1, <2>1, <2>3, NullIsNoTopo, Zenon
    <3> QED
      BY <1>1, <3>1, <3>2, FS_AddElement
  <2>4. CASE u # t
    <3>1. Using(t)' = Using(t)
      BY <1>1, <2>1, <2>2, <2>4, NullIsNoTopo, Zenon DEF Using
    <3>2. refs'[t] = refs[t]
      BY <1>1, <2>1, <2>4, Zenon
    <3> QED
      BY <1>1, <3>1, <3>2, Zenon
  <2> QED
    BY <2>3, <2>4, Zenon
<1>5. ASSUME NEW r \in Request, Finish(r)
      PROVE  IsFiniteSet(Using(t)') /\ refs'[t] = Cardinality(Using(t)')
  <2>1. /\ final' = [final EXCEPT ![r] = NULL]
        /\ refs' = [refs EXCEPT ![final[r]] = @ - 1]
    BY <1>5, Zenon DEF Finish
  <2>2. CASE final[r] = t
    <3>1. Using(t)' = Using(t) \ {r} /\ r \in Using(t)
      BY <1>1, <2>1, <2>2, NullIsNoTopo, Zenon DEF Using
    <3>2. refs'[t] = refs[t] - 1
      BY <1>1, <2>1, <2>2, Zenon
    <3> QED
      BY <1>1, <3>1, <3>2, FS_RemoveElement
  <2>3. CASE final[r] # t
    <3>1. Using(t)' = Using(t)
      BY <1>1, <2>1, <2>3, NullIsNoTopo, Zenon DEF Using
    <3>2. refs'[t] = refs[t]
      BY <1>1, <2>1, <2>3, Zenon
    <3> QED
      BY <1>1, <3>1, <3>2, Zenon
  <2> QED
    BY <2>2, <2>3, Zenon
<1> QED
  BY <1>2, <1>3, <1>4, <1>5, CountFrame, Zenon

\* A request that uses a topology is one of those counted.
LEMMA UsedIsCounted == TypeOK /\ CountIsExact => UsedInv
<1> SUFFICES ASSUME TypeOK, CountIsExact, NEW r \in Request, final[r] # NULL
             PROVE  refs[final[r]] # 0
  BY Zenon DEF UsedInv
<1>1. final[r] \in Topo
  BY Zenon DEF TypeOK, ReqType, Maybe
<1>2. r \in Using(final[r])
  BY Zenon DEF Using
<1> QED
  BY <1>1, <1>2, FS_EmptySet, Zenon DEF CountIsExact

\* The manager keeps its invariant.
THEOREM InvariantHolds == Spec => []IInv
<1>1. TypeOK' /\ CountIsExact' => UsedInv'
  BY UsedIsCounted, PTL
<1>2. IInv /\ [Next]_vars => IInv'
  BY <1>1, TypeStep, LoadInvStep, HeapStep, ListStep, ViewStep, CountStep, RequestInvStep,
     LiveStep, Zenon DEF IInv
<1> QED
  BY InitInv, <1>2, PTL DEF Spec

(***************************************************************************)
(* What it gives.                                                          *)
(***************************************************************************)

\* No topology is deleted while the index lists it, a ScopedPtr shows it or a
\* request runs on it: wait_and_delete is safe for any number of loads, unloads
\* and requests.
THEOREM UseAfterFreeImpossible == Spec => []NoUseAfterFree
<1>1. IInv => NoUseAfterFree
  <2> SUFFICES ASSUME IInv, phase # "exited" PROVE NoUseAfterFree
    BY Zenon DEF NoUseAfterFree
  <2>1. \A r \in Reader : view[r] # NULL => \A t \in Listed(view[r]) : heap[t] = "live"
    BY Zenon DEF IInv, ViewInv, LiveInv
  <2> QED
    BY <2>1, Zenon DEF IInv, LiveInv, NoUseAfterFree
<1> QED
  BY <1>1, InvariantHolds, PTL

\* _reference_count is what wait_and_delete takes it for.
THEOREM ReferencesCounted == Spec => []CountIsExact
<1>1. IInv => CountIsExact
  BY Zenon DEF IInv
<1> QED
  BY <1>1, InvariantHolds, PTL

\* ~ModuleTopologyManager frees whatever is still allocated, the topologies that
\* a race has kept from being deleted included.
THEOREM NothingLeaksAtExit == Spec => []NothingLeftAtExit
<1>1. Init => NothingLeftAtExit
  BY Zenon DEF Init, NothingLeftAtExit
<1>2. IInv /\ NothingLeftAtExit /\ [Next]_vars => NothingLeftAtExit'
  <2> SUFFICES ASSUME IInv, NothingLeftAtExit, [Next]_vars PROVE NothingLeftAtExit'
    BY Zenon
  <2>1. CASE UNCHANGED <<phase, heap, index, replaced, final>>
    BY <2>1, Zenon DEF NothingLeftAtExit
  <2>2. ASSUME NEW k \in Loader, CreateTopology(k) \/ Modify(k) \/ StorageDelete(k)
        PROVE  NothingLeftAtExit'
    <3>1. pc[k] # "idle" /\ UNCHANGED phase
      BY <2>2, Zenon DEF CreateTopology, Modify, StorageDelete, mainVars
    <3> QED
      BY <3>1, Zenon DEF IInv, LoadInv, NothingLeftAtExit
  <2>3. ASSUME NEW r \in Request, PickTopology(r) \/ Finish(r) PROVE NothingLeftAtExit'
    BY <2>3, Zenon DEF PickTopology, Finish, NothingLeftAtExit, mainVars
  <2>4. CASE Exit
    <3>1. \A t \in Topo : heap[t] = "live" => t \in storage
      BY <2>4, NullIsNoTopo DEF Exit, Destruct, IInv, LoadInv, HeapInv
    <3> QED
      BY <2>4, <3>1, Zenon DEF Exit, Destruct, NothingLeftAtExit, IInv, TypeOK, MemType
  <2>5. CASE AppProxyInit \/ SetupFails \/ ValidateBegin \/ ValidateEnd \/ Stop \/ clear
    BY <2>5, Zenon DEF AppProxyInit, SetupFails, ValidateBegin, ValidateEnd, Stop, clear,
           NothingLeftAtExit
  <2> QED
    BY <2>1, <2>2, <2>3, <2>4, <2>5, LiveFrame, Zenon
<1> QED
  BY <1>1, <1>2, InvariantHolds, PTL DEF Spec

\* Where the app adds topologies in SwApp::init only, a request runs on a
\* topology whose pool was tested: by ValidateAndReserve... or when it was made.
THEOREM PoolsAreTested ==
  ASSUME AppThread = {}
  PROVE  Spec => []RunsOnTestedPool
<1>1. Init => TestedInv
  BY DEF Init, DBD!Init, TestedInv, Reader, Loader
<1>2. TestedInv => RunsOnTestedPool
  BY Zenon DEF TestedInv, RunsOnTestedPool
<1>3. IInv /\ TestedInv /\ [Next]_vars => TestedInv'
  BY TestedStep, Zenon
<1> QED
  BY <1>1, <1>2, <1>3, InvariantHolds, PTL DEF Spec

\* Where the method is served by "default" no request fails for want of a
\* topology.
THEOREM RequestsFindTopology == Spec => []EveryRequestRuns
<1>1. Init => DefaultInv
  BY DEF Init, DBD!Init, DefaultInv, Reader, Loader
<1>2. DefaultInv => EveryRequestRuns
  BY Zenon DEF DefaultInv, EveryRequestRuns
<1>3. CASE Served = Default
  <2>1. IInv /\ DefaultInv /\ [Next]_vars => DefaultInv'
    BY <1>3, DefaultStep, Zenon
  <2> QED
    BY <1>1, <1>2, <2>1, InvariantHolds, PTL DEF Spec
<1>4. CASE Served # Default
  <2>1. EveryRequestRuns
    BY <1>4, Zenon DEF EveryRequestRuns
  <2> QED
    BY <2>1, PTL
<1> QED
  BY <1>3, <1>4, Zenon
=============================================================================
