------------------------- MODULE TopologySortProofs -------------------------
(***************************************************************************)
(* topology_sort is right for every configuration, however many elements   *)
(* it has: the sorted list is a topological order, a loop is reported      *)
(* exactly when there is one, modules are marked as parallel only beside a *)
(* peer, and the short forms give sequential topologies.                   *)
(***************************************************************************)
EXTENDS TopologySort, TLAPS, FiniteSetTheorems

Element(N) == [name : N, dep : SUBSET N, allow : BOOLEAN]

\* The elements of every configuration have a name out of N, and depend on names.
InputOver(N) == \A c \in Input : c.element \in Seq(Element(N))

TypeOK(N) ==
  /\ input \in Input
  /\ topology \in Seq(Element(N))
  /\ pc \in {"pack", "check", "scan", "done"}
  /\ i \in Nat \ {0}
  /\ sorted \in Seq(Element(N))
  /\ wave \subseteq Element(N)

\* Before topology_sort, and where it is not reached, nothing is sorted.
IdleInv ==
  /\ pc = "scan" => Accepted
  /\ pc \in {"pack", "check"} \/ ~Accepted =>
       removed = {} /\ wave = {} /\ sorted = << >> /\ parallel_modules = {} /\ ~result
  /\ pc \in {"pack", "check"} => i = 1 /\ ~found
  /\ pc = "pack" => topology = << >>

\* What has been sorted is what has been removed, or will be at the end of the
\* pass, and the removed elements wait for removed elements only.
SortInv ==
  /\ Names(sorted) = removed \cup {e.name : e \in wave}
  /\ \A j \in DOMAIN sorted : \E k \in DOMAIN topology : sorted[j] = topology[k]
  /\ \A j \in DOMAIN sorted : \A d \in sorted[j].dep :
       \E k \in 1 .. (j - 1) : sorted[k].name = d
  /\ \A e \in wave : /\ \E k \in DOMAIN topology : k < i /\ e = topology[k]
                     /\ e.dep \subseteq removed
                     /\ e.name \notin removed
  /\ \A j \in DOMAIN topology : topology[j].name \in removed => topology[j].dep \subseteq removed

CountInv == IsFiniteSet(Names(sorted)) /\ Cardinality(Names(sorted)) = Len(sorted)

\* A pass that has found nothing so far has changed nothing, and there is
\* something left to find; when it is over, what is left waits for itself.
PassInv ==
  /\ pc = "scan" /\ ~found =>
       /\ wave = {}
       /\ removed # Names(topology)
       /\ \A j \in DOMAIN topology : j < i => ~Ready(topology[j])
  /\ pc = "done" /\ result => wave = {} /\ removed = Names(topology)
  /\ pc = "done" /\ Accepted /\ ~result => Stuck(Names(topology) \ removed)

Peer(n, m) == is_sync_module(m) /\ n \notin Upstream(m) /\ m \notin Upstream(n)

ParallelInv ==
  \A n \in parallel_modules :
    /\ n \in Names(topology)
    /\ is_sync_module(n)
    /\ input.flag.check => \E j \in DOMAIN topology : topology[j].name = n /\ topology[j].allow
    /\ ~input.flag.check => \E m \in Names(topology) \ {n} : Peer(n, m)

PackInv ==
  topology # << >> =>
    /\ input.kind \in {"minimal", "simple"} => topology = Chained
    /\ input.kind = "semi" => topology = SemiSequential

IInv(N) == TypeOK(N) /\ IdleInv /\ SortInv /\ CountInv /\ PassInv /\ ParallelInv /\ PackInv

-----------------------------------------------------------------------------
(* Lemmas about numbers and lists.                                         *)

LEMMA LeastNumber ==
  ASSUME NEW T, T \subseteq Nat, T # {}
  PROVE  \E m \in T : \A k \in T : m <= k
  <1>1. \E R : IsWellFoundedOn(R, Nat) /\ \A x, y \in Nat : y < x => <<y, x>> \in R
    <2> DEFINE R == OpToRel(<, Nat)
    <2>1. IsWellFoundedOn(R, Nat)
      BY NatLessThanWellFounded, Zenon
    <2>2. \A x, y \in Nat : y < x => <<y, x>> \in R
      BY Zenon DEF OpToRel
    <2> QED
      BY <2>1, <2>2, Zenon
  <1>2. PICK R : IsWellFoundedOn(R, Nat) /\ \A x, y \in Nat : y < x => <<y, x>> \in R
    BY <1>1, Zenon
  <1>3. PICK x \in T : \A y \in T : ~(<<y, x>> \in R)
    BY <1>2, WFMin, Zenon
  <1>4. \A y \in T : ~(y < x)
    BY <1>2, <1>3, Zenon
  <1> QED
    BY <1>4

LEMMA Interval == ASSUME NEW n \in Nat PROVE IsFiniteSet(1 .. n) /\ Cardinality(1 .. n) = n
  <1>1. 1 \in Int /\ n \in Int /\ (IF 1 > n THEN 0 ELSE n - 1 + 1) = n
    OBVIOUS
  <1> QED
    BY <1>1, FS_Interval, Zenon

\* A list without repeated names has as many names as elements.
LEMMA NamesCount ==
  ASSUME NEW S, NEW s \in Seq(S), Unique(s)
  PROVE  IsFiniteSet(Names(s)) /\ Cardinality(Names(s)) = Len(s)
  <1> DEFINE f == [j \in 1 .. Len(s) |-> s[j].name]
  <1>1. IsFiniteSet(1 .. Len(s)) /\ Cardinality(1 .. Len(s)) = Len(s)
    BY Interval
  <1>2. f \in Bijection(1 .. Len(s), Names(s))
    BY DEF Names, Unique, Bijection, Injection, Surjection, IsInjective
  <1>3. ExistsBijection(1 .. Len(s), Names(s))
    BY <1>2, Zenon DEF ExistsBijection
  <1> QED
    BY <1>1, <1>3, FS_Bijection, Zenon

LEMMA NamesAppend ==
  ASSUME NEW S, NEW s \in Seq(S), NEW e \in S
  PROVE  Names(Append(s, e)) = Names(s) \cup {e.name}
  <1>1. /\ DOMAIN Append(s, e) = DOMAIN s \cup {Len(s) + 1}
        /\ \A j \in DOMAIN s : Append(s, e)[j] = s[j]
        /\ Append(s, e)[Len(s) + 1] = e
    OBVIOUS
  <1> QED
    BY <1>1, Zenon DEF Names

-----------------------------------------------------------------------------
(* What an accepted configuration is, and what does not change with it.    *)

LEMMA AcceptedTopology ==
  ASSUME Accepted
  PROVE  /\ topology # << >>
         /\ Unique(topology)
         /\ \A j \in DOMAIN topology : topology[j].dep \subseteq Names(topology)
  BY Zenon DEF Accepted

LEMMA Fixed ==
  ASSUME UNCHANGED <<input, topology>>
  PROVE  /\ Accepted' <=> Accepted
         /\ Names(topology)' = Names(topology)
         /\ Chained' = Chained
         /\ SemiSequential' = SemiSequential
         /\ \A n : is_sync_module(n)' <=> is_sync_module(n)
         /\ \A n : Upstream(n)' = Upstream(n)
  <1>1. Names(topology)' = Names(topology) /\ (Unique(topology)' <=> Unique(topology))
    BY Zenon DEF Names, Unique
  <1>2. Names(input.module)' = Names(input.module) /\ Names(input.global)' = Names(input.global)
    BY Zenon DEF Names
  <1>3. Accepted' <=> Accepted
    BY <1>1, <1>2 DEF Accepted, Unique
  <1>4. Chained' = Chained
    BY Zenon DEF Chained
  <1>5. \A n : is_sync_module(n)' <=> is_sync_module(n)
    BY <1>2, Zenon DEF is_sync_module, HasFactory, Defines
  <1>6. \A j : PriorSync(j)' = PriorSync(j)
    BY <1>5, Zenon DEF PriorSync
  <1>7. SemiSequential' = SemiSequential
    BY <1>6, Zenon DEF SemiSequential
  <1>8. \A n : Upstream(n)' = Upstream(n)
    BY <1>1, Zenon DEF Upstream
  <1> QED
    BY <1>1, <1>3, <1>4, <1>5, <1>7, <1>8, Zenon

LEMMA InitInv == ASSUME NEW N, InputOver(N), Init PROVE IInv(N)
  <1>1. Names(<< >>) = {}
    BY DEF Names
  <1>2. ~Accepted
    BY Zenon DEF Init, Accepted
  <1> QED
    BY <1>1, <1>2, FS_EmptySet
    DEF Init, IInv, TypeOK, IdleInv, SortInv, CountInv, PassInv, ParallelInv, PackInv

\* The packed topology is a list of elements.
LEMMA PackedType ==
  ASSUME NEW N, InputOver(N), input \in Input
  PROVE  /\ Chained \in Seq(Element(N))
         /\ SemiSequential \in Seq(Element(N))
         /\ input.element \in Seq(Element(N))
  <1>1. input.element \in Seq(Element(N))
    BY Zenon DEF InputOver
  <1>2. \A j \in DOMAIN input.element : input.element[j] \in Element(N)
    BY <1>1
  <1>3. DOMAIN input.element = 1 .. Len(input.element) /\ Len(input.element) \in Nat
    BY <1>1
  <1>4. \A j \in DOMAIN Chained : Chained[j] \in Element(N)
    BY <1>2, <1>3 DEF Chained, Element
  <1>5. \A j \in DOMAIN SemiSequential : SemiSequential[j] \in Element(N)
    BY <1>2, <1>3 DEF SemiSequential, Element, PriorSync
  <1>6. Chained \in [1 .. Len(input.element) -> Element(N)]
    BY <1>3, <1>4, Zenon DEF Chained
  <1>7. SemiSequential \in [1 .. Len(input.element) -> Element(N)]
    BY <1>3, <1>5, Zenon DEF SemiSequential
  <1> QED
    BY <1>1, <1>3, <1>6, <1>7

-----------------------------------------------------------------------------
(* The steps.                                                              *)

LEMMA PackStep == ASSUME NEW N, InputOver(N), IInv(N), Pack PROVE IInv(N)'
  <1>1. /\ UNCHANGED <<input, i, found, removed, wave, sorted, parallel_modules>>
        /\ removed = {} /\ wave = {} /\ sorted = << >> /\ parallel_modules = {}
        /\ i = 1 /\ ~found /\ ~result /\ topology = << >>
    BY Zenon DEF Pack, IInv, IdleInv, sortVars
  <1>2. SortInv' /\ CountInv' /\ ParallelInv'
    BY <1>1 DEF SortInv, CountInv, ParallelInv, IInv, Names
  <1>3. CASE Fail /\ UNCHANGED topology
    <2>1. ~Accepted'
      BY <1>1, <1>3, Zenon DEF Accepted
    <2> QED
      BY <1>1, <1>2, <1>3, <2>1, Zenon DEF Fail, IInv, TypeOK, IdleInv, PassInv, PackInv
  <1>4. CASE pc' = "check" /\ UNCHANGED result
    <2>1. topology' = CASE input.kind \in {"minimal", "simple"} -> Chained
                        [] input.kind = "semi" -> SemiSequential
                        [] OTHER -> input.element
      BY <1>4, Zenon DEF Pack, Fail
    <2>2. topology' \in Seq(Element(N)) /\ input' \in Input
      BY <1>1, <2>1, PackedType, Zenon DEF IInv, TypeOK
    <2>3. Chained' = Chained /\ SemiSequential' = SemiSequential
      <3>1. \A n : is_sync_module(n)' <=> is_sync_module(n)
        BY <1>1, Zenon DEF is_sync_module, HasFactory, Defines, Names
      <3>2. \A j : PriorSync(j)' = PriorSync(j)
        BY <1>1, <3>1, Zenon DEF PriorSync
      <3> QED
        BY <1>1, <3>2, Zenon DEF Chained, SemiSequential
    <2>4. PackInv'
      BY <1>1, <2>1, <2>3, Zenon DEF PackInv
    <2> QED
      BY <1>1, <1>2, <1>4, <2>2, <2>4, Zenon DEF IInv, TypeOK, IdleInv, PassInv
  <1> QED
    BY <1>3, <1>4, Zenon DEF Pack

LEMMA CheckStep == ASSUME NEW N, IInv(N), Check PROVE IInv(N)'
  <1>1. /\ UNCHANGED <<input, topology, i, found, removed, wave, sorted, parallel_modules>>
        /\ removed = {} /\ wave = {} /\ sorted = << >> /\ parallel_modules = {}
        /\ i = 1 /\ ~found /\ ~result /\ ~result'
        /\ IF Accepted THEN pc' = "scan" ELSE pc' = "done"
    BY Zenon DEF Check, Fail, IInv, IdleInv, sortVars
  <1>2. TypeOK(N)' /\ IdleInv'
    BY <1>1, Fixed, Zenon DEF IInv, TypeOK, IdleInv
  <1>3. SortInv' /\ CountInv' /\ ParallelInv'
    BY <1>1 DEF IInv, SortInv, CountInv, ParallelInv, Names
  <1>4. PackInv'
    BY <1>1, Fixed, Zenon DEF IInv, PackInv
  <1>5. PassInv'
    <2>1. CASE Accepted
      <3>1. 1 \in DOMAIN topology
        BY <2>1, AcceptedTopology DEF IInv, TypeOK
      <3>2. Names(topology) # {}
        BY <3>1, Zenon DEF Names
      <3> QED
        BY <1>1, <2>1, <3>2, Fixed DEF PassInv
    <2>2. CASE ~Accepted
      BY <1>1, <2>2, Fixed, Zenon DEF PassInv
    <2> QED
      BY <2>1, <2>2, Zenon
  <1> QED
    BY <1>2, <1>3, <1>4, <1>5, Zenon DEF IInv

LEMMA ScanStep == ASSUME NEW N, IInv(N), Scan PROVE IInv(N)'
  <1>1. /\ UNCHANGED <<input, topology, pc, parallel_modules, result>>
        /\ pc = "scan"
        /\ i' = i + 1
        /\ i \in DOMAIN topology
        /\ topology[i] \in Element(N)
        /\ i \in Nat /\ DOMAIN topology \subseteq Nat
        /\ Accepted
    BY DEF Scan, IInv, TypeOK, IdleInv
  <1>2. Unique(topology) /\ Accepted'
    BY <1>1, AcceptedTopology, Fixed, Zenon
  <1>3. ParallelInv' /\ PackInv'
    <2>1. ParallelInv'
      BY <1>1, Fixed DEF IInv, ParallelInv, Peer
    <2> QED
      BY <1>1, <2>1, Fixed, Zenon DEF IInv, PackInv
  <1>4. CASE ~Ready(topology[i])
    <2>1. UNCHANGED <<found, sorted, wave, removed>>
      BY <1>4, Zenon DEF Scan
    <2>2. TypeOK(N)' /\ IdleInv' /\ CountInv'
      BY <1>1, <1>2, <2>1 DEF IInv, TypeOK, IdleInv, CountInv, Names
    <2>3. SortInv'
      BY <1>1, <2>1 DEF IInv, SortInv, Names
    <2>4. PassInv'
      BY <1>1, <1>4, <2>1, Fixed DEF IInv, PassInv, Ready
    <2> QED
      BY <1>3, <2>2, <2>3, <2>4, Zenon DEF IInv
  <1>5. CASE Ready(topology[i])
    <2> DEFINE x == topology[i]
    <2>1. /\ found'
          /\ sorted' = Append(sorted, x)
          /\ \/ wave' = wave \cup {x} /\ removed' = removed
             \/ wave' = wave /\ removed' = removed \cup {x.name}
          /\ x.name \notin removed
          /\ x.dep \subseteq removed
      BY <1>5, Zenon DEF Scan, Ready
    <2>2. \A e \in wave : \E k \in DOMAIN topology : k < i /\ e = topology[k]
      BY Zenon DEF IInv, SortInv
    <2>3. x.name \notin {e.name : e \in wave}
      BY <1>1, <1>2, <2>2 DEF Unique
    <2>4. /\ sorted \in Seq(Element(N))
          /\ Names(sorted) = removed \cup {e.name : e \in wave}
      BY Zenon DEF IInv, TypeOK, SortInv
    <2>5. Names(sorted') = Names(sorted) \cup {x.name} /\ x.name \notin Names(sorted)
      BY <1>1, <2>1, <2>3, <2>4, NamesAppend
    <2>6. /\ DOMAIN sorted' = DOMAIN sorted \cup {Len(sorted) + 1}
          /\ \A j \in DOMAIN sorted : sorted'[j] = sorted[j] /\ j \in 1 .. Len(sorted)
          /\ sorted'[Len(sorted) + 1] = x
          /\ Len(sorted') = Len(sorted) + 1
          /\ Len(sorted) \in Nat
          /\ sorted' \in Seq(Element(N))
      BY <1>1, <2>1, <2>4
    <2>7. TypeOK(N)' /\ IdleInv'
      BY <1>1, <1>2, <2>1, <2>6 DEF IInv, TypeOK, IdleInv
    <2>8. CountInv'
      <3>1. IsFiniteSet(Names(sorted)) /\ Cardinality(Names(sorted)) = Len(sorted)
        BY Zenon DEF IInv, CountInv
      <3>2. /\ IsFiniteSet(Names(sorted) \cup {x.name})
            /\ Cardinality(Names(sorted) \cup {x.name}) = Cardinality(Names(sorted)) + 1
        BY <2>5, <3>1, FS_AddElement, Zenon
      <3> QED
        BY <2>5, <2>6, <3>1, <3>2, Zenon DEF CountInv
    <2>9. PassInv'
      BY <1>1, <2>1, Zenon DEF PassInv
    <2>10. Names(sorted') = removed' \cup {e.name : e \in wave'}
      BY <2>1, <2>4, <2>5, Zenon
    <2>11. \A j \in DOMAIN sorted' : \E k \in DOMAIN topology' : sorted'[j] = topology'[k]
      BY <1>1, <2>6 DEF IInv, SortInv
    <2>12. \A j \in DOMAIN sorted' : \A d \in sorted'[j].dep :
             \E k \in 1 .. (j - 1) : sorted'[k].name = d
      <3>1. \A j \in DOMAIN sorted : \A d \in sorted[j].dep :
              \E k \in 1 .. (j - 1) : sorted[k].name = d
        BY Zenon DEF IInv, SortInv
      <3>2. ASSUME NEW d \in x.dep PROVE \E k \in 1 .. Len(sorted) : sorted'[k].name = d
        <4>1. d \in Names(sorted)
          BY <2>1, <2>4, <3>2, Zenon
        <4>2. PICK k \in DOMAIN sorted : sorted[k].name = d
          BY <4>1, Zenon DEF Names
        <4> QED
          BY <2>6, <4>2, Zenon
      <3>3. ASSUME NEW j \in DOMAIN sorted, NEW d \in sorted[j].dep
            PROVE  \E k \in 1 .. (j - 1) : sorted'[k].name = d
        <4>1. PICK k \in 1 .. (j - 1) : sorted[k].name = d
          BY <3>1, <3>3, Zenon
        <4>2. k \in DOMAIN sorted
          BY <2>4, <4>1
        <4> QED
          BY <2>6, <4>1, <4>2, Zenon
      <3> QED
        BY <2>6, <3>2, <3>3
    <2>13. \A e \in wave' : /\ \E k \in DOMAIN topology' : k < i' /\ e = topology'[k]
                            /\ e.dep \subseteq removed'
                            /\ e.name \notin removed'
      BY <1>1, <2>1, <2>3 DEF IInv, SortInv
    <2>14. \A j \in DOMAIN topology' :
             topology'[j].name \in removed' => topology'[j].dep \subseteq removed'
      BY <1>1, <1>2, <2>1, Zenon DEF IInv, SortInv, Unique
    <2>15. SortInv'
      BY <2>10, <2>11, <2>12, <2>13, <2>14, Zenon DEF SortInv
    <2> QED
      BY <1>3, <2>7, <2>8, <2>9, <2>15, Zenon DEF IInv
  <1> QED
    BY <1>4, <1>5, Zenon

\* Two elements of one wave do not wait for each other: what has been removed
\* before them is closed under "waits for", and neither is in it.
LEMMA WaveIsParallel ==
  ASSUME NEW N, IInv(N), Accepted, NEW e \in wave, NEW f \in wave
  PROVE  f.name \notin Upstream(e.name)
  <1>1. Unique(topology)
    BY AcceptedTopology, Zenon
  <1>2. PICK k \in DOMAIN topology : e = topology[k]
    BY Zenon DEF IInv, SortInv
  <1>3. removed \in SUBSET Names(topology)
    BY DEF IInv, SortInv, Names
  <1>4. \A j \in DOMAIN topology :
          topology[j].name \in removed \cup {e.name} => topology[j].dep \subseteq removed
    BY <1>1, <1>2, Zenon DEF IInv, SortInv, Unique
  <1>5. f.name \notin removed
    BY Zenon DEF IInv, SortInv
  <1> QED
    BY <1>3, <1>4, <1>5, Zenon DEF Upstream

\* What a pass marks has a peer, unless allow_parallel decides.
LEMMA MarkedHavePeers ==
  ASSUME NEW N, IInv(N), Accepted, NEW e \in Marked
  PROVE  /\ e.name \in Names(topology)
         /\ is_sync_module(e.name)
         /\ input.flag.check =>
              \E j \in DOMAIN topology : topology[j].name = e.name /\ topology[j].allow
         /\ ~input.flag.check => \E m \in Names(topology) \ {e.name} : Peer(e.name, m)
  <1>1. Unique(topology)
    BY AcceptedTopology, Zenon
  <1>2. e \in SyncWave
    BY Zenon DEF Marked
  <1>3. \A g \in SyncWave : g \in wave /\ is_sync_module(g.name)
    BY Zenon DEF SyncWave
  <1>4. \A g \in wave : \E j \in DOMAIN topology : g = topology[j]
    BY Zenon DEF IInv, SortInv
  <1>5. PICK k \in DOMAIN topology : e = topology[k]
    BY <1>2, <1>3, <1>4, Zenon
  <1>6. input.flag.check => e.allow
    BY Zenon DEF Marked
  <1>7. ASSUME ~input.flag.check PROVE \E m \in Names(topology) \ {e.name} : Peer(e.name, m)
    <2>1. Cardinality(SyncWave) > 1
      BY <1>7, Zenon DEF Marked
    <2>2. SyncWave # {e}
      <3>1. Cardinality({e}) = 1
        BY FS_Singleton, Zenon
      <3> QED
        BY <2>1, <3>1
    <2>3. PICK g \in SyncWave : g # e
      BY <1>2, <2>2, Zenon
    <2>4. PICK l \in DOMAIN topology : g = topology[l]
      BY <1>3, <1>4, <2>3, Zenon
    <2>5. g.name \in Names(topology) \ {e.name}
      BY <1>1, <1>5, <2>3, <2>4, Zenon DEF Unique, Names
    <2>6. g.name \notin Upstream(e.name) /\ e.name \notin Upstream(g.name)
      BY <1>2, <1>3, WaveIsParallel, Zenon
    <2> QED
      BY <1>3, <2>5, <2>6, Zenon DEF Peer
  <1> QED
    BY <1>2, <1>3, <1>5, <1>6, <1>7, Zenon DEF Names

LEMMA EndPassStep == ASSUME NEW N, IInv(N), EndPass PROVE IInv(N)'
  <1>1. /\ UNCHANGED <<input, topology, sorted>>
        /\ pc = "scan" /\ Accepted
        /\ i > Len(topology) /\ i' = 1
        /\ ~found' /\ wave' = {}
        /\ removed' = removed \cup {e.name : e \in wave}
        /\ parallel_modules' = parallel_modules \cup {e.name : e \in Marked}
    BY Zenon DEF EndPass, IInv, IdleInv
  <1>2. Unique(topology) /\ Accepted' /\ topology \in Seq(Element(N))
    BY <1>1, AcceptedTopology, Fixed, Zenon DEF IInv, TypeOK
  <1>3. removed' = Names(sorted)
    BY <1>1, Zenon DEF IInv, SortInv
  <1>4. removed' \subseteq Names(topology)
    BY <1>3 DEF IInv, SortInv, Names
  <1>5. Cardinality(removed') = Len(topology) <=> removed' = Names(topology)
    BY <1>2, <1>4, NamesCount, FS_Subset, Zenon
  <1>6. TypeOK(N)' /\ IdleInv' /\ CountInv' /\ PackInv'
    <2>1. TypeOK(N)'
      BY <1>1 DEF EndPass, Fail, IInv, TypeOK
    <2>2. IdleInv'
      BY <1>1, <1>2, Zenon DEF EndPass, Fail, IdleInv
    <2>3. CountInv' /\ PackInv'
      BY <1>1, Fixed, Zenon DEF IInv, CountInv, PackInv, Names
    <2> QED
      BY <2>1, <2>2, <2>3, Zenon
  <1>7. SortInv'
    <2>1. \A j \in DOMAIN topology :
            topology[j].name \in removed' => topology[j].dep \subseteq removed'
      BY <1>1, <1>2 DEF IInv, SortInv, Unique
    <2> QED
      BY <1>1, <1>3, <2>1 DEF IInv, SortInv, Names
  <1>8. PassInv'
    <2>1. CASE ~found
      <3>1. wave = {} /\ removed # Names(topology) /\ \A j \in DOMAIN topology : ~Ready(topology[j])
        BY <1>1, <1>2, <2>1 DEF IInv, TypeOK, PassInv
      <3>2. removed' = removed /\ pc' = "done" /\ ~result'
        BY <1>1, <2>1, <3>1, Zenon DEF EndPass, Fail
      <3>3. \A j \in DOMAIN topology : topology[j].name \notin removed =>
              topology[j].dep \cap (Names(topology) \ removed) # {}
        BY <1>1, <3>1, AcceptedTopology, Zenon DEF Ready
      <3>4. Stuck(Names(topology) \ removed)
        BY <1>4, <3>1, <3>2, <3>3, Zenon DEF Stuck
      <3>5. Stuck(Names(topology) \ removed)'
        BY <1>1, <3>2, <3>4, Fixed, Zenon DEF Stuck
      <3> QED
        BY <3>2, <3>5, Zenon DEF PassInv
    <2>2. CASE found
      BY <1>1, <1>5, <2>2, Fixed DEF EndPass, PassInv, IInv, IdleInv, TypeOK
    <2> QED
      BY <2>1, <2>2, Zenon
  <1>9. ParallelInv'
    BY <1>1, MarkedHavePeers, Fixed DEF IInv, ParallelInv, Peer
  <1> QED
    BY <1>6, <1>7, <1>8, <1>9, Zenon DEF IInv

-----------------------------------------------------------------------------
(* The theorems.                                                           *)

\* The invariant holds for every set of configurations.
THEOREM InvariantHolds == ASSUME NEW N, InputOver(N) PROVE Spec => []IInv(N)
  <1>1. Init => IInv(N)
    BY InitInv, Zenon
  <1>2. ASSUME IInv(N), UNCHANGED vars PROVE IInv(N)'
    <2>1. PassInv' /\ ParallelInv'
      BY <1>2, Fixed DEF vars, IInv, PassInv, ParallelInv, Peer, Stuck, Ready
    <2>2. TypeOK(N)' /\ IdleInv' /\ SortInv' /\ CountInv' /\ PackInv'
      BY <1>2, Fixed DEF vars, IInv, TypeOK, IdleInv, SortInv, CountInv, PackInv, Names
    <2> QED
      BY <2>1, <2>2, Zenon DEF IInv
  <1>3. IInv(N) /\ [Next]_vars => IInv(N)'
    BY <1>2, PackStep, CheckStep, ScanStep, EndPassStep, Zenon DEF Next
  <1> QED
    BY <1>1, <1>3, PTL DEF Spec

\* topology_sort's list runs every module after all it depends on, at every
\* moment; an accepted topology is sorted whole, and no element comes twice.
THEOREM SortIsTopological == ASSUME NEW N, InputOver(N) PROVE Spec => []SortedIsTopological
  <1>1. ASSUME IInv(N) PROVE SortedIsTopological
    <2>1. \A j \in DOMAIN sorted : \A d \in sorted[j].dep :
            \E k \in 1 .. (j - 1) : sorted[k].name = d
      BY <1>1, Zenon DEF IInv, SortInv
    <2>2. ASSUME pc = "done", result
          PROVE  Len(sorted) = Len(topology) /\ Names(sorted) = Names(topology)
      <3>1. wave = {} /\ removed = Names(topology) /\ Accepted
        BY <1>1, <2>2, Zenon DEF IInv, PassInv, IdleInv
      <3>2. Names(sorted) = Names(topology)
        BY <1>1, <3>1 DEF IInv, SortInv
      <3>3. Cardinality(Names(topology)) = Len(topology)
        BY <1>1, <3>1, AcceptedTopology, NamesCount, Zenon DEF IInv, TypeOK
      <3> QED
        BY <1>1, <3>2, <3>3, Zenon DEF IInv, CountInv
    <2> QED
      BY <2>1, <2>2, Zenon DEF SortedIsTopological
  <1> QED
    BY <1>1, InvariantHolds, PTL

\* topology_sort reports a loop exactly when some elements wait for each other.
THEOREM LoopsAreRejected == ASSUME NEW N, InputOver(N) PROVE Spec => []RejectsExactlyLoops
  <1>1. ASSUME IInv(N), pc = "done", Accepted, result, NEW S \in SUBSET Names(topology), Stuck(S)
        PROVE  FALSE
    <2>1. Names(sorted) = Names(topology)
      BY <1>1 DEF IInv, PassInv, SortInv
    <2> DEFINE T == {j \in DOMAIN sorted : sorted[j].name \in S}
    <2>2. T \subseteq Nat /\ T # {}
      <3>1. T \subseteq Nat
        BY <1>1 DEF IInv, TypeOK
      <3>2. PICK n \in S : n \in Names(sorted)
        BY <1>1, <2>1, Zenon DEF Stuck
      <3> QED
        BY <3>1, <3>2, Zenon DEF Names
    <2> HIDE DEF T
    <2>3. PICK j \in T : \A k \in T : j <= k
      BY <2>2, LeastNumber, Zenon
    <2>4. j \in DOMAIN sorted /\ j \in 1 .. Len(sorted) /\ sorted[j].name \in S
      BY <1>1, <2>3 DEF T, IInv, TypeOK
    <2>5. PICK d \in sorted[j].dep : d \in S
      <3>1. PICK k \in DOMAIN topology : sorted[j] = topology[k]
        BY <1>1, <2>4, Zenon DEF IInv, SortInv
      <3> QED
        BY <1>1, <2>4, <3>1, Zenon DEF Stuck
    <2>6. PICK k \in 1 .. (j - 1) : sorted[k].name = d
      BY <1>1, <2>4, <2>5, Zenon DEF IInv, SortInv
    <2>7. k \in DOMAIN sorted /\ k < j
      BY <1>1, <2>4, <2>6 DEF IInv, TypeOK
    <2>8. k \in T
      BY <2>5, <2>6, <2>7, Zenon DEF T
    <2> QED
      BY <2>3, <2>4, <2>7, <2>8
  <1>2. ASSUME IInv(N), pc = "done", Accepted, ~result
        PROVE  \E S \in SUBSET Names(topology) : Stuck(S)
    BY <1>2, Zenon DEF IInv, PassInv
  <1>3. IInv(N) => RejectsExactlyLoops
    BY <1>1, <1>2, Zenon DEF RejectsExactlyLoops
  <1> QED
    BY <1>3, InvariantHolds, PTL

\* A module is marked to run in parallel only if there is another sync module
\* that it neither waits for nor is waited for by.
THEOREM ParallelModulesHavePeers ==
  ASSUME NEW N, InputOver(N) PROVE Spec => []ParallelHasPeer
  <1>1. IInv(N) => ParallelHasPeer
    BY Zenon DEF IInv, ParallelInv, Peer, ParallelHasPeer
  <1> QED
    BY <1>1, InvariantHolds, PTL

-----------------------------------------------------------------------------
(* The short forms.                                                        *)

\* A closed set that holds what element k waits for holds the name of every
\* earlier element that all elements after it wait for, one by way of another.
LEMMA Chains ==
  ASSUME NEW j \in Nat, NEW k \in Nat, j < k, NEW S, NEW f,
         \A l \in (j + 1) .. k : f[l] \in S \cup {f[k]} => \E p \in j .. (l - 1) : f[p] \in S
  PROVE  f[j] \in S
  <1> SUFFICES ASSUME f[j] \notin S PROVE FALSE
    BY Zenon
  <1> DEFINE T == {l \in (j + 1) .. k : f[l] \in S \cup {f[k]}}
  <1>1. T \subseteq Nat /\ k \in T
    OBVIOUS
  <1>2. \A l \in T : \E p \in T : p < l
    OBVIOUS
  <1> HIDE DEF T
  <1>3. PICK l \in T : \A p \in T : l <= p
    BY <1>1, LeastNumber, Zenon
  <1> QED
    BY <1>1, <1>2, <1>3

\* The last sync element before l, when there is one.
LEMMA PriorSyncExists ==
  ASSUME NEW l \in Nat, NEW j \in Nat \ {0}, j < l, is_sync_module(input.element[j].name)
  PROVE  \E p \in PriorSync(l) : p >= j
  <1> DEFINE T == {q \in Nat : q <= l - 1 - j /\ is_sync_module(input.element[l - 1 - q].name)}
  <1>1. T \subseteq Nat /\ l - 1 - j \in T
    <2>1. l - 1 - j \in Nat /\ l - 1 - (l - 1 - j) = j
      OBVIOUS
    <2> QED
      BY <2>1
  <1>2. PICK q \in T : \A r \in T : q <= r
    BY <1>1, LeastNumber, Zenon
  <1> DEFINE p == l - 1 - q
  <1>3. p \in 1 .. (l - 1) /\ p >= j /\ is_sync_module(input.element[p].name)
    BY <1>2
  <1>4. ASSUME NEW m \in (p + 1) .. (l - 1), is_sync_module(input.element[m].name) PROVE FALSE
    <2>1. /\ l - 1 - m \in Nat /\ l - 1 - m < q /\ l - 1 - m <= l - 1 - j
          /\ l - 1 - (l - 1 - m) = m
      BY <1>2, <1>3, <1>4
    <2>2. l - 1 - m \in T
      BY <1>4, <2>1, Zenon
    <2> QED
      BY <1>2, <2>1, <2>2
  <1>5. p \in PriorSync(l)
    BY <1>3, <1>4, Zenon DEF PriorSync
  <1> QED
    BY <1>3, <1>5, Zenon

LEMMA Sequential ==
  ASSUME NEW N, InputOver(N), IInv(N), topology # << >>,
         input.kind \in {"minimal", "simple", "semi"},
         NEW j \in DOMAIN input.element, NEW k \in DOMAIN input.element, j < k,
         input.kind = "semi" => is_sync_module(input.element[j].name)
  PROVE  input.element[j].name \in Upstream(input.element[k].name)
  <1> DEFINE f == [l \in DOMAIN input.element |-> input.element[l].name]
  <1>1. /\ DOMAIN input.element = 1 .. Len(input.element)
        /\ Len(input.element) \in Nat
    BY DEF IInv, TypeOK, InputOver
  <1>2. topology = Chained \/ (input.kind = "semi" /\ topology = SemiSequential)
    <2>1. CASE input.kind = "semi"
      BY <2>1, Zenon DEF IInv, PackInv
    <2>2. CASE input.kind \in {"minimal", "simple"}
      BY <2>2, Zenon DEF IInv, PackInv
    <2> QED
      BY <2>1, <2>2, Zenon
  <1>3. /\ DOMAIN topology = DOMAIN input.element
        /\ \A l \in DOMAIN topology : topology[l].name = f[l]
    <2>1. CASE topology = Chained
      BY <2>1, Zenon DEF Chained
    <2>2. CASE topology = SemiSequential
      BY <2>2, Zenon DEF SemiSequential
    <2> QED
      BY <1>2, <2>1, <2>2, Zenon
  <1>4. ASSUME NEW l \in (j + 1) .. k PROVE \E p \in j .. (l - 1) : f[p] \in topology[l].dep
    <2>1. l \in DOMAIN input.element /\ l # 1 /\ l \in Nat /\ j \in Nat \ {0} /\ j < l
      BY <1>1
    <2>2. CASE topology = Chained
      <3>1. l - 1 \in j .. (l - 1) /\ l - 1 \in DOMAIN input.element
        BY <1>1, <2>1
      <3>2. f[l - 1] \in topology[l].dep
        BY <2>1, <2>2, <3>1, Zenon DEF Chained
      <3> QED
        BY <3>1, <3>2, Zenon
    <2>3. CASE input.kind = "semi" /\ topology = SemiSequential
      <3>1. PICK p \in PriorSync(l) : p >= j
        BY <2>1, <2>3, PriorSyncExists, Zenon
      <3>2. p \in j .. (l - 1) /\ p \in DOMAIN input.element
        BY <1>1, <2>1, <3>1 DEF PriorSync
      <3>3. f[p] \in topology[l].dep
        BY <2>1, <2>3, <3>1, <3>2, Zenon DEF SemiSequential
      <3> QED
        BY <3>2, <3>3, Zenon
    <2> QED
      BY <1>2, <2>2, <2>3, Zenon
  <1>5. f[j] \in Names(topology)
    BY <1>3, Zenon DEF Names
  <1>6. ASSUME NEW S, \A l \in DOMAIN topology :
                        topology[l].name \in S \cup {f[k]} => topology[l].dep \subseteq S
        PROVE  f[j] \in S
    <2>1. j \in Nat /\ k \in Nat /\ \A l \in (j + 1) .. k : l \in DOMAIN topology
      BY <1>1, <1>3
    <2>2. \A l \in (j + 1) .. k : f[l] \in S \cup {f[k]} => \E p \in j .. (l - 1) : f[p] \in S
      <3> HIDE DEF f
      <3> QED
        BY <1>3, <1>4, <1>6, <2>1, Zenon
    <2> HIDE DEF f
    <2> QED
      BY <2>1, <2>2, Chains, Zenon
  <1> QED
    BY <1>5, <1>6, Zenon DEF Upstream

\* The short forms of a configuration are sequential: in a minimal or simple
\* topology every module waits for all before it, in a semi-sequential one for
\* the sync modules before it, and none is marked as parallel.
THEOREM ShortFormsSequential ==
  ASSUME NEW N, InputOver(N) PROVE Spec => []ShortFormsAreSequential
  <1>1. ASSUME IInv(N), pc = "done", result, input.kind \in {"minimal", "simple", "semi"}
        PROVE  /\ \A j, k \in DOMAIN input.element :
                    j < k /\ (input.kind = "semi" => is_sync_module(input.element[j].name)) =>
                      input.element[j].name \in Upstream(input.element[k].name)
               /\ parallel_modules = {}
    <2>1. topology # << >>
      BY <1>1, AcceptedTopology, Zenon DEF IInv, IdleInv
    <2>2. \A j, k \in DOMAIN input.element :
            j < k /\ (input.kind = "semi" => is_sync_module(input.element[j].name)) =>
              input.element[j].name \in Upstream(input.element[k].name)
      BY <1>1, <2>1, Sequential, Zenon
    <2>3. /\ DOMAIN topology = DOMAIN input.element
          /\ DOMAIN topology \subseteq Nat
          /\ \A l \in DOMAIN topology :
               topology[l].name = input.element[l].name /\ ~topology[l].allow
      <3>1. topology = Chained \/ topology = SemiSequential
        BY <1>1, <2>1, Zenon DEF IInv, PackInv
      <3> QED
        BY <1>1, <3>1 DEF Chained, SemiSequential, IInv, TypeOK
    <2>4. ASSUME NEW n \in parallel_modules PROVE FALSE
      <3>1. n \in Names(topology) /\ is_sync_module(n) /\ ~input.flag.check
        BY <1>1, <2>3, <2>4, Zenon DEF IInv, ParallelInv
      <3>2. PICK m \in Names(topology) \ {n} : Peer(n, m)
        BY <1>1, <2>4, <3>1, Zenon DEF IInv, ParallelInv
      <3>3. PICK a \in DOMAIN topology, b \in DOMAIN topology :
              topology[a].name = n /\ topology[b].name = m
        BY <3>1, <3>2, Zenon DEF Names
      <3>4. a \in Nat /\ b \in Nat /\ (a < b \/ b < a)
        BY <2>3, <3>2, <3>3
      <3> QED
        BY <2>2, <2>3, <3>1, <3>2, <3>3, <3>4, Zenon DEF Peer
    <2> QED
      BY <2>2, <2>4, Zenon
  <1>2. IInv(N) => ShortFormsAreSequential
    BY <1>1, Zenon DEF ShortFormsAreSequential
  <1> QED
    BY <1>2, InvariantHolds, PTL
=============================================================================
