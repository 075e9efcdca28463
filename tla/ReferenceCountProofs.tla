-------------------------- MODULE ReferenceCountProofs --------------------------
(***************************************************************************)
(* Proofs about the two places that count references themselves: the       *)
(* Shared_Ptr of look_for_job.cpp, for any threads, variables and heap,    *)
(* and the DoubleBuffer of double.cpp, whose writers wait for use_count(). *)
(* The first part proves that an inductive invariant of Shared_Ptr, IInv,  *)
(* is kept by each of its actions, and derives the properties from it; the *)
(* second does the same for the double buffer.                             *)
(***************************************************************************)
EXTENDS SharedPtr, TLAPS

-----------------------------------------------------------------------------
\* The program: finitely many threads and variables, the first block on the
\* heap, and a None that is neither a block nor a thread.
Program ==
  /\ IsFiniteSet(Thread) /\ Thread # {}
  /\ IsFiniteSet(Var) /\ Var # {}
  /\ First \in Block
  /\ None \notin Block /\ None \notin Thread

\* What the steps use of cardinalities; lemma Cardinalities derives it from Program.
CountFacts ==
  /\ Cardinality(Thread) \in Nat
  /\ \A v \in Var : Cardinality(Thread \X {v}) = Cardinality(Thread)
  /\ \A x \in Thread \X Var : Cardinality({x}) = 1
  /\ \A S \in SUBSET (Thread \X Var) :
       /\ Cardinality(S) \in Nat
       /\ Cardinality(S) = 0 <=> S = {}
       /\ \A x \in (Thread \X Var) \ S : Cardinality(S \cup {x}) = Cardinality(S) + 1
       /\ \A x \in S : Cardinality(S \ {x}) = Cardinality(S) - 1

Releasing == {"Release", "Dec", "Unlock", "UnlockLast", "DeleteMutex"}
Fn == {"AddRefCount", "Inc", "Take"} \cup Releasing
Frame == [fn : Fn, v : Var, b : Block, read : Int]

\* The innermost call of a thread.
At(t) == IF pc[t] = << >> THEN "idle" ELSE Head(pc[t]).fn
Of(t) == Head(pc[t]).v
On(t) == Head(pc[t]).b
Read(t) == Head(pc[t]).read

TypeOK ==
  /\ sp \in [Thread -> [Var -> Block \cup {None}]]
  /\ count \in [Block -> Int]
  /\ heap \in [Block -> SUBSET {"count", "mutex"}]
  /\ holder \in [Block -> Thread \cup {None}]
  /\ null \subseteq Block
  /\ pc \in [Thread -> Seq(Frame)]

\* Another variable of the thread points to the block.
Backed(t, v, b) == \E w \in Var \ {v} : sp[t][w] = b

\* What a thread is in the middle of: its variable points to the block until the
\* count is decremented, and a block that is being added to has another owner,
\* of the same thread.
CallInv(t) ==
  /\ Len(pc[t]) \in {0, 1, 2}
  /\ Len(pc[t]) = 2 =>
       /\ At(t) \in Releasing
       /\ pc[t][2].fn = "Take" /\ pc[t][2].v = Of(t) /\ pc[t][2].b # On(t)
       /\ Backed(t, Of(t), pc[t][2].b)
  /\ At(t) \in {"AddRefCount", "Inc"} => sp[t][Of(t)] = On(t)
  /\ At(t) \in {"AddRefCount", "Inc", "Take"} => Backed(t, Of(t), On(t))
  /\ At(t) \in {"Release", "Dec"} => sp[t][Of(t)] = On(t)
  /\ At(t) \in {"Take", "Unlock", "UnlockLast", "DeleteMutex"} => sp[t][Of(t)] = None

\* Who changes the count holds the mutex, and the count is still the one it read.
LockInv(t) ==
  /\ At(t) \in {"Inc", "Dec", "Unlock", "UnlockLast"} => holder[On(t)] = t
  /\ At(t) \in {"Inc", "Dec"} => Read(t) = count[On(t)]

\* A block that is pointed to is there.
PointedInv == \A t \in Thread, v \in Var : sp[t][v] # None => "count" \in heap[sp[t][v]]

\* A block without its count has a thread inside that deletes the mutex.
LastInv ==
  \A b \in Block :
    /\ "count" \in heap[b] => "mutex" \in heap[b]
    /\ "mutex" \in heap[b] /\ "count" \notin heap[b] =>
         \E t \in Thread : At(t) \in {"UnlockLast", "DeleteMutex"} /\ On(t) = b

\* That thread is alone, and whoever unlocks has a mutex to unlock.
AloneInv(t) ==
  /\ At(t) \in {"Unlock", "UnlockLast", "DeleteMutex"} => "mutex" \in heap[On(t)]
  /\ At(t) \in {"UnlockLast", "DeleteMutex"} =>
       /\ "count" \notin heap[On(t)]
       /\ \A u \in Thread \ {t} :
            At(u) \in {"Unlock", "UnlockLast", "DeleteMutex"} => On(u) # On(t)

HeapInv == PointedInv /\ LastInv /\ \A t \in Thread : AloneInv(t)

\* The count is that of the owners, and a block that has one has an owner.
CountInv ==
  \A b \in Block : "count" \in heap[b] => count[b] = Cardinality(Owners(b)) /\ Owners(b) # {}

IInv ==
  /\ TypeOK
  /\ \A t \in Thread : CallInv(t) /\ LockInv(t)
  /\ HeapInv
  /\ CountInv

-----------------------------------------------------------------------------
\* A thread whose calls are unchanged is in the same one.
LEMMA SameCall ==
  ASSUME NEW u \in Thread, pc'[u] = pc[u]
  PROVE  At(u)' = At(u) /\ Of(u)' = Of(u) /\ On(u)' = On(u) /\ Read(u)' = Read(u)
  BY Zenon DEF At, Of, On, Read

\* What another thread is in the middle of does not depend on this one's calls
\* and variables.
LEMMA OthersKeep ==
  ASSUME NEW u \in Thread, CallInv(u), pc'[u] = pc[u], sp'[u] = sp[u]
  PROVE  CallInv(u)'
  BY SameCall, Zenon DEF CallInv, Backed

\* The innermost call is the first of the sequence.
LEMMA Innermost ==
  ASSUME TypeOK, NEW t \in Thread, At(t) # "idle"
  PROVE  /\ pc[t] # << >> /\ pc[t] \in Seq(Frame) /\ Len(pc[t]) \in Nat \ {0}
         /\ Head(pc[t]) = pc[t][1] /\ pc[t][1] \in Frame
         /\ At(t) \in Fn /\ Of(t) \in Var /\ On(t) \in Block /\ Read(t) \in Int
  <1>1. pc[t] # << >> /\ pc[t] \in Seq(Frame)
    BY Zenon DEF TypeOK, At
  <1>2. Len(pc[t]) \in Nat \ {0} /\ Head(pc[t]) = pc[t][1] /\ pc[t][1] \in Frame
    BY <1>1
  <1> QED
    BY <1>1, <1>2, Zenon DEF At, Of, On, Read, Frame

\* A thread enters the calls s.
LEMMA Enters ==
  ASSUME TypeOK, NEW t \in Thread, NEW s \in Seq(Frame), pc' = [pc EXCEPT ![t] = s]
  PROVE  /\ pc' \in [Thread -> Seq(Frame)]
         /\ pc'[t] = s
         /\ \A u \in Thread \ {t} : pc'[u] = pc[u]
  BY Zenon DEF TypeOK

\* The step from one call of a thread to the next, the other threads' unchanged.
Goes(t, fn) ==
  /\ pc' \in [Thread -> Seq(Frame)]
  /\ \A u \in Thread \ {t} :
       pc'[u] = pc[u] /\ At(u)' = At(u) /\ Of(u)' = Of(u) /\ On(u)' = On(u) /\ Read(u)' = Read(u)
  /\ At(t)' = fn
Moves(t, fn, v, b) == Goes(t, fn) /\ Of(t)' = v /\ On(t)' = b

\* Entering a call, and operator= which has a second one to follow.
LEMMA EntersOne ==
  ASSUME TypeOK, NEW t \in Thread, NEW fn \in Fn, NEW v \in Var, NEW b \in Block,
         pc' = [pc EXCEPT ![t] = <<Call(fn, v, b)>>]
  PROVE  Moves(t, fn, v, b) /\ Len(pc'[t]) = 1
  <1>1. <<Call(fn, v, b)>> \in Seq(Frame)
    BY DEF Call, Frame
  <1>2. /\ pc' \in [Thread -> Seq(Frame)]
        /\ pc'[t] = <<Call(fn, v, b)>>
        /\ \A u \in Thread \ {t} : pc'[u] = pc[u]
    BY <1>1, Enters, Zenon
  <1>3. At(t)' = fn /\ Of(t)' = v /\ On(t)' = b /\ Len(pc'[t]) = 1
    BY <1>2 DEF At, Of, On, Call
  <1> QED
    BY <1>2, <1>3, SameCall, Zenon DEF Moves, Goes

Assigns(t, v, b, d) == pc' = [pc EXCEPT ![t] = <<Call("Release", v, b), Call("Take", v, d)>>]

LEMMA EntersAssign ==
  ASSUME TypeOK, NEW t \in Thread, NEW v \in Var, NEW b \in Block, NEW d \in Block,
         Assigns(t, v, b, d)
  PROVE  /\ Moves(t, "Release", v, b) /\ Len(pc'[t]) = 2
         /\ pc'[t][2].fn = "Take" /\ pc'[t][2].v = v /\ pc'[t][2].b = d
  <1>1. <<Call("Release", v, b), Call("Take", v, d)>> \in Seq(Frame)
    BY DEF Call, Frame, Fn, Releasing
  <1>2. /\ pc' \in [Thread -> Seq(Frame)]
        /\ pc'[t] = <<Call("Release", v, b), Call("Take", v, d)>>
        /\ \A u \in Thread \ {t} : pc'[u] = pc[u]
    BY <1>1, Enters, Zenon DEF Assigns
  <1>3. At(t)' = "Release" /\ Of(t)' = v /\ On(t)' = b /\ Len(pc'[t]) = 2
    BY <1>2 DEF At, Of, On, Call
  <1>4. pc'[t][2].fn = "Take" /\ pc'[t][2].v = v /\ pc'[t][2].b = d
    BY <1>2 DEF Call
  <1> QED
    BY <1>2, <1>3, <1>4, SameCall, Zenon DEF Moves, Goes

\* Going on in the innermost call.
LEMMA GoesOn ==
  ASSUME TypeOK, NEW t \in Thread, At(t) # "idle",
         NEW c \in Frame, c.v = Of(t), c.b = On(t),
         pc' = [pc EXCEPT ![t] = [pc[t] EXCEPT ![1] = c]]
  PROVE  /\ Moves(t, c.fn, Of(t), On(t)) /\ Read(t)' = c.read
         /\ Len(pc'[t]) = Len(pc[t]) /\ (Len(pc[t]) = 2 => pc'[t][2] = pc[t][2])
  <1> DEFINE s == [pc[t] EXCEPT ![1] = c]
  <1>1. pc[t] \in Seq(Frame) /\ Len(pc[t]) \in Nat \ {0}
    BY Innermost, Zenon
  <1>2. /\ s \in Seq(Frame) /\ Len(s) = Len(pc[t]) /\ s[1] = c
        /\ Len(pc[t]) = 2 => s[2] = pc[t][2]
    BY <1>1
  <1>3. /\ pc' \in [Thread -> Seq(Frame)]
        /\ pc'[t] = s
        /\ \A u \in Thread \ {t} : pc'[u] = pc[u]
    BY <1>2, Enters, Zenon
  <1>4. Head(s) = c /\ s # << >>
    BY <1>1, <1>2
  <1>5. At(t)' = c.fn /\ Of(t)' = Of(t) /\ On(t)' = On(t) /\ Read(t)' = c.read
    BY <1>3, <1>4, Zenon DEF At, Of, On, Read
  <1> QED
    BY <1>2, <1>3, <1>5, SameCall, Zenon DEF Moves, Goes

\* Returning from the innermost call: the thread is idle, or in the second call.
LEMMA Returns ==
  ASSUME TypeOK, NEW t \in Thread, At(t) # "idle", CallInv(t),
         pc' = [pc EXCEPT ![t] = Tail(@)]
  PROVE  \/ /\ Len(pc[t]) = 1 /\ Len(pc'[t]) = 0
            /\ Goes(t, "idle")
         \/ /\ Len(pc[t]) = 2 /\ Len(pc'[t]) = 1
            /\ Moves(t, "Take", Of(t), pc[t][2].b)
  <1>1. /\ pc[t] \in Seq(Frame) /\ pc[t] # << >> /\ Len(pc[t]) \in {1, 2}
    BY Innermost, Zenon DEF CallInv
  <1>2. /\ Tail(pc[t]) \in Seq(Frame)
        /\ Len(Tail(pc[t])) = Len(pc[t]) - 1
        /\ \A i \in 1 .. Len(Tail(pc[t])) : Tail(pc[t])[i] = pc[t][i + 1]
    BY <1>1
  <1>3. pc' = [pc EXCEPT ![t] = Tail(pc[t])]
    BY Zenon DEF TypeOK
  <1>4. /\ pc' \in [Thread -> Seq(Frame)]
        /\ pc'[t] = Tail(pc[t])
        /\ \A u \in Thread \ {t} : pc'[u] = pc[u]
    BY <1>2, <1>3, Enters, Zenon
  <1>5. CASE Len(pc[t]) = 1
    <2>1. Tail(pc[t]) = << >> /\ Len(pc'[t]) = 0
      BY <1>2, <1>4, <1>5
    <2>2. At(t)' = "idle"
      BY <2>1, <1>4, Zenon DEF At
    <2> QED
      BY <1>4, <1>5, <2>1, <2>2, SameCall, Zenon DEF Moves, Goes
  <1>6. CASE Len(pc[t]) = 2
    <2>1. Len(Tail(pc[t])) = 1 /\ Tail(pc[t])[1] = pc[t][2]
      BY <1>2, <1>6
    <2>2. Tail(pc[t]) # << >> /\ Head(Tail(pc[t])) = pc[t][2]
      BY <1>2, <2>1
    <2>3. At(t)' = "Take" /\ Of(t)' = Of(t) /\ On(t)' = pc[t][2].b
      BY <2>2, <1>4, <1>6, Zenon DEF At, Of, On, CallInv
    <2> QED
      BY <1>4, <1>6, <2>1, <2>3, SameCall, Zenon DEF Moves, Goes
  <1> QED
    BY <1>1, <1>5, <1>6, Zenon

-----------------------------------------------------------------------------
\* The variable v of thread t is one of those that count.
Counted(t, v) == ~(At(t) \in {"AddRefCount", "Inc"} /\ Of(t) = v)

\* The owners of a block, variable by variable.
LEMMA OwnersAre ==
  ASSUME NEW b, NEW p
  PROVE  /\ p \in Owners(b) <=>
              p \in Thread \X Var /\ sp[p[1]][p[2]] = b /\ Counted(p[1], p[2])
         /\ p \in Owners(b)' <=>
              p \in Thread \X Var /\ sp'[p[1]][p[2]] = b /\ Counted(p[1], p[2])'
  <1>1. \A t : Doing(t, {"AddRefCount", "Inc"}) <=> At(t) \in {"AddRefCount", "Inc"}
    BY Zenon DEF Doing, Idle, At
  <1>2. \A t : Doing(t, {"AddRefCount", "Inc"})' <=> At(t)' \in {"AddRefCount", "Inc"}
    BY Zenon DEF Doing, Idle, At
  <1> QED
    BY <1>1, <1>2, Zenon DEF Owners, Counted, Of

LEMMA OwnersArePairs ==
  ASSUME NEW b
  PROVE  Owners(b) \in SUBSET (Thread \X Var)
  BY Zenon DEF Owners

\* A step that leaves the variables that count as they are leaves the owners.
LEMMA SameOwners ==
  ASSUME \A t \in Thread, v \in Var, b \in Block :
           (sp'[t][v] = b /\ Counted(t, v)') <=> (sp[t][v] = b /\ Counted(t, v))
  PROVE  \A b \in Block : Owners(b)' = Owners(b)
  <1> SUFFICES ASSUME NEW b \in Block PROVE Owners(b)' = Owners(b)
    BY Zenon
  <1>1. ASSUME NEW p PROVE p \in Owners(b)' <=> p \in Owners(b)
    <2>1. CASE p \in Thread \X Var
      <3>1. p[1] \in Thread /\ p[2] \in Var
        BY <2>1, Zenon
      <3> QED
        BY <3>1, OwnersAre
    <2> QED
      BY <2>1, OwnersAre, Zenon
  <1> QED
    BY <1>1, Zenon

\* Steps of thread t that change no count and nothing on the heap keep the counts
\* when the owners stay.
LEMMA SameCounts ==
  ASSUME CountInv, UNCHANGED <<count, heap>>, \A b \in Block : Owners(b)' = Owners(b)
  PROVE  CountInv'
  BY Zenon DEF CountInv

\* A step of thread t in calls that have not come to the unlock, with nothing
\* deleted, keeps what is known of the threads that have.
LEMMA SameUnlocking ==
  ASSUME IInv, NEW t \in Thread, NEW fn, Goes(t, fn), heap' = heap,
         At(t) \notin {"Unlock", "UnlockLast", "DeleteMutex"},
         fn \notin {"Unlock", "UnlockLast", "DeleteMutex"}
  PROVE  LastInv' /\ \A u \in Thread : AloneInv(u)'
  <1>1. LastInv'
    BY DEF IInv, HeapInv, LastInv, Goes
  <1>2. ASSUME NEW u \in Thread PROVE AloneInv(u)'
    <2>1. CASE u = t
      BY <2>1, Zenon DEF AloneInv, Goes
    <2>2. CASE u # t
      BY <2>2, Zenon DEF IInv, HeapInv, AloneInv, Goes
    <2> QED
      BY <2>1, <2>2, Zenon
  <1> QED
    BY <1>1, <1>2, Zenon

\* The other threads, when thread t changes its own calls and variables.
LEMMA OtherCalls ==
  ASSUME IInv, NEW t \in Thread, NEW fn, Goes(t, fn),
         \A u \in Thread \ {t} : sp'[u] = sp[u]
  PROVE  \A u \in Thread \ {t} : CallInv(u)'
  BY OthersKeep, Zenon DEF IInv, Goes

LEMMA OtherLocks ==
  ASSUME IInv, NEW t \in Thread, NEW fn, Goes(t, fn), UNCHANGED <<count, holder>>
  PROVE  \A u \in Thread \ {t} : LockInv(u)'
  BY Zenon DEF IInv, Goes, LockInv

-----------------------------------------------------------------------------
LEMMA InitInv ==
  ASSUME Program, CountFacts, Init
  PROVE  IInv
  <1> DEFINE v0 == CHOOSE w \in Var : TRUE
  <1>1. v0 \in Var
    BY Zenon DEF Program
  <1> HIDE DEF v0
  <1>2. sp = [t \in Thread |-> [v \in Var |-> IF v = v0 THEN First ELSE None]]
    BY Zenon DEF Init, v0
  <1>3. TypeOK
    <2>1. Cardinality(Thread) \in Int
      BY DEF CountFacts
    <2>2. << >> \in Seq(Frame)
      OBVIOUS
    <2> QED
      BY <1>2, <2>1, <2>2 DEF Init, TypeOK, Program
  <1>4. \A t \in Thread : pc[t] = << >> /\ Len(pc[t]) = 0 /\ At(t) = "idle"
    BY Zenon DEF Init, At
  <1>5. \A t \in Thread : CallInv(t) /\ LockInv(t)
    BY <1>4 DEF CallInv, LockInv
  <1>6. HeapInv
    <2>1. PointedInv
      BY <1>2 DEF PointedInv, Init, Program
    <2>2. LastInv
      BY Zenon DEF LastInv, Init
    <2>3. \A t \in Thread : AloneInv(t)
      BY <1>4, Zenon DEF AloneInv
    <2> QED
      BY <2>1, <2>2, <2>3, Zenon DEF HeapInv
  <1>7. Owners(First) = Thread \X {v0}
    <2>1. ASSUME NEW p PROVE p \in Owners(First) <=> p \in Thread \X {v0}
      BY <1>1, <1>2, <1>4, OwnersAre DEF Counted, Program
    <2> QED
      BY <2>1, Zenon
  <1>8. Cardinality(Thread \X {v0}) = Cardinality(Thread) /\ Thread \X {v0} # {}
    <2>1. Thread \X {v0} # {}
      <3>1. PICK t \in Thread : TRUE
        BY Zenon DEF Program
      <3>2. <<t, v0>> \in Thread \X {v0}
        BY Zenon
      <3> QED
        BY <3>2, Zenon
    <2> QED
      BY <1>1, <2>1, Zenon DEF CountFacts
  <1>9. CountInv
    BY <1>7, <1>8, Zenon DEF CountInv, Init
  <1> QED
    BY <1>3, <1>5, <1>6, <1>9, Zenon DEF IInv

\* The constructor takes a block that nobody points to and nobody is inside of.
LEMMA ConstructStep ==
  ASSUME Program, CountFacts, IInv, NEW t \in Thread, NEW v \in Var, NEW isNull \in BOOLEAN,
         Construct(t, v, isNull)
  PROVE  IInv'
  <1>1. PICK b \in Block :
          /\ heap[b] = {}
          /\ heap' = [heap EXCEPT ![b] = {"count", "mutex"}]
          /\ count' = [count EXCEPT ![b] = 1]
          /\ null' = IF isNull THEN null \cup {b} ELSE null \ {b}
          /\ sp' = [sp EXCEPT ![t][v] = b]
    BY Zenon DEF Construct
  <1>2. /\ pc[t] = << >> /\ At(t) = "idle" /\ sp[t][v] = None
        /\ UNCHANGED <<holder, pc>>
    BY Zenon DEF Construct, Idle, At
  <1>3. \A u \in Thread : /\ At(u)' = At(u) /\ Of(u)' = Of(u) /\ On(u)' = On(u)
                          /\ Read(u)' = Read(u)
    BY <1>2, SameCall, Zenon
  <1>4. /\ \A u \in Thread, w \in Var : sp[u][w] # b
        /\ \A u \in Thread, w \in Var :
             sp'[u][w] = IF u = t /\ w = v THEN b ELSE sp[u][w]
    <2>1. \A u \in Thread, w \in Var : sp[u][w] # b
      BY <1>1, Zenon DEF IInv, HeapInv, PointedInv, Program
    <2>2. \A u \in Thread, w \in Var :
            sp'[u][w] = IF u = t /\ w = v THEN b ELSE sp[u][w]
      BY <1>1, Zenon DEF IInv, TypeOK
    <2> QED
      BY <2>1, <2>2, Zenon
  <1>5. TypeOK'
    BY <1>1, <1>2 DEF IInv, TypeOK
  <1>6. \A u \in Thread : CallInv(u)'
    <2>1. CallInv(t)'
      BY <1>2, <1>3 DEF IInv, CallInv
    <2>2. ASSUME NEW u \in Thread \ {t} PROVE CallInv(u)'
      BY <1>1, <1>2, OthersKeep, Zenon DEF IInv, TypeOK
    <2> QED
      BY <2>1, <2>2, Zenon
  <1>7. \A u \in Thread : LockInv(u)'
    <2> SUFFICES ASSUME NEW u \in Thread PROVE LockInv(u)'
      BY Zenon
    <2>1. At(u) \in {"Inc", "Dec"} => On(u) # b /\ On(u) \in Block
      BY <1>4, Innermost DEF IInv, CallInv
    <2> QED
      BY <1>1, <1>2, <1>3, <2>1, Zenon DEF IInv, LockInv, TypeOK
  <1>8. HeapInv'
    <2>1. /\ \A d \in Block : heap'[d] = IF d = b THEN {"count", "mutex"} ELSE heap[d]
          /\ \A u \in Thread : At(u) # "idle" => On(u) \in Block
          /\ \A u \in Thread, w \in Var : sp[u][w] \in Block \cup {None}
      BY <1>1, Innermost DEF IInv, TypeOK
    <2>2. PointedInv'
      BY <1>4, <2>1 DEF IInv, HeapInv, PointedInv, Program
    <2>3. LastInv'
      BY <1>3, <2>1, Zenon DEF IInv, HeapInv, LastInv
    <2>4. ASSUME NEW u \in Thread PROVE AloneInv(u)'
      BY <1>1, <1>3, <2>1 DEF IInv, HeapInv, AloneInv
    <2> QED
      BY <2>2, <2>3, <2>4, Zenon DEF HeapInv
  <1>9. CountInv'
    <2>1. Owners(b)' = {<<t, v>>}
      <3>1. ASSUME NEW p PROVE p \in Owners(b)' <=> p \in {<<t, v>>}
        BY <1>2, <1>3, <1>4, OwnersAre DEF Counted
      <3> QED
        BY <3>1, Zenon
    <2>2. ASSUME NEW d \in Block \ {b} PROVE Owners(d)' = Owners(d)
      <3>1. ASSUME NEW p PROVE p \in Owners(d)' <=> p \in Owners(d)
        BY <1>2, <1>3, <1>4, OwnersAre DEF Counted, Program
      <3> QED
        BY <3>1, Zenon
    <2>3. Cardinality({<<t, v>>}) = 1
      BY Zenon DEF CountFacts
    <2>4. \A d \in Block \ {b} : count'[d] = count[d] /\ heap'[d] = heap[d]
      BY <1>1, Zenon DEF IInv, TypeOK
    <2>5. count'[b] = 1
      BY <1>1, Zenon DEF IInv, TypeOK
    <2> QED
      BY <2>1, <2>2, <2>3, <2>4, <2>5, Zenon DEF IInv, CountInv
  <1> QED
    BY <1>5, <1>6, <1>7, <1>8, <1>9, Zenon DEF IInv

\* The destructor begins.
LEMMA DestroyStep ==
  ASSUME Program, IInv, NEW t \in Thread, NEW v \in Var, Destroy(t, v)
  PROVE  IInv'
  <1>1. /\ At(t) = "idle" /\ sp[t][v] \in Block
        /\ UNCHANGED <<sp, count, heap, holder, null>>
    BY DEF Destroy, Idle, At, IInv, TypeOK
  <1>2. Moves(t, "Release", v, sp[t][v]) /\ Len(pc'[t]) = 1
    BY <1>1, EntersOne, Zenon DEF Destroy, IInv, Fn, Releasing
  <1>3. TypeOK'
    BY <1>1, <1>2, Zenon DEF IInv, TypeOK, Moves, Goes
  <1>4. \A u \in Thread : CallInv(u)'
    <2>1. CallInv(t)'
      BY <1>1, <1>2 DEF CallInv, Moves, Goes
    <2>2. \A u \in Thread \ {t} : CallInv(u)'
      BY <1>1, <1>2, OtherCalls, Zenon DEF Moves
    <2> QED
      BY <2>1, <2>2, Zenon
  <1>5. \A u \in Thread : LockInv(u)'
    <2>1. LockInv(t)'
      BY <1>2, Zenon DEF LockInv, Moves, Goes
    <2>2. \A u \in Thread \ {t} : LockInv(u)'
      BY <1>1, <1>2, OtherLocks, Zenon DEF Moves
    <2> QED
      BY <2>1, <2>2, Zenon
  <1>6. HeapInv'
    <2>1. PointedInv'
      BY <1>1, Zenon DEF IInv, HeapInv, PointedInv
    <2>2. LastInv' /\ \A u \in Thread : AloneInv(u)'
      BY <1>1, <1>2, SameUnlocking, Zenon DEF Moves
    <2> QED
      BY <2>1, <2>2, Zenon DEF HeapInv
  <1>7. CountInv'
    <2>1. \A b \in Block : Owners(b)' = Owners(b)
      BY <1>1, <1>2, SameOwners, Zenon DEF Counted, Moves, Goes
    <2> QED
      BY <1>1, <2>1, SameCounts, Zenon DEF IInv
  <1> QED
    BY <1>3, <1>4, <1>5, <1>6, <1>7, Zenon DEF IInv

\* operator= does nothing, or will release one block and take another, which the
\* thread still points to.
LEMMA AssignStep ==
  ASSUME Program, IInv, NEW t \in Thread, NEW v \in Var, NEW w \in Var, Assign(t, v, w),
         pc' # pc
  PROVE  IInv'
  <1>1. /\ At(t) = "idle" /\ sp[t][v] \in Block /\ sp[t][w] \in Block
        /\ UNCHANGED <<sp, count, heap, holder, null>>
    BY DEF Assign, Idle, At, IInv, TypeOK
  <1>2. sp[t][v] # sp[t][w] /\ w # v
    BY Zenon DEF Assign, Ptr
  <1>3. /\ Moves(t, "Release", v, sp[t][v]) /\ Len(pc'[t]) = 2
        /\ pc'[t][2].fn = "Take" /\ pc'[t][2].v = v /\ pc'[t][2].b = sp[t][w]
    <2>1. Assigns(t, v, sp[t][v], sp[t][w])
      BY Zenon DEF Assign, Assigns
    <2>2. TypeOK
      BY Zenon DEF IInv
    <2> QED
      BY <1>1, <2>1, <2>2, EntersAssign
  <1>4. TypeOK'
    BY <1>1, <1>3, Zenon DEF IInv, TypeOK, Moves, Goes
  <1>5. \A u \in Thread : CallInv(u)'
    <2>1. CallInv(t)'
      BY <1>1, <1>2, <1>3, Zenon DEF CallInv, Moves, Goes, Backed, Releasing
    <2>2. \A u \in Thread \ {t} : CallInv(u)'
      BY <1>1, <1>3, OtherCalls, Zenon DEF Moves
    <2> QED
      BY <2>1, <2>2, Zenon
  <1>6. \A u \in Thread : LockInv(u)'
    <2>1. LockInv(t)'
      BY <1>3, Zenon DEF LockInv, Moves, Goes
    <2>2. \A u \in Thread \ {t} : LockInv(u)'
      BY <1>1, <1>3, OtherLocks, Zenon DEF Moves
    <2> QED
      BY <2>1, <2>2, Zenon
  <1>7. HeapInv'
    <2>1. PointedInv'
      BY <1>1, Zenon DEF IInv, HeapInv, PointedInv
    <2>2. LastInv' /\ \A u \in Thread : AloneInv(u)'
      BY <1>1, <1>3, SameUnlocking, Zenon DEF Moves
    <2> QED
      BY <2>1, <2>2, Zenon DEF HeapInv
  <1>8. CountInv'
    <2>1. \A b \in Block : Owners(b)' = Owners(b)
      BY <1>1, <1>3, SameOwners, Zenon DEF Counted, Moves, Goes
    <2> QED
      BY <1>1, <2>1, SameCounts, Zenon DEF IInv
  <1> QED
    BY <1>4, <1>5, <1>6, <1>7, <1>8, Zenon DEF IInv

\* The copy constructor and the end of operator=: the variable v points to a block
\* that another variable of the thread points to, and is yet to be counted.
LEMMA AddBegins ==
  ASSUME Program, IInv, NEW t \in Thread, NEW v \in Var, NEW b \in Block,
         sp[t][v] = None, Backed(t, v, b),
         At(t) \in {"idle", "Take"},
         sp' = [sp EXCEPT ![t][v] = b],
         pc' = [pc EXCEPT ![t] = <<Call("AddRefCount", v, b)>>],
         UNCHANGED <<count, heap, holder, null>>
  PROVE  IInv'
  <1>1. Moves(t, "AddRefCount", v, b) /\ Len(pc'[t]) = 1
    BY EntersOne, Zenon DEF IInv, Fn
  <1>2. /\ \A u \in Thread, w \in Var :
             sp'[u][w] = IF u = t /\ w = v THEN b ELSE sp[u][w]
        /\ \A u \in Thread \ {t} : sp'[u] = sp[u]
    BY Zenon DEF IInv, TypeOK
  <1>3. TypeOK'
    BY <1>1, Zenon DEF IInv, TypeOK, Moves, Goes
  <1>4. \A u \in Thread : CallInv(u)'
    <2>1. CallInv(t)'
      BY <1>1, <1>2 DEF CallInv, Moves, Goes, Backed
    <2>2. \A u \in Thread \ {t} : CallInv(u)'
      BY <1>1, <1>2, OtherCalls, Zenon DEF Moves
    <2> QED
      BY <2>1, <2>2, Zenon
  <1>5. \A u \in Thread : LockInv(u)'
    <2>1. LockInv(t)'
      BY <1>1, Zenon DEF LockInv, Moves, Goes
    <2>2. \A u \in Thread \ {t} : LockInv(u)'
      BY <1>1, OtherLocks, Zenon DEF Moves
    <2> QED
      BY <2>1, <2>2, Zenon
  <1>6. HeapInv'
    <2>1. PointedInv'
      BY <1>2 DEF IInv, HeapInv, PointedInv, Backed, Program
    <2>2. LastInv' /\ \A u \in Thread : AloneInv(u)'
      BY <1>1, SameUnlocking, Zenon DEF Moves
    <2> QED
      BY <2>1, <2>2, Zenon DEF HeapInv
  <1>7. CountInv'
    <2>1. \A b1 \in Block : Owners(b1)' = Owners(b1)
      BY <1>1, <1>2, SameOwners DEF Counted, Moves, Goes, Program
    <2> QED
      BY <2>1, SameCounts, Zenon DEF IInv
  <1> QED
    BY <1>3, <1>4, <1>5, <1>6, <1>7, Zenon DEF IInv

LEMMA CopyStep ==
  ASSUME Program, IInv, NEW t \in Thread, NEW v \in Var, NEW w \in Var, Copy(t, v, w)
  PROVE  IInv'
  <1>1. sp[t][w] \in Block /\ At(t) = "idle" /\ sp[t][v] = None
    BY DEF Copy, Idle, At, IInv, TypeOK
  <1>2. Backed(t, v, sp[t][w])
    BY Zenon DEF Copy, Backed
  <1> QED
    BY <1>1, <1>2, AddBegins, Zenon DEF Copy

LEMMA TakeStep ==
  ASSUME Program, IInv, NEW t \in Thread, Take(t)
  PROVE  IInv'
  <1>1. At(t) = "Take"
    BY Zenon DEF Take, Idle, At
  <1>2. On(t) \in Block /\ Of(t) \in Var
    BY <1>1, Innermost, Zenon DEF IInv
  <1>3. sp[t][Of(t)] = None /\ Backed(t, Of(t), On(t))
    BY <1>1, Zenon DEF IInv, CallInv
  <1>4. /\ sp' = [sp EXCEPT ![t][Of(t)] = On(t)]
        /\ pc' = [pc EXCEPT ![t] = <<Call("AddRefCount", Of(t), On(t))>>]
        /\ UNCHANGED <<count, heap, holder, null>>
    BY Zenon DEF Take, Of, On
  <1> QED
    BY <1>1, <1>2, <1>3, <1>4, AddBegins, Zenon

\* A thread that goes on in its call, up to the decrement, keeps what is known of
\* it; so does one that has decremented.
LEMMA KeepsCall ==
  ASSUME IInv, NEW t \in Thread, NEW fn, Moves(t, fn, Of(t), On(t)), sp' = sp,
         Len(pc'[t]) = Len(pc[t]), Len(pc[t]) = 2 => pc'[t][2] = pc[t][2],
         \/ At(t) = "AddRefCount" /\ fn = "Inc"
         \/ At(t) = "Release" /\ fn = "Dec"
         \/ At(t) = "UnlockLast" /\ fn = "DeleteMutex"
  PROVE  CallInv(t)'
  <1>1. CallInv(t)
    BY Zenon DEF IInv
  <1>2. At(t)' = fn /\ Of(t)' = Of(t) /\ On(t)' = On(t)
    BY Zenon DEF Moves, Goes
  <1>3. \A b : Backed(t, Of(t), b) => \E w \in Var \ {Of(t)} : sp'[t][w] = b
    BY Zenon DEF Backed
  <1>4. Len(pc[t]) = 2 =>
          /\ fn \in Releasing
          /\ pc'[t][2].fn = "Take" /\ pc'[t][2].v = Of(t) /\ pc'[t][2].b # On(t)
          /\ \E w \in Var \ {Of(t)} : sp'[t][w] = pc'[t][2].b
    BY <1>1, <1>3, Zenon DEF CallInv, Releasing
  <1>5. fn \in {"AddRefCount", "Inc", "Take"} => \E w \in Var \ {Of(t)} : sp'[t][w] = On(t)
    BY <1>1, <1>3, Zenon DEF CallInv
  <1> QED
    BY <1>1, <1>2, <1>4, <1>5, Zenon DEF CallInv, Backed

\* A thread that returns from Release() is idle or takes the other block.
LEMMA KeepsTake ==
  ASSUME IInv, NEW t \in Thread, At(t) \in {"Unlock", "DeleteMutex"}, sp' = sp,
         pc' = [pc EXCEPT ![t] = Tail(@)]
  PROVE  /\ CallInv(t)'
         /\ \E fn \in {"idle", "Take"} : Goes(t, fn)
  <1>1. CallInv(t) /\ TypeOK
    BY Zenon DEF IInv
  <1>2. CASE Len(pc'[t]) = 0 /\ Goes(t, "idle")
    <2>1. At(t)' = "idle"
      BY <1>2, Zenon DEF Goes
    <2>2. CallInv(t)'
      BY <1>2, <2>1 DEF CallInv
    <2> QED
      BY <1>2, <2>2, Zenon
  <1>3. CASE /\ Len(pc[t]) = 2 /\ Len(pc'[t]) = 1
             /\ Moves(t, "Take", Of(t), pc[t][2].b)
    <2>1. At(t)' = "Take" /\ Of(t)' = Of(t) /\ On(t)' = pc[t][2].b /\ Goes(t, "Take")
      BY <1>3, Zenon DEF Moves, Goes
    <2>2. sp'[t][Of(t)] = None
      BY <1>1, Zenon DEF CallInv
    <2>3. \E w \in Var \ {Of(t)} : sp'[t][w] = pc[t][2].b
      BY <1>1, <1>3, Zenon DEF CallInv, Backed
    <2>4. Backed(t, Of(t), On(t))'
      BY <2>1, <2>3, Zenon DEF Backed
    <2>5. sp'[t][Of(t)'] = None
      BY <2>1, <2>2, Zenon
    <2>6. CallInv(t)'
      BY <1>3, <2>1, <2>4, <2>5 DEF CallInv
    <2> QED
      BY <2>1, <2>6, Zenon
  <1> QED
    BY <1>1, <1>2, <1>3, Returns, Zenon

\* lock(): nobody else is between the read of the count and its write.
LEMMA LockStep ==
  ASSUME Program, IInv, NEW t \in Thread, Lock(t)
  PROVE  IInv'
  <1> DEFINE fn == IF At(t) = "Release" THEN "Dec" ELSE "Inc"
             c == [pc[t][1] EXCEPT !.fn = fn, !.read = count[On(t)]]
  <1>1. /\ At(t) \in {"AddRefCount", "Release"}
        /\ holder[On(t)] = None
        /\ holder' = [holder EXCEPT ![On(t)] = t]
        /\ UNCHANGED <<sp, count, heap, null>>
    BY Zenon DEF Lock, Idle, At, On
  <1>2. /\ pc[t] # << >> /\ Head(pc[t]) = pc[t][1] /\ pc[t][1] \in Frame
        /\ Of(t) \in Var /\ On(t) \in Block
    BY <1>1, Innermost, Zenon DEF IInv
  <1>3. At(t) = pc[t][1].fn /\ Of(t) = pc[t][1].v /\ On(t) = pc[t][1].b
    BY <1>2, Zenon DEF At, Of, On
  <1>4. c \in Frame /\ c.v = Of(t) /\ c.b = On(t) /\ c.fn = fn /\ c.read = count[On(t)]
    BY <1>2, <1>3, Zenon DEF Frame, Fn, Releasing, IInv, TypeOK
  <1>5. pc' = [pc EXCEPT ![t] = [pc[t] EXCEPT ![1] = c]]
    BY <1>2, <1>3, Zenon DEF Lock, IInv, TypeOK
  <1>6. /\ Moves(t, fn, Of(t), On(t)) /\ Read(t)' = count[On(t)]
        /\ Len(pc'[t]) = Len(pc[t]) /\ (Len(pc[t]) = 2 => pc'[t][2] = pc[t][2])
    <2> HIDE DEF c, fn
    <2> QED
      BY <1>1, <1>4, <1>5, GoesOn, Zenon DEF IInv
  <1> HIDE DEF c
  <1>7. TypeOK'
    BY <1>1, <1>6, Zenon DEF IInv, TypeOK, Moves, Goes
  <1>8. \A u \in Thread : CallInv(u)'
    <2>1. CallInv(t)'
      BY <1>1, <1>6, KeepsCall, Zenon
    <2>2. \A u \in Thread \ {t} : CallInv(u)'
      BY <1>1, <1>6, OtherCalls, Zenon DEF Moves
    <2> QED
      BY <2>1, <2>2, Zenon
  <1>9. ASSUME NEW u \in Thread PROVE LockInv(u)'
    <2>1. CASE u = t
      BY <1>1, <1>2, <1>6, <2>1, Zenon DEF LockInv, Moves, Goes, IInv, TypeOK
    <2>2. CASE u # t
      <3>1. At(u) # "idle" => On(u) \in Block
        BY Innermost, Zenon DEF IInv
      <3> QED
        BY <1>1, <1>2, <1>6, <2>2, <3>1 DEF LockInv, Moves, Goes, IInv, TypeOK, Program
    <2> QED
      BY <2>1, <2>2, Zenon
  <1>10. HeapInv'
    <2>1. PointedInv'
      BY <1>1, Zenon DEF IInv, HeapInv, PointedInv
    <2>2. LastInv' /\ \A u \in Thread : AloneInv(u)'
      BY <1>1, <1>6, SameUnlocking, Zenon DEF Moves
    <2> QED
      BY <2>1, <2>2, Zenon DEF HeapInv
  <1>11. CountInv'
    <2>1. \A b \in Block : Owners(b)' = Owners(b)
      BY <1>1, <1>6, SameOwners, Zenon DEF Counted, Moves, Goes
    <2> QED
      BY <1>1, <2>1, SameCounts, Zenon DEF IInv
  <1> QED
    BY <1>7, <1>8, <1>9, <1>10, <1>11, Zenon DEF IInv

\* The locks of the other threads, when thread t holds the mutex of the block
\* whose count and mutex it changes.
LEMMA OtherBlocks ==
  ASSUME IInv, NEW t \in Thread, NEW fn, Goes(t, fn),
         At(t) \in {"Inc", "Dec", "Unlock", "UnlockLast"},
         \A b \in Block \ {On(t)} : count'[b] = count[b] /\ holder'[b] = holder[b]
  PROVE  \A u \in Thread \ {t} : LockInv(u)'
  <1> SUFFICES ASSUME NEW u \in Thread \ {t} PROVE LockInv(u)'
    BY Zenon
  <1>1. At(u) # "idle" => On(u) \in Block
    BY Innermost, Zenon DEF IInv
  <1>2. holder[On(t)] = t
    BY Zenon DEF IInv, LockInv
  <1> QED
    BY <1>1, <1>2 DEF IInv, LockInv, Goes

\* ++(*_pRefCount) and unlock(): one more owner.
LEMMA IncStep ==
  ASSUME Program, CountFacts, IInv, NEW t \in Thread, Inc(t)
  PROVE  IInv'
  <1>1. /\ At(t) = "Inc"
        /\ count' = [count EXCEPT ![On(t)] = Read(t) + 1]
        /\ holder' = [holder EXCEPT ![On(t)] = None]
        /\ pc' = [pc EXCEPT ![t] = Tail(@)]
        /\ UNCHANGED <<sp, heap, null>>
    BY Zenon DEF Inc, Idle, At, On, Read
  <1>2. On(t) \in Block /\ Of(t) \in Var /\ Read(t) \in Int
    BY <1>1, Innermost, Zenon DEF IInv
  <1>3. Goes(t, "idle") /\ Len(pc'[t]) = 0
    BY <1>1, Returns, Zenon DEF IInv, CallInv, Releasing
  <1>4. /\ \A b \in Block : count'[b] = IF b = On(t) THEN Read(t) + 1 ELSE count[b]
        /\ \A b \in Block : holder'[b] = IF b = On(t) THEN None ELSE holder[b]
    BY <1>1, <1>2, Zenon DEF IInv, TypeOK
  <1>5. TypeOK'
    BY <1>1, <1>2, <1>3 DEF IInv, TypeOK, Goes
  <1>6. \A u \in Thread : CallInv(u)'
    <2>1. CallInv(t)'
      BY <1>3 DEF CallInv, Goes
    <2>2. \A u \in Thread \ {t} : CallInv(u)'
      BY <1>1, <1>3, OtherCalls, Zenon
    <2> QED
      BY <2>1, <2>2, Zenon
  <1>7. \A u \in Thread : LockInv(u)'
    <2>1. LockInv(t)'
      BY <1>3, Zenon DEF LockInv, Goes
    <2>2. \A u \in Thread \ {t} : LockInv(u)'
      BY <1>1, <1>3, <1>4, OtherBlocks, Zenon
    <2> QED
      BY <2>1, <2>2, Zenon
  <1>8. HeapInv'
    <2>1. PointedInv'
      BY <1>1, Zenon DEF IInv, HeapInv, PointedInv
    <2>2. LastInv' /\ \A u \in Thread : AloneInv(u)'
      BY <1>1, <1>3, SameUnlocking, Zenon
    <2> QED
      BY <2>1, <2>2, Zenon DEF HeapInv
  <1>9. CountInv'
    <2>1. PICK d \in Block : d = On(t)
      BY <1>2, Zenon
    <2>2. PICK v \in Var : v = Of(t)
      BY <1>2, Zenon
    <2>3. sp[t][v] = d /\ Read(t) = count[d]
      BY <1>1, <2>1, <2>2, Zenon DEF IInv, CallInv, LockInv
    <2>4. "count" \in heap[d]
      BY <2>3, Zenon DEF IInv, HeapInv, PointedInv, Program
    <2>5. /\ \A u \in Thread, w \in Var : Counted(u, w)' <=> Counted(u, w) \/ (u = t /\ w = v)
          /\ ~Counted(t, v)
      BY <1>1, <1>3, <2>2, Zenon DEF Counted, Goes
    <2>6. <<t, v>> \notin Owners(d) /\ Owners(d)' = Owners(d) \cup {<<t, v>>}
      <3>1. <<t, v>> \notin Owners(d)
        BY <2>5, OwnersAre, Zenon
      <3>2. ASSUME NEW q PROVE q \in Owners(d)' <=> q \in Owners(d) \cup {<<t, v>>}
        BY <1>1, <2>3, <2>5, OwnersAre
      <3> QED
        BY <3>1, <3>2, Zenon
    <2>7. ASSUME NEW b \in Block \ {d} PROVE Owners(b)' = Owners(b)
      <3>1. ASSUME NEW q PROVE q \in Owners(b)' <=> q \in Owners(b)
        BY <1>1, <2>3, <2>5, OwnersAre
      <3> QED
        BY <3>1, Zenon
    <2>8. Cardinality(Owners(d) \cup {<<t, v>>}) = Cardinality(Owners(d)) + 1
      BY <2>6, OwnersArePairs, Zenon DEF CountFacts
    <2> QED
      BY <1>1, <1>4, <2>1, <2>3, <2>4, <2>6, <2>7, <2>8, Zenon DEF IInv, CountInv
  <1> QED
    BY <1>5, <1>6, <1>7, <1>8, <1>9, Zenon DEF IInv

\* The only owner of a block is the only variable that points to it: a variable
\* that is yet to be counted is backed by another of its thread.
LEMMA LastOwner ==
  ASSUME Program, IInv, NEW t \in Thread, NEW v \in Var, NEW d \in Block,
         At(t) = "Dec", Owners(d) = {<<t, v>>}
  PROVE  \A u \in Thread, w \in Var : sp[u][w] = d => u = t /\ w = v
  <1> SUFFICES ASSUME NEW u \in Thread, NEW w \in Var, sp[u][w] = d
               PROVE  u = t /\ w = v
    BY Zenon
  <1>1. ASSUME NEW u1 \in Thread, NEW w1 \in Var, sp[u1][w1] = d, Counted(u1, w1)
        PROVE  u1 = t /\ w1 = v
    <2>1. <<u1, w1>> \in Owners(d)
      BY <1>1, OwnersAre, Zenon
    <2> QED
      BY <2>1, Zenon
  <1>2. CASE ~Counted(u, w)
    <2>1. At(u) \in {"AddRefCount", "Inc"} /\ Of(u) = w
      BY <1>2, Zenon DEF Counted
    <2>2. PICK x \in Var \ {w} : sp[u][x] = d
      BY <2>1 DEF IInv, CallInv, Backed
    <2>3. Counted(u, x)
      BY <2>1, <2>2, Zenon DEF Counted
    <2>4. u = t
      BY <1>1, <2>2, <2>3, Zenon
    <2> QED
      BY <2>1, <2>4, Zenon
  <1> QED
    BY <1>1, <1>2, Zenon

\* --(*_pRefCount): one owner less; the last one deletes the count and the object,
\* and is alone with the mutex.
LEMMA DecStep ==
  ASSUME Program, CountFacts, IInv, NEW t \in Thread, Dec(t)
  PROVE  IInv'
  <1> DEFINE fn == IF Read(t) = 1 THEN "UnlockLast" ELSE "Unlock"
             c == [pc[t][1] EXCEPT !.fn = fn]
  <1>1. /\ At(t) = "Dec"
        /\ count' = [count EXCEPT ![On(t)] = Read(t) - 1]
        /\ sp' = [sp EXCEPT ![t][Of(t)] = None]
        /\ heap' = IF Read(t) = 1 THEN [heap EXCEPT ![On(t)] = @ \ {"count"}] ELSE heap
        /\ UNCHANGED <<holder, null>>
    BY Zenon DEF Dec, Idle, At, On, Of, Read
  <1>2. /\ Head(pc[t]) = pc[t][1] /\ pc[t][1] \in Frame
        /\ Of(t) \in Var /\ On(t) \in Block /\ Read(t) \in Int
    BY <1>1, Innermost, Zenon DEF IInv
  <1>3. Of(t) = pc[t][1].v /\ On(t) = pc[t][1].b /\ Read(t) = pc[t][1].read
    BY <1>2, Zenon DEF Of, On, Read
  <1>4. c \in Frame /\ c.v = Of(t) /\ c.b = On(t) /\ c.fn = fn
    BY <1>2, <1>3, Zenon DEF Frame, Fn, Releasing
  <1>5. pc' = [pc EXCEPT ![t] = [pc[t] EXCEPT ![1] = c]]
    BY <1>2, <1>3, Zenon DEF Dec, IInv, TypeOK
  <1>6. /\ Moves(t, fn, Of(t), On(t))
        /\ Len(pc'[t]) = Len(pc[t]) /\ (Len(pc[t]) = 2 => pc'[t][2] = pc[t][2])
    <2> HIDE DEF c, fn
    <2> QED
      BY <1>1, <1>4, <1>5, GoesOn, Zenon DEF IInv
  <1> HIDE DEF c
  <1>7. PICK d \in Block : d = On(t)
    BY <1>2, Zenon
  <1>8. PICK v \in Var : v = Of(t)
    BY <1>2, Zenon
  <1>9. /\ sp[t][v] = d /\ Read(t) = count[d] /\ holder[d] = t
        /\ "count" \in heap[d] /\ "mutex" \in heap[d]
    <2>1. sp[t][v] = d /\ Read(t) = count[d] /\ holder[d] = t
      BY <1>1, <1>7, <1>8, Zenon DEF IInv, CallInv, LockInv
    <2>2. "count" \in heap[d]
      BY <2>1, Zenon DEF IInv, HeapInv, PointedInv, Program
    <2> QED
      BY <2>1, <2>2, Zenon DEF IInv, HeapInv, LastInv
  <1>10. /\ \A u \in Thread, w \in Var :
              sp'[u][w] = IF u = t /\ w = v THEN None ELSE sp[u][w]
         /\ \A u \in Thread \ {t} : sp'[u] = sp[u]
    BY <1>1, <1>8, Zenon DEF IInv, TypeOK
  <1>11. /\ \A b \in Block \ {d} : heap'[b] = heap[b] /\ count'[b] = count[b]
         /\ count'[d] = Read(t) - 1
         /\ "mutex" \in heap'[d]
         /\ "count" \in heap'[d] <=> Read(t) # 1
    BY <1>1, <1>7, <1>9, Zenon DEF IInv, TypeOK
  <1>12. /\ <<t, v>> \in Owners(d) /\ Owners(d)' = Owners(d) \ {<<t, v>>}
         /\ \A b \in Block \ {d} : Owners(b)' = Owners(b)
    <2>1. /\ \A u \in Thread, w \in Var : Counted(u, w)' <=> Counted(u, w)
          /\ Counted(t, v)
      BY <1>1, <1>6, Zenon DEF Counted, Moves, Goes
    <2>2. <<t, v>> \in Owners(d)
      BY <1>9, <2>1, OwnersAre, Zenon
    <2>3. ASSUME NEW q PROVE q \in Owners(d)' <=> q \in Owners(d) \ {<<t, v>>}
      BY <1>9, <1>10, <2>1, OwnersAre DEF Program
    <2>4. ASSUME NEW b \in Block \ {d}, NEW q PROVE q \in Owners(b)' <=> q \in Owners(b)
      BY <1>9, <1>10, <2>1, OwnersAre DEF Program
    <2> QED
      BY <2>2, <2>3, <2>4, Zenon
  <1>13. /\ Cardinality(Owners(d)) = Read(t)
         /\ Owners(d) \ {<<t, v>>} \in SUBSET (Thread \X Var)
         /\ Cardinality(Owners(d) \ {<<t, v>>}) = Read(t) - 1
    <2>1. Cardinality(Owners(d)) = Read(t)
      BY <1>9, Zenon DEF IInv, CountInv
    <2>2. Owners(d) \in SUBSET (Thread \X Var)
      BY OwnersArePairs, Zenon
    <2> QED
      BY <2>1, <2>2, <1>12 DEF CountFacts
  <1>14. Read(t) = 1 => \A u \in Thread, w \in Var : sp[u][w] = d => u = t /\ w = v
    <2> SUFFICES ASSUME Read(t) = 1
                 PROVE  \A u \in Thread, w \in Var : sp[u][w] = d => u = t /\ w = v
      BY Zenon
    <2>1. Owners(d) \ {<<t, v>>} = {}
      BY <1>13 DEF CountFacts
    <2>2. Owners(d) = {<<t, v>>}
      BY <1>12, <2>1, Zenon
    <2> QED
      BY <1>1, <2>2, LastOwner, Zenon
  <1>15. TypeOK'
    <2>1. sp' \in [Thread -> [Var -> Block \cup {None}]]
      BY <1>1, <1>2, Zenon DEF IInv, TypeOK
    <2>2. heap' \in [Block -> SUBSET {"count", "mutex"}]
      BY <1>1, <1>2, Zenon DEF IInv, TypeOK
    <2>3. count' \in [Block -> Int]
      BY <1>1, <1>2 DEF IInv, TypeOK
    <2> QED
      BY <1>1, <1>6, <2>1, <2>2, <2>3, Zenon DEF IInv, TypeOK, Moves, Goes
  <1>16. \A u \in Thread : CallInv(u)'
    <2>1. CallInv(t)'
      BY <1>1, <1>6, <1>8, <1>10 DEF IInv, CallInv, Moves, Goes, Backed, Releasing
    <2>2. \A u \in Thread \ {t} : CallInv(u)'
      BY <1>6, <1>10, OtherCalls, Zenon DEF Moves
    <2> QED
      BY <2>1, <2>2, Zenon
  <1>17. \A u \in Thread : LockInv(u)'
    <2>1. LockInv(t)'
      BY <1>1, <1>6, <1>7, <1>9, Zenon DEF LockInv, Moves, Goes
    <2>2. \A u \in Thread \ {t} : LockInv(u)'
      BY <1>1, <1>6, <1>7, <1>11, OtherBlocks, Zenon DEF Moves
    <2> QED
      BY <2>1, <2>2, Zenon
  <1>18. HeapInv'
    <2>1. PointedInv'
      <3>1. \A u \in Thread, w \in Var : sp[u][w] \in Block \cup {None}
        BY DEF IInv, TypeOK
      <3> QED
        BY <1>10, <1>11, <1>14, <3>1 DEF IInv, HeapInv, PointedInv
    <2>2. LastInv'
      <3>1. CASE Read(t) = 1
        BY <1>1, <1>6, <1>7, <1>11, <3>1, SMTT(20) DEF IInv, HeapInv, LastInv, Moves, Goes
      <3>2. CASE Read(t) # 1
        BY <1>1, <1>6, <1>11, <3>2, SMTT(20) DEF IInv, HeapInv, LastInv, Moves, Goes
      <3> QED
        BY <3>1, <3>2, Zenon
    <2>3. AloneInv(t)'
      <3>1. ASSUME NEW u \in Thread \ {t}, At(u) \in {"Unlock", "UnlockLast", "DeleteMutex"}
            PROVE  On(u) # d
        BY <1>9, <3>1, Zenon DEF IInv, LockInv, HeapInv, AloneInv
      <3> QED
        BY <1>6, <1>7, <1>11, <3>1, Zenon DEF AloneInv, Moves, Goes
    <2>4. ASSUME NEW u \in Thread \ {t} PROVE AloneInv(u)'
      <3>1. At(u) # "idle" => On(u) \in Block
        BY Innermost, Zenon DEF IInv
      <3> QED
        BY <1>6, <1>7, <1>9, <1>11, <3>1, SMTT(30) DEF IInv, HeapInv, AloneInv, Moves, Goes
    <2> QED
      BY <2>1, <2>2, <2>3, <2>4, Zenon DEF HeapInv
  <1>19. CountInv'
    <2>1. ASSUME Owners(d) \ {<<t, v>>} = {} PROVE Read(t) = 1
      <3>1. Cardinality(Owners(d) \ {<<t, v>>}) = 0
        BY <1>13, <2>1, Zenon DEF CountFacts
      <3> QED
        BY <1>2, <1>13, <3>1
    <2> QED
      BY <1>11, <1>12, <1>13, <2>1, Zenon DEF IInv, CountInv
  <1> QED
    BY <1>15, <1>16, <1>17, <1>18, <1>19, Zenon DEF IInv

\* unlock() of Release(), when somebody else owns the block.
LEMMA UnlockStep ==
  ASSUME Program, IInv, NEW t \in Thread, Unlock(t), At(t) = "Unlock"
  PROVE  IInv'
  <1>1. /\ holder' = [holder EXCEPT ![On(t)] = None]
        /\ pc' = [pc EXCEPT ![t] = Tail(@)]
        /\ UNCHANGED <<sp, count, heap, null>>
    BY Zenon DEF Unlock, At, On
  <1>2. On(t) \in Block /\ Of(t) \in Var
    BY Innermost, Zenon DEF IInv
  <1>3. CallInv(t)' /\ \E fn \in {"idle", "Take"} : Goes(t, fn)
    BY <1>1, KeepsTake, Zenon
  <1>4. PICK fn \in {"idle", "Take"} : Goes(t, fn)
    BY <1>3, Zenon
  <1>5. TypeOK'
    BY <1>1, <1>2, <1>4, Zenon DEF IInv, TypeOK, Goes
  <1>6. \A u \in Thread : CallInv(u)'
    <2>1. \A u \in Thread \ {t} : CallInv(u)'
      BY <1>1, <1>4, OtherCalls, Zenon
    <2> QED
      BY <1>3, <2>1, Zenon
  <1>7. \A u \in Thread : LockInv(u)'
    <2>1. LockInv(t)'
      BY <1>4, Zenon DEF LockInv, Goes
    <2>2. \A b \in Block \ {On(t)} : count'[b] = count[b] /\ holder'[b] = holder[b]
      BY <1>1, Zenon DEF IInv, TypeOK
    <2>3. \A u \in Thread \ {t} : LockInv(u)'
      BY <1>4, <2>2, OtherBlocks, Zenon
    <2> QED
      BY <2>1, <2>3, Zenon
  <1>8. HeapInv'
    <2>1. PointedInv'
      BY <1>1, Zenon DEF IInv, HeapInv, PointedInv
    <2>2. LastInv'
      <3> SUFFICES ASSUME NEW b \in Block, "mutex" \in heap[b], "count" \notin heap[b]
                   PROVE  \E u \in Thread : At(u)' \in {"UnlockLast", "DeleteMutex"} /\ On(u)' = b
        BY <1>1, Zenon DEF IInv, HeapInv, LastInv
      <3>1. PICK u \in Thread : At(u) \in {"UnlockLast", "DeleteMutex"} /\ On(u) = b
        BY Zenon DEF IInv, HeapInv, LastInv
      <3> QED
        BY <1>4, <3>1, Zenon DEF Goes
    <2>3. AloneInv(t)'
      BY <1>4, Zenon DEF AloneInv, Goes
    <2>4. ASSUME NEW u \in Thread \ {t} PROVE AloneInv(u)'
      BY <1>1, <1>4, Zenon DEF IInv, HeapInv, AloneInv, Goes
    <2> QED
      BY <2>1, <2>2, <2>3, <2>4, Zenon DEF HeapInv
  <1>9. CountInv'
    <2>1. \A b \in Block : Owners(b)' = Owners(b)
      BY <1>1, <1>4, SameOwners, Zenon DEF Counted, Goes
    <2> QED
      BY <1>1, <2>1, SameCounts, Zenon DEF IInv
  <1> QED
    BY <1>5, <1>6, <1>7, <1>8, <1>9, Zenon DEF IInv

\* unlock() of Release(), before the mutex is deleted.
LEMMA UnlockLastStep ==
  ASSUME Program, IInv, NEW t \in Thread, Unlock(t), At(t) = "UnlockLast"
  PROVE  IInv'
  <1> DEFINE c == [pc[t][1] EXCEPT !.fn = "DeleteMutex"]
  <1>1. /\ pc[t] \in Seq(Frame) /\ pc[t] # << >> /\ Len(pc[t]) \in Nat \ {0}
        /\ Head(pc[t]) = pc[t][1] /\ pc[t][1] \in Frame
        /\ Of(t) \in Var /\ On(t) \in Block
    BY Innermost, Zenon DEF IInv
  <1>2. Of(t) = pc[t][1].v /\ On(t) = pc[t][1].b
    BY <1>1, Zenon DEF Of, On
  <1>3. c \in Frame /\ c.v = Of(t) /\ c.b = On(t) /\ c.fn = "DeleteMutex"
    BY <1>1, <1>2, Zenon DEF Frame, Fn, Releasing
  <1>4. /\ holder' = [holder EXCEPT ![On(t)] = None]
        /\ pc' = [pc EXCEPT ![t] = <<c>> \o Tail(pc[t])]
        /\ UNCHANGED <<sp, count, heap, null>>
    BY <1>1, Zenon DEF Unlock, At, On
  <1> HIDE DEF c
  <1>5. <<c>> \o Tail(pc[t]) = [pc[t] EXCEPT ![1] = c]
    <2>1. /\ Tail(pc[t]) \in Seq(Frame) /\ Len(Tail(pc[t])) = Len(pc[t]) - 1
          /\ \A i \in 1 .. Len(Tail(pc[t])) : Tail(pc[t])[i] = pc[t][i + 1]
      BY <1>1
    <2>2. <<c>> \in Seq(Frame) /\ Len(<<c>>) = 1 /\ <<c>>[1] = c
      BY <1>3
    <2>3. /\ <<c>> \o Tail(pc[t]) \in Seq(Frame)
          /\ Len(<<c>> \o Tail(pc[t])) = Len(pc[t])
          /\ \A i \in 1 .. Len(pc[t]) :
               (<<c>> \o Tail(pc[t]))[i] = IF i = 1 THEN c ELSE pc[t][i]
      BY <1>1, <2>1, <2>2
    <2>4. /\ [pc[t] EXCEPT ![1] = c] \in Seq(Frame)
          /\ Len([pc[t] EXCEPT ![1] = c]) = Len(pc[t])
          /\ \A i \in 1 .. Len(pc[t]) :
               [pc[t] EXCEPT ![1] = c][i] = IF i = 1 THEN c ELSE pc[t][i]
      BY <1>1, <1>3
    <2> QED
      BY <2>3, <2>4
  <1>6. /\ Moves(t, "DeleteMutex", Of(t), On(t))
        /\ Len(pc'[t]) = Len(pc[t]) /\ (Len(pc[t]) = 2 => pc'[t][2] = pc[t][2])
    BY <1>3, <1>4, <1>5, GoesOn, Zenon DEF IInv
  <1>7. TypeOK'
    BY <1>1, <1>4, <1>6, Zenon DEF IInv, TypeOK, Moves, Goes
  <1>8. \A u \in Thread : CallInv(u)'
    <2>1. CallInv(t)'
      BY <1>4, <1>6, KeepsCall, Zenon
    <2>2. \A u \in Thread \ {t} : CallInv(u)'
      BY <1>4, <1>6, OtherCalls, Zenon DEF Moves
    <2> QED
      BY <2>1, <2>2, Zenon
  <1>9. \A u \in Thread : LockInv(u)'
    <2>1. LockInv(t)'
      BY <1>6, Zenon DEF LockInv, Moves, Goes
    <2>2. \A b \in Block \ {On(t)} : count'[b] = count[b] /\ holder'[b] = holder[b]
      BY <1>4, Zenon DEF IInv, TypeOK
    <2>3. \A u \in Thread \ {t} : LockInv(u)'
      BY <1>6, <2>2, OtherBlocks, Zenon DEF Moves
    <2> QED
      BY <2>1, <2>3, Zenon
  <1>10. HeapInv'
    <2>1. PointedInv'
      BY <1>4, Zenon DEF IInv, HeapInv, PointedInv
    <2>2. LastInv'
      <3> SUFFICES ASSUME NEW b \in Block, "mutex" \in heap[b], "count" \notin heap[b]
                   PROVE  \E u \in Thread : At(u)' \in {"UnlockLast", "DeleteMutex"} /\ On(u)' = b
        BY <1>4, Zenon DEF IInv, HeapInv, LastInv
      <3>1. PICK u \in Thread : At(u) \in {"UnlockLast", "DeleteMutex"} /\ On(u) = b
        BY Zenon DEF IInv, HeapInv, LastInv
      <3> QED
        BY <1>6, <3>1, Zenon DEF Moves, Goes
    <2>3. ASSUME NEW u \in Thread PROVE AloneInv(u)'
      BY <1>4, <1>6, Zenon DEF IInv, HeapInv, AloneInv, Moves, Goes
    <2> QED
      BY <2>1, <2>2, <2>3, Zenon DEF HeapInv
  <1>11. CountInv'
    <2>1. \A b \in Block : Owners(b)' = Owners(b)
      BY <1>4, <1>6, SameOwners, Zenon DEF Counted, Moves, Goes
    <2> QED
      BY <1>4, <2>1, SameCounts, Zenon DEF IInv
  <1> QED
    BY <1>7, <1>8, <1>9, <1>10, <1>11, Zenon DEF IInv

\* The mutex is deleted when nobody else is inside the block.
LEMMA DeleteMutexStep ==
  ASSUME Program, IInv, NEW t \in Thread, DeleteMutex(t)
  PROVE  IInv'
  <1>1. /\ At(t) = "DeleteMutex"
        /\ heap' = [heap EXCEPT ![On(t)] = @ \ {"mutex"}]
        /\ pc' = [pc EXCEPT ![t] = Tail(@)]
        /\ UNCHANGED <<sp, count, holder, null>>
    BY Zenon DEF DeleteMutex, Idle, At, On
  <1>2. On(t) \in Block /\ Of(t) \in Var
    BY <1>1, Innermost, Zenon DEF IInv
  <1>3. CallInv(t)' /\ \E fn \in {"idle", "Take"} : Goes(t, fn)
    BY <1>1, KeepsTake, Zenon
  <1>4. PICK fn \in {"idle", "Take"} : Goes(t, fn)
    BY <1>3, Zenon
  <1>5. TypeOK'
    BY <1>1, <1>2, <1>4, Zenon DEF IInv, TypeOK, Goes
  <1>6. \A u \in Thread : CallInv(u)'
    <2>1. \A u \in Thread \ {t} : CallInv(u)'
      BY <1>1, <1>4, OtherCalls, Zenon
    <2> QED
      BY <1>3, <2>1, Zenon
  <1>7. \A u \in Thread : LockInv(u)'
    <2>1. LockInv(t)'
      BY <1>4, Zenon DEF LockInv, Goes
    <2>2. \A u \in Thread \ {t} : LockInv(u)'
      BY <1>1, <1>4, OtherLocks, Zenon
    <2> QED
      BY <2>1, <2>2, Zenon
  <1>8. PICK d \in Block : d = On(t)
    BY <1>2, Zenon
  <1>9. /\ "count" \notin heap[d] /\ "mutex" \notin heap'[d]
        /\ \A b \in Block : "count" \in heap'[b] <=> "count" \in heap[b]
        /\ \A b \in Block \ {d} : heap'[b] = heap[b]
        /\ \A u \in Thread \ {t} :
             At(u) \in {"Unlock", "UnlockLast", "DeleteMutex"} => On(u) \in Block \ {d}
    <2>1. "count" \notin heap[d]
      BY <1>1, <1>8, Zenon DEF IInv, HeapInv, AloneInv
    <2>2. /\ \A b \in Block \ {d} : heap'[b] = heap[b]
          /\ heap'[d] = heap[d] \ {"mutex"}
      BY <1>1, <1>8, Zenon DEF IInv, TypeOK
    <2>3. ASSUME NEW u \in Thread \ {t}, At(u) \in {"Unlock", "UnlockLast", "DeleteMutex"}
          PROVE  On(u) \in Block \ {d}
      <3>1. On(u) \in Block
        BY <2>3, Innermost, Zenon DEF IInv
      <3> QED
        BY <1>1, <1>8, <2>3, <3>1, Zenon DEF IInv, HeapInv, AloneInv
    <2> QED
      BY <2>1, <2>2, <2>3, Zenon
  <1>10. HeapInv'
    <2>1. PointedInv'
      <3>1. \A u \in Thread, w \in Var : sp[u][w] \in Block \cup {None}
        BY DEF IInv, TypeOK
      <3> QED
        BY <1>1, <1>9, <3>1, Zenon DEF IInv, HeapInv, PointedInv
    <2>2. LastInv'
      <3>1. ASSUME NEW b \in Block, "count" \in heap'[b] PROVE "mutex" \in heap'[b]
        BY <1>9, <3>1, Zenon DEF IInv, HeapInv, LastInv
      <3>2. ASSUME NEW b \in Block, "mutex" \in heap'[b], "count" \notin heap'[b]
            PROVE  \E u \in Thread : At(u)' \in {"UnlockLast", "DeleteMutex"} /\ On(u)' = b
        <4>1. PICK u \in Thread : At(u) \in {"UnlockLast", "DeleteMutex"} /\ On(u) = b
          BY <1>9, <3>2, Zenon DEF IInv, HeapInv, LastInv
        <4> QED
          BY <1>4, <1>8, <1>9, <3>2, <4>1, Zenon DEF Goes
      <3> QED
        BY <3>1, <3>2, Zenon DEF LastInv
    <2>3. AloneInv(t)'
      BY <1>4, Zenon DEF AloneInv, Goes
    <2>4. ASSUME NEW u \in Thread \ {t} PROVE AloneInv(u)'
      BY <1>4, <1>9 DEF IInv, HeapInv, AloneInv, Goes
    <2> QED
      BY <2>1, <2>2, <2>3, <2>4, Zenon DEF HeapInv
  <1>11. CountInv'
    <2>1. \A b \in Block : Owners(b)' = Owners(b)
      BY <1>1, <1>4, SameOwners, Zenon DEF Counted, Goes
    <2> QED
      BY <1>1, <1>9, <2>1, Zenon DEF IInv, CountInv
  <1> QED
    BY <1>5, <1>6, <1>7, <1>10, <1>11, Zenon DEF IInv

\* Every step keeps the invariant.
LEMMA InvStep ==
  ASSUME Program, CountFacts, IInv, [Next]_vars
  PROVE  IInv'
  <1>1. CASE UNCHANGED vars
    <2>1. \A t \in Thread : /\ At(t)' = At(t) /\ Of(t)' = Of(t) /\ On(t)' = On(t)
                            /\ Read(t)' = Read(t)
      BY <1>1, SameCall, Zenon DEF vars
    <2>2. \A b \in Block : Owners(b)' = Owners(b)
      BY <1>1, <2>1, SameOwners, Zenon DEF Counted, vars
    <2>3. CountInv'
      BY <1>1, <2>2, SameCounts, Zenon DEF IInv, vars
    <2>4. \A t \in Thread : CallInv(t)' /\ LockInv(t)'
      BY <1>1, <2>1, OthersKeep, Zenon DEF IInv, LockInv, vars
    <2>5. HeapInv'
      BY <1>1, <2>1 DEF IInv, HeapInv, PointedInv, LastInv, AloneInv, vars
    <2> QED
      BY <1>1, <2>3, <2>4, <2>5, Zenon DEF IInv, TypeOK, vars
  <1>2. ASSUME NEW t \in Thread, NEW v \in Var, Destroy(t, v) PROVE IInv'
    BY <1>2, DestroyStep, Zenon
  <1>3. ASSUME NEW t \in Thread, NEW v \in Var, NEW isNull \in BOOLEAN, Construct(t, v, isNull)
        PROVE  IInv'
    BY <1>3, ConstructStep, Zenon
  <1>4. ASSUME NEW t \in Thread, NEW v \in Var, NEW w \in Var, Copy(t, v, w) PROVE IInv'
    BY <1>4, CopyStep, Zenon
  <1>5. ASSUME NEW t \in Thread, NEW v \in Var, NEW w \in Var, Assign(t, v, w) PROVE IInv'
    <2>1. CASE pc' = pc
      BY <1>1, <1>5, <2>1, Zenon DEF Assign, vars
    <2>2. CASE pc' # pc
      BY <1>5, <2>2, AssignStep, Zenon
    <2> QED
      BY <2>1, <2>2, Zenon
  <1>6. ASSUME NEW t \in Thread, Unlock(t) PROVE IInv'
    <2>1. At(t) \in {"Unlock", "UnlockLast"}
      BY <1>6, Zenon DEF Unlock, Idle, At
    <2> QED
      BY <1>6, <2>1, UnlockStep, UnlockLastStep, Zenon
  <1> QED
    BY <1>1, <1>2, <1>3, <1>4, <1>5, <1>6, TakeStep, LockStep, IncStep, DecStep,
       DeleteMutexStep, Zenon
       DEF Next

\* The invariant is strong enough for the promise of Shared_Ptr.
LEMMA Promise ==
  ASSUME Program, IInv
  PROVE  CountExact /\ LivesWhileUsed
  <1>1. CountExact
    BY Zenon DEF IInv, CountInv, CountExact
  <1>2. ASSUME NEW t \in Thread, NEW fns, Doing(t, fns)
        PROVE  At(t) \in fns /\ Head(pc[t]).b = On(t)
    BY <1>2, Zenon DEF Doing, Idle, At, On
  <1>3. ASSUME NEW t \in Thread,
               Doing(t, {"AddRefCount", "Inc", "Release", "Dec", "Unlock", "UnlockLast"})
        PROVE  /\ "mutex" \in heap[Head(pc[t]).b]
               /\ Doing(t, {"Inc", "Dec"}) => "count" \in heap[Head(pc[t]).b]
    <2>1. /\ At(t) \in {"AddRefCount", "Inc", "Release", "Dec", "Unlock", "UnlockLast"}
          /\ Head(pc[t]).b = On(t)
      BY <1>2, <1>3, Zenon
    <2>2. On(t) \in Block /\ Of(t) \in Var
      BY <2>1, Innermost, Zenon DEF IInv
    <2>3. CASE At(t) \in {"AddRefCount", "Inc", "Release", "Dec"}
      <3>1. sp[t][Of(t)] = On(t)
        BY <2>3, Zenon DEF IInv, CallInv
      <3>2. "count" \in heap[On(t)]
        BY <2>2, <3>1, Zenon DEF IInv, HeapInv, PointedInv, Program
      <3>3. "mutex" \in heap[On(t)]
        BY <2>2, <3>2, Zenon DEF IInv, HeapInv, LastInv
      <3> QED
        BY <2>1, <3>2, <3>3, Zenon
    <2>4. CASE At(t) \in {"Unlock", "UnlockLast"}
      <3>1. "mutex" \in heap[On(t)]
        BY <2>4, Zenon DEF IInv, HeapInv, AloneInv
      <3>2. ~Doing(t, {"Inc", "Dec"})
        BY <1>2, <2>4
      <3> QED
        BY <2>1, <3>1, <3>2, Zenon
    <2> QED
      BY <2>1, <2>3, <2>4, Zenon
  <1>4. ASSUME \A t \in Thread : Idle(t), NEW b \in Block, heap[b] # {}
        PROVE  \E t \in Thread, v \in Var : sp[t][v] = b
    <2>1. \A t \in Thread : At(t) = "idle"
      BY <1>4, Zenon DEF Idle, At
    <2>2. "count" \in heap[b]
      <3>1. heap[b] \subseteq {"count", "mutex"}
        BY Zenon DEF IInv, TypeOK
      <3> QED
        BY <1>4, <2>1, <3>1, Zenon DEF IInv, HeapInv, LastInv
    <2>3. PICK p \in Owners(b) : TRUE
      BY <2>2, Zenon DEF IInv, CountInv
    <2>4. p[1] \in Thread /\ p[2] \in Var /\ sp[p[1]][p[2]] = b
      BY <2>3, OwnersAre
    <2> QED
      BY <2>4, Zenon
  <1>5. \A t \in Thread, v \in Var : sp[t][v] # None => "count" \in heap[sp[t][v]]
    BY Zenon DEF IInv, HeapInv, PointedInv
  <1> QED
    BY <1>1, <1>3, <1>4, <1>5, Zenon DEF LivesWhileUsed

-----------------------------------------------------------------------------
INSTANCE FiniteSetTheorems

\* The facts about cardinalities that the steps use, for finitely many threads and
\* variables.
LEMMA Cardinalities ==
  ASSUME Program
  PROVE  CountFacts
  <1>1. IsFiniteSet(Thread \X Var)
    BY FS_Product, Zenon DEF Program
  <1>2. Cardinality(Thread) \in Nat
    BY FS_CardinalityType, Zenon DEF Program
  <1>3. ASSUME NEW v \in Var PROVE Cardinality(Thread \X {v}) = Cardinality(Thread)
    <2>1. IsFiniteSet({v}) /\ Cardinality({v}) = 1
      BY FS_Singleton, Zenon
    <2>2. Cardinality(Thread \X {v}) = Cardinality(Thread) * Cardinality({v})
      BY <2>1, FS_Product, Zenon DEF Program
    <2> QED
      BY <1>2, <2>1, <2>2
  <1>4. ASSUME NEW x PROVE Cardinality({x}) = 1
    BY FS_Singleton, Zenon
  <1>5. ASSUME NEW S \in SUBSET (Thread \X Var)
        PROVE  /\ Cardinality(S) \in Nat
               /\ Cardinality(S) = 0 <=> S = {}
               /\ \A x \in (Thread \X Var) \ S : Cardinality(S \cup {x}) = Cardinality(S) + 1
               /\ \A x \in S : Cardinality(S \ {x}) = Cardinality(S) - 1
    <2>1. IsFiniteSet(S)
      BY <1>1, FS_Subset, Zenon
    <2>2. Cardinality(S) \in Nat /\ (Cardinality(S) = 0 <=> S = {})
      BY <2>1, FS_CardinalityType, FS_EmptySet, Zenon
    <2>3. \A x \in (Thread \X Var) \ S : Cardinality(S \cup {x}) = Cardinality(S) + 1
      BY <2>1, FS_AddElement, Zenon
    <2>4. \A x \in S : Cardinality(S \ {x}) = Cardinality(S) - 1
      BY <2>1, FS_RemoveElement, Zenon
    <2> QED
      BY <2>2, <2>3, <2>4, Zenon
  <1> QED
    BY <1>2, <1>3, <1>4, <1>5, Zenon DEF CountFacts

\* The invariant holds in every state of every program of Shared_Ptrs.
THEOREM InvariantHolds ==
  ASSUME Program
  PROVE  Spec => []IInv
  <1>1. CountFacts
    BY Cardinalities, Zenon
  <1>2. Init => IInv
    BY <1>1, InitInv, Zenon
  <1>3. IInv /\ [Next]_vars => IInv'
    BY <1>1, InvStep, Zenon
  <1> QED
    BY <1>2, <1>3, PTL DEF Spec

\* The count under the mutex is the number of Shared_Ptrs that point to the object,
\* whatever copies, assignments and destructions the threads are in the middle of.
THEOREM CountsExact ==
  ASSUME Program
  PROVE  Spec => []CountExact
  <1>1. IInv => CountExact
    BY Promise, Zenon
  <1> QED
    BY <1>1, InvariantHolds, PTL

\* Nobody locks or unlocks a deleted mutex, changes a deleted count or points to a
\* deleted object, and what nobody points to has been deleted, mutex included.
THEOREM BlocksLiveWhileUsed ==
  ASSUME Program
  PROVE  Spec => []LivesWhileUsed
  <1>1. IInv => LivesWhileUsed
    BY Promise, Zenon
  <1> QED
    BY <1>1, InvariantHolds, PTL

-----------------------------------------------------------------------------
(***************************************************************************)
(* The DoubleBuffer of double.cpp, with a sleep that outlasts every Load.  *)
(***************************************************************************)
CONSTANTS Reader, Writer, Updater, Apply(_, _), InitData, NULL
VARIABLES buffers_, read_idx_, write_mtx_, updating, writer, index, held

Sleeping == INSTANCE DoubleBuffer WITH SleepCoversLoad <- TRUE, pc <- writer

\* Finitely many threads, each a reader or a writer, and a NULL that is neither a
\* writer nor an index.
BufferProgram ==
  /\ IsFiniteSet(Reader) /\ IsFiniteSet(Writer) /\ Reader \cap Writer = {}
  /\ NULL \notin Writer /\ NULL \notin {0, 1}

UpdatePC == {"idle", "wait", "first", "swap", "sleep", "second", "return"}

BufferTypeOK ==
  /\ read_idx_ \in {0, 1}
  /\ writer \in [Writer -> UpdatePC]
  /\ index \in [Reader -> {0, 1, NULL}]
  /\ held \in [Reader \cup Writer -> {0, 1, NULL}]

\* One writer at a time is inside Update, and holds a buffer only after the wait.
WriterInv ==
  \A w \in Writer :
    /\ writer[w] # "idle" => write_mtx_ = w
    /\ writer[w] \in {"idle", "wait"} => held[w] = NULL
    /\ writer[w] \in {"first", "swap"} =>
         held[w] = 1 - read_idx_ /\ \A r \in Reader : held[r] # 1 - read_idx_

\* But for the sleep after the swap, a Load under way has read the index of the
\* buffer that is read: the sleep is what the wait for use_count() rests on.
LoadInv ==
  (\A w \in Writer : writer[w] # "sleep") => \A r \in Reader : index[r] \in {NULL, read_idx_}

BufferInv == BufferTypeOK /\ WriterInv /\ LoadInv

\* The wait for use_count() == 1 ends when no thread holds the buffer.
LEMMA NobodyHolds ==
  ASSUME BufferProgram, NEW b, Sleeping!UseCount(b) = 1
  PROVE  \A t \in Reader \cup Writer : held[t] # b
  <1> DEFINE S == {t \in Reader \cup Writer : held[t] = b}
  <1>1. IsFiniteSet(Reader \cup Writer)
    BY FS_Union, Zenon DEF BufferProgram
  <1>2. IsFiniteSet(S)
    BY <1>1, FS_Subset
  <1>3. Cardinality(S) \in Nat /\ (Cardinality(S) = 0 <=> S = {})
    BY <1>2, FS_CardinalityType, FS_EmptySet
  <1>4. 1 + Cardinality(S) = 1
    <2>1. Sleeping!Cardinality(S) = Cardinality(S)
      BY DEF Sleeping!Cardinality, Cardinality
    <2>2. 1 + Sleeping!Cardinality(S) = 1
      BY DEF Sleeping!UseCount
    <2> QED
      BY <2>1, <2>2
  <1>5. S = {}
    BY <1>3, <1>4
  <1> QED
    BY <1>5

LEMMA BufferInit ==
  ASSUME BufferProgram, Sleeping!Init
  PROVE  BufferInv
  BY DEF BufferProgram, Sleeping!Init, BufferInv, BufferTypeOK, WriterInv, LoadInv, UpdatePC

LEMMA BufferStep ==
  ASSUME BufferProgram, BufferInv, [Sleeping!Next]_(Sleeping!vars)
  PROVE  BufferInv'
  <1> USE DEF BufferProgram, BufferInv, BufferTypeOK
  <1>1. CASE UNCHANGED Sleeping!vars
    BY <1>1 DEF Sleeping!vars, WriterInv, LoadInv
  <1>2. ASSUME NEW r \in Reader, Sleeping!LoadIndex(r) PROVE BufferInv'
    <2>1. BufferTypeOK' /\ WriterInv'
      BY <1>2 DEF Sleeping!LoadIndex, WriterInv
    <2>2. LoadInv'
      BY <1>2 DEF Sleeping!LoadIndex, LoadInv
    <2> QED
      BY <2>1, <2>2
  <1>3. ASSUME NEW r \in Reader, Sleeping!LoadCopy(r) PROVE BufferInv'
    <2>1. BufferTypeOK' /\ LoadInv'
      BY <1>3 DEF Sleeping!LoadCopy, LoadInv
    <2>2. ASSUME NEW w \in Writer, writer[w] \in {"first", "swap"}
          PROVE  index[r] # 1 - read_idx_
      <3>1. \A u \in Writer : writer[u] # "sleep"
        BY <2>2 DEF WriterInv
      <3> QED
        BY <3>1 DEF LoadInv
    <2>3. WriterInv'
      BY <1>3, <2>2 DEF Sleeping!LoadCopy, WriterInv
    <2> QED
      BY <2>1, <2>3
  <1>4. ASSUME NEW r \in Reader, Sleeping!Release(r) PROVE BufferInv'
    BY <1>4 DEF Sleeping!Release, WriterInv, LoadInv
  <1>5. ASSUME NEW w \in Writer, NEW f \in Updater, Sleeping!Lock(w, f) PROVE BufferInv'
    BY <1>5 DEF Sleeping!Lock, WriterInv, LoadInv, UpdatePC
  <1>6. ASSUME NEW w \in Writer, Sleeping!Monopolize(w) PROVE BufferInv'
    <2>1. \A t \in Reader \cup Writer : held[t] # 1 - read_idx_
      BY <1>6, NobodyHolds DEF Sleeping!Monopolize
    <2>2. BufferTypeOK'
      BY <1>6 DEF Sleeping!Monopolize, UpdatePC
    <2>3. WriterInv'
      BY <1>6, <2>1 DEF Sleeping!Monopolize, WriterInv
    <2>4. LoadInv'
      BY <1>6 DEF Sleeping!Monopolize, WriterInv, LoadInv
    <2> QED
      BY <2>2, <2>3, <2>4
  <1>7. ASSUME NEW w \in Writer, Sleeping!FirstUpdate(w) PROVE BufferInv'
    BY <1>7 DEF Sleeping!FirstUpdate, Sleeping!ApplyUpdater, WriterInv, LoadInv, UpdatePC
  <1>8. ASSUME NEW w \in Writer, Sleeping!SwapBuffer(w) PROVE BufferInv'
    BY <1>8 DEF Sleeping!SwapBuffer, WriterInv, LoadInv, UpdatePC
  <1>9. ASSUME NEW w \in Writer, Sleeping!Sleep(w) PROVE BufferInv'
    BY <1>9 DEF Sleeping!Sleep, WriterInv, LoadInv, UpdatePC
  <1>10. ASSUME NEW w \in Writer, Sleeping!SecondUpdate(w) PROVE BufferInv'
    BY <1>10 DEF Sleeping!SecondUpdate, Sleeping!ApplyUpdater, WriterInv, LoadInv, UpdatePC
  <1>11. ASSUME NEW w \in Writer, Sleeping!Return(w) PROVE BufferInv'
    BY <1>11 DEF Sleeping!Return, WriterInv, LoadInv, UpdatePC
  <1> QED
    BY <1>1, <1>2, <1>3, <1>4, <1>5, <1>6, <1>7, <1>8, <1>9, <1>10, <1>11, Zenon
       DEF Sleeping!Next, Sleeping!Update

\* While a writer of double.cpp applies its updater for the first time no other
\* thread holds the buffer, whatever the updaters and the data, as long as the 1 ms
\* sleep outlasts every Load.
THEOREM FirstUpdateAlone ==
  ASSUME BufferProgram
  PROVE  Sleeping!Spec => []Sleeping!FirstUpdateIsAlone
  <1>1. Sleeping!Init => BufferInv
    BY BufferInit
  <1>2. BufferInv /\ [Sleeping!Next]_(Sleeping!vars) => BufferInv'
    BY BufferStep
  <1>3. BufferInv => Sleeping!FirstUpdateIsAlone
    BY DEF BufferProgram, BufferInv, BufferTypeOK, WriterInv, Sleeping!FirstUpdateIsAlone
  <1> QED
    BY <1>1, <1>2, <1>3, PTL DEF Sleeping!Spec
=============================================================================
