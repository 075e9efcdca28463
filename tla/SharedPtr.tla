------------------------------ MODULE SharedPtr ------------------------------
(***************************************************************************)
(* Shared_Ptr of look_for_job.cpp: a reference count under a mutex, both   *)
(* on the heap.  Each thread has Shared_Ptrs of its own and copies, assigns*)
(* and destroys them while other threads do the same to theirs; what they  *)
(* share are the count, the mutex and the object.                          *)
(***************************************************************************)
EXTENDS Integers, Sequences, FiniteSets

CONSTANTS Thread,
          Var,    \* the Shared_Ptr variables of a thread
          Block,  \* bound: the heap: a count, a mutex and an object each
          First,  \* the block every thread starts with a copy of
          None

VARIABLES sp,     \* per thread and variable: the block it points to
          count,  \* *_pRefCount
          heap,   \* per block: which of count (with its object) and mutex are allocated
          holder, \* per block: the thread that holds the mutex
          null,   \* the blocks whose _pPtr is nullptr
          pc      \* per thread: the calls under way, the innermost first
vars == <<sp, count, heap, holder, null, pc>>

Init ==
  /\ sp = [t \in Thread |-> [v \in Var |-> IF v = CHOOSE w \in Var : TRUE THEN First ELSE None]]
  /\ count = [b \in Block |-> IF b = First THEN Cardinality(Thread) ELSE 0]
  /\ heap = [b \in Block |-> IF b = First THEN {"count", "mutex"} ELSE {}]
  /\ holder = [b \in Block |-> None]
  /\ null = {}
  /\ pc = [t \in Thread |-> << >>]

Call(fn, v, b) == [fn |-> fn, v |-> v, b |-> b, read |-> 0]
Idle(t) == pc[t] = << >>
Ptr(b) == IF b \in null THEN "nullptr" ELSE b

\* Shared_Ptr(ptr), with an object or with nullptr.
Construct(t, v, isNull) ==
  /\ Idle(t) /\ sp[t][v] = None
  /\ \E b \in Block :
       /\ heap[b] = {}
       /\ heap' = [heap EXCEPT ![b] = {"count", "mutex"}]
       /\ count' = [count EXCEPT ![b] = 1]
       /\ null' = IF isNull THEN null \cup {b} ELSE null \ {b}
       /\ sp' = [sp EXCEPT ![t][v] = b]
  /\ UNCHANGED <<holder, pc>>

\* The copy constructor: the three pointers, then AddRefCount().
Copy(t, v, w) ==
  /\ Idle(t) /\ sp[t][v] = None /\ sp[t][w] # None
  /\ sp' = [sp EXCEPT ![t][v] = sp[t][w]]
  /\ pc' = [pc EXCEPT ![t] = <<Call("AddRefCount", v, sp[t][w])>>]
  /\ UNCHANGED <<count, heap, holder, null>>

Destroy(t, v) ==
  /\ Idle(t) /\ sp[t][v] # None
  /\ pc' = [pc EXCEPT ![t] = <<Call("Release", v, sp[t][v])>>]
  /\ UNCHANGED <<sp, count, heap, holder, null>>

\* operator= without its test.
AssignAlways(t, v, w) ==
  /\ Idle(t) /\ sp[t][v] # None /\ sp[t][w] # None
  /\ pc' = [pc EXCEPT ![t] = <<Call("Release", v, sp[t][v]), Call("Take", v, sp[t][w])>>]
  /\ UNCHANGED <<sp, count, heap, holder, null>>

\* operator=, v = w: it compares objects, not Shared_Ptrs.
Assign(t, v, w) ==
  /\ Idle(t) /\ sp[t][v] # None /\ sp[t][w] # None
  /\ pc' = IF Ptr(sp[t][v]) = Ptr(sp[t][w]) THEN pc
           ELSE [pc EXCEPT ![t] = <<Call("Release", v, sp[t][v]), Call("Take", v, sp[t][w])>>]
  /\ UNCHANGED <<sp, count, heap, holder, null>>

\* The rest of operator= after Release().
Take(t) ==
  /\ ~Idle(t) /\ Head(pc[t]).fn = "Take"
  /\ LET c == Head(pc[t]) IN
       /\ sp' = [sp EXCEPT ![t][c.v] = c.b]
       /\ pc' = [pc EXCEPT ![t] = <<Call("AddRefCount", c.v, c.b)>>]
  /\ UNCHANGED <<count, heap, holder, null>>

\* _pMutex->lock() that does not wait, and the read of *_pRefCount.
LockFree(t) ==
  /\ ~Idle(t) /\ Head(pc[t]).fn \in {"AddRefCount", "Release"}
  /\ LET c == Head(pc[t]) IN
       /\ holder' = [holder EXCEPT ![c.b] = t]
       /\ pc' = [pc EXCEPT ![t][1].fn = IF c.fn = "Release" THEN "Dec" ELSE "Inc", ![t][1].read = count[c.b]]
  /\ UNCHANGED <<sp, count, heap, null>>

\* _pMutex->lock(), and the read of *_pRefCount.
Lock(t) ==
  /\ ~Idle(t) /\ Head(pc[t]).fn \in {"AddRefCount", "Release"}
  /\ LET c == Head(pc[t]) IN
       /\ holder[c.b] = None
       /\ holder' = [holder EXCEPT ![c.b] = t]
       /\ pc' = [pc EXCEPT ![t][1].fn = IF c.fn = "Release" THEN "Dec" ELSE "Inc", ![t][1].read = count[c.b]]
  /\ UNCHANGED <<sp, count, heap, null>>

\* ++(*_pRefCount), and unlock().
Inc(t) ==
  /\ ~Idle(t) /\ Head(pc[t]).fn = "Inc"
  /\ LET c == Head(pc[t]) IN
       /\ count' = [count EXCEPT ![c.b] = c.read + 1]
       /\ holder' = [holder EXCEPT ![c.b] = None]
  /\ pc' = [pc EXCEPT ![t] = Tail(@)]
  /\ UNCHANGED <<sp, heap, null>>

\* --(*_pRefCount); the last one out deletes the count and the object.
Dec(t) ==
  /\ ~Idle(t) /\ Head(pc[t]).fn = "Dec"
  /\ LET c == Head(pc[t]) IN
       /\ count' = [count EXCEPT ![c.b] = c.read - 1]
       /\ sp' = [sp EXCEPT ![t][c.v] = None]
       /\ heap' = IF c.read = 1 THEN [heap EXCEPT ![c.b] = @ \ {"count"}] ELSE heap
       /\ pc' = [pc EXCEPT ![t][1].fn = IF c.read = 1 THEN "UnlockLast" ELSE "Unlock"]
  /\ UNCHANGED <<holder, null>>

Unlock(t) ==
  /\ ~Idle(t) /\ Head(pc[t]).fn \in {"Unlock", "UnlockLast"}
  /\ LET c == Head(pc[t]) IN
       /\ holder' = [holder EXCEPT ![c.b] = None]
       /\ pc' = [pc EXCEPT ![t] = IF c.fn = "Unlock" THEN Tail(@) ELSE <<[c EXCEPT !.fn = "DeleteMutex"]>> \o Tail(@)]
  /\ UNCHANGED <<sp, count, heap, null>>

\* The end of Release(): deleteflag.
DeleteMutex(t) ==
  /\ ~Idle(t) /\ Head(pc[t]).fn = "DeleteMutex"
  /\ heap' = [heap EXCEPT ![Head(pc[t]).b] = @ \ {"mutex"}]
  /\ pc' = [pc EXCEPT ![t] = Tail(@)]
  /\ UNCHANGED <<sp, count, holder, null>>

Next == \E t \in Thread :
  \/ \E v \in Var : Destroy(t, v) \/ \E isNull \in BOOLEAN : Construct(t, v, isNull)
  \/ \E v, w \in Var : Copy(t, v, w) \/ Assign(t, v, w)
  \/ Take(t) \/ Lock(t) \/ Inc(t) \/ Dec(t) \/ Unlock(t) \/ DeleteMutex(t)
Spec == Init /\ [][Next]_vars

-----------------------------------------------------------------------------
Doing(t, fns) == ~Idle(t) /\ Head(pc[t]).fn \in fns

\* Shared_Ptrs that count: all that point to the block but one still being added.
Owners(b) ==
  {p \in Thread \X Var :
     sp[p[1]][p[2]] = b /\ ~(Doing(p[1], {"AddRefCount", "Inc"}) /\ Head(pc[p[1]]).v = p[2])}

\* The count is the number of Shared_Ptrs, whatever the threads are in the
\* middle of: no increment or decrement is lost.
CountExact ==
  \A b \in Block : "count" \in heap[b] => count[b] = Cardinality(Owners(b))

\* A block lives exactly as long as it is used.  No thread locks or unlocks a
\* mutex, or changes a count, that was deleted, and no Shared_Ptr points to a
\* deleted object; once nobody is inside an operation a block nobody points to
\* is gone, its mutex included.
LivesWhileUsed ==
  /\ \A t \in Thread : Doing(t, {"AddRefCount", "Inc", "Release", "Dec", "Unlock", "UnlockLast"}) =>
       /\ "mutex" \in heap[Head(pc[t]).b]
       /\ Doing(t, {"Inc", "Dec"}) => "count" \in heap[Head(pc[t]).b]
  /\ \A t \in Thread, v \in Var : sp[t][v] # None => "count" \in heap[sp[t][v]]
  /\ (\A t \in Thread : Idle(t)) =>
       \A b \in Block : heap[b] # {} => \E t \in Thread, v \in Var : sp[t][v] = b
=============================================================================
