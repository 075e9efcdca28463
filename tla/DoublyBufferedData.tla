------------------------- MODULE DoublyBufferedData -------------------------
(***************************************************************************)
(* double_buffer/brpc_double.cpp: two instances of the data, the index of  *)
(* the foreground one, a mutex per reading thread (its Wrapper), a mutex   *)
(* for the list of wrappers and a mutex for Modify().  A pc value names    *)
(* the statement a thread executes next, so a thread at "fn1" or "fn2" is  *)
(* inside the user's function and one at "reading" holds a ScopedPtr.      *)
(***************************************************************************)
EXTENDS Naturals

CONSTANTS Thread,         \* the threads of the process
          Wrapper,        \* the addresses a Wrapper can be allocated at
          Data,           \* the states of an instance of T
          Fn,             \* the functions passed to Modify and ModifyWithForeground
          Apply(_, _, _), \* Apply(f, d, e): instance d after f, e being the other instance
          Ret(_, _),      \* Ret(f, d): what f returns when called on d
          InitData,       \* T()
          NULL

ASSUME DataAssumption ==
  /\ InitData \in Data
  /\ \A f \in Fn, d, e \in Data : Apply(f, d, e) \in Data /\ Ret(f, d) \in Nat

ASSUME NULLAssumption ==
  NULL \notin Thread /\ NULL \notin Wrapper /\ NULL \notin Data
    /\ NULL \notin Fn /\ NULL \notin {0, 1}

(***************************************************************************)
(* What the header asks of fn: called on equivalent instances it leaves    *)
(* equivalent instances, and an fn that reports a failure (Modify takes a  *)
(* non-zero result for one) has left its argument alone.                   *)
(***************************************************************************)
FnContract ==
  \A f \in Fn, d \in Data :
    IF Ret(f, d) = 0
      THEN Apply(f, d, Apply(f, d, d)) = Apply(f, d, d)
      ELSE \A e \in Data : Apply(f, d, e) = d

VARIABLES
  alive,         \* between the constructor and the destructor
  created_key,   \* _created_key: pthread_key_create succeeded
  data,          \* _data[2]
  index,         \* _index: the foreground instance
  wrappers,      \* _wrappers
  wrappersMutex, \* _wrappers_mutex: the thread that holds it, or NULL
  modifyMutex,   \* _modify_mutex: the thread that holds it, or NULL
  mutex,         \* Wrapper::_mutex: the thread that holds it, or NULL
  tls,           \* pthread_getspecific(_wrapper_key) of each thread
  pc,            \* next statement of each thread
  w,             \* local w of Read(), later ScopedPtr::_w
  ptr,           \* ScopedPtr::_data, as an index into data
  fn,            \* the fn of each thread's Modify()
  bg,            \* local bg_index of the Modify() that holds _modify_mutex
  todo           \* the wrappers its WaitReadDone loop has not reached

objVars    == <<alive, created_key>>
bufVars    == <<data, index>>
readVars   == <<tls, w, ptr, mutex>>
modifyVars == <<modifyMutex, wrappersMutex, fn, bg, todo>>
vars == <<alive, created_key, data, index, wrappers, wrappersMutex,
          modifyMutex, mutex, tls, pc, w, ptr, fn, bg, todo>>

Goto(t, l) == pc' = [pc EXCEPT ![t] = l]
At(t, l) == pc[t] = l

-----------------------------------------------------------------------------
(* Constructor and destructor.                                             *)

Init ==
  /\ alive = TRUE
  /\ created_key \in BOOLEAN
  /\ data = [i \in {0, 1} |-> InitData]
  /\ index = 0
  /\ wrappers = {}
  /\ wrappersMutex = NULL
  /\ modifyMutex = NULL
  /\ mutex = [x \in Wrapper |-> NULL]
  /\ tls = [t \in Thread |-> NULL]
  /\ pc = [t \in Thread |-> "idle"]
  /\ w = [t \in Thread |-> NULL]
  /\ ptr = [t \in Thread |-> NULL]
  /\ fn = [t \in Thread |-> NULL]
  /\ bg = NULL
  /\ todo = {}

\* The destructor frees every registered wrapper.  Its user keeps Read() and
\* Modify() away from it.
Destroy ==
  /\ alive
  /\ \A t \in Thread : At(t, "idle")
  /\ alive' = FALSE
  /\ wrappers' = {}
  /\ tls' = [t \in Thread |-> NULL]
  /\ UNCHANGED <<created_key, bufVars, modifyVars, mutex, pc, w, ptr>>

\* A new object gets a new key, whose value is NULL in every thread.
Construct ==
  /\ ~alive
  /\ alive' = TRUE
  /\ created_key' \in BOOLEAN
  /\ data' = [i \in {0, 1} |-> InitData]
  /\ index' = 0
  /\ UNCHANGED <<wrappers, readVars, modifyVars, pc>>

-----------------------------------------------------------------------------
(* Read() and the life of a ScopedPtr.  Without a key Read() returns -1    *)
(* and changes nothing.                                                    *)

Read(t) ==
  /\ alive
  /\ created_key
  /\ At(t, "idle")
  /\ w' = [w EXCEPT ![t] = tls[t]]
  /\ Goto(t, IF tls[t] # NULL THEN "beginRead" ELSE "addWrapper")
  /\ UNCHANGED <<objVars, bufVars, modifyVars, wrappers, tls, ptr, mutex>>

AddWrapper(t) ==
  /\ At(t, "addWrapper")
  /\ wrappersMutex = NULL
  /\ \E x \in Wrapper \ wrappers :
       /\ wrappers' = wrappers \cup {x}
       /\ w' = [w EXCEPT ![t] = x]
  /\ Goto(t, "setSpecific")
  /\ UNCHANGED <<objVars, bufVars, modifyVars, tls, ptr, mutex>>

\* new (nothrow) or push_back fails: Read() returns -1.
AddWrapperFails(t) ==
  /\ At(t, "addWrapper")
  /\ Goto(t, "idle")
  /\ UNCHANGED <<objVars, bufVars, modifyVars, wrappers, readVars>>

SetSpecific(t) ==
  /\ At(t, "setSpecific")
  /\ tls' = [tls EXCEPT ![t] = w[t]]
  /\ Goto(t, "beginRead")
  /\ UNCHANGED <<objVars, bufVars, modifyVars, wrappers, w, ptr, mutex>>

\* Read() returns -1; the wrapper stays registered and belongs to no thread.
SetSpecificFails(t) ==
  /\ At(t, "setSpecific")
  /\ w' = [w EXCEPT ![t] = NULL]
  /\ Goto(t, "idle")
  /\ UNCHANGED <<objVars, bufVars, modifyVars, wrappers, tls, ptr, mutex>>

BeginRead(t) ==
  /\ At(t, "beginRead")
  /\ mutex[w[t]] = NULL
  /\ mutex' = [mutex EXCEPT ![w[t]] = t]
  /\ Goto(t, "unsafeRead")
  /\ UNCHANGED <<objVars, bufVars, modifyVars, wrappers, tls, w, ptr>>

UnsafeRead(t) ==
  /\ At(t, "unsafeRead")
  /\ ptr' = [ptr EXCEPT ![t] = index]
  /\ Goto(t, "reading")
  /\ UNCHANGED <<objVars, bufVars, modifyVars, wrappers, tls, w, mutex>>

EndRead(t) ==
  /\ At(t, "reading")
  /\ mutex' = [mutex EXCEPT ![w[t]] = NULL]
  /\ ptr' = [ptr EXCEPT ![t] = NULL]
  /\ w' = [w EXCEPT ![t] = NULL]
  /\ Goto(t, "idle")
  /\ UNCHANGED <<objVars, bufVars, modifyVars, wrappers, tls>>

\* Mutant: RemoveWrapper() without its lock guard.
RemoveWrapperUnlocked(t) ==
  /\ alive
  /\ At(t, "idle")
  /\ tls[t] # NULL
  /\ wrappers' = wrappers \ {tls[t]}
  /\ tls' = [tls EXCEPT ![t] = NULL]
  /\ UNCHANGED <<objVars, bufVars, modifyVars, pc, w, ptr, mutex>>

\* The thread quits and the key's destructor deletes its wrapper; another
\* thread may take its place.
RemoveWrapper(t) ==
  /\ alive
  /\ At(t, "idle")
  /\ tls[t] # NULL
  /\ wrappersMutex = NULL
  /\ wrappers' = wrappers \ {tls[t]}
  /\ tls' = [tls EXCEPT ![t] = NULL]
  /\ UNCHANGED <<objVars, bufVars, modifyVars, pc, w, ptr, mutex>>

-----------------------------------------------------------------------------
(* Modify() and ModifyWithForeground().                                    *)

Modify(t, f) ==
  /\ alive
  /\ At(t, "idle")
  /\ fn' = [fn EXCEPT ![t] = f]
  /\ Goto(t, "lockModify")
  /\ UNCHANGED <<objVars, bufVars, readVars, wrappers, modifyMutex,
                 wrappersMutex, bg, todo>>

\* Mutant: the negation of _index is left out.
LockModifyForeground(t) ==
  /\ At(t, "lockModify")
  /\ modifyMutex = NULL
  /\ modifyMutex' = t
  /\ bg' = index
  /\ Goto(t, "fn1")
  /\ UNCHANGED <<objVars, bufVars, readVars, wrappers, wrappersMutex, fn, todo>>

LockModify(t) ==
  /\ At(t, "lockModify")
  /\ modifyMutex = NULL
  /\ modifyMutex' = t
  /\ bg' = 1 - index
  /\ Goto(t, "fn1")
  /\ UNCHANGED <<objVars, bufVars, readVars, wrappers, wrappersMutex, fn, todo>>

ApplyFn(t) == data' = [data EXCEPT ![bg] = Apply(fn[t], @, data[1 - bg])]

ReturnFromModify(t) ==
  /\ modifyMutex' = NULL
  /\ bg' = NULL
  /\ fn' = [fn EXCEPT ![t] = NULL]
  /\ Goto(t, "idle")

\* The first call of fn: `if (ret != 0) return 0`.
Fn1(t) ==
  /\ At(t, "fn1")
  /\ ApplyFn(t)
  /\ IF Ret(fn[t], data[bg]) # 0
       THEN ReturnFromModify(t)
       ELSE Goto(t, "flip") /\ UNCHANGED <<modifyMutex, bg, fn>>
  /\ UNCHANGED <<objVars, index, readVars, wrappers, wrappersMutex, todo>>

Flip(t) ==
  /\ At(t, "flip")
  /\ index' = bg
  /\ bg' = 1 - bg
  /\ Goto(t, "lockWrappers")
  /\ UNCHANGED <<objVars, data, readVars, wrappers, modifyMutex,
                 wrappersMutex, fn, todo>>

LockWrappers(t) ==
  /\ At(t, "lockWrappers")
  /\ wrappersMutex = NULL
  /\ wrappersMutex' = t
  /\ todo' = wrappers
  /\ Goto(t, "waitReadDone")
  /\ UNCHANGED <<objVars, bufVars, readVars, wrappers, modifyMutex, fn, bg>>

\* Mutant: the loop does not wait for the wrapper's mutex.
WaitReadDoneNoWait(t) ==
  /\ At(t, "waitReadDone")
  /\ \E x \in todo : todo' = todo \ {x}
  /\ UNCHANGED <<objVars, bufVars, readVars, wrappers, modifyMutex,
                 wrappersMutex, fn, bg, pc>>

\* Mutant: the loop does not go on to the next wrapper.
WaitReadDoneSameWrapper(t) ==
  /\ At(t, "waitReadDone")
  /\ \E x \in todo : mutex[x] = NULL
  /\ UNCHANGED vars

\* The position of a wrapper in the vector depends on earlier removals, so
\* the loop may meet the wrappers in any order.
WaitReadDone(t) ==
  /\ At(t, "waitReadDone")
  /\ \E x \in todo :
       /\ mutex[x] = NULL
       /\ todo' = todo \ {x}
  /\ UNCHANGED <<objVars, bufVars, readVars, wrappers, modifyMutex,
                 wrappersMutex, fn, bg, pc>>

UnlockWrappers(t) ==
  /\ At(t, "waitReadDone")
  /\ todo = {}
  /\ wrappersMutex' = NULL
  /\ Goto(t, "fn2")
  /\ UNCHANGED <<objVars, bufVars, readVars, wrappers, modifyMutex, fn, bg, todo>>

\* Mutant: fn is not called on the second instance.
Fn2Skipped(t) ==
  /\ At(t, "fn2")
  /\ ReturnFromModify(t)
  /\ UNCHANGED <<objVars, bufVars, readVars, wrappers, wrappersMutex, todo>>

Fn2(t) ==
  /\ At(t, "fn2")
  /\ ApplyFn(t)
  /\ ReturnFromModify(t)
  /\ UNCHANGED <<objVars, index, readVars, wrappers, wrappersMutex, todo>>

-----------------------------------------------------------------------------
ReadStep(t) ==
  \/ AddWrapper(t) \/ AddWrapperFails(t) \/ SetSpecific(t) \/ SetSpecificFails(t)
  \/ BeginRead(t) \/ UnsafeRead(t) \/ EndRead(t)

ModifyStep(t) ==
  \/ LockModify(t) \/ Fn1(t) \/ Flip(t) \/ LockWrappers(t)
  \/ WaitReadDone(t) \/ UnlockWrappers(t) \/ Fn2(t)

\* What a thread may choose to begin.
Call(t) == Read(t) \/ RemoveWrapper(t) \/ \E f \in Fn : Modify(t, f)

Next ==
  \/ \E t \in Thread : Call(t) \/ ReadStep(t) \/ ModifyStep(t)
  \/ Destroy
  \/ Construct

Spec == Init /\ [][Next]_vars

-----------------------------------------------------------------------------
(* Properties.                                                             *)

ReadPC   == {"addWrapper", "setSpecific", "beginRead", "unsafeRead", "reading"}
ModifyPC == {"fn1", "flip", "lockWrappers", "waitReadDone", "fn2"}

\* The variables have the types of the fields and locals they stand for.
TypeOK ==
  /\ alive \in BOOLEAN
  /\ created_key \in BOOLEAN
  /\ data \in [{0, 1} -> Data]
  /\ index \in {0, 1}
  /\ wrappers \in SUBSET Wrapper
  /\ wrappersMutex \in Thread \cup {NULL}
  /\ modifyMutex \in Thread \cup {NULL}
  /\ mutex \in [Wrapper -> Thread \cup {NULL}]
  /\ tls \in [Thread -> Wrapper \cup {NULL}]
  /\ pc \in [Thread -> {"idle", "lockModify"} \cup ReadPC \cup ModifyPC]
  /\ w \in [Thread -> Wrapper \cup {NULL}]
  /\ ptr \in [Thread -> {0, 1, NULL}]
  /\ fn \in [Thread -> Fn \cup {NULL}]
  /\ bg \in {0, 1, NULL}
  /\ todo \in SUBSET Wrapper

\* "The instance will not be changed until ptr is destructed": no thread is
\* inside fn on an instance that another thread's ScopedPtr refers to.
NoDataRace ==
  \A r, t \in Thread :
    At(r, "reading") /\ pc[t] \in {"fn1", "fn2"} => ptr[r] # bg

\* No mutex of a deleted wrapper is ever locked or unlocked, neither by the
\* thread that reads through it nor by the WaitReadDone loop, whatever threads
\* quit meanwhile.
NoFreedWrapper ==
  /\ \A t \in Thread :
       pc[t] \in {"setSpecific", "beginRead", "unsafeRead", "reading"} =>
         w[t] \in wrappers
  /\ todo \subseteq wrappers
  /\ \A x \in Wrapper \ wrappers : mutex[x] = NULL

\* Between modifications the two instances are equivalent, so that the next
\* Modify() starts from what readers see.
InstancesEquivalent == modifyMutex = NULL => data[0] = data[1]

\* DoublyBufferedData keeps the promise of ReadMostlyData: the published value
\* is the foreground instance, and a reader's value is the instance its
\* ScopedPtr refers to.
RM == INSTANCE ReadMostlyData WITH
        value <- data[index],
        view <- [t \in Thread |-> IF At(t, "reading") THEN data[ptr[t]] ELSE NULL],
        modifying <- \E t \in Thread : pc[t] \in {"lockWrappers", "waitReadDone", "fn2"},
        old <- {t \in Thread : At(t, "reading") /\ ptr[t] # index}

\* A modification is seen by readers in one step, no reader's value changes
\* while it reads, and Modify() returns only after every reader of the
\* previous value has finished.
ImplementsReadMostlyData == RM!Spec
=============================================================================
