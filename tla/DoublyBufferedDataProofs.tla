---------------------- MODULE DoublyBufferedDataProofs ----------------------
(***************************************************************************)
(* Proofs about DoublyBufferedData for any number of threads, wrappers and *)
(* modification functions.                                                 *)
(***************************************************************************)
EXTENDS DoublyBufferedData, TLAPS

(***************************************************************************)
(* The inductive invariant, in parts.                                      *)
(***************************************************************************)

HoldsMutexPC == {"unsafeRead", "reading"}

\* The threads inside Modify(), the WaitReadDone loop and a read are exactly
\* the holders of the three kinds of mutex.
LockInv ==
  /\ \A t \in Thread : pc[t] \in ModifyPC <=> modifyMutex = t
  /\ \A t \in Thread : pc[t] = "waitReadDone" <=> wrappersMutex = t
  /\ \A t \in Thread : pc[t] \in HoldsMutexPC => mutex[w[t]] = t
  /\ \A x \in Wrapper : mutex[x] # NULL =>
       /\ pc[mutex[x]] \in HoldsMutexPC
       /\ w[mutex[x]] = x
  /\ alive \/ \A t \in Thread : pc[t] = "idle"

\* A wrapper belongs to one thread at a time, from its registration on.
Owns(t, x) == tls[t] = x \/ (pc[t] = "setSpecific" /\ w[t] = x)

WrapperInv ==
  /\ \A t \in Thread, x \in Wrapper : Owns(t, x) => x \in wrappers
  /\ \A t, u \in Thread, x \in Wrapper : Owns(t, x) /\ Owns(u, x) => t = u
  /\ \A t \in Thread :
       pc[t] \in {"setSpecific", "beginRead"} \cup HoldsMutexPC => w[t] \in Wrapper
  /\ \A t \in Thread :
       pc[t] \in {"beginRead"} \cup HoldsMutexPC => tls[t] = w[t]
  /\ todo \subseteq wrappers
  /\ wrappersMutex = NULL => todo = {}

\* What the locals of a modification and of a read hold.
LocalInv ==
  /\ modifyMutex # NULL => bg = 1 - index
  /\ \A t \in Thread : pc[t] \in {"lockModify"} \cup ModifyPC => fn[t] \in Fn
  /\ \A t \in Thread : pc[t] = "reading" => ptr[t] \in {0, 1}

\* A reader of the background instance began before the flip of a modification
\* that has yet to wait for it.
GraceInv ==
  \A r \in Thread : pc[r] = "reading" =>
    \/ ptr[r] = index
    \/ \E t \in Thread : pc[t] = "lockWrappers"
    \/ w[r] \in todo

IInv == TypeOK /\ LockInv /\ WrapperInv /\ LocalInv /\ GraceInv

(***************************************************************************)
(* IInv is inductive.                                                      *)
(***************************************************************************)

\* Initially, and after construction, no thread is inside Read() or Modify().
LEMMA InitInv == Init => IInv
  BY DataAssumption, NULLAssumption
  DEF Init, IInv, TypeOK, LockInv, WrapperInv, LocalInv, GraceInv, Owns,
      ReadPC, ModifyPC, HoldsMutexPC

\* Every step of every thread keeps the type of every variable.
LEMMA TypeStep == IInv /\ [Next]_vars => TypeOK'
<1> SUFFICES ASSUME IInv, [Next]_vars PROVE TypeOK'
  OBVIOUS
<1> USE DataAssumption, NULLAssumption
        DEF IInv, TypeOK, ReadPC, ModifyPC, Goto, At, objVars, bufVars, readVars, modifyVars
<1>1. CASE UNCHANGED vars BY <1>1 DEF vars
<1>2. CASE Destroy BY <1>2, Zenon DEF Destroy
<1>3. CASE Construct BY <1>3 DEF Construct
<1>4. ASSUME NEW t \in Thread, Call(t) PROVE TypeOK'
  BY <1>4 DEF Call, Read, RemoveWrapper, Modify
<1>5. ASSUME NEW t \in Thread, ReadStep(t) PROVE TypeOK'
  <2>1. CASE AddWrapper(t) BY <2>1 DEF AddWrapper
  <2>2. CASE AddWrapperFails(t) BY <2>2 DEF AddWrapperFails
  <2>3. CASE SetSpecific(t) BY <2>3 DEF SetSpecific
  <2>4. CASE SetSpecificFails(t) BY <2>4 DEF SetSpecificFails
  <2>5. CASE BeginRead(t) BY <2>5 DEF BeginRead, WrapperInv
  <2>6. CASE UnsafeRead(t) BY <2>6 DEF UnsafeRead
  <2>7. CASE EndRead(t) BY <2>7, Zenon DEF EndRead, WrapperInv
  <2> QED BY <1>5, <2>1, <2>2, <2>3, <2>4, <2>5, <2>6, <2>7 DEF ReadStep
<1>6. ASSUME NEW t \in Thread, ModifyStep(t) PROVE TypeOK'
  <2> USE DEF LockInv, LocalInv, ApplyFn, ReturnFromModify
  <2>1. CASE LockModify(t) BY <2>1 DEF LockModify
  <2>2. CASE Fn1(t) BY <2>2 DEF Fn1
  <2>3. CASE Flip(t) BY <2>3 DEF Flip
  <2>4. CASE LockWrappers(t) BY <2>4 DEF LockWrappers
  <2>5. CASE WaitReadDone(t) BY <2>5 DEF WaitReadDone
  <2>6. CASE UnlockWrappers(t) BY <2>6 DEF UnlockWrappers
  <2>7. CASE Fn2(t) BY <2>7 DEF Fn2
  <2> QED BY <1>6, <2>1, <2>2, <2>3, <2>4, <2>5, <2>6, <2>7 DEF ModifyStep
<1> QED BY <1>1, <1>2, <1>3, <1>4, <1>5, <1>6 DEF Next

\* A mutex is taken on the way into the section it guards and released on the
\* way out, on every path.
LEMMA LockStep == IInv /\ [Next]_vars => LockInv'
<1> SUFFICES ASSUME IInv, [Next]_vars PROVE LockInv'
  OBVIOUS
<1> USE NULLAssumption
        DEF IInv, TypeOK, LockInv, WrapperInv, ReadPC, ModifyPC, HoldsMutexPC, Goto, At,
            objVars, bufVars, readVars, modifyVars
<1>1. CASE UNCHANGED vars BY <1>1 DEF vars
<1>2. CASE Destroy BY <1>2 DEF Destroy
<1>3. CASE Construct BY <1>3 DEF Construct
<1>4. ASSUME NEW t \in Thread, Call(t) PROVE LockInv'
  <2>1. CASE Read(t) BY <2>1 DEF Read
  <2>2. CASE RemoveWrapper(t) BY <2>2 DEF RemoveWrapper
  <2>3. ASSUME NEW f \in Fn, Modify(t, f) PROVE LockInv' BY <2>3 DEF Modify
  <2> QED BY <1>4, <2>1, <2>2, <2>3 DEF Call
<1>5. ASSUME NEW t \in Thread, ReadStep(t) PROVE LockInv'
  <2>1. CASE AddWrapper(t) BY <2>1 DEF AddWrapper
  <2>2. CASE AddWrapperFails(t) BY <2>2 DEF AddWrapperFails
  <2>3. CASE SetSpecific(t) BY <2>3 DEF SetSpecific
  <2>4. CASE SetSpecificFails(t) BY <2>4 DEF SetSpecificFails
  <2>5. CASE BeginRead(t) BY <2>5 DEF BeginRead
  <2>6. CASE UnsafeRead(t) BY <2>6 DEF UnsafeRead
  <2>7. CASE EndRead(t) BY <2>7 DEF EndRead
  <2> QED BY <1>5, <2>1, <2>2, <2>3, <2>4, <2>5, <2>6, <2>7 DEF ReadStep
<1>6. ASSUME NEW t \in Thread, ModifyStep(t) PROVE LockInv'
  <2> USE DEF ApplyFn, ReturnFromModify
  <2>1. CASE LockModify(t) BY <2>1 DEF LockModify
  <2>2. CASE Fn1(t) BY <2>2 DEF Fn1
  <2>3. CASE Flip(t) BY <2>3 DEF Flip
  <2>4. CASE LockWrappers(t) BY <2>4 DEF LockWrappers
  <2>5. CASE WaitReadDone(t) BY <2>5 DEF WaitReadDone
  <2>6. CASE UnlockWrappers(t) BY <2>6 DEF UnlockWrappers
  <2>7. CASE Fn2(t) BY <2>7 DEF Fn2
  <2> QED BY <1>6, <2>1, <2>2, <2>3, <2>4, <2>5, <2>6, <2>7 DEF ModifyStep
<1> QED BY <1>1, <1>2, <1>3, <1>4, <1>5, <1>6 DEF Next

\* No step gives a wrapper a second owner, and none deletes an owned one.
LEMMA WrapperStep == IInv /\ [Next]_vars => WrapperInv'
<1> SUFFICES ASSUME IInv, [Next]_vars PROVE WrapperInv'
  OBVIOUS
<1> USE NULLAssumption
        DEF IInv, TypeOK, LockInv, WrapperInv, Owns, ReadPC, ModifyPC, HoldsMutexPC, Goto, At,
            objVars, bufVars, readVars, modifyVars
<1>1. CASE UNCHANGED vars BY <1>1 DEF vars
<1>2. CASE Destroy BY <1>2 DEF Destroy
<1>3. CASE Construct BY <1>3 DEF Construct
<1>4. ASSUME NEW t \in Thread, Call(t) PROVE WrapperInv'
  <2>1. CASE Read(t) BY <2>1 DEF Read
  <2>2. CASE RemoveWrapper(t) BY <2>2 DEF RemoveWrapper
  <2>3. ASSUME NEW f \in Fn, Modify(t, f) PROVE WrapperInv' BY <2>3 DEF Modify
  <2> QED BY <1>4, <2>1, <2>2, <2>3 DEF Call
<1>5. ASSUME NEW t \in Thread, ReadStep(t) PROVE WrapperInv'
  <2>1. CASE AddWrapper(t) BY <2>1 DEF AddWrapper
  <2>2. CASE AddWrapperFails(t) BY <2>2 DEF AddWrapperFails
  <2>3. CASE SetSpecific(t) BY <2>3 DEF SetSpecific
  <2>4. CASE SetSpecificFails(t) BY <2>4 DEF SetSpecificFails
  <2>5. CASE BeginRead(t) BY <2>5 DEF BeginRead
  <2>6. CASE UnsafeRead(t) BY <2>6 DEF UnsafeRead
  <2>7. CASE EndRead(t) BY <2>7 DEF EndRead
  <2> QED BY <1>5, <2>1, <2>2, <2>3, <2>4, <2>5, <2>6, <2>7 DEF ReadStep
<1>6. ASSUME NEW t \in Thread, ModifyStep(t) PROVE WrapperInv'
  <2> USE DEF ApplyFn, ReturnFromModify
  <2>1. CASE LockModify(t) BY <2>1 DEF LockModify
  <2>2. CASE Fn1(t) BY <2>2 DEF Fn1
  <2>3. CASE Flip(t) BY <2>3 DEF Flip
  <2>4. CASE LockWrappers(t) BY <2>4 DEF LockWrappers
  <2>5. CASE WaitReadDone(t) BY <2>5 DEF WaitReadDone
  <2>6. CASE UnlockWrappers(t) BY <2>6 DEF UnlockWrappers
  <2>7. CASE Fn2(t) BY <2>7 DEF Fn2
  <2> QED BY <1>6, <2>1, <2>2, <2>3, <2>4, <2>5, <2>6, <2>7 DEF ModifyStep
<1> QED BY <1>1, <1>2, <1>3, <1>4, <1>5, <1>6 DEF Next

\* Only the holder of _modify_mutex changes the index.
LEMMA LocalStep == IInv /\ [Next]_vars => LocalInv'
<1> SUFFICES ASSUME IInv, [Next]_vars PROVE LocalInv'
  OBVIOUS
<1> USE NULLAssumption
        DEF IInv, TypeOK, LockInv, LocalInv, ReadPC, ModifyPC, HoldsMutexPC, Goto, At,
            objVars, bufVars, readVars, modifyVars
<1>1. CASE UNCHANGED vars BY <1>1 DEF vars
<1>2. CASE Destroy BY <1>2 DEF Destroy
<1>3. CASE Construct BY <1>3 DEF Construct
<1>4. ASSUME NEW t \in Thread, Call(t) PROVE LocalInv'
  <2>1. CASE Read(t) BY <2>1 DEF Read
  <2>2. CASE RemoveWrapper(t) BY <2>2 DEF RemoveWrapper
  <2>3. ASSUME NEW f \in Fn, Modify(t, f) PROVE LocalInv' BY <2>3 DEF Modify
  <2> QED BY <1>4, <2>1, <2>2, <2>3 DEF Call
<1>5. ASSUME NEW t \in Thread, ReadStep(t) PROVE LocalInv'
  <2>1. CASE AddWrapper(t) BY <2>1 DEF AddWrapper
  <2>2. CASE AddWrapperFails(t) BY <2>2 DEF AddWrapperFails
  <2>3. CASE SetSpecific(t) BY <2>3 DEF SetSpecific
  <2>4. CASE SetSpecificFails(t) BY <2>4 DEF SetSpecificFails
  <2>5. CASE BeginRead(t) BY <2>5 DEF BeginRead
  <2>6. CASE UnsafeRead(t) BY <2>6 DEF UnsafeRead
  <2>7. CASE EndRead(t) BY <2>7 DEF EndRead
  <2> QED BY <1>5, <2>1, <2>2, <2>3, <2>4, <2>5, <2>6, <2>7 DEF ReadStep
<1>6. ASSUME NEW t \in Thread, ModifyStep(t) PROVE LocalInv'
  <2> USE DEF ApplyFn, ReturnFromModify
  <2>1. CASE LockModify(t) BY <2>1 DEF LockModify
  <2>2. CASE Fn1(t) BY <2>2 DEF Fn1
  <2>3. CASE Flip(t) BY <2>3 DEF Flip
  <2>4. CASE LockWrappers(t) BY <2>4 DEF LockWrappers
  <2>5. CASE WaitReadDone(t) BY <2>5 DEF WaitReadDone
  <2>6. CASE UnlockWrappers(t) BY <2>6 DEF UnlockWrappers
  <2>7. CASE Fn2(t) BY <2>7 DEF Fn2
  <2> QED BY <1>6, <2>1, <2>2, <2>3, <2>4, <2>5, <2>6, <2>7 DEF ModifyStep
<1> QED BY <1>1, <1>2, <1>3, <1>4, <1>5, <1>6 DEF Next

\* The wait after the flip reaches every reader of the old foreground.
LEMMA GraceStep == IInv /\ [Next]_vars => GraceInv'
<1> SUFFICES ASSUME IInv, [Next]_vars PROVE GraceInv'
  OBVIOUS
<1> USE NULLAssumption
        DEF IInv, TypeOK, LockInv, WrapperInv, Owns, LocalInv, GraceInv, ReadPC, ModifyPC, HoldsMutexPC, Goto, At,
            objVars, bufVars, readVars, modifyVars
<1>1. CASE UNCHANGED vars BY <1>1 DEF vars
<1>2. CASE Destroy BY <1>2 DEF Destroy
<1>3. CASE Construct BY <1>3 DEF Construct
<1>4. ASSUME NEW t \in Thread, Call(t) PROVE GraceInv'
  <2>1. CASE Read(t) BY <2>1 DEF Read
  <2>2. CASE RemoveWrapper(t) BY <2>2 DEF RemoveWrapper
  <2>3. ASSUME NEW f \in Fn, Modify(t, f) PROVE GraceInv' BY <2>3 DEF Modify
  <2> QED BY <1>4, <2>1, <2>2, <2>3 DEF Call
<1>5. ASSUME NEW t \in Thread, ReadStep(t) PROVE GraceInv'
  <2>1. CASE AddWrapper(t) BY <2>1 DEF AddWrapper
  <2>2. CASE AddWrapperFails(t) BY <2>2 DEF AddWrapperFails
  <2>3. CASE SetSpecific(t) BY <2>3 DEF SetSpecific
  <2>4. CASE SetSpecificFails(t) BY <2>4 DEF SetSpecificFails
  <2>5. CASE BeginRead(t) BY <2>5 DEF BeginRead
  <2>6. CASE UnsafeRead(t) BY <2>6 DEF UnsafeRead
  <2>7. CASE EndRead(t) BY <2>7 DEF EndRead
  <2> QED BY <1>5, <2>1, <2>2, <2>3, <2>4, <2>5, <2>6, <2>7 DEF ReadStep
<1>6. ASSUME NEW t \in Thread, ModifyStep(t) PROVE GraceInv'
  <2> USE DEF ApplyFn, ReturnFromModify
  <2>1. CASE LockModify(t) BY <2>1 DEF LockModify
  <2>2. CASE Fn1(t) BY <2>2 DEF Fn1
  <2>3. CASE Flip(t) BY <2>3 DEF Flip
  <2>4. CASE LockWrappers(t) BY <2>4 DEF LockWrappers
  <2>5. CASE WaitReadDone(t) BY <2>5 DEF WaitReadDone
  <2>6. CASE UnlockWrappers(t) BY <2>6 DEF UnlockWrappers
  <2>7. CASE Fn2(t) BY <2>7 DEF Fn2
  <2> QED BY <1>6, <2>1, <2>2, <2>3, <2>4, <2>5, <2>6, <2>7 DEF ModifyStep
<1> QED BY <1>1, <1>2, <1>3, <1>4, <1>5, <1>6 DEF Next

\* IInv holds in every reachable state.
LEMMA Invariance == Spec => []IInv
<1>1. IInv /\ [Next]_vars => IInv'
  BY TypeStep, LockStep, WrapperStep, LocalStep, GraceStep DEF IInv
<1> QED BY InitInv, <1>1, PTL DEF Spec

(***************************************************************************)
(* Safety of readers.                                                      *)
(***************************************************************************)

\* The fields and locals keep their types, for any number of threads.
THEOREM TypeCorrect == Spec => []TypeOK
<1>1. IInv => TypeOK BY DEF IInv
<1> QED BY Invariance, <1>1, PTL

\* The user's function never runs on an instance somebody reads: a reader of
\* the background instance is one the current Modify() still waits for.
THEOREM NoDataRaceHolds == Spec => []NoDataRace
<1>1. IInv => NoDataRace
  <2> SUFFICES ASSUME IInv, NEW r \in Thread, NEW t \in Thread,
                      pc[r] = "reading", pc[t] \in {"fn1", "fn2"}
               PROVE  ptr[r] # bg
    BY DEF NoDataRace, At
  <2>1. modifyMutex = t /\ bg = 1 - index
    BY NULLAssumption DEF IInv, LockInv, LocalInv, ModifyPC
  <2>2. \A u \in Thread : pc[u] \notin {"lockWrappers", "waitReadDone"}
    BY <2>1 DEF IInv, LockInv, ModifyPC
  <2>3. todo = {}
    BY <2>2 DEF IInv, TypeOK, LockInv, WrapperInv
  <2> QED BY <2>1, <2>2, <2>3 DEF IInv, TypeOK, GraceInv
<1> QED BY Invariance, <1>1, PTL

\* Read(), ~ScopedPtr() and the WaitReadDone loop only touch wrappers that
\* have not been deleted.
THEOREM NoFreedWrapperHolds == Spec => []NoFreedWrapper
<1>1. IInv => NoFreedWrapper
  BY NULLAssumption
  DEF IInv, TypeOK, LockInv, WrapperInv, Owns, NoFreedWrapper, HoldsMutexPC
<1> QED BY Invariance, <1>1, PTL

(***************************************************************************)
(* Equivalence of the two instances, for functions that keep FnContract.   *)
(***************************************************************************)

\* Before the first call of fn the instances are equal; after it the modified
\* one is the result of fn on the other, which the second call reproduces.
DataInv ==
  /\ modifyMutex = NULL => data[0] = data[1]
  /\ \A t \in Thread :
       /\ pc[t] = "fn1" => data[0] = data[1]
       /\ pc[t] = "flip" =>
            /\ Ret(fn[t], data[1 - bg]) = 0
            /\ data[bg] = Apply(fn[t], data[1 - bg], data[1 - bg])
       /\ pc[t] \in {"lockWrappers", "waitReadDone", "fn2"} =>
            /\ Ret(fn[t], data[bg]) = 0
            /\ data[1 - bg] = Apply(fn[t], data[bg], data[bg])

\* The steps that touch neither the instances nor the modifying thread's place
\* in Modify() keep DataInv.
LEMMA DataFrame ==
  ASSUME IInv, DataInv, UNCHANGED <<data, modifyMutex, bg, fn>>,
         \A u \in Thread : pc'[u] \in ModifyPC => pc'[u] = pc[u]
  PROVE  DataInv'
  BY DEF DataInv, ModifyPC

\* Every step keeps DataInv: the second call of fn reproduces the first.
LEMMA DataStep == FnContract /\ IInv /\ DataInv /\ [Next]_vars => DataInv'
<1> SUFFICES ASSUME FnContract, IInv, DataInv, [Next]_vars PROVE DataInv'
  OBVIOUS
<1> USE NULLAssumption
    DEF IInv, TypeOK, ReadPC, ModifyPC, Goto, At, objVars, bufVars, readVars, modifyVars
<1>1. CASE UNCHANGED vars BY <1>1, DataFrame DEF vars
<1>2. CASE Destroy BY <1>2, DataFrame DEF Destroy
<1>3. CASE Construct BY <1>3 DEF Construct, DataInv, LockInv
<1>4. ASSUME NEW t \in Thread, Read(t) \/ RemoveWrapper(t) \/ ReadStep(t) PROVE DataInv'
  BY <1>4, DataFrame
  DEF Read, RemoveWrapper, ReadStep, AddWrapper, AddWrapperFails, SetSpecific,
      SetSpecificFails, BeginRead, UnsafeRead, EndRead
<1>5. ASSUME NEW t \in Thread, NEW f \in Fn, Modify(t, f) PROVE DataInv'
  BY <1>5 DEF Modify, DataInv
<1>6. ASSUME NEW t \in Thread, ModifyStep(t) PROVE DataInv'
  <2> USE DEF LockInv, LocalInv, DataInv
  <2>1. CASE LockModify(t) BY <2>1 DEF LockModify
  <2>2. CASE Fn1(t)
    <3>1. bg \in {0, 1} /\ data[bg] = data[1 - bg] /\ fn[t] \in Fn
      BY <2>2 DEF Fn1
    <3>2. data' = [data EXCEPT ![bg] = Apply(fn[t], data[bg], data[bg])]
      BY <2>2, <3>1 DEF Fn1, ApplyFn
    <3>3. CASE Ret(fn[t], data[bg]) # 0
      <4>1. data' = data BY <3>1, <3>2, <3>3 DEF FnContract
      <4> QED BY <2>2, <3>1, <3>3, <4>1 DEF Fn1, ReturnFromModify
    <3>4. CASE Ret(fn[t], data[bg]) = 0
      BY <2>2, <3>1, <3>2, <3>4 DEF Fn1
    <3> QED BY <3>3, <3>4
  <2>3. CASE Flip(t) BY <2>3 DEF Flip
  <2>4. CASE LockWrappers(t) BY <2>4 DEF LockWrappers
  <2>5. CASE WaitReadDone(t) BY <2>5 DEF WaitReadDone
  <2>6. CASE UnlockWrappers(t) BY <2>6 DEF UnlockWrappers
  <2>7. CASE Fn2(t)
    <3>1. bg \in {0, 1} /\ fn[t] \in Fn /\ Ret(fn[t], data[bg]) = 0
          /\ data[1 - bg] = Apply(fn[t], data[bg], data[bg])
      BY <2>7 DEF Fn2
    <3>2. Apply(fn[t], data[bg], data[1 - bg]) = data[1 - bg]
      <4>1. data[bg] \in Data BY <3>1
      <4> QED BY <3>1, <4>1 DEF FnContract
    <3>3. data' = [data EXCEPT ![bg] = data[1 - bg]]
      BY <2>7, <3>1, <3>2 DEF Fn2, ApplyFn
    <3> QED BY <2>7, <3>1, <3>3 DEF Fn2, ReturnFromModify
  <2> QED BY <1>6, <2>1, <2>2, <2>3, <2>4, <2>5, <2>6, <2>7, Zenon DEF ModifyStep
<1> QED BY <1>1, <1>2, <1>3, <1>4, <1>5, <1>6 DEF Next, Call

\* Both invariants together, as the refinement needs them.
LEMMA DataInvariance == FnContract /\ Spec => [](IInv /\ DataInv)
<1>1. Init => DataInv BY NULLAssumption DEF Init, DataInv
<1>2. FnContract => []FnContract OBVIOUS
<1> QED BY Invariance, DataStep, <1>1, <1>2, PTL DEF Spec

\* When fn keeps the contract of the header (equivalent instances stay
\* equivalent, a reported failure changed nothing), every Modify() leaves both
\* instances equal, whichever way it returns.
THEOREM InstancesEquivalentHolds == FnContract /\ Spec => []InstancesEquivalent
<1>1. DataInv => InstancesEquivalent BY Zenon DEF DataInv, InstancesEquivalent
<1> QED BY DataInvariance, <1>1, PTL

(***************************************************************************)
(* DoublyBufferedData implements ReadMostlyData.                           *)
(***************************************************************************)

\* A step that leaves the foreground instance, the readers and the waiting
\* part of Modify() alone is invisible to users.
LEMMA Invisible ==
  ASSUME IInv, index' = index, data'[index] = data[index],
         \A r \in Thread :
           /\ pc'[r] = "reading" <=> pc[r] = "reading"
           /\ pc[r] = "reading" => ptr'[r] = ptr[r] /\ data'[ptr[r]] = data[ptr[r]]
           /\ pc'[r] \in {"lockWrappers", "waitReadDone", "fn2"}
                <=> pc[r] \in {"lockWrappers", "waitReadDone", "fn2"}
  PROVE  UNCHANGED RM!vars
<1>1. \A r \in Thread : (IF At(r, "reading") THEN data[ptr[r]] ELSE NULL)'
                        = (IF At(r, "reading") THEN data[ptr[r]] ELSE NULL)
  BY DEF At
<1>2. [r \in Thread |-> IF At(r, "reading") THEN data[ptr[r]] ELSE NULL]'
      = [r \in Thread |-> IF At(r, "reading") THEN data[ptr[r]] ELSE NULL]
  BY <1>1
<1>3. {r \in Thread : At(r, "reading") /\ ptr[r] # index}'
      = {r \in Thread : At(r, "reading") /\ ptr[r] # index}
  BY DEF At
<1>4. (\E t \in Thread : pc[t] \in {"lockWrappers", "waitReadDone", "fn2"})'
      = (\E t \in Thread : pc[t] \in {"lockWrappers", "waitReadDone", "fn2"})
  OBVIOUS
<1> QED BY <1>2, <1>3, <1>4 DEF RM!vars

\* UnsafeRead() takes the published value.
LEMMA UnsafeReadRefines ==
  ASSUME IInv, NEW t \in Thread, UnsafeRead(t)
  PROVE  RM!BeginRead(t)
  BY NULLAssumption, Zenon
  DEF IInv, TypeOK, UnsafeRead, RM!BeginRead, At, Goto, objVars, bufVars, modifyVars

\* ~ScopedPtr() gives the value back.
LEMMA EndReadRefines ==
  ASSUME IInv, NEW t \in Thread, EndRead(t)
  PROVE  RM!EndRead(t)
<1>1. data[ptr[t]] # NULL
  BY NULLAssumption DEF IInv, TypeOK, LocalInv, EndRead, At
<1> QED BY <1>1, Zenon
  DEF IInv, TypeOK, EndRead, RM!EndRead, At, Goto, objVars, bufVars, modifyVars

\* The store to _index publishes the result of the first call of fn; every
\* thread that reads at that moment reads an older value.
LEMMA FlipRefines ==
  ASSUME IInv, DataInv, NEW t \in Thread, Flip(t), NEW f \in Fn, fn[t] = f
  PROVE  RM!Publish(f)
<1> USE NULLAssumption DEF IInv, TypeOK, Flip, At, Goto, objVars, readVars, ModifyPC
<1>1. modifyMutex = t /\ bg = 1 - index /\ index \in {0, 1}
  BY DEF LockInv, LocalInv
<1>2. \A u \in Thread : pc[u] \notin {"lockWrappers", "waitReadDone", "fn2"}
  BY <1>1 DEF LockInv
<1>3. todo = {} BY <1>2 DEF LockInv, WrapperInv
<1>4. \A r \in Thread : pc[r] = "reading" => ptr[r] = index /\ data[ptr[r]] # NULL
  BY <1>2, <1>3 DEF GraceInv
<1>5. data'[index'] = Apply(f, data[index], data[index])
  BY <1>1 DEF DataInv
<1>6. {r \in Thread : At(r, "reading") /\ ptr[r] # index}'
      = {r \in Thread : [u \in Thread |-> IF At(u, "reading") THEN data[ptr[u]]
                                          ELSE NULL][r] # NULL}
  BY <1>1, <1>4
<1>7. (\E u \in Thread : pc[u] \in {"lockWrappers", "waitReadDone", "fn2"})' = TRUE
  OBVIOUS
<1>8. [u \in Thread |-> IF At(u, "reading") THEN data[ptr[u]] ELSE NULL]'
      = [u \in Thread |-> IF At(u, "reading") THEN data[ptr[u]] ELSE NULL]
  OBVIOUS
<1> QED BY <1>2, <1>5, <1>6, <1>7, <1>8, Zenon DEF RM!Publish, RM!Reading

\* The end of the second call of fn is the return: nobody reads an older value.
LEMMA Fn2Refines ==
  ASSUME IInv, NEW t \in Thread, Fn2(t)
  PROVE  RM!Return
<1> USE NULLAssumption DEF IInv, TypeOK, Fn2, ApplyFn, ReturnFromModify, At, Goto,
                           objVars, readVars, ModifyPC
<1>1. modifyMutex = t /\ bg = 1 - index /\ index \in {0, 1}
  BY DEF LockInv, LocalInv
<1>2. \A u \in Thread : u # t => pc[u] \notin {"lockWrappers", "waitReadDone", "fn2"}
  BY <1>1 DEF LockInv
<1>3. todo = {} BY <1>2 DEF LockInv, WrapperInv
<1>4. \A r \in Thread : pc[r] = "reading" => ptr[r] = index
  BY <1>2, <1>3 DEF GraceInv
<1>5. data'[index] = data[index] BY <1>1
<1>6. [u \in Thread |-> IF At(u, "reading") THEN data[ptr[u]] ELSE NULL]'
      = [u \in Thread |-> IF At(u, "reading") THEN data[ptr[u]] ELSE NULL]
  BY <1>4, <1>5
<1>7. (\E u \in Thread : pc[u] \in {"lockWrappers", "waitReadDone", "fn2"})' = FALSE
  BY <1>2
<1>8. \E u \in Thread : pc[u] \in {"lockWrappers", "waitReadDone", "fn2"}
  OBVIOUS
<1>9. /\ {r \in Thread : At(r, "reading") /\ ptr[r] # index} = {}
      /\ {r \in Thread : At(r, "reading") /\ ptr[r] # index}' = {}
  BY <1>4
<1> QED BY <1>5, <1>6, <1>7, <1>8, <1>9 DEF RM!Return

\* A new object starts from T(), with no reader.
LEMMA ConstructRefines ==
  ASSUME IInv, Construct
  PROVE  RM!Renew
  BY NULLAssumption
  DEF IInv, TypeOK, LockInv, Construct, RM!Renew, RM!Reading, At, readVars, modifyVars

\* The first call of fn writes the instance nobody reads.
LEMMA Fn1Invisible ==
  ASSUME IInv, NEW t \in Thread, Fn1(t)
  PROVE  UNCHANGED RM!vars
<1> USE NULLAssumption DEF IInv, TypeOK, Fn1, ApplyFn, ReturnFromModify, At, Goto,
                           objVars, readVars, ModifyPC
<1>1. modifyMutex = t /\ bg = 1 - index /\ index \in {0, 1}
  BY DEF LockInv, LocalInv
<1>2. \A u \in Thread : pc[u] \notin {"lockWrappers", "waitReadDone", "fn2"}
  BY <1>1 DEF LockInv
<1>3. todo = {} BY <1>2 DEF LockInv, WrapperInv
<1>4. \A r \in Thread : pc[r] = "reading" => ptr[r] = index
  BY <1>2, <1>3 DEF GraceInv
<1>5. index' = index /\ data'[index] = data[index] BY <1>1
<1> QED BY <1>4, <1>5, Invisible

\* Users of DoublyBufferedData cannot tell it from one value that changes
\* atomically and returns from a modification after a grace period.
THEOREM Refinement == FnContract /\ Spec => ImplementsReadMostlyData
<1>1. Init => RM!Init
  BY NULLAssumption DEF Init, RM!Init, At
<1>2. IInv /\ DataInv /\ [Next]_vars => [RM!Next]_(RM!vars)
  <2> SUFFICES ASSUME IInv, DataInv, [Next]_vars PROVE [RM!Next]_(RM!vars)
    OBVIOUS
  <2> USE DEF At, Goto, objVars, bufVars, readVars, modifyVars
  <2>1. CASE UNCHANGED vars BY <2>1, Invisible DEF vars
  <2>2. CASE Destroy BY <2>2, Invisible DEF Destroy
  <2>3. CASE Construct BY <2>3, ConstructRefines DEF RM!Next
  <2>4. ASSUME NEW t \in Thread, Call(t) PROVE UNCHANGED RM!vars
    BY <2>4, Invisible DEF Call, Read, RemoveWrapper, Modify, IInv, TypeOK
  <2>5. ASSUME NEW t \in Thread, ReadStep(t) PROVE [RM!Next]_(RM!vars)
    <3>1. CASE \/ AddWrapper(t) \/ AddWrapperFails(t) \/ SetSpecific(t)
               \/ SetSpecificFails(t) \/ BeginRead(t)
      <4>1. UNCHANGED RM!vars
        BY <3>1, Invisible
        DEF AddWrapper, AddWrapperFails, SetSpecific, SetSpecificFails, BeginRead,
            IInv, TypeOK
      <4> QED BY <4>1
    <3>2. CASE UnsafeRead(t) BY <3>2, UnsafeReadRefines DEF RM!Next
    <3>3. CASE EndRead(t) BY <3>3, EndReadRefines DEF RM!Next
    <3> QED BY <2>5, <3>1, <3>2, <3>3 DEF ReadStep
  <2>6. ASSUME NEW t \in Thread, ModifyStep(t) PROVE [RM!Next]_(RM!vars)
    <3>1. CASE Fn1(t) BY <3>1, Fn1Invisible
    <3>2. CASE Flip(t)
      <4>1. PICK f \in Fn : fn[t] = f BY <3>2 DEF IInv, LocalInv, Flip, ModifyPC
      <4>2. RM!Publish(f) BY <3>2, <4>1, FlipRefines
      <4> QED BY <4>2 DEF RM!Next
    <3>3. CASE Fn2(t) BY <3>3, Fn2Refines DEF RM!Next
    <3>4. CASE LockModify(t) \/ LockWrappers(t) \/ WaitReadDone(t) \/ UnlockWrappers(t)
      <4>1. UNCHANGED RM!vars
        BY <3>4, Invisible
        DEF LockModify, LockWrappers, WaitReadDone, UnlockWrappers, IInv, TypeOK
      <4> QED BY <4>1
    <3> QED BY <2>6, <3>1, <3>2, <3>3, <3>4 DEF ModifyStep
  <2> QED BY <2>1, <2>2, <2>3, <2>4, <2>5, <2>6 DEF Next
<1> QED BY DataInvariance, <1>1, <1>2, PTL DEF Spec, ImplementsReadMostlyData, RM!Spec

=============================================================================
