------------------------ MODULE MCDoublyBufferedData ------------------------
(***************************************************************************)
(* TLC instances of DoublyBufferedData.  An instance of T is a set of      *)
(* numbers, as the TestData of brpc_double.cpp.  std::mutex promises no    *)
(* turn to a waiting thread, so a reader that never stops coming back      *)
(* could hold up Modify() for ever: the threads make MaxCalls calls        *)
(* between them and then stay away.                                        *)
(***************************************************************************)
EXTENDS DoublyBufferedData

Nums == {1, 2}
MCData == {{}, {1}, {2}, {1, 2}}
MCInitData == {}

\* fns that keep FnContract: insert, insert through ModifyWithForeground,
\* erase (which fails when there is nothing to erase).
GoodFn == {"insert", "merge", "erase"}
GoodApply(f, d, e) ==
  CASE f = "insert" -> d \cup {1}
    [] f = "merge" -> d \cup e \cup {2}
    [] f = "erase" -> d \ {1}
GoodRet(f, d) == IF f = "erase" /\ 1 \notin d THEN 1 ELSE 0

\* AddData, RemoveData, ResetData and ClearData of TestDoubleBuffer: they
\* return true whatever they did.
TestFn == {"AddData", "RemoveData", "ResetData", "ClearData"}
TestApply(f, d, e) ==
  CASE f = "AddData" -> d \cup {1}
    [] f = "RemoveData" -> d \ {1}
    [] f = "ResetData" -> Nums
    [] f = "ClearData" -> {}
TestRet(f, d) == 1

CONSTANT MaxCalls  \* bound on the calls of all threads

VARIABLE calls  \* calls made so far

boundedVars == <<vars, calls>>

BoundedInit == Init /\ calls = 0

BoundedCall(t) ==
  /\ calls < MaxCalls
  /\ Call(t)
  /\ calls' = calls + 1

BoundedStep(t) == (ReadStep(t) \/ ModifyStep(t)) /\ UNCHANGED calls

BoundedNext ==
  \/ \E t \in Thread : BoundedCall(t) \/ BoundedStep(t)
  \/ (Destroy \/ Construct) /\ UNCHANGED calls

\* A thread that is not blocked for ever makes its next step, and a user
\* destructs its ScopedPtr.
BoundedSpec ==
  /\ BoundedInit
  /\ [][BoundedNext]_boundedVars
  /\ \A t \in Thread : WF_boundedVars(BoundedStep(t))

\* Every Read() and Modify() that has begun returns: readers, modifications,
\* and threads registering or removing their wrapper never wait for each other
\* in a circle.
CallsReturn == \A t \in Thread : pc[t] # "idle" ~> pc[t] = "idle"
=============================================================================
