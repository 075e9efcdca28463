--------------------------- MODULE ReadMostlyData ---------------------------
(***************************************************************************)
(* What DoublyBufferedData promises its users, without buffers or locks:   *)
(* one published value; a reader holds the value that was published when   *)
(* it began, for as long as it reads; a modification publishes its result  *)
(* in one step, and returns only when no reader holds an older value.      *)
(***************************************************************************)
CONSTANTS Thread,         \* the threads of the process
          Fn,             \* the modification functions
          Apply(_, _, _), \* Apply(f, d, e): instance d after f, e being the other instance
          InitData,       \* the value of a new object
          NULL

VARIABLES value,     \* the published value
          view,      \* per thread: the value it is reading, or NULL
          modifying, \* a modification has been published and has not returned
          old        \* the readers whose value predates that publication

vars == <<value, view, modifying, old>>

Reading == {t \in Thread : view[t] # NULL}

Init ==
  /\ value = InitData
  /\ view = [t \in Thread |-> NULL]
  /\ modifying = FALSE
  /\ old = {}

BeginRead(t) ==
  /\ view[t] = NULL
  /\ view' = [view EXCEPT ![t] = value]
  /\ UNCHANGED <<value, modifying, old>>

EndRead(t) ==
  /\ view[t] # NULL
  /\ view' = [view EXCEPT ![t] = NULL]
  /\ old' = old \ {t}
  /\ UNCHANGED <<value, modifying>>

Publish(f) ==
  /\ ~modifying
  /\ value' = Apply(f, value, value)
  /\ modifying' = TRUE
  /\ old' = Reading
  /\ UNCHANGED view

Return ==
  /\ modifying
  /\ old = {}
  /\ modifying' = FALSE
  /\ UNCHANGED <<value, view, old>>

\* The object is destroyed and constructed anew by its owner.
Renew ==
  /\ ~modifying
  /\ Reading = {}
  /\ value' = InitData
  /\ UNCHANGED <<view, modifying, old>>

Next ==
  \/ \E t \in Thread : BeginRead(t) \/ EndRead(t)
  \/ \E f \in Fn : Publish(f)
  \/ Return
  \/ Renew

Spec == Init /\ [][Next]_vars
=============================================================================
