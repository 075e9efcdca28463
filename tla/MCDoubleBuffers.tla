--------------------------- MODULE MCDoubleBuffers ---------------------------
(***************************************************************************)
(* TLC instance of the two double buffers of the repository: the one of    *)
(* brpc_double.cpp, and the one of double.cpp with a 1 ms sleep that is    *)
(* taken to outlast every Load.  They share no state, so a behaviour is    *)
(* one of one of them.                                                     *)
(***************************************************************************)
EXTENDS MCDoublyBufferedData

CONSTANTS Reader, Writer

VARIABLES buffer,                                                         \* the one that runs
          buffers_, read_idx_, write_mtx_, updating, writer, loaded, held \* DoubleBuffer

sleepVars == <<buffers_, read_idx_, write_mtx_, updating, writer, loaded, held>>
allVars == <<buffer, boundedVars, sleepVars>>

\* The data is a set of keys; "insert" is what update_writer passes, "reset"
\* what Reset passes.
Update(f, d) == IF f = "insert" THEN d \cup {1} ELSE {2}

Sleeping == INSTANCE DoubleBuffer
  WITH Updater <- {"insert", "reset"}, Apply <- Update, InitData <- {}, SleepCoversLoad <- TRUE,
       pc <- writer, index <- loaded

AllInit ==
  /\ buffer \in {"brpc", "sleeping"}
  /\ BoundedInit
  /\ Sleeping!Init

AllNext ==
  /\ \/ buffer = "brpc" /\ BoundedNext /\ UNCHANGED sleepVars
     \/ buffer = "sleeping" /\ Sleeping!Next /\ UNCHANGED boundedVars
  /\ UNCHANGED buffer

\* The steps of a thread that has begun a call: every one of them is taken
\* unless the thread is blocked for ever.  reader() lets its buffer go.
ThreadGoesOn(t) == buffer = "brpc" /\ BoundedStep(t) /\ UNCHANGED <<buffer, sleepVars>>
WriterGoesOn(u) == buffer = "sleeping" /\ Sleeping!Update(u) /\ UNCHANGED <<buffer, boundedVars>>
ReaderGoesOn(r) ==
  buffer = "sleeping" /\ (Sleeping!LoadCopy(r) \/ Sleeping!Release(r)) /\ UNCHANGED <<buffer, boundedVars>>

AllSpec ==
  /\ AllInit
  /\ [][AllNext]_allVars
  /\ \A t \in Thread : WF_allVars(ThreadGoesOn(t))
  /\ \A u \in Writer : WF_allVars(WriterGoesOn(u))
  /\ \A r \in Reader : WF_allVars(ReaderGoesOn(r))

-----------------------------------------------------------------------------
\* While a writer of double.cpp applies its updater for the first time no other
\* thread holds the buffer, as long as the sleep outlasts every Load.
FirstUpdateIsAlone == buffer = "sleeping" => Sleeping!FirstUpdateIsAlone

\* Every call of brpc's buffer returns, and every Update of double.cpp's.
AllCallsReturn == CallsReturn /\ Sleeping!UpdateReturns

\* Update of double.cpp leaves its two buffers equal.
BuffersAgree == Sleeping!BuffersAgree
=============================================================================
