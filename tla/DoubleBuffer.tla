---------------------------- MODULE DoubleBuffer ----------------------------
(***************************************************************************)
(* util::DoubleBuffer of double.cpp: two buffers behind shared_ptrs, an    *)
(* index that says which one is read, and writers that update the other    *)
(* one when its use_count shows that nobody reads it.  buffers_ is never   *)
(* assigned after construction, so copying a shared_ptr only changes its   *)
(* use_count; what races is the data behind it.                            *)
(***************************************************************************)
EXTENDS Naturals, FiniteSets

CONSTANTS Reader, Writer, \* threads
          Updater,        \* the functions passed to Update, Reset's included
          Apply(_, _),    \* Apply(f, d): the buffer d after updater f
          InitData,       \* the data of the constructor
          SleepCoversLoad,\* does a Load that began before the swap end within the 1 ms sleep?
          NULL

VARIABLES buffers_,  \* the data of the two buffers
          read_idx_,
          write_mtx_,\* the writer that holds it, or NULL
          updating,  \* per writer: the updater it applies, or NULL
          pc,        \* per writer: where it is in Update
          index,     \* per reader: the index it read in Load and has not used, or NULL
          held       \* per thread: the buffer whose shared_ptr it holds, or NULL

vars == <<buffers_, read_idx_, write_mtx_, updating, pc, index, held>>

Buffer == {0, 1}

\* The constructors: both buffers hold data.
Init ==
  /\ buffers_ = [b \in Buffer |-> InitData]
  /\ read_idx_ = 0
  /\ write_mtx_ = NULL
  /\ updating = [w \in Writer |-> NULL]
  /\ pc = [w \in Writer |-> "idle"]
  /\ index = [r \in Reader |-> NULL]
  /\ held = [t \in Reader \cup Writer |-> NULL]

\* use_count(): buffers_[b] itself and the copies.
UseCount(b) == 1 + Cardinality({t \in Reader \cup Writer : held[t] = b})

(***************************************************************************)
(* A reader: Load is the read of read_idx_ and the copy of the shared_ptr. *)
(***************************************************************************)
LoadIndex(r) ==
  /\ index[r] = NULL /\ held[r] = NULL
  /\ index' = [index EXCEPT ![r] = read_idx_]
  /\ UNCHANGED <<buffers_, read_idx_, write_mtx_, updating, pc, held>>

LoadCopy(r) ==
  /\ index[r] # NULL
  /\ held' = [held EXCEPT ![r] = index[r]]
  /\ index' = [index EXCEPT ![r] = NULL]
  /\ UNCHANGED <<buffers_, read_idx_, write_mtx_, updating, pc>>

\* data_sptr goes out of scope.
Release(r) ==
  /\ held[r] # NULL
  /\ held' = [held EXCEPT ![r] = NULL]
  /\ UNCHANGED <<buffers_, read_idx_, write_mtx_, updating, pc, index>>

(***************************************************************************)
(* A writer in Update.                                                     *)
(***************************************************************************)
Lock(w, f) ==
  /\ pc[w] = "idle" /\ write_mtx_ = NULL
  /\ write_mtx_' = w
  /\ updating' = [updating EXCEPT ![w] = f]
  /\ pc' = [pc EXCEPT ![w] = "wait"]
  /\ UNCHANGED <<buffers_, read_idx_, index, held>>

\* monopolizer_writer_buffer that does not wait for the readers.
MonopolizeNow(w) ==
  /\ pc[w] = "wait"
  /\ held' = [held EXCEPT ![w] = 1 - read_idx_]
  /\ pc' = [pc EXCEPT ![w] = "first"]
  /\ UNCHANGED <<buffers_, read_idx_, write_mtx_, updating, index>>

Monopolize(w) ==
  /\ pc[w] = "wait"
  /\ UseCount(1 - read_idx_) = 1
  /\ held' = [held EXCEPT ![w] = 1 - read_idx_]
  /\ pc' = [pc EXCEPT ![w] = "first"]
  /\ UNCHANGED <<buffers_, read_idx_, write_mtx_, updating, index>>

ApplyUpdater(w) == buffers_' = [buffers_ EXCEPT ![held[w]] = Apply(updating[w], @)]

FirstUpdate(w) ==
  /\ pc[w] = "first"
  /\ ApplyUpdater(w)
  /\ pc' = [pc EXCEPT ![w] = "swap"]
  /\ UNCHANGED <<read_idx_, write_mtx_, updating, index, held>>

SwapBuffer(w) ==
  /\ pc[w] = "swap"
  /\ read_idx_' = 1 - read_idx_
  /\ pc' = [pc EXCEPT ![w] = "sleep"]
  /\ UNCHANGED <<buffers_, write_mtx_, updating, index, held>>

Sleep(w) ==
  /\ pc[w] = "sleep"
  /\ SleepCoversLoad => \A r \in Reader : index[r] \in {NULL, read_idx_}
  /\ pc' = [pc EXCEPT ![w] = "second"]
  /\ UNCHANGED <<buffers_, read_idx_, write_mtx_, updating, index, held>>

\* The updater again, on the same write_buffer.
SecondUpdate(w) ==
  /\ pc[w] = "second"
  /\ ApplyUpdater(w)
  /\ pc' = [pc EXCEPT ![w] = "return"]
  /\ UNCHANGED <<read_idx_, write_mtx_, updating, index, held>>

\* write_buffer and lock are destroyed.
Return(w) ==
  /\ pc[w] = "return"
  /\ held' = [held EXCEPT ![w] = NULL]
  /\ write_mtx_' = NULL
  /\ updating' = [updating EXCEPT ![w] = NULL]
  /\ pc' = [pc EXCEPT ![w] = "idle"]
  /\ UNCHANGED <<buffers_, read_idx_, index>>

Update(w) ==
  Monopolize(w) \/ FirstUpdate(w) \/ SwapBuffer(w) \/ Sleep(w) \/ SecondUpdate(w) \/ Return(w)

Next ==
  \/ \E r \in Reader : LoadIndex(r) \/ LoadCopy(r) \/ Release(r)
  \/ \E w \in Writer : (\E f \in Updater : Lock(w, f)) \/ Update(w)

Spec == Init /\ [][Next]_vars

-----------------------------------------------------------------------------
\* "wait all reads task on this buffer to get write buffer" (line 83): while a
\* writer applies its updater for the first time no other thread holds the
\* buffer.  This rests on the sleep being longer than any Load.
FirstUpdateIsAlone ==
  \A w \in Writer : pc[w] \in {"first", "swap"} =>
    \A t \in (Reader \cup Writer) \ {w} : held[t] # held[w]

\* "It will block until it update both two buffers successfully" (line 54): when
\* no Update is under way the two buffers hold the same data.
BuffersAgree == write_mtx_ = NULL => buffers_[0] = buffers_[1]

\* Update returns although readers keep loading: the wait for use_count() == 1
\* ends, because a buffer that was swapped out is not handed out again.
UpdateReturns == \A w \in Writer : pc[w] = "wait" ~> pc[w] = "idle"
=============================================================================
