---------------------------- MODULE PagedKVCache ----------------------------
(***************************************************************************)
(* The paged KV cache of paged_attention_lab/paged_kv.py: a pool of        *)
(* fixed-size physical blocks with reference counts, and sequences that    *)
(* map logical to physical blocks, share them by fork() and write to them  *)
(* by append(), with or without copy-on-write.  Beside it, as in           *)
(* 02_paged_kv_cache.py, the dense history of every sequence.              *)
(*                                                                         *)
(* A token stands for its (K, V) pair.  The lab is single-threaded: one    *)
(* call, one step, which raises or returns.                                *)
(***************************************************************************)
EXTENDS Integers, Sequences, FiniteSets, Functions

CONSTANTS Name,       \* the names of the sequences
          Token,      \* the (K, V) pairs
          NumBlocks,  \* num_blocks of the pool
          BlockSize,  \* block_size of the pool
          EnableCow,  \* the values callers pass as enable_cow
          MaxTokens,  \* bound: the length of a sequence
          NULL

\* The scripts make pools of some blocks, of some slots each.
Constants ==
  /\ NumBlocks \in Nat \ {0} /\ BlockSize \in Nat \ {0}
  /\ EnableCow \subseteq BOOLEAN /\ NULL \notin Token

VARIABLES blocks,         \* the pool's blocks: ref_count, used_slots, kv per slot
          free_block_ids, \* the FIFO of free blocks
          seqs,           \* the sequences that exist: block_table, token_count
          dense           \* the history of each sequence, kept by the scripts

vars == <<blocks, free_block_ids, seqs, dense>>

BlockId == 0 .. NumBlocks - 1
Slot == 0 .. BlockSize - 1

Live == DOMAIN seqs
Empty == [i \in Slot |-> NULL]

(***************************************************************************)
(* BlockPool, as functions of a pool p == [blocks, free].                  *)
(***************************************************************************)
Pool == [blocks |-> blocks, free |-> free_block_ids]

ResetForAllocate == [ref_count |-> 1, used_slots |-> 0, kv |-> Empty]

\* popleft and reset; the caller checks that p.free is not empty.
AllocateBlock(p) ==
  [blocks |-> [p.blocks EXCEPT ![Head(p.free)] = ResetForAllocate],
   free |-> Tail(p.free)]

IncRef(p, ids) ==
  [p EXCEPT !.blocks = [b \in BlockId |->
     IF b \in ids THEN [p.blocks[b] EXCEPT !.ref_count = @ + 1] ELSE p.blocks[b]]]

DecRef(p, id) ==
  LET ref_count == p.blocks[id].ref_count - 1 IN
  [blocks |-> [p.blocks EXCEPT ![id].ref_count = ref_count],
   free |-> IF ref_count = 0 THEN Append(p.free, id) ELSE p.free]

\* clone_block that copies used_slots and none of the slots.
CloneForgetsSlots(p, src) ==
  [AllocateBlock(p) EXCEPT !.blocks[Head(p.free)].used_slots = p.blocks[src].used_slots]

\* clone_block: the copy holds the slots the source has written.
CloneBlock(p, src) ==
  LET s == p.blocks[src]
      dst == Head(p.free)
      q == AllocateBlock(p)
  IN [q EXCEPT !.blocks[dst].used_slots = s.used_slots,
               !.blocks[dst].kv = [i \in Slot |-> IF i < s.used_slots THEN s.kv[i] ELSE NULL]]

Write(p, id, slot, tok) ==
  [p EXCEPT !.blocks[id].kv[slot] = tok,
            !.blocks[id].used_slots = IF slot + 1 > @ THEN slot + 1 ELSE @]

(***************************************************************************)
(* PagedKVCache.                                                           *)
(***************************************************************************)

Init ==
  /\ blocks = [b \in BlockId |-> [ref_count |-> 0, used_slots |-> 0, kv |-> Empty]]
  /\ free_block_ids = [i \in 1 .. NumBlocks |-> i - 1]
  /\ seqs = << >>
  /\ dense = << >>

Extend(f, x, v) == [y \in DOMAIN f \cup {x} |-> IF y = x THEN v ELSE f[y]]

CreateSequence(n) ==
  /\ n \notin Live
  /\ seqs' = Extend(seqs, n, [block_table |-> << >>, token_count |-> 0])
  /\ dense' = Extend(dense, n, << >>)
  /\ UNCHANGED <<blocks, free_block_ids>>

\* fork that copies the table and takes no reference.
ForkNoRef(parent, child) ==
  /\ parent \in Live /\ child \notin Live
  /\ seqs' = Extend(seqs, child, seqs[parent])
  /\ dense' = Extend(dense, child, dense[parent])
  /\ UNCHANGED <<blocks, free_block_ids>>

Fork(parent, child) ==
  /\ parent \in Live /\ child \notin Live
  /\ blocks' = IncRef(Pool, Range(seqs[parent].block_table)).blocks
  /\ seqs' = Extend(seqs, child, seqs[parent])
  /\ dense' = Extend(dense, child, dense[parent])
  /\ UNCHANGED free_block_ids

AtBoundary(n) == seqs[n].token_count % BlockSize = 0

\* block_table[-1].
TailId(table) == table[Len(table)]

CopiesTail(n, enable_cow) ==
  ~AtBoundary(n) /\ enable_cow /\ blocks[TailId(seqs[n].block_table)].ref_count > 1

\* What append does before the write: a new block at a block boundary, a copy
\* of a shared tail block, or nothing.
TailBlock(n, enable_cow) ==
  LET table == seqs[n].block_table IN
  CASE AtBoundary(n) ->
         [pool |-> AllocateBlock(Pool), table |-> Append(table, Head(free_block_ids))]
    [] CopiesTail(n, enable_cow) ->
         [pool |-> DecRef(CloneBlock(Pool, TailId(table)), TailId(table)),
          table |-> [table EXCEPT ![Len(table)] = Head(free_block_ids)]]
    [] OTHER -> [pool |-> Pool, table |-> table]

\* append may call allocate_block, itself or through clone_block.
TakesBlock(n, enable_cow) == AtBoundary(n) \/ CopiesTail(n, enable_cow)

\* append that gives up the shared tail before it asks for the copy.
RaisesAfterDecRef(n, enable_cow) ==
  /\ n \in Live /\ seqs[n].token_count < MaxTokens
  /\ TakesBlock(n, enable_cow) /\ free_block_ids = << >>
  /\ IF AtBoundary(n) THEN UNCHANGED blocks
     ELSE blocks' = DecRef(Pool, TailId(seqs[n].block_table)).blocks
  /\ UNCHANGED <<free_block_ids, seqs, dense>>

\* append when allocate_block finds no free block: the RuntimeError leaves it
\* before the table is extended (176), or before the reference to the shared
\* tail is given up (182).
AppendRaises(n, enable_cow) ==
  /\ n \in Live /\ seqs[n].token_count < MaxTokens
  /\ TakesBlock(n, enable_cow) /\ free_block_ids = << >>
  /\ UNCHANGED vars

\* append that returns.
AppendToken(n, tok, enable_cow) ==
  /\ n \in Live
  /\ seqs[n].token_count < MaxTokens
  /\ TakesBlock(n, enable_cow) => free_block_ids # << >>
  /\ LET t == TailBlock(n, enable_cow)
         p == Write(t.pool, TailId(t.table), seqs[n].token_count % BlockSize, tok)
     IN /\ blocks' = p.blocks
        /\ free_block_ids' = p.free
        /\ seqs' = [seqs EXCEPT ![n] = [block_table |-> t.table, token_count |-> @.token_count + 1]]
  /\ dense' = [dense EXCEPT ![n] = Append(@, tok)]

Next ==
  \/ \E n \in Name : CreateSequence(n)
  \/ \E n, m \in Name : Fork(n, m)
  \/ \E n \in Name, tok \in Token, cow \in EnableCow : AppendToken(n, tok, cow)
  \/ \E n \in Name, cow \in EnableCow : AppendRaises(n, cow)

Spec == Init /\ [][Next]_vars

(***************************************************************************)
(* iter_kv, which materialize and decode_attention read through: block     *)
(* after block, at most used_slots of each and token_count in all.         *)
(***************************************************************************)
Least(a, b) == IF a < b THEN a ELSE b

YieldBlock(n, before, i) ==
  LET id == seqs[n].block_table[i]
      take == Least(blocks[id].used_slots, seqs[n].token_count - Len(before))
  IN  before \o [k \in 1 .. take |-> [block |-> id, slot |-> k - 1]]

IterKV(n) ==
  LET read[i \in 0 .. Len(seqs[n].block_table)] ==
        IF i = 0 THEN << >> ELSE YieldBlock(n, read[i - 1], i)
  IN  read[Len(seqs[n].block_table)]

Materialize(n) == [i \in 1 .. Len(IterKV(n)) |->
                     blocks[IterKV(n)[i].block].kv[IterKV(n)[i].slot]]

-----------------------------------------------------------------------------
\* The reference-count invariant of LECTURE_CN.md: ref_count is the number of
\* sequences whose table holds the block, and the free queue holds exactly the
\* blocks with none, each once.
RefCountExact ==
  /\ \A b \in BlockId : blocks[b].ref_count =
       Cardinality({n \in Live : b \in Range(seqs[n].block_table)})
  /\ Range(free_block_ids) = {b \in BlockId : blocks[b].ref_count = 0}
  /\ IsInjective(free_block_ids)

\* verify_materialize of 02_paged_kv_cache.py, and the comparison of
\* 03_paged_decode.py: what a sequence reads back is its own dense history,
\* whatever the other branches wrote after a fork.
MaterializeMatchesDense ==
  \A n \in Live : Materialize(n) = dense[n]
=============================================================================
