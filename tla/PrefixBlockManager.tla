------------------------- MODULE PrefixBlockManager -------------------------
(***************************************************************************)
(* PrefixBlockManager of paged_attention_lab/05_prefix_cache.py: full      *)
(* blocks of tokens are found again by a chained hash and shared between   *)
(* sequences.  allocate() is one loop; a step is one iteration of it, and  *)
(* no other call runs in between (the lab is single-threaded).             *)
(*                                                                         *)
(* Hash(h, b) is compute_hash of block b after prefix hash h: blake2b cut  *)
(* to 8 bytes, which may collide.                                          *)
(***************************************************************************)
EXTENDS Integers, Sequences, FiniteSets, SequencesExt

CONSTANTS Name,       \* the sequences
          Prompt,     \* the token_ids a sequence may have
          NumBlocks,  \* num_blocks of the manager
          BlockSize,  \* block_size of the manager
          Hash(_, _), \* compute_hash(token_ids, prefix_hash)
          NoHash,     \* the value -1 of a prefix hash or hash_key
          NULL

VARIABLES blocks,           \* per block: ref_count, hash_key, token_ids
          free_ids,         \* the deque of free blocks
          used_ids,         \* the blocks in use
          hash_to_block_id, \* hash of a full block -> block
          seqs,             \* per sequence: token_ids, block_table, num_cached_tokens
          call              \* the allocate() in progress: seq, prefix_hash, cache_miss

vars == <<blocks, free_ids, used_ids, hash_to_block_id, seqs, call>>

BlockId == 0 .. NumBlocks - 1
Least(a, b) == IF a < b THEN a ELSE b

Init ==
  /\ blocks = [b \in BlockId |-> [ref_count |-> 0, hash_key |-> NoHash, token_ids |-> << >>]]
  /\ free_ids = [i \in 1 .. NumBlocks |-> i - 1]
  /\ used_ids = {}
  /\ hash_to_block_id = << >>
  /\ seqs = << >>
  /\ call = NULL

\* PrefixSequence(name, token_ids), and allocate(seq) up to its loop.
Allocate(n, token_ids) ==
  /\ call = NULL
  /\ n \notin DOMAIN seqs
  /\ seqs' = [m \in DOMAIN seqs \cup {n} |-> IF m # n THEN seqs[m]
                ELSE [token_ids |-> token_ids, block_table |-> << >>, num_cached_tokens |-> 0]]
  /\ call' = IF token_ids = << >> THEN NULL
             ELSE [seq |-> n, prefix_hash |-> NoHash, cache_miss |-> FALSE]
  /\ UNCHANGED <<blocks, free_ids, used_ids, hash_to_block_id>>

(***************************************************************************)
(* One iteration: block number i of the sequence.                          *)
(***************************************************************************)
Done(n) == Len(seqs[n].block_table) * BlockSize
BlockTokens(n) ==
  SubSeq(seqs[n].token_ids, Done(n) + 1, Least(Done(n) + BlockSize, Len(seqs[n].token_ids)))
FullBlock(n) == Len(BlockTokens(n)) = BlockSize
\* compute_hash called without the prefix hash.
BlockHashNoPrefix ==
  IF FullBlock(call.seq) THEN Hash(NoHash, BlockTokens(call.seq)) ELSE NoHash

BlockHash == IF FullBlock(call.seq) THEN Hash(call.prefix_hash, BlockTokens(call.seq)) ELSE NoHash

\* The test of a hit without the comparison of the tokens.
HitOnHashOnly(n) ==
  /\ FullBlock(n)
  /\ ~call.cache_miss
  /\ BlockHash \in DOMAIN hash_to_block_id

Hit(n) ==
  /\ FullBlock(n)
  /\ ~call.cache_miss
  /\ BlockHash \in DOMAIN hash_to_block_id
  /\ blocks[hash_to_block_id[BlockHash]].token_ids = BlockTokens(n)

\* The block with which iteration i ends, and the next prefix hash.
Advance(n, b, cached, miss) ==
  /\ seqs' = [seqs EXCEPT ![n].block_table = Append(@, b), ![n].num_cached_tokens = @ + cached]
  /\ call' = IF Done(n) + BlockSize >= Len(seqs[n].token_ids) THEN NULL
             ELSE [call EXCEPT !.prefix_hash = BlockHash, !.cache_miss = miss]

\* _allocate(b), then hash_key and token_ids.
TakeBlock(b, n) ==
  /\ free_ids' = SelectSeq(free_ids, LAMBDA x : x # b)
  /\ used_ids' = used_ids \cup {b}
  /\ blocks' = [blocks EXCEPT ![b] =
       [ref_count |-> 1, hash_key |-> BlockHash, token_ids |-> BlockTokens(n)]]

ReuseBlock(n) ==
  /\ Hit(n)
  /\ LET b == hash_to_block_id[BlockHash] IN
       /\ IF b \in used_ids
          THEN /\ blocks' = [blocks EXCEPT ![b].ref_count = @ + 1]
               /\ UNCHANGED <<free_ids, used_ids>>
          ELSE TakeBlock(b, n)
       /\ Advance(n, b, BlockSize, call.cache_miss)
  /\ UNCHANGED hash_to_block_id

NewBlock(n) ==
  /\ ~Hit(n)
  /\ free_ids # << >>
  /\ TakeBlock(Head(free_ids), n)
  /\ hash_to_block_id' = IF ~FullBlock(n) THEN hash_to_block_id
       ELSE [h \in DOMAIN hash_to_block_id \cup {BlockHash} |->
               IF h = BlockHash THEN Head(free_ids) ELSE hash_to_block_id[h]]
  /\ Advance(n, Head(free_ids), 0, TRUE)

\* RuntimeError("Out of blocks"): what the earlier iterations took stays taken.
OutOfBlocks(n) ==
  /\ ~Hit(n)
  /\ free_ids = << >>
  /\ call' = NULL
  /\ UNCHANGED <<blocks, free_ids, used_ids, hash_to_block_id, seqs>>

Next ==
  \/ \E n \in Name, p \in Prompt : Allocate(n, p)
  \/ /\ call # NULL
     /\ ReuseBlock(call.seq) \/ NewBlock(call.seq) \/ OutOfBlocks(call.seq)

Spec == Init /\ [][Next]_vars

-----------------------------------------------------------------------------
\* The tokens of block i of sequence n, and those up to its end.
Part(n, i) == SubSeq(seqs[n].token_ids, (i - 1) * BlockSize + 1,
                     Least(i * BlockSize, Len(seqs[n].token_ids)))
PrefixTo(n, i) == SubSeq(seqs[n].token_ids, 1, Least(i * BlockSize, Len(seqs[n].token_ids)))
Places == {<<n, i>> \in (DOMAIN seqs) \X (1 .. NumBlocks) : i <= Len(seqs[n].block_table)}
BlockAt(x) == seqs[x[1]].block_table[x[2]]

\* A block is counted once per table entry that holds it, and the deque, the
\* set of used blocks and the counts agree: also after a call of allocate that
\* ran out of blocks half way.
RefCountExact ==
  /\ \A b \in BlockId : blocks[b].ref_count = Cardinality({x \in Places : BlockAt(x) = b})
  /\ Range(free_ids) = BlockId \ used_ids /\ IsInjective(free_ids)
  /\ used_ids = {b \in BlockId : blocks[b].ref_count > 0}

\* The comparison of the tokens at line 75 makes every entry of a table a block
\* with that part of the sequence, whatever the hash collides with.
ContentMatches ==
  \A x \in Places : blocks[BlockAt(x)].token_ids = Part(x[1], x[2])

\* "Same tokens and same prefix path" (LECTURE_CN.md, step 5): two table entries
\* for full blocks hold the same block exactly when all the tokens up to it are
\* the same, and a partial block is never shared.  The hash chain gives this as
\* long as it does not collide.
SharedExactlyUnderSamePrefix ==
  \A x, y \in Places : x # y =>
    (BlockAt(x) = BlockAt(y) <=>
       /\ PrefixTo(x[1], x[2]) = PrefixTo(y[1], y[2])
       /\ Len(PrefixTo(x[1], x[2])) = x[2] * BlockSize)
=============================================================================
