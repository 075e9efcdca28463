----------------------------- MODULE MCSharing -----------------------------
(***************************************************************************)
(* TLC instance of what is shared by counting references: the blocks of    *)
(* the paged KV cache, with copy-on-write, those of the prefix cache, and  *)
(* the objects of Shared_Ptr.  They share no state, so a behaviour is one  *)
(* of one of them and the others stay as they begin.  The prefix cache is  *)
(* taken with an ideal hash (the whole prefix) and with one that keeps     *)
(* only the last token.                                                    *)
(***************************************************************************)
EXTENDS SharedPtr, TLC

CONSTANTS Name, Token, NumBlocks, BlockSize, EnableCow, MaxTokens, NULL, NoHash

VARIABLES owner,                                                     \* the one that runs
          prefix_blocks, free_ids, used_ids, hash_to_block_id,
          prompts, call,                                             \* PrefixBlockManager
          blocks, free_block_ids, seqs, dense                        \* PagedKVCache

prefixVars == <<prefix_blocks, free_ids, used_ids, hash_to_block_id, prompts, call>>
pagedVars == <<blocks, free_block_ids, seqs, dense>>
allVars == <<owner, vars, prefixVars, pagedVars>>

\* Every prompt of up to four tokens.
Prompt == UNION {[1 .. k -> {1, 2}] : k \in 0 .. 4}
IdealHash(h, b) == IF h = NoHash THEN b ELSE h \o b
CollidingHash(h, b) == <<b[BlockSize]>>

Ideal == INSTANCE PrefixBlockManager
  WITH Hash <- IdealHash, blocks <- prefix_blocks, seqs <- prompts
Colliding == INSTANCE PrefixBlockManager
  WITH Hash <- CollidingHash, blocks <- prefix_blocks, seqs <- prompts

Paged == INSTANCE PagedKVCache

ASSUME PagedAssumption == Paged!Constants

CowOn == {TRUE}
Symmetry == Permutations(Name) \cup Permutations(Token) \cup Permutations(Thread)

AllInit ==
  /\ owner \in {"paged", "ideal", "colliding", "pointer"}
  /\ Init /\ Ideal!Init /\ Paged!Init

AllNext ==
  /\ \/ owner = "paged" /\ Paged!Next /\ UNCHANGED <<vars, prefixVars>>
     \/ owner = "ideal" /\ Ideal!Next /\ UNCHANGED <<vars, pagedVars>>
     \/ owner = "colliding" /\ Colliding!Next /\ UNCHANGED <<vars, pagedVars>>
     \/ owner = "pointer" /\ Next /\ UNCHANGED <<prefixVars, pagedVars>>
  /\ UNCHANGED owner

AllSpec == AllInit /\ [][AllNext]_allVars

-----------------------------------------------------------------------------
\* The counts, the free blocks and the tables agree, also after a call that ran
\* out of blocks half way, and whatever the hash; the count of Shared_Ptr is
\* exact, whatever its threads are in the middle of.
CountsAreExact ==
  CASE owner = "paged" -> Paged!RefCountExact
    [] owner = "pointer" -> CountExact
    [] OTHER -> Ideal!RefCountExact

\* The table of a sequence leads to the tokens of that sequence: whatever the
\* others appended to blocks shared with it, and whatever the hash collides with.
TablesHoldTokens ==
  CASE owner = "paged" -> Paged!MaterializeMatchesDense
    [] owner = "pointer" -> TRUE
    [] OTHER -> Ideal!ContentMatches

\* With a hash that does not collide, exactly the equal full prefixes share a
\* block.
SharedExactlyUnderSamePrefix == owner = "ideal" => Ideal!SharedExactlyUnderSamePrefix
=============================================================================
