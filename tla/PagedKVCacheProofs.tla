------------------------ MODULE PagedKVCacheProofs ------------------------
(***************************************************************************)
(* The paged KV cache for every pool, block size, set of sequences and run *)
(* of calls.  The counts are exact by PagedInv, which adds what a table    *)
(* looks like; with copy-on-write on, each sequence reads its own history  *)
(* back by HistoryInv, which says where the blocks hold it.  First what    *)
(* iter_kv computes, then the pool's operations, then one lemma per action *)
(* for each of the two invariants.                                         *)
(***************************************************************************)
EXTENDS PagedKVCache, TLAPS

KVBlock == [ref_count : Int, used_slots : 0 .. BlockSize, kv : [Slot -> Token \cup {NULL}]]
PoolType == [blocks : [BlockId -> KVBlock], free : Seq(BlockId)]
SequenceState == [block_table : Seq(BlockId), token_count : Nat]

\* The sequences whose table holds the block.
Sharing(b) == {n \in Live : b \in Range(seqs[n].block_table)}

\* Finitely many sequences exist; each holds a block at most once, and has one
\* once it has a token.  With the second append() takes exactly one reference from
\* the block it copies; without the third it would read an empty table.
PagedInv ==
  /\ Pool \in PoolType
  /\ IsFiniteSet(Live)
  /\ \A n \in Live :
       /\ seqs[n] \in SequenceState
       /\ IsInjective(seqs[n].block_table)
       /\ seqs[n].block_table = << >> => seqs[n].token_count = 0
  /\ \A b \in BlockId : blocks[b].ref_count = Cardinality(Sharing(b))
  /\ Range(free_block_ids) = {b \in BlockId : blocks[b].ref_count = 0}
  /\ IsInjective(free_block_ids)

-----------------------------------------------------------------------------
\* The place in a sequence of slot s of its block number p, counted from 0.
At(p, s) == (p - 1) * BlockSize + s

\* The blocks of a table hold the history d, each slot inside used_slots.
Stored(pool, table, d) ==
  \A p \in DOMAIN table : \A s \in Slot :
    At(p, s) < Len(d) => s < pool[table[p]].used_slots /\ pool[table[p]].kv[s] = d[At(p, s) + 1]

\* k blocks are as many as c tokens need.
Fits(k, c) == c <= k * BlockSize /\ (k # 0 => (k - 1) * BlockSize < c)

HistoryInv ==
  /\ DOMAIN dense = Live
  /\ \A n \in Live :
       /\ dense[n] \in Seq(Token) /\ Len(dense[n]) = seqs[n].token_count
       /\ Fits(Len(seqs[n].block_table), seqs[n].token_count)
       /\ Stored(blocks, seqs[n].block_table, dense[n])

-----------------------------------------------------------------------------
\* A place has one block and one slot.
LEMMA OnePlace ==
  ASSUME Constants, NEW p \in Nat \ {0}, NEW q \in Nat \ {0}, NEW r \in Slot, NEW s \in Slot,
         At(p, r) = At(q, s)
  PROVE  p = q /\ r = s
<1>1. p - 1 \in Nat /\ q - 1 \in Nat /\ BlockSize \in Nat \ {0} /\ r \in 0 .. BlockSize - 1 /\ s \in 0 .. BlockSize - 1
  BY DEF Constants, Slot
<1>2. (p - 1) * BlockSize + r = (q - 1) * BlockSize + s
  BY Zenon DEF At
<1>3. PICK a \in Nat : a = p - 1
  BY <1>1, Zenon
<1>4. PICK b \in Nat : b = q - 1
  BY <1>1, Zenon
<1>5. a = b /\ r = s
  <2>1. a * BlockSize + r = b * BlockSize + s
    BY <1>2, <1>3, <1>4, Zenon
  <2> QED
    BY <1>1, <2>1
<1> QED
  BY <1>3, <1>4, <1>5

\* A place is a number.
LEMMA AtNat == ASSUME Constants, NEW p \in Nat \ {0}, NEW s \in Slot PROVE At(p, s) \in Nat
<1>1. ASSUME NEW B \in Nat \ {0}, NEW a \in Nat, NEW x \in 0 .. B - 1 PROVE a * B + x \in Nat
  BY <1>1
<1>2. p - 1 \in Nat /\ BlockSize \in Nat \ {0} /\ s \in 0 .. BlockSize - 1
  BY DEF Constants, Slot
<1> QED
  BY <1>1, <1>2, Zenon DEF At

\* The slot of the next token is one of the block's.
LEMMA SlotOfToken == ASSUME Constants, NEW k \in Nat PROVE k % BlockSize \in Slot
  BY DEF Constants, Slot

\* k blocks for c tokens: the next token goes to the first slot of a new block
\* when they are full, and else to the slot after the last token.
LEMMA SlotAfter ==
  ASSUME Constants, NEW k \in Nat, NEW c \in Nat, Fits(k, c)
  PROVE  /\ c % BlockSize \in Slot
         /\ c % BlockSize = 0 => At(k + 1, c % BlockSize) = c
         /\ c % BlockSize # 0 => At(k, c % BlockSize) = c
<1>1. BlockSize \in Nat \ {0} /\ c <= k * BlockSize /\ (k # 0 => (k - 1) * BlockSize < c)
  BY Zenon DEF Fits, Constants
<1> DEFINE q == c \div BlockSize
           r == c % BlockSize
<1>2. c = q * BlockSize + r /\ r \in 0 .. BlockSize - 1 /\ q \in Nat
  BY <1>1
<1> HIDE DEF q, r
<1>3. r = 0 => q = k
  <2> SUFFICES ASSUME r = 0 PROVE q = k
    BY Zenon
  <2>1. c = q * BlockSize
    BY <1>1, <1>2
  <2>2. q <= k
    BY <1>1, <1>2, <2>1
  <2>3. CASE k = 0
    BY <1>2, <2>2, <2>3
  <2>4. CASE k # 0
    <3>1. PICK j \in Nat : k = j + 1
      <4>1. k - 1 \in Nat /\ k = (k - 1) + 1
        BY <2>4
      <4> QED
        BY <4>1, Zenon
    <3>2. j * BlockSize < q * BlockSize
      BY <1>1, <2>1, <2>4, <3>1
    <3>3. j < q
      BY <1>1, <1>2, <3>2
    <3> QED
      BY <1>2, <2>2, <3>1, <3>3
  <2> QED
    BY <2>3, <2>4, Zenon
<1>4. r # 0 => q = k - 1
  <2> SUFFICES ASSUME r # 0 PROVE q = k - 1
    BY Zenon
  <2>1. q * BlockSize < k * BlockSize
    <3>1. q * BlockSize \in Nat /\ k * BlockSize \in Nat
      BY <1>1, <1>2
    <3> QED
      BY <1>1, <1>2, <3>1
  <2>2. q < k
    BY <1>1, <1>2, <2>1
  <2>3. PICK j \in Nat : k = j + 1
    <3>1. k - 1 \in Nat /\ k = (k - 1) + 1
      BY <1>2, <2>2
    <3> QED
      BY <3>1, Zenon
  <2>4. j * BlockSize < q * BlockSize + BlockSize
    <3>1. k # 0 /\ k - 1 = j /\ q * BlockSize \in Nat
      BY <1>1, <1>2, <2>3
    <3>2. j * BlockSize < c
      BY <1>1, <3>1, Zenon
    <3>3. j * BlockSize \in Nat
      BY <1>1, <2>3
    <3> QED
      BY <1>1, <1>2, <3>1, <3>2, <3>3
  <2>5. j < q + 1
    <3>1. (q + 1) * BlockSize = q * BlockSize + BlockSize /\ q + 1 \in Nat
      BY <1>1, <1>2
    <3>2. j * BlockSize < (q + 1) * BlockSize
      BY <2>4, <3>1, Zenon
    <3> QED
      BY <1>1, <3>1, <3>2
  <2> QED
    BY <1>2, <2>2, <2>3, <2>5
<1>5. r \in Slot /\ (k + 1) - 1 = k
  BY <1>2 DEF Slot
<1> QED
  BY <1>2, <1>3, <1>4, <1>5, Zenon DEF At, r

\* A block more holds one more block of tokens.
LEMMA FitsNext ==
  ASSUME Constants, NEW k \in Nat \ {0}, NEW c \in Nat, NEW slot \in Slot, At(k, slot) = c
  PROVE  Fits(k, c + 1)
<1>1. PICK j \in Nat : k = j + 1 /\ k - 1 = j
  <2>1. k - 1 \in Nat /\ k = (k - 1) + 1
    OBVIOUS
  <2> QED
    BY <2>1, Zenon
<1>2. BlockSize \in Nat \ {0} /\ slot \in 0 .. BlockSize - 1
  BY Zenon DEF Constants, Slot
<1>3. j * BlockSize + slot = c
  BY <1>1, Zenon DEF At
<1>4. j * BlockSize \in Nat /\ (j + 1) * BlockSize = j * BlockSize + BlockSize
  BY <1>2
<1>5. j * BlockSize < c + 1 /\ c + 1 <= (j + 1) * BlockSize
  BY <1>2, <1>3, <1>4
<1> QED
  BY <1>1, <1>5, Zenon DEF Fits

\* Slot s of the k-th block, in numbers.
LEMMA PlaceOf ==
  ASSUME Constants, NEW k \in Nat, NEW s \in Slot
  PROVE  /\ k * BlockSize \in Nat
         /\ (k * BlockSize + s) \div BlockSize = k /\ (k * BlockSize + s) % BlockSize = s
<1>1. ASSUME NEW B \in Nat \ {0}, NEW a \in Nat, NEW x \in 0 .. B - 1
      PROVE  a * B \in Nat /\ (a * B + x) \div B = a /\ (a * B + x) % B = x
  BY <1>1
<1>2. BlockSize \in Nat \ {0} /\ s \in 0 .. BlockSize - 1
  BY Zenon DEF Constants, Slot
<1> QED
  BY <1>1, <1>2, Zenon

\* The k-th token in numbers: every token has a block and a slot.
LEMMA PlaceExists ==
  ASSUME Constants, NEW L \in Nat, NEW c \in Nat, c <= L * BlockSize, NEW j \in 1 .. c
  PROVE  /\ ((j - 1) \div BlockSize) + 1 \in 1 .. L /\ (j - 1) % BlockSize \in Slot
         /\ At(((j - 1) \div BlockSize) + 1, (j - 1) % BlockSize) = j - 1
<1>1. ASSUME NEW B \in Nat \ {0}, NEW a \in Nat, NEW l \in Nat, a < l * B
      PROVE  /\ a % B \in 0 .. B - 1 /\ a \div B \in Nat
             /\ (a \div B) * B + (a % B) = a /\ a \div B < l
  BY <1>1
<1> DEFINE a == j - 1
<1>2. BlockSize \in Nat \ {0} /\ a \in Nat
  BY DEF Constants
<1>3. a < L * BlockSize
  <2>1. L * BlockSize \in Nat
    BY <1>2
  <2> QED
    BY <2>1
<1> HIDE DEF a
<1>4. /\ a % BlockSize \in 0 .. BlockSize - 1 /\ a \div BlockSize \in Nat
      /\ (a \div BlockSize) * BlockSize + (a % BlockSize) = a /\ a \div BlockSize < L
  BY <1>1, <1>2, <1>3, Zenon
<1> DEFINE d == a \div BlockSize
           r == a % BlockSize
<1>5. d \in Nat /\ d < L /\ r \in 0 .. BlockSize - 1 /\ d * BlockSize + r = a
  BY <1>4, Zenon
<1> HIDE DEF d, r
<1>6. d + 1 \in 1 .. L /\ r \in Slot /\ (d + 1) - 1 = d
  BY <1>5 DEF Slot
<1>7. At(d + 1, r) = a
  BY <1>5, <1>6, Zenon DEF At
<1> QED
  BY <1>6, <1>7, Zenon DEF a, d, r

-----------------------------------------------------------------------------
\* Where iter_kv finds the first k tokens of a sequence: block by block, slot by
\* slot.
Places(n, k) == [j \in 1 .. k |->
  [block |-> seqs[n].block_table[((j - 1) \div BlockSize) + 1], slot |-> (j - 1) % BlockSize]]

PlaceType == [block : BlockId, slot : Slot]

\* The first k places of a table: place j is slot (j - 1) % BlockSize of block
\* (j - 1) \div BlockSize, counted from 0.
LEMMA PlacesFacts ==
  ASSUME Constants, NEW n, seqs[n].block_table \in Seq(BlockId),
         NEW c \in Nat, c <= Len(seqs[n].block_table) * BlockSize, NEW k \in 0 .. c
  PROVE  /\ Places(n, k) \in Seq(PlaceType) /\ Len(Places(n, k)) = k
         /\ \A j \in 1 .. k : Places(n, k)[j] =
              [block |-> seqs[n].block_table[((j - 1) \div BlockSize) + 1], slot |-> (j - 1) % BlockSize]
<1> DEFINE table == seqs[n].block_table
           P(j) == [block |-> table[((j - 1) \div BlockSize) + 1], slot |-> (j - 1) % BlockSize]
<1>0. table \in Seq(BlockId) /\ c <= Len(table) * BlockSize
  BY Zenon
<1>1. Places(n, k) = [j \in 1 .. k |-> P(j)]
  BY Zenon DEF Places
<1> HIDE DEF table
<1>2. ASSUME NEW j \in 1 .. k PROVE P(j) \in PlaceType
  <2>1. j \in 1 .. c /\ Len(table) \in Nat
    BY <1>0
  <2>2. ((j - 1) \div BlockSize) + 1 \in 1 .. Len(table) /\ (j - 1) % BlockSize \in Slot
    BY <1>0, <2>1, PlaceExists, Zenon
  <2>3. \A x \in 1 .. Len(table) : table[x] \in BlockId
    BY <1>0
  <2> QED
    BY <2>2, <2>3, Zenon DEF PlaceType
<1> HIDE DEF P
<1>3. [j \in 1 .. k |-> P(j)] \in Seq(PlaceType) /\ Len([j \in 1 .. k |-> P(j)]) = k
  BY <1>2
<1>4. \A j \in 1 .. k : [x \in 1 .. k |-> P(x)][j] = P(j)
  BY Zenon
<1> QED
  BY <1>1, <1>3, <1>4, Zenon DEF P, table

\* A concatenation is what has the elements of both, in order.
LEMMA ConcatIs ==
  ASSUME NEW S, NEW f \in Seq(S), NEW g \in Seq(S), NEW w \in Seq(S), Len(w) = Len(f) + Len(g),
         \A j \in 1 .. Len(f) : w[j] = f[j], \A k \in 1 .. Len(g) : w[Len(f) + k] = g[k]
  PROVE  f \o g = w
<1>1. f \o g \in Seq(S) /\ Len(f \o g) = Len(w)
  OBVIOUS
<1>2. ASSUME NEW j \in 1 .. Len(w) PROVE (f \o g)[j] = w[j]
  <2>1. CASE j <= Len(f)
    BY <2>1
  <2>2. CASE j > Len(f)
    <3>1. j - Len(f) \in 1 .. Len(g) /\ Len(f) + (j - Len(f)) = j
      BY <2>2
    <3>2. (f \o g)[j] = g[j - Len(f)]
      BY <2>2
    <3> QED
      BY <3>1, <3>2, Zenon
  <2> QED
    BY <2>1, <2>2
<1> QED
  BY <1>1, <1>2

\* How far iter_kv has come after k blocks.
Upto(n, k) == Least(k * BlockSize, seqs[n].token_count)

\* One turn of the loop of iter_kv yields the tokens of one more block: all of its
\* slots, or in the tail block as many as the sequence has.
LEMMA YieldsPlaces ==
  ASSUME Constants, PagedInv, HistoryInv, NEW n \in Live,
         NEW i \in 1 .. Len(seqs[n].block_table)
  PROVE  YieldBlock(n, Places(n, Upto(n, i - 1)), i) = Places(n, Upto(n, i))
<1> DEFINE table == seqs[n].block_table
           L == Len(table)
           c == seqs[n].token_count
           u == blocks[table[i]].used_slots
           h == (i - 1) * BlockSize
           take == Least(u, c - h)
           new == [k \in 1 .. take |-> [block |-> table[i], slot |-> k - 1]]
           before == Places(n, h)
<1>1. /\ table \in Seq(BlockId) /\ c \in Nat /\ Fits(L, c) /\ Stored(blocks, table, dense[n])
      /\ Len(dense[n]) = c
  BY Zenon DEF PagedInv, HistoryInv, SequenceState
<1>2. /\ BlockSize \in Nat \ {0} /\ L \in Nat /\ i \in 1 .. L /\ i - 1 \in Nat /\ table[i] \in BlockId
      /\ i \in DOMAIN table
  BY <1>1 DEF Constants
<1>3. u \in 0 .. BlockSize
  <2>1. blocks[table[i]] \in KVBlock
    BY <1>2, Zenon DEF PagedInv, PoolType, Pool
  <2>2. \A k \in KVBlock : k.used_slots \in 0 .. BlockSize
    BY Zenon DEF KVBlock
  <2> QED
    BY <2>1, <2>2, Zenon
<1>4. \A s \in Slot : h + s < c => s < u
  BY <1>1, <1>2, Zenon DEF Stored, At
<1> HIDE DEF table, L, c, u
<1>5. h \in Nat /\ h < c /\ i * BlockSize = h + BlockSize
  <2>1. ASSUME NEW B \in Nat \ {0}, NEW x \in Nat, NEW l \in Nat, l # 0 => (l - 1) * B < c, x < l, c \in Nat
        PROVE  x * B \in Nat /\ x * B < c /\ (x + 1) * B = x * B + B
    <3>1. x * B \in Nat /\ (x + 1) * B = x * B + B
      BY <2>1
    <3>2. PICK y \in Nat : l = x + 1 + y
      <4>1. l - x - 1 \in Nat /\ l = x + 1 + (l - x - 1)
        BY <2>1
      <4> QED
        BY <4>1, Zenon
    <3>3. (l - 1) * B = x * B + y * B /\ y * B \in Nat
      BY <3>2
    <3> QED
      BY <2>1, <3>1, <3>2, <3>3
  <2>2. (L # 0 => (L - 1) * BlockSize < c) /\ c \in Nat /\ i - 1 < L /\ (i - 1) + 1 = i
    BY <1>1, <1>2 DEF Fits
  <2>3. h \in Nat /\ h < c /\ ((i - 1) + 1) * BlockSize = h + BlockSize
    BY <1>2, <2>1, <2>2, Zenon
  <2> QED
    BY <2>2, <2>3, Zenon
<1> HIDE DEF h
<1>6. c \in Nat
  BY <1>1, Zenon
<1>7. take \in 0 .. BlockSize /\ h + take = Upto(n, i) /\ h = Upto(n, i - 1)
  <2>0. Upto(n, i) = Least(h + BlockSize, c) /\ Upto(n, i - 1) = Least(h, c)
    BY <1>5, Zenon DEF Upto, c, h
  <2>1. CASE c - h >= BlockSize
    <3>1. BlockSize - 1 \in Slot /\ h + (BlockSize - 1) < c
      BY <1>2, <1>5, <1>6, <2>1 DEF Slot
    <3>2. BlockSize - 1 < u
      BY <1>4, <3>1, Zenon
    <3> QED
      BY <1>2, <1>3, <1>5, <1>6, <2>0, <2>1, <3>2 DEF Least
  <2>2. CASE c - h < BlockSize
    <3>1. c - h - 1 \in Slot /\ h + (c - h - 1) < c
      BY <1>2, <1>5, <1>6, <2>2 DEF Slot
    <3>2. c - h - 1 < u
      BY <1>4, <3>1, Zenon
    <3> QED
      BY <1>2, <1>3, <1>5, <1>6, <2>0, <2>2, <3>2 DEF Least
  <2> QED
    BY <1>2, <1>5, <1>6, <2>1, <2>2
<1>8. h \in 0 .. c /\ h + take \in 0 .. c /\ take \in Nat /\ c <= L * BlockSize
  <2>1. c - h \in Int /\ take <= c - h
    BY <1>3, <1>5, <1>6 DEF Least
  <2>2. take \in Int /\ 0 <= take
    BY <1>2, <1>7
  <2> HIDE DEF take
  <2>3. h \in 0 .. c /\ h + take \in 0 .. c /\ take \in Nat
    BY <1>5, <1>6, <2>1, <2>2
  <2>4. c <= L * BlockSize
    BY <1>1, Zenon DEF Fits
  <2> QED
    BY <2>3, <2>4, Zenon
<1>9. /\ before \in Seq(PlaceType) /\ Len(before) = h
      /\ \A j \in 1 .. h : before[j] =
           [block |-> table[((j - 1) \div BlockSize) + 1], slot |-> (j - 1) % BlockSize]
  <2>1. /\ seqs[n].block_table \in Seq(BlockId) /\ c \in Nat
        /\ c <= Len(seqs[n].block_table) * BlockSize /\ h \in 0 .. c
    BY <1>1, <1>6, <1>8, Zenon DEF table, L
  <2> QED
    BY <2>1, PlacesFacts, Zenon DEF table
<1> DEFINE after == Places(n, h + take)
<1>10. /\ after \in Seq(PlaceType) /\ Len(after) = h + take
       /\ \A j \in 1 .. h + take : after[j] =
            [block |-> table[((j - 1) \div BlockSize) + 1], slot |-> (j - 1) % BlockSize]
  <2>1. /\ seqs[n].block_table \in Seq(BlockId) /\ c \in Nat
        /\ c <= Len(seqs[n].block_table) * BlockSize /\ h + take \in 0 .. c
    BY <1>1, <1>6, <1>8, Zenon DEF table, L
  <2> QED
    BY <2>1, PlacesFacts, Zenon DEF table
<1>11. YieldBlock(n, before, i) = before \o new
  <2>1. YieldBlock(n, before, i)
          = before \o [k \in 1 .. Least(u, c - Len(before)) |-> [block |-> table[i], slot |-> k - 1]]
    BY Zenon DEF YieldBlock, u, c, table
  <2> QED
    BY <1>9, <2>1, Zenon
<1> HIDE DEF take, before, after
<1>12. new \in Seq(PlaceType) /\ Len(new) = take /\ \A k \in 1 .. take : new[k] = [block |-> table[i], slot |-> k - 1]
  <2>1. ASSUME NEW k \in 1 .. take PROVE [block |-> table[i], slot |-> k - 1] \in PlaceType
    BY <1>2, <1>7, <1>8, <2>1 DEF PlaceType, Slot
  <2> QED
    BY <1>8, <2>1
<1> HIDE DEF new
<1>13. \A j \in 1 .. Len(before) : after[j] = before[j]
  <2>1. \A j \in 1 .. h : j \in 1 .. h + take
    BY <1>5, <1>8
  <2> QED
    BY <1>9, <1>10, <2>1, Zenon
<1>14. ASSUME NEW k \in 1 .. Len(new) PROVE after[Len(before) + k] = new[k]
  <2>1. /\ k \in 1 .. take /\ h + k \in 1 .. h + take /\ k - 1 \in Slot /\ (h + k) - 1 = h + (k - 1)
        /\ (i - 1) + 1 = i
    <3>1. k \in 1 .. take /\ take \in 0 .. BlockSize /\ BlockSize \in Nat \ {0} /\ h \in Nat /\ i \in Nat
      BY <1>2, <1>5, <1>7, <1>12
    <3> QED
      BY <3>1 DEF Slot
  <2>2. (h + (k - 1)) \div BlockSize = i - 1 /\ (h + (k - 1)) % BlockSize = k - 1
    BY <1>2, <2>1, PlaceOf, Zenon DEF h
  <2>3. after[h + k] = [block |-> table[(((h + k) - 1) \div BlockSize) + 1], slot |-> ((h + k) - 1) % BlockSize]
    BY <1>10, <2>1, Zenon
  <2>4. after[h + k] = [block |-> table[i], slot |-> k - 1]
    BY <2>1, <2>2, <2>3, Zenon
  <2> QED
    BY <1>9, <1>12, <2>1, <2>4, Zenon
<1>15. before \o new = after
  <2>1. Len(after) = Len(before) + Len(new)
    BY <1>9, <1>10, <1>12, Zenon
  <2> QED
    BY <1>9, <1>10, <1>12, <1>13, <1>14, <2>1, ConcatIs, Zenon
<1> QED
  BY <1>7, <1>11, <1>15, Zenon DEF before, after

-----------------------------------------------------------------------------
SameSlots(pool, other, b) == other[b].kv = pool[b].kv /\ other[b].used_slots = pool[b].used_slots

\* Blocks that stay as they are keep what they hold.
LEMMA StoredKept ==
  ASSUME NEW pool, NEW other, NEW table, NEW d, Stored(pool, table, d),
         \A p \in DOMAIN table : SameSlots(pool, other, table[p])
  PROVE  Stored(other, table, d)
  BY Zenon DEF Stored, SameSlots

\* Token tok is written to slot `slot` of block e, and nothing else of the pool
\* changes than that slot and the block's used_slots, which may grow.
Wrote(pool, other, e, slot, tok) ==
  /\ \A b \in BlockId \ {e} : other[b] = pool[b]
  /\ other[e].kv[slot] = tok /\ slot < other[e].used_slots
  /\ \A i \in Slot \ {slot} : other[e].kv[i] = pool[e].kv[i]
  /\ pool[e].used_slots <= other[e].used_slots
  /\ pool[e].used_slots \in Int /\ other[e].used_slots \in Int

\* A write to the slot of the next token adds it to the history.
LEMMA StoredWrite ==
  ASSUME Constants, NEW pool, NEW other, NEW table \in Seq(BlockId), table # << >>,
         IsInjective(table), NEW d \in Seq(Token), NEW slot \in Slot, NEW tok \in Token,
         Stored(pool, table, d), At(Len(table), slot) = Len(d),
         Wrote(pool, other, TailId(table), slot, tok)
  PROVE  Stored(other, table, Append(d, tok))
<1> DEFINE L == Len(table)
           f == Append(d, tok)
           e == TailId(table)
<1>0. /\ \A b \in BlockId \ {e} : other[b] = pool[b]
      /\ other[e].kv[slot] = tok /\ slot < other[e].used_slots
      /\ \A i \in Slot \ {slot} : other[e].kv[i] = pool[e].kv[i]
      /\ pool[e].used_slots <= other[e].used_slots
      /\ pool[e].used_slots \in Int /\ other[e].used_slots \in Int
  BY Zenon DEF Wrote
<1>1. /\ L \in Nat \ {0} /\ DOMAIN table = 1 .. L /\ \A p \in 1 .. L : table[p] \in BlockId /\ p \in Nat \ {0}
      /\ L \in 1 .. L /\ e = table[L]
  BY DEF TailId
<1>2. Len(d) \in Nat /\ Len(f) = Len(d) + 1 /\ f[Len(d) + 1] = tok /\ \A i \in 1 .. Len(d) : f[i] = d[i]
  OBVIOUS
<1> HIDE DEF L, e, f
<1>3. ASSUME NEW p \in 1 .. L, NEW s \in Slot, At(p, s) < Len(f)
      PROVE  s < other[table[p]].used_slots /\ other[table[p]].kv[s] = f[At(p, s) + 1]
  <2>1. At(p, s) \in Nat /\ s \in Int
    <3>1. p \in Nat \ {0}
      BY <1>1, Zenon
    <3>2. At(p, s) \in Nat
      BY <3>1, AtNat, Zenon
    <3> QED
      BY <3>2 DEF Slot, Constants
  <2>2. CASE At(p, s) = Len(d)
    <3>1. p = L /\ s = slot
      BY <1>1, <2>2, OnePlace, Zenon DEF L
    <3> QED
      BY <1>0, <1>1, <1>2, <2>2, <3>1, Zenon
  <2>3. CASE At(p, s) < Len(d)
    <3>1. s < pool[table[p]].used_slots /\ pool[table[p]].kv[s] = d[At(p, s) + 1]
      BY <1>1, <2>3, Zenon DEF Stored
    <3>2. f[At(p, s) + 1] = d[At(p, s) + 1]
      BY <1>2, <2>1, <2>3
    <3>3. CASE p # L
      <4>1. table[p] \in BlockId \ {e}
        BY <1>1, <3>3, Zenon DEF IsInjective
      <4> QED
        BY <1>0, <3>1, <3>2, <4>1, Zenon
    <3>4. CASE p = L
      <4>1. s # slot
        BY <1>2, <2>3, <3>4 DEF L
      <4>2. other[e].kv[s] = pool[e].kv[s] /\ table[p] = e
        BY <1>0, <1>1, <3>4, <4>1, Zenon
      <4>3. s < other[e].used_slots
        <5>1. /\ s \in Int /\ s < pool[e].used_slots /\ pool[e].used_slots <= other[e].used_slots
              /\ pool[e].used_slots \in Int /\ other[e].used_slots \in Int
          BY <1>0, <2>1, <3>1, <4>2, Zenon
        <5> QED
          BY <5>1
      <4> QED
        BY <3>1, <3>2, <4>2, <4>3, Zenon
    <3> QED
      BY <3>3, <3>4, Zenon
  <2> QED
    BY <1>2, <1>3, <2>1, <2>2, <2>3
<1> QED
  BY <1>1, <1>3, Zenon DEF Stored, f

-----------------------------------------------------------------------------
\* What append, popleft and table[-1] = id do to sequences without repetition.
LEMMA TailInTable ==
  ASSUME NEW table \in Seq(BlockId), table # << >> PROVE TailId(table) \in BlockId /\ Len(table) \in Nat \ {0}
  BY DEF TailId

\* table.append(id).
LEMMA AppendInjective ==
  ASSUME NEW S, NEW s \in Seq(S), NEW e \in S
  PROVE  /\ Append(s, e) \in Seq(S) /\ Append(s, e) # << >>
         /\ Range(Append(s, e)) = Range(s) \cup {e}
         /\ IsInjective(s) /\ e \notin Range(s) => IsInjective(Append(s, e))
<1> DEFINE t == Append(s, e)
<1>1. /\ Len(s) \in Nat /\ DOMAIN s = 1 .. Len(s) /\ DOMAIN t = 1 .. Len(s) + 1
      /\ t[Len(s) + 1] = e /\ \A i \in 1 .. Len(s) : t[i] = s[i]
      /\ t \in Seq(S) /\ t # << >>
  OBVIOUS
<1> HIDE DEF t
<1>2. \A x : x \in Range(t) <=> x \in Range(s) \cup {e}
  <2> SUFFICES ASSUME NEW x PROVE x \in Range(t) <=> x \in Range(s) \cup {e}
    BY Zenon
  <2>1. ASSUME NEW i \in DOMAIN t, x = t[i] PROVE x \in Range(s) \cup {e}
    BY <1>1, <2>1 DEF Range
  <2>2. Len(s) + 1 \in DOMAIN t /\ \A i \in DOMAIN s : i \in DOMAIN t /\ t[i] = s[i]
    BY <1>1
  <2> QED
    BY <1>1, <2>1, <2>2, Zenon DEF Range
<1>3. IsInjective(s) /\ e \notin Range(s) => IsInjective(t)
  BY <1>1 DEF Range, IsInjective
<1> QED
  BY <1>1, <1>2, <1>3, Zenon DEF t

\* free_block_ids.popleft().
LEMMA TailInjective ==
  ASSUME NEW S, NEW s \in Seq(S), s # << >>, IsInjective(s)
  PROVE  /\ Head(s) \in Range(s)
         /\ Range(Tail(s)) = Range(s) \ {Head(s)}
         /\ IsInjective(Tail(s))
<1>1. Tail(s) \in Seq(S) /\ Len(Tail(s)) = Len(s) - 1 /\ Len(s) > 0 /\ Head(s) = s[1]
  OBVIOUS
<1>2. \A i \in 1 .. Len(Tail(s)) : Tail(s)[i] = s[i + 1]
  OBVIOUS
<1>3. \A e : e \in Range(Tail(s)) <=> e \in Range(s) \ {Head(s)}
  <2> SUFFICES ASSUME NEW e PROVE e \in Range(Tail(s)) <=> e \in Range(s) \ {Head(s)}
    BY Zenon
  <2>1. ASSUME NEW i \in 1 .. Len(Tail(s)), e = Tail(s)[i] PROVE e \in Range(s) \ {Head(s)}
    BY <1>1, <1>2, <2>1 DEF Range, IsInjective
  <2>2. ASSUME NEW i \in 1 .. Len(s), e = s[i], e # Head(s) PROVE e = Tail(s)[i - 1] /\ i - 1 \in 1 .. Len(Tail(s))
    BY <1>1, <1>2, <2>2
  <2>3. DOMAIN s = 1 .. Len(s) /\ DOMAIN Tail(s) = 1 .. Len(Tail(s))
    BY <1>1
  <2> QED
    BY <2>1, <2>2, <2>3, Zenon DEF Range
<1>4. IsInjective(Tail(s))
  BY <1>1, <1>2 DEF IsInjective
<1>5. Head(s) \in Range(s)
  BY <1>1 DEF Range
<1> QED
  BY <1>3, <1>4, <1>5, Zenon

Replaces(S, s, e, t) ==
  /\ t \in Seq(S) /\ t # << >> /\ TailId(t) = e
  /\ TailId(s) \in Range(s)
  /\ Range(t) = (Range(s) \ {TailId(s)}) \cup {e}
  /\ IsInjective(t)

\* table[-1] = id.
LEMMA ReplaceInjective ==
  ASSUME NEW S, NEW s \in Seq(S), s # << >>, IsInjective(s), NEW e \in S, e \notin Range(s),
         NEW t, t = [s EXCEPT ![Len(s)] = e]
  PROVE  Replaces(S, s, e, t)
<1>1. Len(s) \in Nat \ {0} /\ DOMAIN t = 1 .. Len(s) /\ DOMAIN s = 1 .. Len(s)
  OBVIOUS
<1>2. t \in Seq(S) /\ Len(t) = Len(s) /\ t[Len(t)] = e
  BY <1>1
<1>3. \A i \in 1 .. Len(s) : t[i] = IF i = Len(s) THEN e ELSE s[i]
  OBVIOUS
<1>4. \A x : x \in Range(t) <=> x \in (Range(s) \ {TailId(s)}) \cup {e}
  BY <1>1, <1>3 DEF Range, IsInjective, TailId
<1>5. IsInjective(t)
  BY <1>1, <1>3 DEF Range, IsInjective
<1> QED
  BY <1>1, <1>2, <1>4, <1>5, Zenon DEF Range, TailId, Replaces

-----------------------------------------------------------------------------
\* What the calls of BlockPool do to the pool: each replaces a block.
Put(p, id, k, free) == [blocks |-> [p.blocks EXCEPT ![id] = k], free |-> free]

\* One block is replaced, the others stay.
LEMMA PutFacts ==
  ASSUME NEW p \in PoolType, NEW id \in BlockId, NEW k \in KVBlock,
         NEW free \in Seq(BlockId)
  PROVE  /\ Put(p, id, k, free) \in PoolType
         /\ Put(p, id, k, free).free = free /\ Put(p, id, k, free).blocks[id] = k
         /\ \A b \in BlockId \ {id} : Put(p, id, k, free).blocks[b] = p.blocks[b]
  BY Zenon DEF PoolType, Put

\* allocate_block() takes the head of the free queue and counts one reference.
LEMMA AllocateFacts ==
  ASSUME Constants, NEW p \in PoolType, p.free # << >>, NEW q, q = AllocateBlock(p)
  PROVE  /\ q \in PoolType /\ Head(p.free) \in BlockId
         /\ q.free = Tail(p.free)
         /\ q.blocks[Head(p.free)].ref_count = 1
         /\ \A b \in BlockId \ {Head(p.free)} : q.blocks[b] = p.blocks[b]
<1>1. Head(p.free) \in BlockId /\ Tail(p.free) \in Seq(BlockId)
  BY DEF PoolType
<1>2. ResetForAllocate \in KVBlock /\ ResetForAllocate.ref_count = 1
  <2>1. 0 \in 0 .. BlockSize /\ Empty \in [Slot -> Token \cup {NULL}]
    BY DEF Constants, Empty
  <2> QED
    BY <2>1 DEF ResetForAllocate, KVBlock
<1> DEFINE h == Head(p.free)
           k == ResetForAllocate
           rest == Tail(p.free)
<1>3. q = Put(p, h, k, rest)
  BY Zenon DEF AllocateBlock, Put
<1> HIDE DEF h, k, rest
<1>4. /\ q \in PoolType /\ q.free = rest /\ q.blocks[h] = k
      /\ \A b \in BlockId \ {h} : q.blocks[b] = p.blocks[b]
  <2>1. h \in BlockId /\ k \in KVBlock /\ rest \in Seq(BlockId)
    BY <1>1, <1>2, Zenon DEF h, k, rest
  <2> QED
    BY <1>3, <2>1, PutFacts
<1> QED
  BY <1>1, <1>2, <1>4, Zenon DEF h, k, rest

IsClone(p, src, h, q) ==
  /\ q \in PoolType /\ q.free = Tail(p.free)
  /\ q.blocks[h].ref_count = 1
  /\ q.blocks[h].used_slots = p.blocks[src].used_slots
  /\ \A i \in Slot : i < p.blocks[src].used_slots => q.blocks[h].kv[i] = p.blocks[src].kv[i]
  /\ \A b \in BlockId \ {h} : q.blocks[b] = p.blocks[b]

\* clone_block() allocates a block and copies the slots into it.
LEMMA CloneFacts ==
  ASSUME Constants, NEW p \in PoolType, p.free # << >>, NEW src \in BlockId
  PROVE  IsClone(p, src, Head(p.free), CloneBlock(p, src))
<1> SUFFICES ASSUME NEW q, q = CloneBlock(p, src) PROVE IsClone(p, src, Head(p.free), q)
  BY Zenon
<1> DEFINE a == AllocateBlock(p)
           s == p.blocks[src]
           dst == Head(p.free)
           kv == [i \in Slot |-> IF i < s.used_slots THEN s.kv[i] ELSE NULL]
           k == [a.blocks[dst] EXCEPT !.used_slots = s.used_slots, !.kv = kv]
<1>1. /\ a \in PoolType /\ dst \in BlockId
      /\ a.free = Tail(p.free)
      /\ a.blocks[dst].ref_count = 1
      /\ \A b \in BlockId \ {dst} : a.blocks[b] = p.blocks[b]
  BY AllocateFacts, Zenon
<1>2. /\ s \in KVBlock /\ kv \in [Slot -> Token \cup {NULL}]
      /\ \A i \in Slot : i < s.used_slots => kv[i] = s.kv[i]
  BY DEF PoolType, KVBlock
<1>3. q = [a EXCEPT !.blocks[dst].used_slots = s.used_slots, !.blocks[dst].kv = kv]
  BY Zenon DEF CloneBlock
<1> HIDE DEF a, s, dst, kv
<1>4. q = Put(a, dst, k, a.free)
  <2>1. a = [blocks |-> a.blocks, free |-> a.free] /\ a.blocks \in [BlockId -> KVBlock]
    BY <1>1, Zenon DEF PoolType
  <2>2. q = [blocks |-> [[a.blocks EXCEPT ![dst].used_slots = s.used_slots] EXCEPT ![dst].kv = kv],
             free |-> a.free]
    BY <1>3, <2>1, Zenon
  <2>3. [[a.blocks EXCEPT ![dst].used_slots = s.used_slots] EXCEPT ![dst].kv = kv] = [a.blocks EXCEPT ![dst] = k]
    BY <1>1, <2>1, Zenon
  <2> QED
    BY <2>2, <2>3, Zenon DEF Put
<1>5. k \in KVBlock /\ k.ref_count = 1 /\ k.used_slots = s.used_slots /\ k.kv = kv
  <2>1. a.blocks[dst] \in KVBlock
    BY <1>1, Zenon DEF PoolType
  <2> QED
    BY <1>1, <1>2, <2>1, Zenon DEF KVBlock
<1>6. a.free \in Seq(BlockId)
  BY <1>1, Zenon DEF PoolType
<1> HIDE DEF k
<1>7. /\ q \in PoolType /\ q.free = a.free /\ q.blocks[dst] = k
      /\ \A b \in BlockId \ {dst} : q.blocks[b] = a.blocks[b]
  <2>1. a \in PoolType /\ dst \in BlockId /\ k \in KVBlock
    BY <1>1, <1>5, Zenon
  <2> QED
    BY <1>4, <1>6, <2>1, PutFacts
<1>8. IsClone(p, src, dst, q)
  BY <1>1, <1>2, <1>5, <1>7, Zenon DEF IsClone, s
<1> QED
  BY <1>8, Zenon DEF dst

IsDecRef(p, id, q) ==
  /\ q \in PoolType /\ q.free = p.free
  /\ q.blocks[id].ref_count = p.blocks[id].ref_count - 1
  /\ q.blocks[id].used_slots = p.blocks[id].used_slots /\ q.blocks[id].kv = p.blocks[id].kv
  /\ \A b \in BlockId \ {id} : q.blocks[b] = p.blocks[b]

\* dec_ref() on a block that others hold too: it is not freed.
LEMMA DecRefFacts ==
  ASSUME NEW p \in PoolType, NEW id \in BlockId, p.blocks[id].ref_count # 1
  PROVE  IsDecRef(p, id, DecRef(p, id))
<1> SUFFICES ASSUME NEW q, q = DecRef(p, id) PROVE IsDecRef(p, id, q)
  BY Zenon
<1> DEFINE k == [p.blocks[id] EXCEPT !.ref_count = p.blocks[id].ref_count - 1]
<1>1. p.blocks[id] \in KVBlock /\ p.free \in Seq(BlockId)
  BY Zenon DEF PoolType
<1>2. /\ k \in KVBlock /\ k.ref_count = p.blocks[id].ref_count - 1 /\ k.ref_count # 0
      /\ k.used_slots = p.blocks[id].used_slots /\ k.kv = p.blocks[id].kv
  BY <1>1 DEF KVBlock
<1>3. q = Put(p, id, k, p.free)
  BY <1>1, <1>2, Zenon DEF Put, DecRef, PoolType, KVBlock
<1> HIDE DEF k
<1>4. /\ q \in PoolType /\ q.free = p.free /\ q.blocks[id] = k
      /\ \A b \in BlockId \ {id} : q.blocks[b] = p.blocks[b]
  BY <1>1, <1>2, <1>3, PutFacts
<1> QED
  BY <1>2, <1>4, Zenon DEF IsDecRef

IsWrite(p, id, slot, tok, q) ==
  /\ q \in PoolType /\ q.free = p.free
  /\ \A b \in BlockId : q.blocks[b].ref_count = p.blocks[b].ref_count
  /\ Wrote(p.blocks, q.blocks, id, slot, tok)

\* KVBlock.write() changes one slot and raises used_slots to it.
LEMMA WriteFacts ==
  ASSUME Constants, NEW p \in PoolType, NEW id \in BlockId, NEW slot \in Slot, NEW tok \in Token
  PROVE  IsWrite(p, id, slot, tok, Write(p, id, slot, tok))
<1> SUFFICES ASSUME NEW q, q = Write(p, id, slot, tok) PROVE IsWrite(p, id, slot, tok, q)
  BY Zenon
<1> DEFINE k == p.blocks[id]
           kv == [k.kv EXCEPT ![slot] = tok]
           used == IF slot + 1 > k.used_slots THEN slot + 1 ELSE k.used_slots
           w == [k EXCEPT !.kv = kv, !.used_slots = used]
<1>1. k \in KVBlock /\ slot \in Nat /\ slot + 1 <= BlockSize /\ p.free \in Seq(BlockId)
  BY DEF PoolType, Slot, Constants
<1>2. /\ kv \in [Slot -> Token \cup {NULL}]
      /\ kv[slot] = tok /\ \A i \in Slot \ {slot} : kv[i] = k.kv[i]
      /\ used \in 0 .. BlockSize /\ slot < used /\ k.used_slots <= used
      /\ used \in Int /\ k.used_slots \in Int
  <2>1. k.kv \in [Slot -> Token \cup {NULL}] /\ k.used_slots \in 0 .. BlockSize
    BY <1>1, Zenon DEF KVBlock
  <2> HIDE DEF k
  <2>2. /\ kv \in [Slot -> Token \cup {NULL}]
        /\ kv[slot] = tok /\ \A i \in Slot \ {slot} : kv[i] = k.kv[i]
    BY <2>1, Zenon
  <2>3. used \in 0 .. BlockSize /\ slot < used /\ k.used_slots <= used /\ used \in Int /\ k.used_slots \in Int
    BY <1>1, <2>1 DEF Constants
  <2> QED
    BY <2>2, <2>3, Zenon
<1>3. q = Put(p, id, w, p.free)
  BY Zenon DEF Put, Write, PoolType, KVBlock
<1> HIDE DEF kv, used, k
<1>4. w \in KVBlock /\ w.ref_count = k.ref_count /\ w.kv = kv /\ w.used_slots = used
  BY <1>1, <1>2, Zenon DEF KVBlock
<1> HIDE DEF w
<1>5. /\ q \in PoolType /\ q.free = p.free /\ q.blocks[id] = w
      /\ \A b \in BlockId \ {id} : q.blocks[b] = p.blocks[b]
  BY <1>1, <1>3, <1>4, PutFacts
<1>6. Wrote(p.blocks, q.blocks, id, slot, tok)
  BY <1>2, <1>4, <1>5, Zenon DEF Wrote, k
<1>7. \A b \in BlockId : q.blocks[b].ref_count = p.blocks[b].ref_count
  BY <1>4, <1>5, Zenon DEF k
<1> QED
  BY <1>5, <1>6, <1>7, Zenon DEF IsWrite

-----------------------------------------------------------------------------
INSTANCE FiniteSetTheorems

\* The sequences that hold a block are finitely many.
LEMMA SharingFinite ==
  ASSUME PagedInv, NEW b
  PROVE  /\ IsFiniteSet(Sharing(b)) /\ Cardinality(Sharing(b)) \in Nat
         /\ Cardinality(Sharing(b)) = 0 <=> Sharing(b) = {}
<1>1. Sharing(b) \subseteq Live /\ IsFiniteSet(Live)
  BY Zenon DEF Sharing, PagedInv
<1>2. IsFiniteSet(Sharing(b))
  BY <1>1, FS_Subset, Zenon
<1> QED
  BY <1>2, FS_CardinalityType, FS_EmptySet, Zenon

\* The sequences that hold a block once the table of n is T.
SharingWith(n, T, b) ==
  IF b \in Range(T) THEN Sharing(b) \cup {n} ELSE Sharing(b) \ {n}

\* The next free block is in no table.
LEMMA FreeIsUnused ==
  ASSUME PagedInv, free_block_ids # << >>, NEW h, h = Head(free_block_ids)
  PROVE  /\ h \in BlockId /\ Sharing(h) = {}
         /\ Range(Tail(free_block_ids)) = Range(free_block_ids) \ {h}
         /\ IsInjective(Tail(free_block_ids))
<1>1. free_block_ids \in Seq(BlockId)
  BY Zenon DEF PagedInv, Pool, PoolType
<1>2. /\ h \in Range(free_block_ids)
      /\ Range(Tail(free_block_ids)) = Range(free_block_ids) \ {h}
      /\ IsInjective(Tail(free_block_ids))
  BY <1>1, TailInjective, Zenon DEF PagedInv
<1>3. h \in BlockId /\ blocks[h].ref_count = 0
  BY <1>2, Zenon DEF PagedInv
<1>4. Cardinality(Sharing(h)) = 0
  BY <1>3, Zenon DEF PagedInv
<1> QED
  BY <1>2, <1>3, <1>4, SharingFinite, Zenon

\* A pool and a table that append() may write to: the counts are those of the
\* sequences with the new table.
Settled(n, t) ==
  /\ t.pool \in PoolType
  /\ t.table \in Seq(BlockId) /\ t.table # << >> /\ IsInjective(t.table)
  /\ \A b \in BlockId : t.pool.blocks[b].ref_count = Cardinality(SharingWith(n, t.table, b))
  /\ Range(t.pool.free) = {b \in BlockId : t.pool.blocks[b].ref_count = 0}
  /\ IsInjective(t.pool.free)

\* The table grows by a fresh block: the counts fit the new table.
LEMMA NewBlockSettled ==
  ASSUME Constants, PagedInv, NEW n \in Live, free_block_ids # << >>,
         NEW t, t = [pool |-> AllocateBlock(Pool),
                     table |-> Append(seqs[n].block_table, Head(free_block_ids))]
  PROVE  Settled(n, t)
<1> DEFINE h == Head(free_block_ids)
           table == seqs[n].block_table
           q == AllocateBlock(Pool)
<1>1. /\ h \in BlockId /\ Sharing(h) = {}
      /\ Range(Tail(free_block_ids)) = Range(free_block_ids) \ {h}
      /\ IsInjective(Tail(free_block_ids))
  BY FreeIsUnused, Zenon
<1>2. Pool \in PoolType /\ Pool.free = free_block_ids /\ Pool.blocks = blocks
  BY Zenon DEF PagedInv, Pool
<1>3. /\ q \in PoolType /\ q.free = Tail(free_block_ids)
      /\ q.blocks[h].ref_count = 1
      /\ \A b \in BlockId \ {h} : q.blocks[b] = blocks[b]
  <2> HIDE DEF q
  <2> QED
    BY <1>2, AllocateFacts, Zenon DEF q
<1>4. table \in Seq(BlockId) /\ IsInjective(table)
  BY Zenon DEF PagedInv, SequenceState
<1>5. \A b : b \in Range(table) <=> n \in Sharing(b)
  BY Zenon DEF Sharing
<1> HIDE DEF h, table, q
<1>6. t.pool = q /\ t.table = Append(table, h)
  BY Zenon DEF h, table, q
<1>7. Append(table, h) \in Seq(BlockId) /\ Append(table, h) # << >>
  BY <1>1, <1>4, AppendInjective, Zenon
<1>8. Range(Append(table, h)) = Range(table) \cup {h} /\ IsInjective(Append(table, h))
  <2>1. h \notin Range(table)
    BY <1>1, <1>5, Zenon
  <2>2. Range(Append(table, h)) = Range(table) \cup {h}
    BY <1>1, <1>4, AppendInjective
  <2>3. IsInjective(table) /\ h \notin Range(table) => IsInjective(Append(table, h))
    BY <1>1, <1>4, AppendInjective, Zenon
  <2> QED
    BY <1>4, <2>1, <2>2, <2>3, Zenon
<1>9. SharingWith(n, t.table, h) = {n} /\ Cardinality({n}) = 1
  BY <1>1, <1>6, <1>8, FS_Singleton, Zenon DEF SharingWith
<1>10. ASSUME NEW b \in BlockId \ {h} PROVE SharingWith(n, t.table, b) = Sharing(b)
  BY <1>5, <1>6, <1>8, Zenon DEF SharingWith
<1>11. ASSUME NEW b \in BlockId PROVE q.blocks[b].ref_count = Cardinality(SharingWith(n, t.table, b))
  BY <1>3, <1>9, <1>10, Zenon DEF PagedInv
<1>12. Range(q.free) = {b \in BlockId : q.blocks[b].ref_count = 0}
  BY <1>1, <1>3 DEF PagedInv
<1> QED
  BY <1>1, <1>3, <1>6, <1>7, <1>8, <1>11, <1>12, Zenon DEF Settled

\* A shared tail block is copied: the counts fit the new table.
LEMMA CopySettled ==
  ASSUME Constants, PagedInv, NEW n \in Live, free_block_ids # << >>,
         NEW table, table = seqs[n].block_table, table # << >>,
         NEW last, last = TailId(table), blocks[last].ref_count > 1,
         NEW t, t = [pool |-> DecRef(CloneBlock(Pool, last), last),
                     table |-> [table EXCEPT ![Len(table)] = Head(free_block_ids)]]
  PROVE  Settled(n, t)
<1> DEFINE h == Head(free_block_ids)
           c == CloneBlock(Pool, last)
           q == DecRef(c, last)
           T == [table EXCEPT ![Len(table)] = h]
<1>1. /\ h \in BlockId /\ Sharing(h) = {}
      /\ Range(Tail(free_block_ids)) = Range(free_block_ids) \ {h}
      /\ IsInjective(Tail(free_block_ids))
  BY FreeIsUnused, Zenon
<1>2. Pool \in PoolType /\ Pool.free = free_block_ids /\ Pool.blocks = blocks
  BY Zenon DEF PagedInv, Pool
<1>3. table \in Seq(BlockId) /\ IsInjective(table)
  BY Zenon DEF PagedInv, SequenceState
<1>4. \A b : b \in Range(table) <=> n \in Sharing(b)
  BY Zenon DEF Sharing
<1>5. h \notin Range(table)
  BY <1>1, <1>4, Zenon
<1> HIDE DEF h
<1>6. /\ T \in Seq(BlockId) /\ T # << >> /\ IsInjective(T)
      /\ last \in Range(table)
      /\ Range(T) = (Range(table) \ {last}) \cup {h}
  <2>1. Replaces(BlockId, table, h, T)
    BY <1>1, <1>3, <1>5, ReplaceInjective, Zenon
  <2> QED
    BY <2>1, Zenon DEF Replaces
<1>7. last \in BlockId /\ last # h /\ n \in Sharing(last)
  <2>1. last \in BlockId
    BY <1>3, <1>6 DEF Range
  <2> QED
    BY <1>4, <1>5, <1>6, <2>1, Zenon
<1>8. /\ c \in PoolType /\ c.free = Tail(free_block_ids)
      /\ c.blocks[h].ref_count = 1
      /\ \A b \in BlockId \ {h} : c.blocks[b] = blocks[b]
  <2>1. Head(Pool.free) = h /\ Pool.free # << >>
    BY <1>2, Zenon DEF h
  <2>2. IsClone(Pool, last, Head(Pool.free), c)
    BY <1>2, <1>7, <2>1, CloneFacts, Zenon
  <2> HIDE DEF c
  <2> QED
    BY <1>2, <2>1, <2>2, Zenon DEF IsClone
<1>9. /\ q \in PoolType /\ q.free = Tail(free_block_ids)
      /\ q.blocks[last].ref_count = blocks[last].ref_count - 1
      /\ \A b \in BlockId \ {last} : q.blocks[b] = c.blocks[b]
  <2>1. c.blocks[last] = blocks[last] /\ c.blocks[last].ref_count # 1
    <3>1. c.blocks[last] = blocks[last]
      BY <1>7, <1>8, Zenon
    <3> QED
      BY <3>1
  <2> HIDE DEF c
  <2>2. IsDecRef(c, last, q)
    BY <1>7, <1>8, <2>1, DecRefFacts, Zenon
  <2> HIDE DEF q
  <2> QED
    BY <1>8, <2>1, <2>2, Zenon DEF IsDecRef
<1> HIDE DEF c, q
<1>10. t.pool = q /\ t.table = T
  BY Zenon DEF q, c, h
<1> HIDE DEF T
<1>11. SharingWith(n, T, h) = {n} /\ Cardinality({n}) = 1
  BY <1>1, <1>6, FS_Singleton, Zenon DEF SharingWith
<1>12. SharingWith(n, T, last) = Sharing(last) \ {n}
  BY <1>6, <1>7, Zenon DEF SharingWith
<1>13. Cardinality(Sharing(last) \ {n}) = Cardinality(Sharing(last)) - 1
  BY <1>7, SharingFinite, FS_RemoveElement, Zenon
<1>14. ASSUME NEW b \in BlockId \ {h, last} PROVE SharingWith(n, T, b) = Sharing(b)
  BY <1>4, <1>6 DEF SharingWith
<1>15. ASSUME NEW b \in BlockId PROVE q.blocks[b].ref_count = Cardinality(SharingWith(n, T, b))
  <2>1. \A d \in BlockId : blocks[d].ref_count = Cardinality(Sharing(d))
    BY Zenon DEF PagedInv
  <2>2. CASE b = h
    BY <1>1, <1>7, <1>8, <1>9, <1>11, <2>2, Zenon
  <2>3. CASE b = last
    BY <1>7, <1>9, <1>12, <1>13, <2>1, <2>3, Zenon
  <2>4. CASE b \notin {h, last}
    BY <1>8, <1>9, <1>14, <2>1, <2>4, Zenon
  <2> QED
    BY <2>2, <2>3, <2>4, Zenon
<1>16. Range(q.free) = {b \in BlockId : q.blocks[b].ref_count = 0}
  <2>1. q.blocks[h].ref_count = 1 /\ q.blocks[last].ref_count # 0 /\ blocks[last].ref_count # 0
    <3>1. blocks[last].ref_count \in Int
      BY <1>2, <1>7, Zenon DEF PoolType, KVBlock
    <3>2. q.blocks[last].ref_count = blocks[last].ref_count - 1 /\ q.blocks[h].ref_count = 1
      BY <1>1, <1>7, <1>8, <1>9, Zenon
    <3> QED
      BY <3>1, <3>2
  <2>2. \A b \in BlockId \ {h, last} : q.blocks[b] = blocks[b]
    BY <1>8, <1>9, Zenon
  <2>3. Range(q.free) = {b \in BlockId : blocks[b].ref_count = 0} \ {h}
    BY <1>1, <1>9, Zenon DEF PagedInv
  <2>4. ASSUME NEW b \in BlockId
        PROVE  (blocks[b].ref_count = 0 /\ b # h) <=> q.blocks[b].ref_count = 0
    BY <2>1, <2>2
  <2> QED
    BY <2>3, <2>4, Zenon
<1> QED
  BY <1>1, <1>6, <1>9, <1>10, <1>15, <1>16, Zenon DEF Settled

\* A tail block of its own: nothing changes.
LEMMA TailSettled ==
  ASSUME PagedInv, NEW n \in Live, seqs[n].block_table # << >>,
         NEW t, t = [pool |-> Pool, table |-> seqs[n].block_table]
  PROVE  Settled(n, t)
<1>1. t.pool = Pool /\ t.pool.blocks = blocks /\ t.pool.free = free_block_ids
      /\ t.table = seqs[n].block_table
  BY Zenon DEF Pool
<1>2. seqs[n] \in SequenceState /\ IsInjective(seqs[n].block_table)
  BY Zenon DEF PagedInv
<1>3. ASSUME NEW b PROVE SharingWith(n, t.table, b) = Sharing(b)
  BY <1>1, Zenon DEF SharingWith, Sharing
<1> QED
  BY <1>1, <1>2, <1>3, Zenon DEF Settled, PagedInv, SequenceState

-----------------------------------------------------------------------------
\* The pool starts with every block free and no sequence.
LEMMA PagedInitInv == Constants /\ Init => PagedInv
<1> SUFFICES ASSUME Constants, Init PROVE PagedInv
  BY Zenon
<1>1. /\ blocks \in [BlockId -> KVBlock]
      /\ \A b \in BlockId : blocks[b].ref_count = 0
  BY DEF Init, Empty, Constants, KVBlock
<1>2. /\ free_block_ids \in Seq(BlockId)
      /\ Range(free_block_ids) = BlockId
      /\ IsInjective(free_block_ids)
  <2>1. \A i \in 1 .. NumBlocks : i - 1 \in BlockId
    BY DEF Constants, BlockId
  <2>2. \A b \in BlockId : b + 1 \in 1 .. NumBlocks /\ (b + 1) - 1 = b
    BY DEF Constants, BlockId
  <2>3. DOMAIN free_block_ids = 1 .. NumBlocks /\ \A i \in 1 .. NumBlocks : free_block_ids[i] = i - 1
    BY Zenon DEF Init
  <2>4. free_block_ids \in Seq(BlockId)
    BY <2>1 DEF Init, Constants
  <2>5. Range(free_block_ids) = BlockId
    <3>1. \A b : b \in BlockId <=> \E i \in 1 .. NumBlocks : free_block_ids[i] = b
      BY <2>1, <2>2, <2>3, Zenon
    <3> QED
      BY <2>3, <3>1, Zenon DEF Range
  <2>6. \A i, j \in 1 .. NumBlocks : i - 1 = j - 1 => i = j
    OBVIOUS
  <2> QED
    BY <2>3, <2>4, <2>5, <2>6, Zenon DEF IsInjective
<1>3. Live = {}
  BY DEF Init, Live
<1>4. \A b : Sharing(b) = {} /\ Cardinality({}) = 0 /\ IsFiniteSet({})
  BY <1>3, FS_EmptySet, Zenon DEF Sharing
<1>5. Pool \in PoolType
  BY <1>1, <1>2, Zenon DEF Pool, PoolType
<1> QED
  BY <1>1, <1>2, <1>3, <1>4, <1>5, Zenon DEF PagedInv

\* A new sequence n with a table of its own: it shares what the table holds.
LEMMA SharingAfterExtend ==
  ASSUME PagedInv, NEW n, n \notin Live, NEW st \in SequenceState,
         seqs' = Extend(seqs, n, st)
  PROVE  /\ Live' = Live \cup {n} /\ IsFiniteSet(Live')
         /\ seqs'[n] = st /\ \A m \in Live : seqs'[m] = seqs[m]
         /\ \A b : Sharing(b)' = IF b \in Range(st.block_table) THEN Sharing(b) \cup {n} ELSE Sharing(b)
<1>1. Live' = Live \cup {n} /\ seqs'[n] = st /\ \A m \in Live : seqs'[m] = seqs[m]
  BY Zenon DEF Extend, Live
<1>2. IsFiniteSet(Live')
  BY <1>1, FS_AddElement, Zenon DEF PagedInv
<1>3. ASSUME NEW b
      PROVE  Sharing(b)' = IF b \in Range(st.block_table) THEN Sharing(b) \cup {n} ELSE Sharing(b)
  <2>1. Sharing(b)' = {m \in Live' : b \in Range(seqs'[m].block_table)}
    BY Zenon DEF Sharing
  <2>2. n \notin Sharing(b)
    BY Zenon DEF Sharing
  <2> QED
    BY <1>1, <2>1, <2>2, Zenon DEF Sharing
<1> QED
  BY <1>1, <1>2, <1>3, Zenon

\* create_sequence().
LEMMA CreateKeeps == ASSUME PagedInv, NEW n, CreateSequence(n) PROVE PagedInv'
<1> DEFINE st == [block_table |-> << >>, token_count |-> 0]
<1>1. st \in SequenceState /\ IsInjective(st.block_table) /\ Range(st.block_table) = {}
  BY DEF SequenceState, IsInjective, Range
<1>2. n \notin Live /\ seqs' = Extend(seqs, n, st) /\ UNCHANGED <<blocks, free_block_ids>>
  BY Zenon DEF CreateSequence
<1>3. st.block_table = << >> /\ st.token_count = 0
  BY Zenon
<1> HIDE DEF st
<1>4. /\ Live' = Live \cup {n} /\ IsFiniteSet(Live')
      /\ seqs'[n] = st /\ \A m \in Live : seqs'[m] = seqs[m]
      /\ \A b : Sharing(b)' = Sharing(b)
  BY <1>1, <1>2, SharingAfterExtend, Zenon
<1>5. Pool' = Pool
  BY <1>2, Zenon DEF Pool
<1> QED
  BY <1>1, <1>2, <1>3, <1>4, <1>5, Zenon DEF PagedInv

\* fork(): every block of the parent gains the reference of the child.
LEMMA ForkKeeps ==
  ASSUME PagedInv, NEW parent, NEW child, Fork(parent, child) PROVE PagedInv'
<1> DEFINE st == seqs[parent]
           ids == Range(st.block_table)
<1>1. /\ parent \in Live /\ child \notin Live
      /\ seqs' = Extend(seqs, child, st) /\ free_block_ids' = free_block_ids
      /\ blocks' = IncRef(Pool, ids).blocks
  BY Zenon DEF Fork
<1>2. /\ st \in SequenceState /\ IsInjective(st.block_table)
      /\ st.block_table = << >> => st.token_count = 0
  BY <1>1, Zenon DEF PagedInv
<1>3. blocks \in [BlockId -> KVBlock] /\ free_block_ids \in Seq(BlockId)
  BY Zenon DEF PagedInv, PoolType, Pool
<1>4. blocks' = [b \in BlockId |->
        IF b \in ids THEN [blocks[b] EXCEPT !.ref_count = blocks[b].ref_count + 1] ELSE blocks[b]]
  BY <1>1, Zenon DEF IncRef, Pool
<1> HIDE DEF st, ids
<1>5. /\ blocks' \in [BlockId -> KVBlock]
      /\ \A b \in BlockId : blocks'[b].ref_count = IF b \in ids THEN blocks[b].ref_count + 1 ELSE blocks[b].ref_count
  <2>1. ASSUME NEW k \in KVBlock
        PROVE  /\ [k EXCEPT !.ref_count = k.ref_count + 1] \in KVBlock
               /\ [k EXCEPT !.ref_count = k.ref_count + 1].ref_count = k.ref_count + 1
    BY DEF KVBlock
  <2> QED
    BY <1>3, <1>4, <2>1, Zenon
<1>6. /\ Live' = Live \cup {child} /\ IsFiniteSet(Live')
      /\ seqs'[child] = st /\ \A m \in Live : seqs'[m] = seqs[m]
      /\ \A b : Sharing(b)' = IF b \in ids THEN Sharing(b) \cup {child} ELSE Sharing(b)
  BY <1>1, <1>2, SharingAfterExtend, Zenon DEF ids
<1>7. \A b : child \notin Sharing(b) /\ (b \in ids => Sharing(b) # {})
  BY <1>1, Zenon DEF Sharing, ids, st
<1>8. ASSUME NEW b \in BlockId
      PROVE  /\ blocks'[b].ref_count = Cardinality(Sharing(b)')
             /\ blocks'[b].ref_count = 0 <=> blocks[b].ref_count = 0
  <2>1. blocks[b].ref_count = Cardinality(Sharing(b))
    BY Zenon DEF PagedInv
  <2>2. CASE b \notin ids
    BY <1>5, <1>6, <2>1, <2>2, Zenon
  <2>3. CASE b \in ids
    <3>1. Cardinality(Sharing(b) \cup {child}) = Cardinality(Sharing(b)) + 1
      BY <1>7, SharingFinite, FS_AddElement, Zenon
    <3>2. Cardinality(Sharing(b)) \in Nat /\ Cardinality(Sharing(b)) # 0
      BY <1>7, <2>3, SharingFinite, Zenon
    <3>3. Sharing(b)' = Sharing(b) \cup {child} /\ blocks'[b].ref_count = blocks[b].ref_count + 1
      BY <1>5, <1>6, <2>3, Zenon
    <3>4. Cardinality(Sharing(b)') = Cardinality(Sharing(b)) + 1
      BY <3>1, <3>3, Zenon
    <3>5. blocks'[b].ref_count = blocks[b].ref_count + 1 /\ blocks[b].ref_count = Cardinality(Sharing(b))
      BY <2>1, <3>3, Zenon
    <3> QED
      BY <3>2, <3>4, <3>5
  <2> QED
    BY <2>2, <2>3, Zenon
<1>9. Pool' \in PoolType
  BY <1>1, <1>3, <1>5, Zenon DEF Pool, PoolType
<1>10. Range(free_block_ids') = {b \in BlockId : blocks'[b].ref_count = 0}
  BY <1>1, <1>8, Zenon DEF PagedInv
<1>11. ASSUME NEW m \in Live'
       PROVE  /\ seqs'[m] \in SequenceState
              /\ IsInjective(seqs'[m].block_table)
              /\ seqs'[m].block_table = << >> => seqs'[m].token_count = 0
  BY <1>2, <1>6, Zenon DEF PagedInv
<1> QED
  BY <1>1, <1>6, <1>8, <1>9, <1>10, <1>11, Zenon DEF PagedInv

\* What append() settles before it writes.
LEMMA TailBlockSettled ==
  ASSUME Constants, PagedInv, NEW n \in Live, NEW cow,
         AtBoundary(n) \/ CopiesTail(n, cow) => free_block_ids # << >>
  PROVE  Settled(n, TailBlock(n, cow))
<1> DEFINE table == seqs[n].block_table
           t == TailBlock(n, cow)
<1>1. CASE AtBoundary(n)
  <2>1. t = [pool |-> AllocateBlock(Pool), table |-> Append(table, Head(free_block_ids))]
    BY <1>1, Zenon DEF TailBlock, CopiesTail
  <2> QED
    BY <1>1, <2>1, NewBlockSettled, Zenon
<1>2. ASSUME ~AtBoundary(n) PROVE table # << >>
  <2>1. 0 % BlockSize = 0
    BY DEF Constants
  <2> QED
    BY <1>2, <2>1, Zenon DEF AtBoundary, PagedInv
<1>3. CASE CopiesTail(n, cow)
  <2>1. t = [pool |-> DecRef(CloneBlock(Pool, TailId(table)), TailId(table)),
             table |-> [table EXCEPT ![Len(table)] = Head(free_block_ids)]]
    BY <1>3, Zenon DEF TailBlock, CopiesTail
  <2>2. table # << >> /\ blocks[TailId(table)].ref_count > 1
    BY <1>2, <1>3, Zenon DEF CopiesTail
  <2> HIDE DEF t, table
  <2>3. Settled(n, t)
    BY <1>3, <2>1, <2>2, CopySettled, Zenon DEF table
  <2> QED
    BY <2>3, Zenon DEF t
<1>4. CASE ~AtBoundary(n) /\ ~CopiesTail(n, cow)
  <2>1. t = [pool |-> Pool, table |-> table]
    BY <1>4, Zenon DEF TailBlock
  <2> QED
    BY <1>2, <1>4, <2>1, TailSettled, Zenon
<1> QED
  BY <1>1, <1>3, <1>4, Zenon

\* append(): the tail block is settled, then written.
LEMMA AppendKeeps ==
  ASSUME Constants, PagedInv, NEW n, NEW tok \in Token, NEW cow,
         AppendToken(n, tok, cow)
  PROVE  PagedInv'
<1> DEFINE t == TailBlock(n, cow)
           slot == seqs[n].token_count % BlockSize
           p == Write(t.pool, TailId(t.table), slot, tok)
           st == [block_table |-> t.table, token_count |-> seqs[n].token_count + 1]
<1>1. /\ n \in Live
      /\ AtBoundary(n) \/ CopiesTail(n, cow) => free_block_ids # << >>
      /\ blocks' = p.blocks /\ free_block_ids' = p.free
      /\ seqs' = [seqs EXCEPT ![n] = st]
  BY Zenon DEF AppendToken, TakesBlock
<1>2. Settled(n, t)
  BY <1>1, TailBlockSettled, Zenon
<1>3. seqs[n] \in SequenceState /\ seqs[n].token_count \in Nat
  BY <1>1, Zenon DEF PagedInv, SequenceState
<1>4. slot \in Slot
  BY <1>3, SlotOfToken, Zenon
<1> HIDE DEF t, slot
<1>5. TailId(t.table) \in BlockId
  BY <1>2, TailInTable, Zenon DEF Settled
<1>6. /\ p \in PoolType /\ p.free = t.pool.free
      /\ \A b \in BlockId : p.blocks[b].ref_count = t.pool.blocks[b].ref_count
  <2>1. t.pool \in PoolType
    BY <1>2, Zenon DEF Settled
  <2>2. IsWrite(t.pool, TailId(t.table), slot, tok, p)
    BY <1>4, <1>5, <2>1, WriteFacts, Zenon
  <2> HIDE DEF p
  <2> QED
    BY <2>2, Zenon DEF IsWrite
<1> HIDE DEF p
<1>7. /\ st \in SequenceState /\ st.block_table = t.table
      /\ IsInjective(st.block_table) /\ st.block_table # << >>
  BY <1>2, <1>3 DEF Settled, SequenceState
<1> HIDE DEF st
<1>8. Live' = Live /\ seqs'[n] = st /\ \A m \in Live \ {n} : seqs'[m] = seqs[m]
  BY <1>1, Zenon DEF Live
<1>9. ASSUME NEW b PROVE Sharing(b)' = SharingWith(n, t.table, b)
  <2>1. Sharing(b)' = {m \in Live : b \in Range(seqs'[m].block_table)}
    BY <1>8, Zenon DEF Sharing
  <2> QED
    BY <1>1, <1>7, <1>8, <2>1, Zenon DEF Sharing, SharingWith
<1>10. Pool' \in PoolType
  BY <1>1, <1>6, Zenon DEF Pool, PoolType
<1>11. \A b \in BlockId : blocks'[b].ref_count = Cardinality(Sharing(b)')
  BY <1>1, <1>2, <1>6, <1>9, Zenon DEF Settled
<1>12. /\ Range(free_block_ids') = {b \in BlockId : blocks'[b].ref_count = 0}
       /\ IsInjective(free_block_ids')
  BY <1>1, <1>2, <1>6, Zenon DEF Settled
<1>13. ASSUME NEW m \in Live'
       PROVE  /\ seqs'[m] \in SequenceState
              /\ IsInjective(seqs'[m].block_table)
              /\ seqs'[m].block_table = << >> => seqs'[m].token_count = 0
  BY <1>7, <1>8, Zenon DEF PagedInv
<1> QED
  BY <1>8, <1>10, <1>11, <1>12, <1>13, Zenon DEF PagedInv

\* Every step keeps the counts.
LEMMA PagedStep ==
  ASSUME Constants, PagedInv, [Next]_(vars) PROVE PagedInv'
<1>1. CASE UNCHANGED vars
  <2>1. UNCHANGED <<blocks, free_block_ids, seqs>>
    BY <1>1, Zenon DEF vars
  <2>2. Pool' = Pool /\ Live' = Live /\ \A b : Sharing(b)' = Sharing(b)
    BY <2>1, Zenon DEF Pool, Live, Sharing
  <2> QED
    BY <2>1, <2>2, Zenon DEF PagedInv
<1> QED
  BY <1>1, CreateKeeps, ForkKeeps, AppendKeeps, Zenon DEF Next, AppendRaises

\* However sequences are forked and appended to, with or without copy-on-write
\* and also when the pool runs out of blocks, ref_count is the number of sequences
\* whose table holds the block, and the free queue has the others, each once.
THEOREM BlocksAreCounted == ASSUME Constants PROVE Spec => []RefCountExact
<1>1. PagedInv => RefCountExact
  BY Zenon DEF PagedInv, Sharing, RefCountExact
<1> QED
  BY <1>1, PagedInitInv, PagedStep, PTL DEF Spec

-----------------------------------------------------------------------------
\* What append() has made ready for its write: the table ends in a block no other
\* sequence has, and holds the history.
Ready(n, t) ==
  /\ Stored(t.pool.blocks, t.table, dense[n])
  /\ At(Len(t.table), seqs[n].token_count % BlockSize) = seqs[n].token_count
  /\ \A m \in Live \ {n} : TailId(t.table) \notin Range(seqs[m].block_table)
  /\ \A b \in BlockId \ {TailId(t.table)} : SameSlots(blocks, t.pool.blocks, b)

\* A fresh block: no table but the one that grew changes what it reads.
LEMMA NewBlockReady ==
  ASSUME Constants, PagedInv, HistoryInv, NEW n \in Live, free_block_ids # << >>,
         AtBoundary(n),
         NEW t, t = [pool |-> AllocateBlock(Pool),
                     table |-> Append(seqs[n].block_table, Head(free_block_ids))]
  PROVE  Ready(n, t)
<1> DEFINE h == Head(free_block_ids)
           table == seqs[n].block_table
           T == Append(table, h)
           q == AllocateBlock(Pool)
           L == Len(table)
           c == seqs[n].token_count
<1>1. h \in BlockId /\ Sharing(h) = {}
  BY FreeIsUnused, Zenon
<1>2. Pool \in PoolType /\ Pool.free = free_block_ids /\ Pool.blocks = blocks
  BY Zenon DEF PagedInv, Pool
<1>3. \A b \in BlockId \ {h} : q.blocks[b] = blocks[b]
  <2> HIDE DEF q
  <2> QED
    BY <1>2, AllocateFacts, Zenon DEF q
<1>4. table \in Seq(BlockId) /\ c \in Nat
  BY Zenon DEF PagedInv, SequenceState
<1>5. Fits(L, c) /\ Stored(blocks, table, dense[n]) /\ Len(dense[n]) = c /\ c % BlockSize = 0
  BY Zenon DEF HistoryInv, AtBoundary
<1>6. \A m \in Live : h \notin Range(seqs[m].block_table)
  BY <1>1, Zenon DEF Sharing
<1> HIDE DEF h, table, q, c
<1>7. t.pool = q /\ t.table = T
  BY Zenon DEF h, table, q
<1>8. /\ L \in Nat /\ Len(T) = L + 1 /\ DOMAIN T = 1 .. L + 1 /\ DOMAIN table = 1 .. L
      /\ T[L + 1] = h /\ \A p \in 1 .. L : T[p] = table[p] /\ table[p] \in BlockId
  BY <1>1, <1>4
<1> HIDE DEF T, L
<1>9. /\ TailId(T) = h /\ \A p \in 1 .. L : table[p] # h
  BY <1>6, <1>8, Zenon DEF TailId, Range, table
<1>10. At(L + 1, c % BlockSize) = c
  BY <1>4, <1>5, <1>8, SlotAfter, Zenon
<1>11. ASSUME NEW s \in Slot PROVE ~(At(L + 1, s) < c)
  <2>1. c % BlockSize = 0 /\ At(L + 1, 0) = c
    BY <1>5, <1>10, Zenon
  <2>2. At(L + 1, s) = At(L + 1, 0) + s /\ s >= 0 /\ s \in Int
    <3>1. L * BlockSize \in Nat /\ s \in Nat /\ (L + 1) - 1 = L
      BY <1>8 DEF Constants, Slot
    <3> QED
      BY <3>1 DEF At
  <2> QED
    BY <1>4, <2>1, <2>2
<1>12. Stored(q.blocks, T, dense[n])
  <2> SUFFICES ASSUME NEW p \in 1 .. L + 1, NEW s \in Slot, At(p, s) < c
               PROVE  s < q.blocks[T[p]].used_slots /\ q.blocks[T[p]].kv[s] = dense[n][At(p, s) + 1]
    BY <1>5, <1>8, Zenon DEF Stored
  <2>1. p \in 1 .. L
    BY <1>8, <1>11
  <2>2. T[p] = table[p] /\ q.blocks[T[p]] = blocks[table[p]]
    BY <1>3, <1>8, <1>9, <2>1, Zenon
  <2>3. s < blocks[table[p]].used_slots /\ blocks[table[p]].kv[s] = dense[n][At(p, s) + 1]
    BY <1>5, <1>8, <2>1, Zenon DEF Stored
  <2> QED
    BY <2>2, <2>3, Zenon
<1>13. \A b \in BlockId \ {h} : SameSlots(blocks, q.blocks, b)
  BY <1>3, Zenon DEF SameSlots
<1> QED
  BY <1>6, <1>7, <1>8, <1>9, <1>10, <1>12, <1>13, Zenon DEF Ready, c

\* A copied block holds what the shared one held, which stays as it is.
LEMMA CopyReady ==
  ASSUME Constants, PagedInv, HistoryInv, NEW n \in Live, free_block_ids # << >>,
         ~AtBoundary(n),
         NEW table, table = seqs[n].block_table, table # << >>,
         NEW last, last = TailId(table), blocks[last].ref_count > 1,
         NEW t, t = [pool |-> DecRef(CloneBlock(Pool, last), last),
                     table |-> [table EXCEPT ![Len(table)] = Head(free_block_ids)]]
  PROVE  Ready(n, t)
<1> DEFINE h == Head(free_block_ids)
           k == CloneBlock(Pool, last)
           q == DecRef(k, last)
           T == [table EXCEPT ![Len(table)] = h]
           L == Len(table)
           c == seqs[n].token_count
<1>1. h \in BlockId /\ Sharing(h) = {}
  BY FreeIsUnused, Zenon
<1>2. Pool \in PoolType /\ Pool.free = free_block_ids /\ Pool.blocks = blocks
  BY Zenon DEF PagedInv, Pool
<1>3. table \in Seq(BlockId) /\ IsInjective(table) /\ c \in Nat
  BY Zenon DEF PagedInv, SequenceState
<1>4. Fits(L, c) /\ Stored(blocks, table, dense[n]) /\ Len(dense[n]) = c /\ c % BlockSize # 0
  BY Zenon DEF HistoryInv, AtBoundary
<1>5. \A m \in Live : h \notin Range(seqs[m].block_table)
  BY <1>1, Zenon DEF Sharing
<1> HIDE DEF h, c
<1>6. /\ L \in Nat \ {0} /\ L \in 1 .. L /\ Len(T) = L /\ DOMAIN T = 1 .. L /\ DOMAIN table = 1 .. L
      /\ T[L] = h /\ \A p \in 1 .. L : (p # L => T[p] = table[p]) /\ table[p] \in BlockId
  BY <1>1, <1>3
<1>7. /\ last = table[L] /\ last \in BlockId /\ last # h
      /\ \A p \in 1 .. L : table[p] # h /\ (p # L => table[p] # last)
  <2>1. last = table[L]
    BY Zenon DEF TailId
  <2>2. h \notin Range(table)
    BY <1>5, Zenon
  <2> QED
    <3>1. last \in BlockId /\ \A p \in 1 .. L : table[p] # h
      BY <1>6, <2>1, <2>2, Zenon DEF Range
    <3>2. \A p \in 1 .. L : p # L => table[p] # last
      BY <1>3, <1>6, <2>1, Zenon DEF IsInjective
    <3>3. last # h
      BY <1>6, <2>1, <3>1, Zenon
    <3> QED
      BY <2>1, <3>1, <3>2, <3>3, Zenon
<1>8. /\ k \in PoolType
      /\ k.blocks[h].used_slots = blocks[last].used_slots
      /\ \A i \in Slot : i < blocks[last].used_slots => k.blocks[h].kv[i] = blocks[last].kv[i]
      /\ \A b \in BlockId \ {h} : k.blocks[b] = blocks[b]
  <2>1. Head(Pool.free) = h /\ Pool.free # << >>
    BY <1>2, Zenon DEF h
  <2>2. IsClone(Pool, last, Head(Pool.free), k)
    BY <1>2, <1>7, <2>1, CloneFacts, Zenon
  <2> HIDE DEF k
  <2> QED
    BY <1>2, <2>1, <2>2, Zenon DEF IsClone
<1>9. /\ \A b \in BlockId \ {last} : q.blocks[b] = k.blocks[b]
      /\ q.blocks[last].used_slots = k.blocks[last].used_slots /\ q.blocks[last].kv = k.blocks[last].kv
  <2>1. k.blocks[last] = blocks[last] /\ k.blocks[last].ref_count # 1
    <3>1. k.blocks[last] = blocks[last]
      BY <1>7, <1>8, Zenon
    <3> QED
      BY <3>1
  <2> HIDE DEF k
  <2>2. IsDecRef(k, last, q)
    BY <1>7, <1>8, <2>1, DecRefFacts, Zenon
  <2> HIDE DEF q
  <2> QED
    BY <2>2, Zenon DEF IsDecRef
<1> HIDE DEF k, q
<1>10. t.pool = q /\ t.table = T
  BY Zenon DEF q, k, h
<1> HIDE DEF T, L
<1>11. \A b \in BlockId \ {h} : SameSlots(blocks, q.blocks, b)
  BY <1>7, <1>8, <1>9, Zenon DEF SameSlots
<1>12. At(L, c % BlockSize) = c
  BY <1>3, <1>4, <1>6, SlotAfter, Zenon
<1>13. ASSUME NEW p \in 1 .. L, NEW s \in Slot, At(p, s) < c
       PROVE  s < q.blocks[T[p]].used_slots /\ q.blocks[T[p]].kv[s] = dense[n][At(p, s) + 1]
  <2>1. s < blocks[table[p]].used_slots /\ blocks[table[p]].kv[s] = dense[n][At(p, s) + 1]
    BY <1>4, <1>6, <1>13, Zenon DEF Stored
  <2>2. CASE p # L
    <3>1. T[p] = table[p] /\ table[p] \in BlockId \ {h}
      BY <1>6, <1>7, <2>2, Zenon
    <3>2. SameSlots(blocks, q.blocks, table[p])
      BY <1>11, <3>1, Zenon
    <3> QED
      BY <2>1, <3>1, <3>2, Zenon DEF SameSlots
  <2>3. CASE p = L
    <3>1. q.blocks[h] = k.blocks[h]
      BY <1>1, <1>7, <1>9, Zenon
    <3> QED
      <4>1. T[p] = h /\ table[p] = last
        BY <1>6, <1>7, <2>3, Zenon
      <4>2. s < blocks[last].used_slots /\ blocks[last].kv[s] = dense[n][At(p, s) + 1]
        BY <2>1, <4>1, Zenon
      <4>3. q.blocks[h].used_slots = blocks[last].used_slots /\ q.blocks[h].kv[s] = blocks[last].kv[s]
        BY <1>8, <3>1, <4>2, Zenon
      <4> QED
        BY <4>1, <4>2, <4>3, Zenon
  <2> QED
    BY <2>2, <2>3, Zenon
<1>14. Stored(q.blocks, T, dense[n])
  BY <1>4, <1>6, <1>13, Zenon DEF Stored
<1>15. TailId(T) = h
  BY <1>6, Zenon DEF TailId
<1> QED
  <2>1. TailId(t.table) = h /\ Len(t.table) = L
    BY <1>6, <1>10, <1>15, Zenon
  <2>2. /\ Stored(t.pool.blocks, t.table, dense[n])
        /\ \A b \in BlockId \ {TailId(t.table)} : SameSlots(blocks, t.pool.blocks, b)
    BY <1>10, <1>11, <1>14, <2>1, Zenon
  <2> QED
    BY <1>5, <1>12, <2>1, <2>2, Zenon DEF Ready, c

\* A tail block with one reference belongs to this sequence alone.
LEMMA TailReady ==
  ASSUME Constants, PagedInv, HistoryInv, NEW n \in Live,
         ~AtBoundary(n), seqs[n].block_table # << >>,
         ~(blocks[TailId(seqs[n].block_table)].ref_count > 1),
         NEW t, t = [pool |-> Pool, table |-> seqs[n].block_table]
  PROVE  Ready(n, t)
<1> DEFINE table == seqs[n].block_table
           last == TailId(table)
           c == seqs[n].token_count
<1>1. t.pool.blocks = blocks /\ t.table = table
  BY Zenon DEF Pool
<1>2. table \in Seq(BlockId) /\ c \in Nat
  BY Zenon DEF PagedInv, SequenceState
<1>3. Fits(Len(table), c) /\ Stored(blocks, table, dense[n]) /\ Len(dense[n]) = c /\ c % BlockSize # 0
  BY Zenon DEF HistoryInv, AtBoundary
<1> HIDE DEF table, c
<1>4. Len(table) \in Nat /\ last \in BlockId /\ last \in Range(table)
  BY <1>2 DEF TailId, Range, table
<1> HIDE DEF last
<1>5. n \in Sharing(last)
  BY <1>4, Zenon DEF Sharing, table
<1>6. Cardinality(Sharing(last)) = 1 /\ IsFiniteSet(Sharing(last))
  <2>1. /\ IsFiniteSet(Sharing(last)) /\ Cardinality(Sharing(last)) \in Nat
        /\ Cardinality(Sharing(last)) # 0
    BY <1>5, SharingFinite, Zenon
  <2>2. ~(Cardinality(Sharing(last)) > 1)
    BY <1>4, Zenon DEF PagedInv, last, table
  <2> QED
    BY <2>1, <2>2
<1>7. Sharing(last) = {n}
  <2>1. PICK x : Sharing(last) = {x}
    BY <1>6, FS_Singleton, Zenon
  <2> QED
    BY <1>5, <2>1, Zenon
<1>8. \A m \in Live \ {n} : last \notin Range(seqs[m].block_table)
  BY <1>7, Zenon DEF Sharing
<1>9. At(Len(table), c % BlockSize) = c
  BY <1>2, <1>3, <1>4, SlotAfter, Zenon
<1> QED
  BY <1>1, <1>3, <1>8, <1>9, Zenon DEF Ready, SameSlots, c, last

\* With copy-on-write the slot append() writes to is in no other table.
LEMMA TailBlockReady ==
  ASSUME Constants, PagedInv, HistoryInv, NEW n \in Live,
         AtBoundary(n) \/ CopiesTail(n, TRUE) => free_block_ids # << >>
  PROVE  Ready(n, TailBlock(n, TRUE))
<1> DEFINE table == seqs[n].block_table
           t == TailBlock(n, TRUE)
<1>1. CASE AtBoundary(n)
  <2>1. t = [pool |-> AllocateBlock(Pool), table |-> Append(table, Head(free_block_ids))]
    BY <1>1, Zenon DEF TailBlock, CopiesTail
  <2> QED
    BY <1>1, <2>1, NewBlockReady, Zenon
<1>2. ASSUME ~AtBoundary(n) PROVE table # << >>
  <2>1. 0 % BlockSize = 0
    BY DEF Constants
  <2> QED
    BY <1>2, <2>1, Zenon DEF AtBoundary, PagedInv
<1>3. CASE CopiesTail(n, TRUE)
  <2>1. t = [pool |-> DecRef(CloneBlock(Pool, TailId(table)), TailId(table)),
             table |-> [table EXCEPT ![Len(table)] = Head(free_block_ids)]]
    BY <1>3, Zenon DEF TailBlock, CopiesTail
  <2>2. table # << >> /\ blocks[TailId(table)].ref_count > 1 /\ ~AtBoundary(n)
    BY <1>2, <1>3, Zenon DEF CopiesTail
  <2> HIDE DEF t, table
  <2>3. Ready(n, t)
    BY <1>3, <2>1, <2>2, CopyReady, Zenon DEF table
  <2> QED
    BY <2>3, Zenon DEF t
<1>4. CASE ~AtBoundary(n) /\ ~CopiesTail(n, TRUE)
  <2>1. t = [pool |-> Pool, table |-> table]
    BY <1>4, Zenon DEF TailBlock
  <2>2. ~(blocks[TailId(table)].ref_count > 1)
    BY <1>4, Zenon DEF CopiesTail
  <2> QED
    BY <1>2, <1>4, <2>1, <2>2, TailReady, Zenon
<1> QED
  BY <1>1, <1>3, <1>4, Zenon

-----------------------------------------------------------------------------
\* create_sequence() starts an empty history.
LEMMA CreateKeepsHistory ==
  ASSUME Constants, PagedInv, HistoryInv, NEW n, CreateSequence(n) PROVE HistoryInv'
<1> DEFINE st == [block_table |-> << >>, token_count |-> 0]
           e == << >>
<1>1. /\ n \notin Live /\ seqs' = Extend(seqs, n, st) /\ dense' = Extend(dense, n, e)
      /\ blocks' = blocks /\ DOMAIN dense = Live
  BY Zenon DEF CreateSequence, HistoryInv
<1>2. st.block_table = e /\ st.token_count = 0 /\ DOMAIN e = {} /\ Len(e) = 0 /\ e \in Seq(Token)
  OBVIOUS
<1>3. Fits(0, 0)
  BY DEF Fits, Constants
<1> HIDE DEF st, e
<1>4. /\ Live' = Live \cup {n} /\ DOMAIN dense' = Live'
      /\ seqs'[n] = st /\ dense'[n] = e /\ \A m \in Live : seqs'[m] = seqs[m] /\ dense'[m] = dense[m]
  BY <1>1, Zenon DEF Extend, Live
<1>5. Stored(blocks, st.block_table, e)
  BY <1>2, Zenon DEF Stored
<1>6. ASSUME NEW m \in Live'
      PROVE  /\ dense'[m] \in Seq(Token) /\ Len(dense'[m]) = seqs'[m].token_count
             /\ Fits(Len(seqs'[m].block_table), seqs'[m].token_count)
             /\ Stored(blocks, seqs'[m].block_table, dense'[m])
  <2>1. CASE m = n
    BY <1>2, <1>3, <1>4, <1>5, <2>1, Zenon
  <2>2. CASE m \in Live
    BY <1>4, <2>2, Zenon DEF HistoryInv
  <2> QED
    BY <1>4, <2>1, <2>2, Zenon
<1> QED
  BY <1>1, <1>4, <1>6, Zenon DEF HistoryInv

\* fork(): the child has the parent's history, in the same blocks.
LEMMA ForkKeepsHistory ==
  ASSUME PagedInv, HistoryInv, NEW parent, NEW child, Fork(parent, child) PROVE HistoryInv'
<1> DEFINE ids == Range(seqs[parent].block_table)
<1>1. /\ parent \in Live /\ child \notin Live
      /\ seqs' = Extend(seqs, child, seqs[parent]) /\ dense' = Extend(dense, child, dense[parent])
      /\ blocks' = IncRef(Pool, ids).blocks /\ DOMAIN dense = Live
  BY Zenon DEF Fork, HistoryInv
<1>2. blocks \in [BlockId -> KVBlock]
  BY Zenon DEF PagedInv, PoolType, Pool
<1>3. blocks' = [b \in BlockId |->
        IF b \in ids THEN [blocks[b] EXCEPT !.ref_count = blocks[b].ref_count + 1] ELSE blocks[b]]
  BY <1>1, Zenon DEF IncRef, Pool
<1> HIDE DEF ids
<1>4. ASSUME NEW b \in BlockId PROVE SameSlots(blocks, blocks', b)
  <2>1. ASSUME NEW k \in KVBlock
        PROVE  /\ [k EXCEPT !.ref_count = k.ref_count + 1].kv = k.kv
               /\ [k EXCEPT !.ref_count = k.ref_count + 1].used_slots = k.used_slots
    BY Zenon DEF KVBlock
  <2> QED
    BY <1>2, <1>3, <2>1, Zenon DEF SameSlots
<1>5. /\ Live' = Live \cup {child} /\ DOMAIN dense' = Live'
      /\ \A m \in Live' : \E x \in Live : seqs'[m] = seqs[x] /\ dense'[m] = dense[x]
  BY <1>1, Zenon DEF Extend, Live
<1>6. ASSUME NEW x \in Live PROVE Stored(blocks', seqs[x].block_table, dense[x])
  <2>1. seqs[x].block_table \in Seq(BlockId) /\ Stored(blocks, seqs[x].block_table, dense[x])
    BY Zenon DEF PagedInv, SequenceState, HistoryInv
  <2>2. \A p \in DOMAIN seqs[x].block_table : seqs[x].block_table[p] \in BlockId
    BY <2>1
  <2>3. \A p \in DOMAIN seqs[x].block_table : SameSlots(blocks, blocks', seqs[x].block_table[p])
    BY <1>4, <2>2, Zenon
  <2> QED
    BY <2>1, <2>3, StoredKept, Zenon
<1>7. ASSUME NEW m \in Live'
      PROVE  /\ dense'[m] \in Seq(Token) /\ Len(dense'[m]) = seqs'[m].token_count
             /\ Fits(Len(seqs'[m].block_table), seqs'[m].token_count)
             /\ Stored(blocks', seqs'[m].block_table, dense'[m])
  <2>1. PICK x \in Live : seqs'[m] = seqs[x] /\ dense'[m] = dense[x]
    BY <1>5, Zenon
  <2> QED
    BY <1>6, <2>1, Zenon DEF HistoryInv
<1> QED
  BY <1>5, <1>7, Zenon DEF HistoryInv

\* append() adds the token to its own history and leaves the others'.
LEMMA AppendKeepsHistory ==
  ASSUME Constants, PagedInv, HistoryInv, NEW n, NEW tok \in Token, AppendToken(n, tok, TRUE)
  PROVE  HistoryInv'
<1> DEFINE t == TailBlock(n, TRUE)
           c == seqs[n].token_count
           slot == c % BlockSize
           e == TailId(t.table)
           q == Write(t.pool, e, slot, tok)
           st == [block_table |-> t.table, token_count |-> c + 1]
<1>1. /\ n \in Live
      /\ AtBoundary(n) \/ CopiesTail(n, TRUE) => free_block_ids # << >>
      /\ blocks' = q.blocks
      /\ seqs' = [seqs EXCEPT ![n] = st]
      /\ dense' = [dense EXCEPT ![n] = Append(dense[n], tok)]
  BY Zenon DEF AppendToken, TakesBlock
<1>2. Settled(n, t) /\ Ready(n, t)
  BY <1>1, TailBlockSettled, TailBlockReady, Zenon
<1>3. /\ c \in Nat /\ DOMAIN dense = Live /\ dense[n] \in Seq(Token) /\ Len(dense[n]) = c
  BY <1>1, Zenon DEF PagedInv, SequenceState, HistoryInv
<1>4. slot \in Slot
  BY <1>3, SlotOfToken, Zenon
<1> HIDE DEF t, c
<1>5. /\ t.pool \in PoolType /\ t.table \in Seq(BlockId) /\ t.table # << >> /\ IsInjective(t.table)
      /\ Stored(t.pool.blocks, t.table, dense[n]) /\ At(Len(t.table), slot) = c
      /\ \A m \in Live \ {n} : e \notin Range(seqs[m].block_table)
      /\ \A b \in BlockId \ {e} : SameSlots(blocks, t.pool.blocks, b)
  BY <1>2, Zenon DEF Settled, Ready, c
<1>6. e \in BlockId /\ Len(t.table) \in Nat \ {0}
  BY <1>5, TailInTable, Zenon
<1> HIDE DEF slot, e
<1>7. IsWrite(t.pool, e, slot, tok, q)
  BY <1>4, <1>5, <1>6, WriteFacts, Zenon
<1> HIDE DEF q
<1>8. /\ Wrote(t.pool.blocks, q.blocks, e, slot, tok)
      /\ \A b \in BlockId \ {e} : q.blocks[b] = t.pool.blocks[b]
  BY <1>7, Zenon DEF IsWrite, Wrote
<1>9. Stored(q.blocks, t.table, Append(dense[n], tok))
  <2>1. /\ t.table \in Seq(BlockId) /\ t.table # << >> /\ IsInjective(t.table)
        /\ dense[n] \in Seq(Token) /\ Stored(t.pool.blocks, t.table, dense[n])
        /\ At(Len(t.table), slot) = Len(dense[n])
    BY <1>3, <1>5, Zenon
  <2>2. Wrote(t.pool.blocks, q.blocks, TailId(t.table), slot, tok)
    BY <1>8, Zenon DEF e
  <2> QED
    BY <1>4, <2>1, <2>2, StoredWrite, Zenon
<1>10. Fits(Len(t.table), c + 1)
  BY <1>3, <1>4, <1>5, <1>6, FitsNext, Zenon
<1>11. st.block_table = t.table /\ st.token_count = c + 1
  BY Zenon
<1>12. Append(dense[n], tok) \in Seq(Token) /\ Len(Append(dense[n], tok)) = c + 1
  BY <1>3
<1> HIDE DEF st
<1>13. /\ Live' = Live /\ DOMAIN dense' = Live'
       /\ seqs'[n] = st /\ dense'[n] = Append(dense[n], tok)
       /\ \A m \in Live \ {n} : seqs'[m] = seqs[m] /\ dense'[m] = dense[m]
  BY <1>1, <1>3, Zenon DEF Live
<1>14. ASSUME NEW m \in Live \ {n} PROVE Stored(q.blocks, seqs[m].block_table, dense[m])
  <2> DEFINE table == seqs[m].block_table
  <2>1. table \in Seq(BlockId) /\ Stored(blocks, table, dense[m]) /\ e \notin Range(table)
    BY <1>5, Zenon DEF PagedInv, SequenceState, HistoryInv
  <2> HIDE DEF table
  <2>2. \A p \in DOMAIN table : table[p] \in BlockId \ {e}
    BY <2>1 DEF Range
  <2>3. \A b \in BlockId \ {e} : SameSlots(blocks, q.blocks, b)
    BY <1>5, <1>8, Zenon DEF SameSlots
  <2>4. \A p \in DOMAIN table : SameSlots(blocks, q.blocks, table[p])
    BY <2>2, <2>3, Zenon
  <2>5. Stored(q.blocks, table, dense[m])
    BY <2>1, <2>4, StoredKept, Zenon
  <2> QED
    BY <2>5, Zenon DEF table
<1>15. ASSUME NEW m \in Live'
       PROVE  /\ dense'[m] \in Seq(Token) /\ Len(dense'[m]) = seqs'[m].token_count
              /\ Fits(Len(seqs'[m].block_table), seqs'[m].token_count)
              /\ Stored(blocks', seqs'[m].block_table, dense'[m])
  <2>1. CASE m = n
    BY <1>1, <1>9, <1>10, <1>11, <1>12, <1>13, <2>1, Zenon
  <2>2. CASE m \in Live \ {n}
    BY <1>1, <1>13, <1>14, <2>2, Zenon DEF HistoryInv
  <2> QED
    BY <1>13, <2>1, <2>2, Zenon
<1> QED
  BY <1>13, <1>15, Zenon DEF HistoryInv

\* Every step keeps the histories.
LEMMA HistoryStep ==
  ASSUME Constants, EnableCow = {TRUE}, PagedInv, HistoryInv, [Next]_(vars)
  PROVE  HistoryInv'
<1>1. CASE UNCHANGED vars
  <2>1. UNCHANGED <<blocks, seqs, dense>>
    BY <1>1, Zenon DEF vars
  <2> QED
    BY <2>1, Zenon DEF HistoryInv, Live
<1>2. CASE \E n \in Name, tok \in Token, cow \in EnableCow : AppendToken(n, tok, cow)
  <2>1. PICK n \in Name, tok \in Token, cow \in EnableCow : AppendToken(n, tok, cow)
    BY <1>2, Zenon
  <2>2. cow = TRUE
    BY SMT
  <2>3. AppendToken(n, tok, TRUE)
    BY <2>1, <2>2, Zenon
  <2> QED
    BY <2>3, AppendKeepsHistory, Zenon
<1> QED
  BY <1>1, <1>2, CreateKeepsHistory, ForkKeepsHistory, Zenon DEF Next, AppendRaises

-----------------------------------------------------------------------------
INSTANCE WellFoundedInduction

\* A nonempty set of numbers has a least one.
LEMMA LeastNumber ==
  ASSUME NEW T, T \subseteq Nat, T # {}
  PROVE  \E m \in T : \A n \in T : m <= n
<1>1. \E R : IsWellFoundedOn(R, Nat) /\ \A x, y \in Nat : y < x => <<y, x>> \in R
  <2> DEFINE R == OpToRel(<, Nat)
  <2>1. IsWellFoundedOn(R, Nat)
    BY NatLessThanWellFounded, Zenon
  <2>2. \A x, y \in Nat : y < x => <<y, x>> \in R
    BY Zenon DEF OpToRel
  <2> QED
    BY <2>1, <2>2, Zenon
<1>2. PICK R : IsWellFoundedOn(R, Nat) /\ \A x, y \in Nat : y < x => <<y, x>> \in R
  BY <1>1, Zenon
<1>3. PICK x \in T : \A y \in T : ~(<<y, x>> \in R)
  BY <1>2, WFMin, Zenon
<1>4. \A y \in T : ~(y < x)
  BY <1>2, <1>3, Zenon
<1> QED
  BY <1>4

\* A function that satisfies iter_kv's recursion is the one it computes.
LEMMA ReadByRecursion ==
  ASSUME NEW n, NEW L \in Nat, L = Len(seqs[n].block_table), NEW F, F[0] = << >>,
         \A i \in 1 .. L : F[i] = YieldBlock(n, F[i - 1], i)
  PROVE  IterKV(n) = F[L]
<1> DEFINE Recurs(r) == r = [i \in 0 .. L |-> IF i = 0 THEN << >> ELSE YieldBlock(n, r[i - 1], i)]
           G == [i \in 0 .. L |-> F[i]]
           read == CHOOSE r : Recurs(r)
<1>1. Recurs(G)
  <2>1. \A i \in 0 .. L : F[i] = IF i = 0 THEN << >> ELSE YieldBlock(n, G[i - 1], i)
    <3>1. \A i \in 0 .. L : i # 0 => i \in 1 .. L /\ i - 1 \in 0 .. L
      OBVIOUS
    <3> QED
      BY <3>1, Zenon
  <2> QED
    BY <2>1, Zenon
<1>2. Recurs(read)
  BY <1>1, Zenon
<1>3. /\ read[0] = << >>
      /\ \A i \in 1 .. L : read[i] = YieldBlock(n, read[i - 1], i)
  <2>1. 0 \in 0 .. L /\ \A i \in 1 .. L : i \in 0 .. L /\ i # 0
    OBVIOUS
  <2> QED
    BY <1>2, <2>1, Zenon
<1>4. IterKV(n) = read[L]
  BY Zenon DEF IterKV
<1> HIDE DEF read
<1> DEFINE Bad == {i \in 0 .. L : read[i] # F[i]}
<1>5. Bad = {}
  <2> SUFFICES ASSUME Bad # {} PROVE FALSE
    BY Zenon
  <2>1. Bad \subseteq Nat
    OBVIOUS
  <2>2. PICK m \in Bad : \A i \in Bad : m <= i
    <3> HIDE DEF Bad
    <3> QED
      BY <2>1, LeastNumber, Zenon
  <2>3. m \in 1 .. L /\ m - 1 \in 0 .. L /\ ~(m <= m - 1)
    BY <1>3
  <2>4. read[m - 1] = F[m - 1]
    BY <2>2, <2>3, Zenon
  <2> QED
    BY <1>3, <2>2, <2>3, <2>4, Zenon
<1>6. L \in 0 .. L
  OBVIOUS
<1> QED
  BY <1>4, <1>5, <1>6, Zenon

\* What a sequence's blocks hold is what materialize reads.
LEMMA ReadsHistory ==
  ASSUME Constants, PagedInv, HistoryInv, NEW n \in Live
  PROVE  Materialize(n) = dense[n]
<1> DEFINE table == seqs[n].block_table
           L == Len(table)
           c == seqs[n].token_count
           d == dense[n]
           F == [i \in 0 .. L |-> Places(n, Upto(n, i))]
<1>1. /\ table \in Seq(BlockId) /\ c \in Nat /\ Fits(L, c) /\ Stored(blocks, table, d)
      /\ d \in Seq(Token) /\ Len(d) = c
  BY Zenon DEF PagedInv, HistoryInv, SequenceState
<1>2. L \in Nat /\ BlockSize \in Nat \ {0} /\ c <= L * BlockSize /\ DOMAIN table = 1 .. L
  BY <1>1 DEF Fits, Constants
<1>3. Upto(n, 0) = 0 /\ Upto(n, L) = c
  <2>1. 0 * BlockSize = 0 /\ L * BlockSize \in Nat
    BY <1>2
  <2> HIDE DEF L
  <2> QED
    BY <1>1, <1>2, <2>1 DEF Upto, Least
<1>4. IterKV(n) = Places(n, c)
  <2>1. 0 \in 0 .. L /\ L \in 0 .. L /\ \A i \in 1 .. L : i \in 0 .. L /\ i - 1 \in 0 .. L
    BY <1>2
  <2>2. F[0] = << >>
    <3>1. Places(n, 0) = << >>
      BY DEF Places
    <3> QED
      BY <1>3, <2>1, <3>1, Zenon
  <2>3. \A i \in 1 .. L : F[i] = YieldBlock(n, F[i - 1], i)
    BY <2>1, YieldsPlaces, Zenon
  <2>4. F[L] = Places(n, c)
    BY <1>3, <2>1, Zenon
  <2> HIDE DEF F
  <2>5. IterKV(n) = F[L]
    BY <1>2, <2>2, <2>3, ReadByRecursion, Zenon
  <2> QED
    BY <2>4, <2>5, Zenon
<1> DEFINE it == Places(n, c)
<1>5. /\ Len(it) = c
      /\ \A j \in 1 .. c : it[j] = [block |-> table[((j - 1) \div BlockSize) + 1], slot |-> (j - 1) % BlockSize]
  <2>1. c \in 0 .. c
    BY <1>1
  <2> HIDE DEF it
  <2> QED
    BY <1>1, <1>2, <2>1, PlacesFacts, Zenon DEF it
<1>6. Materialize(n) = [j \in 1 .. c |-> blocks[it[j].block].kv[it[j].slot]]
  BY <1>4, <1>5, Zenon DEF Materialize
<1> HIDE DEF it, table, L, c, d
<1>7. ASSUME NEW j \in 1 .. c PROVE blocks[it[j].block].kv[it[j].slot] = d[j]
  <2> DEFINE p == ((j - 1) \div BlockSize) + 1
             s == (j - 1) % BlockSize
  <2>1. p \in 1 .. L /\ s \in Slot /\ At(p, s) = j - 1
    BY <1>1, <1>2, PlaceExists, Zenon
  <2>2. it[j] = [block |-> table[p], slot |-> s]
    BY <1>5, Zenon
  <2> HIDE DEF p, s
  <2>3. it[j].block = table[p] /\ it[j].slot = s
    BY <2>2
  <2>4. j - 1 < Len(d) /\ (j - 1) + 1 = j
    BY <1>1
  <2>5. blocks[table[p]].kv[s] = d[At(p, s) + 1]
    BY <1>1, <1>2, <2>1, <2>4, Zenon DEF Stored
  <2> QED
    BY <2>1, <2>3, <2>4, <2>5, Zenon
<1>8. d = [j \in 1 .. c |-> d[j]]
  BY <1>1
<1> QED
  BY <1>6, <1>7, <1>8, Zenon DEF d

\* verify_materialize of 02_paged_kv_cache.py for every pool, block size, set of
\* sequences and run of calls: with copy-on-write on, append() keeps each branch
\* reading its own dense history, whatever the branches it shares blocks with
\* append after the fork.
THEOREM BranchesReadTheirOwn ==
  ASSUME Constants, EnableCow = {TRUE} PROVE Spec => []MaterializeMatchesDense
<1>1. Init => PagedInv /\ HistoryInv
  <2>1. Init => HistoryInv
    BY DEF Init, HistoryInv, Live
  <2> QED
    BY <2>1, PagedInitInv, Zenon
<1>2. PagedInv /\ HistoryInv /\ [Next]_(vars) => (PagedInv /\ HistoryInv)'
  BY PagedStep, HistoryStep, Zenon
<1>3. PagedInv /\ HistoryInv => MaterializeMatchesDense
  BY ReadsHistory, Zenon DEF MaterializeMatchesDense
<1> QED
  BY <1>1, <1>2, <1>3, PTL DEF Spec
=============================================================================
