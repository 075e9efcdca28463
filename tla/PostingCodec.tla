---------------------------- MODULE PostingCodec ----------------------------
(***************************************************************************)
(* The two encodings of posting lists in Partitioned-Elias-Fano.cpp:       *)
(* PForDelta over the gaps of a list of document ids, and Elias-Fano over  *)
(* its partitions, decoded one by one and with AVX2.  Shifts and masks are *)
(* \div, % and * by powers of two; the 16 bits of an exception and the     *)
(* eight lanes of a register are parameters.                               *)
(***************************************************************************)
EXTENDS Naturals, Sequences, FiniteSets, SequencesExt

CONSTANTS MaxId,     \* bound: the largest document id
          MaxLen,    \* bound: the length of a list
          bit_width, \* of pfordelta_encode
          ExcBits,   \* the width of an exception: uint16_t in the code
          B,         \* the size of a partition
          Stride     \* the lanes of a register: 8 in the code

VARIABLES doc_ids, pfd_out, ef_out, ef_scalar
vars == <<doc_ids, pfd_out, ef_out, ef_scalar>>

Deltas(ids) == [i \in DOMAIN ids |-> IF i = 1 THEN ids[1] ELSE ids[i] - ids[i - 1]]

(***************************************************************************)
(* PForDelta                                                               *)
(***************************************************************************)

PForDeltaEncode(ds) ==
  [main_bits |-> [i \in DOMAIN ds |-> IF ds[i] <= 2 ^ bit_width - 1 THEN ds[i] ELSE 0],
   exceptions |-> [i \in DOMAIN ds |-> IF ds[i] <= 2 ^ bit_width - 1 THEN 0 ELSE ds[i] % 2 ^ ExcBits]]

PForDeltaDecode(e) ==
  [i \in DOMAIN e.main_bits |-> IF e.exceptions[i] # 0 THEN e.exceptions[i] ELSE e.main_bits[i]]

(***************************************************************************)
(* Elias-Fano; vectors are functions from 0.                               *)
(***************************************************************************)
\* max(1, floor(log2(u / n))).
LowWidth(u, n) == CHOOSE l \in 1 .. MaxId + 1 :
  /\ l = 1 \/ 2 ^ l * n <= u
  /\ \A m \in l + 1 .. MaxId + 1 : 2 ^ m * n > u

EFEncode(block) ==
  LET n == Len(block)
      L == LowWidth(block[n], n)
      highs == [i \in 0 .. n - 1 |-> block[i + 1] \div 2 ^ L]
  IN [low_bits |-> [i \in 0 .. n - 1 |-> block[i + 1] % 2 ^ L],
      high_bits |-> [b \in 0 .. highs[n - 1] + n - 1 |->
                       IF \E i \in 0 .. n - 1 : b = highs[i] + i THEN 1 ELSE 0],
      L |-> L, n |-> n]

Ones(blk) == {i \in DOMAIN blk.high_bits : blk.high_bits[i] = 1}

\* The scalar decoder: count is the number of ones before i.
EFDecodeScalar(blk) ==
  LET count(i) == Cardinality({j \in Ones(blk) : j < i})
      read == SetToSortSeq({i \in Ones(blk) : count(i) < blk.n}, <)
  IN [k \in DOMAIN read |-> (read[k] - count(read[k])) * 2 ^ blk.L + blk.low_bits[count(read[k])]]

\* The vector decoder with a remainder loop that counts from 0 again.
EFDecodeSimdRestarts(blk) ==
  LET positions == SetToSortSeq(Ones(blk), <)
      k == (blk.n \div Stride) * Stride
      lane(base, i) == (positions[base + i + 1] - (base + i)) * 2 ^ blk.L + blk.low_bits[base + i]
      rest(j) == (positions[j + 1] - (j - k)) * 2 ^ blk.L + blk.low_bits[j]
  IN [j \in 1 .. blk.n |-> IF j <= k THEN lane(((j - 1) \div Stride) * Stride, (j - 1) % Stride)
                           ELSE rest(j - 1)]

\* The vector decoder: groups of Stride while they last, then one by one.
EFDecodeSimd(blk) ==
  LET positions == SetToSortSeq(Ones(blk), <)
      k == (blk.n \div Stride) * Stride
      lane(base, i) == (positions[base + i + 1] - (base + i)) * 2 ^ blk.L + blk.low_bits[base + i]
      rest(j) == (positions[j + 1] - j) * 2 ^ blk.L + blk.low_bits[j]
  IN [j \in 1 .. blk.n |-> IF j <= k THEN lane(((j - 1) \div Stride) * Stride, (j - 1) % Stride)
                           ELSE rest(j - 1)]

Partitions(ids) ==
  [p \in 1 .. (Len(ids) + B - 1) \div B |->
     SubSeq(ids, (p - 1) * B + 1, IF p * B < Len(ids) THEN p * B ELSE Len(ids))]

-----------------------------------------------------------------------------
Init ==
  /\ doc_ids \in {SetToSortSeq(S, <) : S \in UNION {kSubset(k, 0 .. MaxId) : k \in 1 .. MaxLen}}
  /\ pfd_out = << >> /\ ef_out = << >> /\ ef_scalar = << >>

\* main(): the PForDelta flow, then the Elias-Fano flow.
PForDelta ==
  /\ pfd_out = << >>
  /\ pfd_out' = PForDeltaDecode(PForDeltaEncode(Deltas(doc_ids)))
  /\ UNCHANGED <<doc_ids, ef_out, ef_scalar>>

EliasFano ==
  /\ pfd_out # << >> /\ ef_out = << >>
  /\ LET blocks == [p \in DOMAIN Partitions(doc_ids) |-> EFEncode(Partitions(doc_ids)[p])] IN
       /\ ef_out' = FlattenSeq([p \in DOMAIN blocks |-> EFDecodeSimd(blocks[p])])
       /\ ef_scalar' = FlattenSeq([p \in DOMAIN blocks |-> EFDecodeScalar(blocks[p])])
  /\ UNCHANGED <<doc_ids, pfd_out>>

Next == PForDelta \/ EliasFano
Spec == Init /\ [][Next]_vars

\* Decoding undoes encoding: Elias-Fano gives every increasing list back,
\* partition by partition, for every split into low and high bits the width
\* formula produces, through the AVX2 decoder with its remainder loop as through
\* the scalar one; PForDelta gives the gaps back exactly when each fits an
\* exception (a larger one loses its high bits without a sign of it).
DecodeInvertsEncode ==
  /\ ef_scalar # << >> => ef_scalar = doc_ids /\ ef_out = doc_ids
  /\ pfd_out # << >> =>
       (pfd_out = Deltas(doc_ids) <=> \A i \in DOMAIN doc_ids : Deltas(doc_ids)[i] < 2 ^ ExcBits)
=============================================================================
