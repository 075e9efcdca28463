----------------------------- MODULE BloomFilter -----------------------------
(***************************************************************************)
(* The Bloom filter of BloomFilter.cpp.  The hash of a key and a seed is   *)
(* any function: hasher is chosen once and never changes.                  *)
(***************************************************************************)
EXTENDS Integers

CONSTANTS Key,
          hashCount, \* the number of hash functions: 7 in main
          Size       \* bitArray.size(): 1000 in the code

ASSUME BloomAssumption == hashCount \in Nat /\ Size \in Nat \ {0}

Seed == 0 .. hashCount - 1
Bit == 0 .. Size - 1

VARIABLES hasher,   \* hash(key, seed), reduced modulo the size
          bitArray, \* the bits that are set
          added,    \* history: the keys add() was called with
          answer    \* history: the last key asked about and the answer, if any
vars == <<hasher, bitArray, added, answer>>

Init ==
  /\ hasher \in [Key -> [Seed -> Bit]]
  /\ bitArray = {}
  /\ added = {}
  /\ answer = << >>

add(key) ==
  /\ bitArray' = bitArray \cup {hasher[key][i] : i \in Seed}
  /\ added' = added \cup {key}
  /\ UNCHANGED <<hasher, answer>>

AllBitsSet(key) == \A i \in Seed : hasher[key][i] \in bitArray

\* possiblyContains() that is content with one bit.
possiblyContainsAny(key) ==
  /\ answer' = <<key, \E i \in Seed : hasher[key][i] \in bitArray>>
  /\ UNCHANGED <<hasher, bitArray, added>>

possiblyContains(key) ==
  /\ answer' = <<key, AllBitsSet(key)>>
  /\ UNCHANGED <<hasher, bitArray, added>>

Next == \E key \in Key : add(key) \/ possiblyContains(key)
Spec == Init /\ [][Next]_vars

-----------------------------------------------------------------------------
\* The bits are bits of the array, and the answers are about keys.
TypeOK ==
  /\ hasher \in [Key -> [Seed -> Bit]]
  /\ bitArray \subseteq Bit
  /\ added \subseteq Key
  /\ answer \in {<< >>} \cup (Key \X BOOLEAN)

\* The bits are those of the added keys and no others, in whatever order and
\* however often they were added.
BitsOfAdded == bitArray = {b \in Bit : \E k \in added, i \in Seed : hasher[k][i] = b}

\* possiblyContains() never denies a key that was added, whatever the hashes
\* and whatever was added since.
NoFalseNegatives == \A key \in added : AllBitsSet(key)

\* A "definitely not" is about a key nothing was ever added for, and a
\* "possibly" about one whose every bit belongs to an added key.
AnswersAreRight ==
  [][answer' # answer =>
       (answer'[2] <=> \A i \in Seed : \E k \in added, j \in Seed : hasher[k][j] = hasher[answer'[1]][i])]_vars
=============================================================================
