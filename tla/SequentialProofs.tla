-------------------------- MODULE SequentialProofs --------------------------
(***************************************************************************)
(* Components that one thread runs, for every value of their constants:    *)
(* the Bloom filter, the registries and the services of the worker, and    *)
(* the LSM store.  Each section has the inductive invariant, the lemmas    *)
(* about its operators, one lemma per action, and the theorems.            *)
(***************************************************************************)
EXTENDS BloomFilter, Integers, Sequences, FiniteSets, TLAPS

CONSTANT NULL

-----------------------------------------------------------------------------
(* BloomFilter.  What a false answer means needs the inductive invariant   *)
(* BitsOfAdded: no bit is set but by a key that was added.                 *)

\* The state keeps its types: add() sets bits inside bitArray only.
THEOREM TypeCorrect == Spec => []TypeOK
<1>1. Init => TypeOK
  BY DEF Init, TypeOK
<1>2. TypeOK /\ [Next]_vars => TypeOK'
  <2> SUFFICES ASSUME TypeOK, [Next]_vars PROVE TypeOK'
    OBVIOUS
  <2>1. ASSUME NEW key \in Key, add(key) PROVE TypeOK'
    BY <2>1 DEF add, TypeOK
  <2>2. ASSUME NEW key \in Key, possiblyContains(key) PROVE TypeOK'
    <3>1. AllBitsSet(key) \in BOOLEAN
      BY DEF AllBitsSet
    <3>2. answer' \in Key \X BOOLEAN
      BY <2>2, <3>1 DEF possiblyContains
    <3> QED
      BY <2>2, <3>2 DEF possiblyContains, TypeOK
  <2>3. CASE UNCHANGED vars
    BY <2>3 DEF vars, TypeOK
  <2> QED
    BY <2>1, <2>2, <2>3 DEF Next
<1> QED
  BY <1>1, <1>2, PTL DEF Spec

\* The bits are exactly those of the added keys: add() sets its key's bits
\* and nothing else changes them.
THEOREM BitsExact == Spec => []BitsOfAdded
<1>1. Init => BitsOfAdded
  BY DEF Init, BitsOfAdded
<1>2. TypeOK /\ BitsOfAdded /\ [Next]_vars => BitsOfAdded'
  <2> SUFFICES ASSUME TypeOK, BitsOfAdded, [Next]_vars PROVE BitsOfAdded'
    OBVIOUS
  <2>1. ASSUME NEW key \in Key, add(key) PROVE BitsOfAdded'
    <3>1. bitArray' = bitArray \cup {hasher[key][i] : i \in Seed}
      BY <2>1 DEF add
    <3>2. added' = added \cup {key} /\ hasher' = hasher
      BY <2>1 DEF add
    <3>3. \A i \in Seed : hasher[key][i] \in Bit
      BY DEF TypeOK
    <3> QED
      BY <3>1, <3>2, <3>3 DEF BitsOfAdded
  <2>2. ASSUME NEW key \in Key, possiblyContains(key) PROVE BitsOfAdded'
    BY <2>2 DEF possiblyContains, BitsOfAdded
  <2>3. CASE UNCHANGED vars
    BY <2>3 DEF vars, BitsOfAdded
  <2> QED
    BY <2>1, <2>2, <2>3 DEF Next
<1> QED
  BY <1>1, <1>2, TypeCorrect, PTL DEF Spec

\* possiblyContains() never denies a key that was added.
THEOREM NeverDenied == Spec => []NoFalseNegatives
<1>1. TypeOK /\ BitsOfAdded => NoFalseNegatives
  BY DEF TypeOK, BitsOfAdded, NoFalseNegatives, AllBitsSet
<1> QED
  BY <1>1, TypeCorrect, BitsExact, PTL

\* Every answer of possiblyContains() is the one the added keys justify.
THEOREM RightAnswers == Spec => AnswersAreRight
<1>1. TypeOK /\ BitsOfAdded /\ [Next]_vars =>
        [answer' # answer =>
           (answer'[2] <=> \A i \in Seed : \E k \in added, j \in Seed : hasher[k][j] = hasher[answer'[1]][i])]_vars
  <2> DEFINE Justified(key) == \A i \in Seed : \E k \in added, j \in Seed : hasher[k][j] = hasher[key][i]
  <2> SUFFICES ASSUME TypeOK, BitsOfAdded, [Next]_vars, answer' # answer
               PROVE answer'[2] <=> Justified(answer'[1])
    OBVIOUS
  <2>1. PICK key \in Key : possiblyContains(key)
    BY DEF Next, add, vars
  <2>2. answer'[1] = key /\ answer'[2] = AllBitsSet(key)
    BY <2>1 DEF possiblyContains
  <2>3. AllBitsSet(key) <=> Justified(key)
    BY DEF TypeOK, AllBitsSet, BitsOfAdded
  <2> QED
    BY <2>2, <2>3
<1> QED
  BY <1>1, TypeCorrect, BitsExact, PTL DEF Spec, AnswersAreRight

-----------------------------------------------------------------------------
(* ModuleRegistry.                                                         *)

CONSTANTS Name, Registerer, MaxObjects
VARIABLES instance, pending, running, objects

Registry == INSTANCE ModuleRegistry

\* The registries of one ModuleRegistry.
Maps(c, d, t, e, u) ==
  [creator |-> c, destroyer |-> d, traits |-> t, elements |-> e, element_traits |-> u]

\* A registerer has a kind, a name and a class; nullptr is neither a registerer
\* nor a ModuleRegistry.
RegistryAssumption ==
  /\ \A r \in Registerer : r = [kind |-> r.kind, name |-> r.name, class |-> r.class]
  /\ NULL \notin Registerer
  /\ \A c, d, t, e, u : NULL # Maps(c, d, t, e, u)

\* Each class in a map was registered under its name.
Registered(map) ==
  \A n \in DOMAIN map :
    \E r \in Registerer : r.kind = "factory" /\ r.name = n /\ r.class = map[n]

\* The registries hold what the registerers in done have registered.
Holds(reg, done) ==
  /\ reg = Maps(reg.creator, reg.destroyer, reg.traits, reg.elements, reg.element_traits)
  /\ Registered(reg.creator) /\ Registered(reg.traits)
  /\ \A n \in DOMAIN reg.elements : reg.elements[n] \in Registerer
  /\ \A r \in done : IF r.kind = "factory"
                     THEN r.name \in DOMAIN reg.creator /\ r.name \in DOMAIN reg.traits
                     ELSE r.name \in DOMAIN reg.elements

\* At every moment, what the constructors that have run registered is there: the
\* first of them creates the ModuleRegistry, and the others find it.
RegistryInv ==
  /\ Holds(Registry!Instance, Registerer \ pending)
  /\ running => pending = {} /\ instance # NULL

LEMMA RegistryInitInv == Registry!Init => RegistryInv
<1> SUFFICES ASSUME Registry!Init PROVE RegistryInv
  OBVIOUS
<1>1. Registry!Instance = Maps(<< >>, << >>, << >>, << >>, << >>)
  BY DEF Registry!Init, Registry!Instance, Registry!Empty, Maps
<1>2. Registerer \ pending = {} /\ ~running
  BY DEF Registry!Init
<1> QED
  BY <1>1, <1>2 DEF RegistryInv, Holds, Registered, Maps

\* operator[] and emplace keep a map of registered classes, and have the new name.
LEMMA AssignRegisters ==
  ASSUME NEW map, Registered(map), NEW r \in Registerer, r.kind = "factory",
         NEW m, m \in {Registry!Assign(map, r.name, r.class), Registry!Emplace(map, r.name, r.class)}
  PROVE  Registered(m) /\ DOMAIN m = DOMAIN map \cup {r.name}
<1>1. ASSUME NEW f, f = Registry!Assign(map, r.name, r.class)
      PROVE  Registered(f) /\ DOMAIN f = DOMAIN map \cup {r.name}
  BY <1>1 DEF Registry!Assign, Registered
<1>2. CASE r.name \notin DOMAIN map
  BY <1>1, <1>2 DEF Registry!Emplace
<1>3. CASE r.name \in DOMAIN map
  BY <1>1, <1>3 DEF Registry!Emplace
<1> QED
  BY <1>2, <1>3

\* A constructor adds its registration and keeps the others.
LEMMA ConstructKeeps ==
  ASSUME RegistryAssumption, RegistryInv, NEW r \in Registerer, Registry!Construct(r)
  PROVE  RegistryInv'
<1> DEFINE I == Registry!Instance
           done == Registerer \ pending
<1>1. Holds(I, done) /\ ~running /\ running' = running /\ pending' = pending \ {r} /\ r \in pending
  BY DEF RegistryInv, Registry!Construct
<1>2. ASSUME r.kind = "factory" PROVE Holds(instance', done \cup {r})
  <2> DEFINE creator == Registry!Assign(I.creator, r.name, r.class)
             destroyer == Registry!Assign(I.destroyer, r.name, r.class)
             traits == Registry!Emplace(I.traits, r.name, r.class)
  <2>1. instance' = [I EXCEPT !.creator = creator, !.destroyer = destroyer, !.traits = traits]
    BY <1>2, Zenon DEF Registry!Construct, Registry!RegisterFactory
  <2>2. /\ Registered(creator) /\ DOMAIN creator = DOMAIN I.creator \cup {r.name}
        /\ Registered(traits) /\ DOMAIN traits = DOMAIN I.traits \cup {r.name}
    BY <1>1, <1>2, AssignRegisters DEF Holds
  <2> HIDE DEF I, creator, destroyer, traits
  <2>3. instance' = Maps(creator, destroyer, traits, I.elements, I.element_traits)
    BY <1>1, <2>1, Zenon DEF Holds, Maps
  <2> QED
    BY <1>1, <1>2, <2>2, <2>3 DEF Holds, Maps
<1>3. ASSUME r.kind # "factory" PROVE Holds(instance', done \cup {r})
  <2> DEFINE elements == Registry!Assign(I.elements, r.name, r)
             element_traits == Registry!Emplace(I.element_traits, r.name, r.class)
  <2>1. instance' = [I EXCEPT !.elements = elements, !.element_traits = element_traits]
    BY <1>3, Zenon DEF Registry!Construct, Registry!RegisterElement
  <2>2. /\ DOMAIN elements = DOMAIN I.elements \cup {r.name}
        /\ \A n \in DOMAIN elements : elements[n] \in Registerer
    BY <1>1 DEF Holds, Registry!Assign
  <2> HIDE DEF I, elements, element_traits
  <2>3. instance' = Maps(I.creator, I.destroyer, I.traits, elements, element_traits)
    BY <1>1, <2>1, Zenon DEF Holds, Maps
  <2> QED
    BY <1>1, <1>3, <2>2, <2>3 DEF Holds, Maps
<1>4. instance' # NULL
  BY <1>2, <1>3 DEF Holds, RegistryAssumption
<1>5. Registry!Instance' = instance' /\ Registerer \ pending' = done \cup {r}
  BY <1>1, <1>4 DEF Registry!Instance
<1>6. Holds(instance', Registerer \ pending')
  BY <1>2, <1>3, <1>5, Zenon
<1> QED
  BY <1>1, <1>5, <1>6 DEF RegistryInv

LEMMA RegistryStep == RegistryAssumption /\ RegistryInv /\ [Registry!Next]_(Registry!vars) => RegistryInv'
<1> SUFFICES ASSUME RegistryAssumption, RegistryInv, [Registry!Next]_(Registry!vars) PROVE RegistryInv'
  OBVIOUS
<1>1. ASSUME NEW r \in Registerer, Registry!Construct(r) PROVE RegistryInv'
  BY <1>1, ConstructKeeps
<1>2. CASE Registry!Main
  <2>1. /\ instance' = Registry!Instance /\ pending' = pending /\ pending = {}
        /\ Holds(Registry!Instance, Registerer \ pending)
    BY <1>2 DEF Registry!Main, RegistryInv
  <2>2. Registry!Instance # NULL
    BY <2>1 DEF Holds, RegistryAssumption
  <2>3. Registry!Instance' = Registry!Instance
    BY <2>1, <2>2 DEF Registry!Instance
  <2> QED
    BY <2>1, <2>2, <2>3 DEF RegistryInv
<1>3. ASSUME UNCHANGED <<instance, pending, running>> PROVE RegistryInv'
  BY <1>3 DEF RegistryInv, Registry!Instance, Holds, Registered
<1> QED
  BY <1>1, <1>2, <1>3, Zenon
     DEF Registry!Next, Registry!CreateElement, Registry!DestroyElement, Registry!vars

\* In whatever order C++ constructs the static registerers, main() finds every
\* name that was registered, with a class and a type registered under it.
THEOREM RegistrationsAreKept ==
  ASSUME RegistryAssumption PROVE Registry!Spec => []Registry!EveryRegistrationKept
<1>1. ASSUME RegistryInv, running, NEW r \in Registerer
      PROVE  IF r.kind = "factory"
             THEN /\ Registry!Contain(r.name)
                  /\ [r EXCEPT !.class = instance.creator[r.name]] \in Registerer
                  /\ [r EXCEPT !.class = Registry!TypeIndex(r.name)] \in Registerer
             ELSE Registry!FindElement(r.name) # NULL
  <2>1. Holds(instance, Registerer)
    BY <1>1 DEF RegistryInv, Registry!Instance
  <2>2. CASE r.kind = "factory"
    <3>1. r.name \in DOMAIN instance.creator /\ r.name \in DOMAIN instance.traits
      BY <2>1, <2>2 DEF Holds
    <3>2. ASSUME NEW map, Registered(map), r.name \in DOMAIN map
          PROVE  [r EXCEPT !.class = map[r.name]] \in Registerer
      <4>1. PICK q \in Registerer : q.kind = "factory" /\ q.name = r.name /\ q.class = map[r.name]
        BY <3>2 DEF Registered
      <4>2. r = [kind |-> r.kind, name |-> r.name, class |-> r.class] /\ q = [kind |-> q.kind, name |-> q.name, class |-> q.class]
        BY DEF RegistryAssumption
      <4>3. [r EXCEPT !.class = map[r.name]] = q
        BY <2>2, <4>1, <4>2
      <4> QED
        BY <4>3
    <3>3. Registry!Contain(r.name) /\ Registry!TypeIndex(r.name) = instance.traits[r.name]
      BY <3>1 DEF Registry!Contain, Registry!TypeIndex
    <3> QED
      BY <2>1, <2>2, <3>1, <3>2, <3>3, Zenon DEF Holds
  <2>3. CASE r.kind # "factory"
    BY <2>1, <2>3 DEF Holds, Registry!FindElement, RegistryAssumption
  <2> QED
    BY <2>2, <2>3
<1>2. RegistryInv => Registry!EveryRegistrationKept
  BY <1>1, Zenon DEF Registry!EveryRegistrationKept
<1> QED
  BY <1>2, RegistryInitInv, RegistryStep, PTL DEF Registry!Spec

-----------------------------------------------------------------------------
(* LSMDB.  The inductive invariant StoreInv says of the files what get()   *)
(* reads from them: of a key that no failing write has hit, only lines     *)
(* that were put, and in the newest file with it the last one.             *)

CONSTANTS StoreKey, StoreValue, SOME_THRESHOLD, MaxPuts
VARIABLES memtable, ssTables, puts, present, lost

Store == INSTANCE LSMDB WITH Key <- StoreKey, Value <- StoreValue

Char == STRING \cup {":"}

StoreType ==
  /\ DOMAIN memtable \subseteq StoreKey
  /\ puts \in [StoreKey -> Seq(StoreValue)]
  /\ present \subseteq StoreKey
  /\ ssTables \in Seq(SUBSET Seq(Char))

\* The lines of pairs that were put for k.
PutLines(k) == {Store!Line(k, v) : v \in Store!Range(puts[k])}

\* File f is the newest with k, and has its last value only.
NewestHolds(k, f) ==
  /\ f \in Store!HeldIn(k) /\ \A g \in Store!HeldIn(k) : f >= g
  /\ Store!Found(k, ssTables[f]) = {Store!Line(k, Store!LastPut(k))}

StoreInv ==
  /\ StoreType
  /\ \A k \in DOMAIN memtable : puts[k] # << >> /\ memtable[k] = Store!LastPut(k)
  /\ \A k \in StoreKey \ lost : \A f \in DOMAIN ssTables : Store!Found(k, ssTables[f]) \subseteq PutLines(k)
  /\ \A k \in present \ lost : k \notin DOMAIN memtable => \E f \in DOMAIN ssTables : NewestHolds(k, f)

\* What the constants are good for.
LEMMA StorableFacts ==
  ASSUME Store!Storable
  PROVE  /\ \A k \in StoreKey : k \in Seq(Char) /\ \A j \in DOMAIN k : k[j] # ":"
         /\ \A v \in StoreValue : v \in Seq(Char) /\ v # << >>
  BY DEF Store!Storable, Char

\* get() finds in the first n characters of a line the key k, if they are enough.
IsCut(line, k, n) ==
  /\ line \in Seq(Char) /\ Len(line) = n
  /\ ":" \in Store!Range(line) <=> n > Len(k)
  /\ n > Len(k) => Store!FirstColon(line) = Len(k) + 1 /\ Store!CurKey(line) = k

\* get() splits the beginning of a line of dumpToSSTable() at the colon between
\* the key and the value, if it is as long as that.
LEMMA CutSplits ==
  ASSUME NEW k \in Seq(Char), \A j \in DOMAIN k : k[j] # ":", NEW v \in Seq(Char),
         NEW n \in Nat, n <= Len(k) + Len(v) + 1
  PROVE  IsCut(SubSeq(Store!Line(k, v), 1, n), k, n)
<1> DEFINE m == Len(k)
           full == Store!Line(k, v)
           line == SubSeq(Store!Line(k, v), 1, n)
<1>1. m \in Nat /\ Len(v) \in Nat /\ DOMAIN k = 1 .. m /\ ":" \in Char
  BY DEF Char
<1>2. /\ full \in Seq(Char) /\ Len(full) = m + 1 + Len(v)
      /\ \A j \in 1 .. m : full[j] = k[j]
      /\ full[m + 1] = ":"
  BY <1>1 DEF Store!Line
<1> HIDE DEF full
<1>3. /\ line \in Seq(Char) /\ Len(line) = n /\ DOMAIN line = 1 .. n
      /\ \A j \in 1 .. n : line[j] = full[j]
  BY <1>1, <1>2 DEF full
<1> HIDE DEF m, line
<1>4. \A j \in DOMAIN line : j <= m => line[j] # ":"
  <2> SUFFICES ASSUME NEW j \in DOMAIN line, j <= m PROVE line[j] # ":"
    OBVIOUS
  <2>1. j \in 1 .. m /\ j \in 1 .. n
    BY <1>1, <1>3
  <2> QED
    BY <1>1, <1>2, <1>3, <2>1, Zenon
<1>5. ASSUME n <= m PROVE IsCut(line, k, n)
  <2>1. \A j \in DOMAIN line : j <= m
    BY <1>1, <1>3, <1>5
  <2>2. ":" \notin Store!Range(line)
    BY <1>4, <2>1, Zenon DEF Store!Range
  <2>3. ~(n > m)
    BY <1>1, <1>5
  <2> QED
    BY <1>3, <2>2, <2>3, Zenon DEF m, IsCut
<1>6. ASSUME n > m PROVE IsCut(line, k, n)
  <2>1. m + 1 \in DOMAIN line /\ m + 1 \in 1 .. n
    BY <1>1, <1>3, <1>6
  <2>2. line[m + 1] = ":"
    BY <1>2, <1>3, <2>1, Zenon
  <2>3. ":" \in Store!Range(line)
    BY <2>1, <2>2, Zenon DEF Store!Range
  <2>4. \A j \in 1 .. (m + 1) - 1 : line[j] # ":"
    <3>1. \A j \in 1 .. (m + 1) - 1 : j \in DOMAIN line /\ j <= m
      BY <1>1, <1>3, <1>6
    <3> QED
      BY <1>4, <3>1, Zenon
  <2>5. ASSUME NEW i \in DOMAIN line, line[i] = ":", \A j \in 1 .. i - 1 : line[j] # ":"
        PROVE  i = m + 1
    <3>1. i \in 1 .. n /\ ~(i <= m)
      BY <1>3, <1>4, <2>5, Zenon
    <3>2. ~(m + 1 \in 1 .. i - 1)
      BY <2>2, <2>5, Zenon
    <3> QED
      BY <1>1, <3>1, <3>2
  <2>6. Store!FirstColon(line) = m + 1
    BY <2>1, <2>2, <2>4, <2>5, Zenon DEF Store!FirstColon
  <2>7. SubSeq(line, 1, m) = k
    BY <1>1, <1>2, <1>3, <1>6 DEF m
  <2>8. (m + 1) - 1 = m
    BY <1>1
  <2> QED
    BY <1>3, <1>6, <2>3, <2>6, <2>7, <2>8, Zenon DEF Store!CurKey, m, IsCut
<1>7. n <= m \/ n > m
  BY <1>1
<1> QED
  BY <1>5, <1>6, <1>7, Zenon DEF line

\* A whole line is found under its key and no other, with its value.
LEMMA LineSplits ==
  ASSUME NEW k \in Seq(Char), \A j \in DOMAIN k : k[j] # ":", NEW v \in Seq(Char)
  PROVE  /\ Store!Line(k, v) \in Seq(Char) /\ ":" \in Store!Range(Store!Line(k, v))
         /\ Store!CurKey(Store!Line(k, v)) = k /\ Store!CurValue(Store!Line(k, v)) = v
<1> DEFINE m == Len(k)
           line == Store!Line(k, v)
<1>1. m \in Nat /\ Len(v) \in Nat /\ ":" \in Char
  BY DEF Char
<1>2. /\ line \in Seq(Char) /\ Len(line) = m + Len(v) + 1
      /\ \A j \in 1 .. Len(v) : line[m + 1 + j] = v[j]
  BY <1>1 DEF Store!Line
<1>3. IsCut(line, k, m + Len(v) + 1)
  <2>1. m + Len(v) + 1 \in Nat /\ m + Len(v) + 1 <= Len(k) + Len(v) + 1
    BY <1>1
  <2>2. IsCut(SubSeq(line, 1, m + Len(v) + 1), k, m + Len(v) + 1)
    BY <2>1, CutSplits, Zenon
  <2> HIDE DEF line, m
  <2>3. SubSeq(line, 1, m + Len(v) + 1) = line
    BY <1>1, <1>2
  <2> QED
    BY <2>2, <2>3, Zenon
<1> HIDE DEF line
<1>4. ":" \in Store!Range(line) /\ Store!FirstColon(line) = m + 1 /\ Store!CurKey(line) = k
  <2>1. m + Len(v) + 1 > Len(k)
    BY <1>1
  <2> QED
    BY <1>3, <2>1, Zenon DEF IsCut
<1> HIDE DEF m
<1>5. SubSeq(line, m + 2, Len(line)) = v /\ (m + 1) + 1 = m + 2
  BY <1>1, <1>2
<1> QED
  BY <1>2, <1>4, <1>5, Zenon DEF Store!CurValue, line

\* What get() finds in the lines of a table, for the keys that were written.
LEMMA FoundInLines ==
  ASSUME Store!Storable, NEW table, DOMAIN table \subseteq StoreKey,
         \A x \in DOMAIN table : table[x] \in StoreValue,
         NEW keys, keys \subseteq DOMAIN table
  PROVE  /\ Store!Lines(table, keys) \subseteq Seq(Char)
         /\ \A x \in StoreKey : Store!Found(x, Store!Lines(table, keys)) =
                                IF x \in keys THEN {Store!Line(x, table[x])} ELSE {}
<1>1. ASSUME NEW y \in keys
      PROVE  LET line == Store!Line(y, table[y]) IN
             /\ line \in Seq(Char) /\ ":" \in Store!Range(line)
             /\ Store!CurKey(line) = y /\ Store!CurValue(line) # << >>
  <2>1. y \in StoreKey /\ table[y] \in StoreValue
    BY <1>1, Zenon
  <2>2. y \in Seq(Char) /\ (\A j \in DOMAIN y : y[j] # ":") /\ table[y] \in Seq(Char) /\ table[y] # << >>
    BY <2>1, StorableFacts, Zenon
  <2> QED
    BY <2>2, LineSplits, Zenon
<1>2. \A line : line \in Store!Lines(table, keys) <=> \E y \in keys : line = Store!Line(y, table[y])
  BY Zenon DEF Store!Lines
<1>3. Store!Lines(table, keys) \subseteq Seq(Char)
  BY <1>1, <1>2, Zenon
<1>4. ASSUME NEW x \in keys
      PROVE  Store!Found(x, Store!Lines(table, keys)) = {Store!Line(x, table[x])}
  BY <1>1, <1>2, Zenon DEF Store!Found
<1>5. ASSUME NEW x \in StoreKey, x \notin keys
      PROVE  Store!Found(x, Store!Lines(table, keys)) = {}
  BY <1>1, <1>2, <1>5, Zenon DEF Store!Found
<1> QED
  BY <1>3, <1>4, <1>5, Zenon

\* A line that is cut off is found under no other key than its own.
LEMMA FoundInCut ==
  ASSUME Store!Storable, NEW table, NEW y \in StoreKey, table[y] \in StoreValue,
         NEW cut \in Store!CutLines(table, y)
  PROVE  /\ cut \in Seq(Char)
         /\ \A x \in StoreKey \ {y} : Store!Found(x, {cut}) = {}
<1>1. y \in Seq(Char) /\ (\A j \in DOMAIN y : y[j] # ":") /\ table[y] \in Seq(Char)
  BY StorableFacts, Zenon
<1>2. PICK n \in 0 .. Len(y) + Len(table[y]) : cut = SubSeq(Store!Line(y, table[y]), 1, n)
  BY Zenon DEF Store!CutLines
<1>3. n \in Nat /\ n <= Len(y) + Len(table[y]) + 1
  BY <1>1
<1>4. IsCut(cut, y, n)
  BY <1>1, <1>2, <1>3, CutSplits, Zenon
<1>5. ":" \in Store!Range(cut) => Store!CurKey(cut) = y
  BY <1>4, Zenon DEF IsCut
<1> QED
  BY <1>4, <1>5, Zenon DEF IsCut, Store!Found

\* A put makes its value the last one of its key.
LEMMA PutFacts ==
  ASSUME StoreType, NEW k \in StoreKey, NEW v \in StoreValue, puts' = [puts EXCEPT ![k] = Append(@, v)]
  PROVE  /\ puts' \in [StoreKey -> Seq(StoreValue)]
         /\ \A x \in StoreKey : PutLines(x) \subseteq PutLines(x)'
         /\ \A x \in StoreKey \ {k} : puts'[x] = puts[x]
         /\ puts'[k] # << >> /\ Store!LastPut(k)' = v
<1>1. puts \in [StoreKey -> Seq(StoreValue)] /\ puts[k] \in Seq(StoreValue)
  BY Zenon DEF StoreType
<1>2. /\ puts' \in [StoreKey -> Seq(StoreValue)] /\ puts'[k] = Append(puts[k], v)
      /\ \A x \in StoreKey \ {k} : puts'[x] = puts[x]
  BY <1>1
<1>3. ASSUME NEW s \in Seq(StoreValue)
      PROVE  /\ Store!Range(s) \subseteq Store!Range(Append(s, v))
             /\ Append(s, v) # << >> /\ Append(s, v)[Len(Append(s, v))] = v
  <2>1. /\ DOMAIN Append(s, v) = 1 .. Len(s) + 1 /\ DOMAIN s = 1 .. Len(s) /\ Len(s) \in Nat
        /\ Append(s, v)[Len(s) + 1] = v /\ \A j \in 1 .. Len(s) : Append(s, v)[j] = s[j]
        /\ Len(Append(s, v)) = Len(s) + 1
    OBVIOUS
  <2> QED
    BY <2>1 DEF Store!Range
<1>4. \A x \in StoreKey : Store!Range(puts[x]) \subseteq Store!Range(puts'[x])
  BY <1>1, <1>2, <1>3, Zenon
<1>5. \A x \in StoreKey : PutLines(x) \subseteq PutLines(x)'
  BY <1>4, Zenon DEF PutLines
<1> QED
  BY <1>1, <1>2, <1>3, <1>5, Zenon DEF Store!LastPut

\* A table of the last values that were put.
LastValues(table, p) ==
  /\ DOMAIN table \subseteq StoreKey
  /\ \A x \in DOMAIN table :
       /\ p[x] # << >> /\ table[x] = p[x][Len(p[x])]
       /\ table[x] \in StoreValue /\ table[x] \in Store!Range(p[x])

LEMMA LastIsPut ==
  ASSUME NEW s \in Seq(StoreValue), s # << >>
  PROVE  s[Len(s)] \in StoreValue /\ s[Len(s)] \in Store!Range(s)
<1>1. Len(s) \in DOMAIN s
  OBVIOUS
<1> QED
  BY <1>1 DEF Store!Range

LEMMA MemPutFacts ==
  ASSUME StoreInv, NEW k \in StoreKey, NEW v \in StoreValue, puts' = [puts EXCEPT ![k] = Append(@, v)]
  PROVE  LastValues(Store!MemPut(k, v), puts') /\ DOMAIN Store!MemPut(k, v) = DOMAIN memtable \cup {k}
<1> DEFINE table == Store!MemPut(k, v)
<1>1. StoreType
  BY Zenon DEF StoreInv
<1>2. /\ puts' \in [StoreKey -> Seq(StoreValue)]
      /\ \A x \in StoreKey \ {k} : puts'[x] = puts[x]
      /\ puts'[k] # << >> /\ puts'[k][Len(puts'[k])] = v
  BY <1>1, PutFacts, Zenon DEF Store!LastPut
<1>3. /\ DOMAIN table = DOMAIN memtable \cup {k} /\ table[k] = v
      /\ \A x \in DOMAIN table \ {k} : x \in DOMAIN memtable /\ table[x] = memtable[x]
  BY Zenon DEF Store!MemPut
<1> HIDE DEF table
<1>4. DOMAIN table \subseteq StoreKey
  BY <1>1, <1>3, Zenon DEF StoreType
<1>5. ASSUME NEW x \in DOMAIN table
      PROVE  puts'[x] # << >> /\ table[x] = puts'[x][Len(puts'[x])]
  <2>1. CASE x = k
    BY <1>2, <1>3, <2>1, Zenon
  <2>2. CASE x # k
    <3>1. x \in DOMAIN memtable /\ table[x] = memtable[x] /\ puts'[x] = puts[x]
      BY <1>2, <1>3, <1>4, <2>2, Zenon
    <3> QED
      BY <3>1, Zenon DEF StoreInv, Store!LastPut
  <2> QED
    BY <2>1, <2>2, Zenon
<1>6. ASSUME NEW x \in DOMAIN table
      PROVE  table[x] \in StoreValue /\ table[x] \in Store!Range(puts'[x])
  <2>1. puts'[x] \in Seq(StoreValue)
    BY <1>2, <1>4, Zenon
  <2> QED
    BY <1>5, <2>1, LastIsPut, Zenon
<1>7. LastValues(table, puts')
  BY <1>4, <1>5, <1>6, Zenon DEF LastValues
<1> QED
  BY <1>3, <1>7, Zenon DEF table

\* A file and the changes of puts and present leave what get() finds of a key in
\* the files that were there.
LEMMA OldFiles ==
  ASSUME StoreType, NEW lines, lines \subseteq Seq(Char), ssTables' = Append(ssTables, lines)
  PROVE  LET n == Len(ssTables) + 1 IN
         /\ ssTables' \in Seq(SUBSET Seq(Char))
         /\ n \in DOMAIN ssTables' /\ ssTables'[n] = lines
         /\ \A f \in DOMAIN ssTables' : f = n \/ f \in DOMAIN ssTables
         /\ \A f \in DOMAIN ssTables : /\ f \in DOMAIN ssTables' /\ ssTables'[f] = ssTables[f]
                                       /\ n >= f /\ n # f
         /\ n >= n
<1>1. ssTables \in Seq(SUBSET Seq(Char)) /\ lines \in SUBSET Seq(Char)
  BY Zenon DEF StoreType
<1> QED
  BY <1>1

\* flushMemTable with a file that holds the table's lines for the keys in whole,
\* and nothing of a key that is not lost beside them.
LEMMA FileKeeps ==
  ASSUME StoreInv, NEW k \in StoreKey, NEW v \in StoreValue,
         puts' = [puts EXCEPT ![k] = Append(@, v)], present' = present \cup {k},
         memtable' = << >>, NEW lines, lines \subseteq Seq(Char), ssTables' = Append(ssTables, lines),
         lost \subseteq lost', NEW table, table = Store!MemPut(k, v),
         \A x \in StoreKey \ lost' : Store!Found(x, lines) =
            IF x \in DOMAIN table THEN {Store!Line(x, table[x])} ELSE {}
  PROVE  StoreInv'
<1> DEFINE n == Len(ssTables) + 1
<1>1. StoreType
  BY Zenon DEF StoreInv
<1>2. /\ ssTables' \in Seq(SUBSET Seq(Char))
      /\ n \in DOMAIN ssTables' /\ ssTables'[n] = lines
      /\ \A f \in DOMAIN ssTables' : f = n \/ f \in DOMAIN ssTables
      /\ \A f \in DOMAIN ssTables : /\ f \in DOMAIN ssTables' /\ ssTables'[f] = ssTables[f]
                                    /\ n >= f /\ n # f
      /\ n >= n
  BY <1>1, OldFiles, Zenon
<1>3. /\ puts' \in [StoreKey -> Seq(StoreValue)]
      /\ \A x \in StoreKey : PutLines(x) \subseteq PutLines(x)'
      /\ \A x \in StoreKey \ {k} : puts'[x] = puts[x]
  BY <1>1, PutFacts, Zenon
<1>4. LastValues(table, puts') /\ DOMAIN table = DOMAIN memtable \cup {k}
  BY MemPutFacts, Zenon
<1> HIDE DEF n
<1>5. DOMAIN memtable' = {}
  OBVIOUS
<1>6. StoreType'
  BY <1>1, <1>2, <1>3, <1>5, Zenon DEF StoreType
<1>7. ASSUME NEW x \in StoreKey \ lost', NEW f \in DOMAIN ssTables'
      PROVE  Store!Found(x, ssTables'[f]) \subseteq PutLines(x)'
  <2>1. CASE f = n
    <3>1. x \in DOMAIN table => Store!Line(x, table[x]) \in PutLines(x)'
      BY <1>4, Zenon DEF LastValues, PutLines
    <3>2. Store!Found(x, ssTables'[f]) = IF x \in DOMAIN table THEN {Store!Line(x, table[x])} ELSE {}
      BY <1>2, <2>1, Zenon
    <3> QED
      BY <3>1, <3>2, Zenon
  <2>2. CASE f \in DOMAIN ssTables
    <3>1. Store!Found(x, ssTables[f]) \subseteq PutLines(x)
      BY <2>2, Zenon DEF StoreInv
    <3> QED
      BY <1>2, <1>3, <2>2, <3>1, Zenon
  <2> QED
    BY <1>2, <2>1, <2>2, Zenon
<1>8. \A x : /\ Store!HeldIn(x)' = {f \in DOMAIN ssTables' : Store!Found(x, ssTables'[f]) # {}}
             /\ Store!HeldIn(x) = {f \in DOMAIN ssTables : Store!Found(x, ssTables[f]) # {}}
  BY Zenon DEF Store!HeldIn, Store!Found
<1>9. \A x : \A f : NewestHolds(x, f)' <=>
        /\ f \in Store!HeldIn(x)' /\ \A g \in Store!HeldIn(x)' : f >= g
        /\ Store!Found(x, ssTables'[f]) = {Store!Line(x, puts'[x][Len(puts'[x])])}
  BY Zenon DEF NewestHolds, Store!HeldIn, Store!Found, Store!LastPut
<1>10. ASSUME NEW x \in present' \ lost' PROVE \E f \in DOMAIN ssTables' : NewestHolds(x, f)'
  <2>1. x \in StoreKey
    BY <1>6, Zenon DEF StoreType
  <2>2. CASE x \in DOMAIN table
    <3>1. Store!Found(x, ssTables'[n]) = {Store!Line(x, puts'[x][Len(puts'[x])])}
      BY <1>2, <1>4, <2>1, <2>2, Zenon DEF LastValues
    <3>2. n \in Store!HeldIn(x)' /\ \A g \in Store!HeldIn(x)' : n >= g
      BY <1>2, <1>8, <3>1, Zenon
    <3> QED
      BY <1>2, <1>9, <3>1, <3>2, Zenon
  <2>3. CASE x \notin DOMAIN table
    <3>1. x \in present \ lost /\ x \notin DOMAIN memtable /\ x # k /\ puts'[x] = puts[x]
      BY <1>3, <1>4, <2>1, <2>3, Zenon
    <3>2. PICK f \in DOMAIN ssTables : NewestHolds(x, f)
      BY <3>1, Zenon DEF StoreInv
    <3>3. Store!Found(x, ssTables'[n]) = {}
      BY <1>2, <2>1, <2>3, Zenon
    <3>4. Store!HeldIn(x)' = Store!HeldIn(x)
      BY <1>2, <1>8, <3>3, Zenon
    <3>5. NewestHolds(x, f)'
      BY <1>2, <1>9, <3>1, <3>2, <3>4, Zenon DEF NewestHolds, Store!LastPut
    <3> QED
      BY <1>2, <3>2, <3>5, Zenon
  <2> QED
    BY <2>2, <2>3, Zenon
<1> QED
  BY <1>5, <1>6, <1>7, <1>10, Zenon DEF StoreInv, Store!Found

\* put() that keeps its table in memory.
LEMMA TableKeeps ==
  ASSUME StoreInv, NEW k \in StoreKey, NEW v \in StoreValue,
         puts' = [puts EXCEPT ![k] = Append(@, v)], present' = present \cup {k},
         memtable' = Store!MemPut(k, v), ssTables' = ssTables, lost' = lost
  PROVE  StoreInv'
<1>1. StoreType
  BY Zenon DEF StoreInv
<1>2. /\ puts' \in [StoreKey -> Seq(StoreValue)]
      /\ \A x \in StoreKey : PutLines(x) \subseteq PutLines(x)'
      /\ \A x \in StoreKey \ {k} : puts'[x] = puts[x]
  BY <1>1, PutFacts, Zenon
<1>3. LastValues(memtable', puts') /\ DOMAIN memtable' = DOMAIN memtable \cup {k}
  BY MemPutFacts, Zenon
<1>4. StoreType'
  BY <1>1, <1>2, <1>3, Zenon DEF StoreType, LastValues
<1>5. \A x \in DOMAIN memtable' : puts'[x] # << >> /\ memtable'[x] = Store!LastPut(x)'
  BY <1>3, Zenon DEF LastValues, Store!LastPut
<1>6. \A x \in StoreKey \ lost' : \A f \in DOMAIN ssTables' : Store!Found(x, ssTables'[f]) \subseteq PutLines(x)'
  BY <1>2, Zenon DEF StoreInv
<1>7. ASSUME NEW x \in present' \ lost', x \notin DOMAIN memtable'
      PROVE  \E f \in DOMAIN ssTables' : NewestHolds(x, f)'
  <2>1. x \in present \ lost /\ x \notin DOMAIN memtable /\ x \in StoreKey /\ puts'[x] = puts[x]
    BY <1>1, <1>2, <1>3, <1>7, Zenon DEF StoreType
  <2>2. PICK f \in DOMAIN ssTables : NewestHolds(x, f)
    BY <2>1, Zenon DEF StoreInv
  <2>3. NewestHolds(x, f)'
    BY <2>1, <2>2, Zenon DEF NewestHolds, Store!HeldIn, Store!Found, Store!LastPut
  <2> QED
    BY <2>2, <2>3, Zenon
<1> QED
  BY <1>4, <1>5, <1>6, <1>7, Zenon DEF StoreInv, Store!Found

LEMMA PutKeeps ==
  ASSUME Store!Storable, StoreInv, NEW k \in StoreKey, NEW v \in StoreValue, Store!Put(k, v)
  PROVE  StoreInv'
<1> DEFINE table == Store!MemPut(k, v)
<1>1. puts' = [puts EXCEPT ![k] = Append(@, v)] /\ present' = present \cup {k}
  BY Zenon DEF Store!Put
<1>2. /\ DOMAIN table \subseteq StoreKey
      /\ \A x \in DOMAIN table : table[x] \in StoreValue
  BY <1>1, MemPutFacts, Zenon DEF LastValues
<1>3. CASE memtable' = table /\ ssTables' = ssTables /\ lost' = lost
  BY <1>1, <1>3, TableKeeps, Zenon
<1>4. CASE memtable' = << >> /\ ssTables' = Append(ssTables, Store!Lines(table, DOMAIN table)) /\ lost' = lost
  <2> DEFINE lines == Store!Lines(table, DOMAIN table)
  <2>1. /\ lines \subseteq Seq(Char)
        /\ \A x \in StoreKey : Store!Found(x, lines) = IF x \in DOMAIN table THEN {Store!Line(x, table[x])} ELSE {}
    BY <1>2, FoundInLines, Zenon
  <2> HIDE DEF lines
  <2>2. ssTables' = Append(ssTables, lines) /\ memtable' = << >> /\ lost \subseteq lost'
    BY <1>4, Zenon DEF lines
  <2>3. \A x \in StoreKey \ lost' :
          Store!Found(x, lines) = IF x \in DOMAIN table THEN {Store!Line(x, table[x])} ELSE {}
    BY <2>1, Zenon
  <2> QED
    BY <1>1, <2>1, <2>2, <2>3, FileKeeps, Zenon
<1>5. CASE /\ memtable' = << >>
           /\ \E whole \in SUBSET DOMAIN table : \E y \in DOMAIN table \ whole : \E cut \in Store!CutLines(table, y) :
                /\ ssTables' = Append(ssTables, Store!Lines(table, whole) \cup {cut})
                /\ lost' = lost \cup (DOMAIN table \ whole)
  <2>1. PICK whole \in SUBSET DOMAIN table : \E y \in DOMAIN table \ whole : \E cut \in Store!CutLines(table, y) :
               /\ ssTables' = Append(ssTables, Store!Lines(table, whole) \cup {cut})
               /\ lost' = lost \cup (DOMAIN table \ whole)
    BY <1>5, Zenon
  <2>2. PICK y \in DOMAIN table \ whole : \E cut \in Store!CutLines(table, y) :
               /\ ssTables' = Append(ssTables, Store!Lines(table, whole) \cup {cut})
               /\ lost' = lost \cup (DOMAIN table \ whole)
    BY <2>1, Zenon
  <2>3. PICK cut \in Store!CutLines(table, y) :
               /\ ssTables' = Append(ssTables, Store!Lines(table, whole) \cup {cut})
               /\ lost' = lost \cup (DOMAIN table \ whole)
    BY <2>2, Zenon
  <2> DEFINE lines == Store!Lines(table, whole) \cup {cut}
  <2>4. /\ Store!Lines(table, whole) \subseteq Seq(Char)
        /\ \A x \in StoreKey : Store!Found(x, Store!Lines(table, whole)) =
                               IF x \in whole THEN {Store!Line(x, table[x])} ELSE {}
    BY <1>2, <2>1, FoundInLines, Zenon
  <2>5. cut \in Seq(Char) /\ \A x \in StoreKey \ {y} : Store!Found(x, {cut}) = {}
    BY <1>2, <2>2, <2>3, FoundInCut, Zenon
  <2>6. \A x : Store!Found(x, lines) = Store!Found(x, Store!Lines(table, whole)) \cup Store!Found(x, {cut})
    BY Zenon DEF Store!Found
  <2>7. lines \subseteq Seq(Char)
    BY <2>4, <2>5, Zenon
  <2> HIDE DEF lines
  <2>8. ASSUME NEW x \in StoreKey \ lost'
        PROVE  Store!Found(x, lines) = IF x \in DOMAIN table THEN {Store!Line(x, table[x])} ELSE {}
    <3>1. x # y /\ (x \in DOMAIN table <=> x \in whole)
      BY <2>1, <2>2, <2>3, Zenon
    <3> QED
      BY <2>4, <2>5, <2>6, <3>1, Zenon
  <2>9. ssTables' = Append(ssTables, lines) /\ lost \subseteq lost' /\ memtable' = << >>
    BY <1>5, <2>3, Zenon DEF lines
  <2> QED
    BY <1>1, <2>7, <2>8, <2>9, FileKeeps, Zenon
<1> QED
  BY <1>3, <1>4, <1>5, Zenon DEF Store!Put, Store!FlushMemTable

LEMMA DelKeeps ==
  ASSUME StoreInv, NEW k \in StoreKey, Store!Del(k) PROVE StoreInv'
<1>1. /\ DOMAIN memtable' = DOMAIN memtable \ {k} /\ \A x \in DOMAIN memtable' : memtable'[x] = memtable[x]
      /\ present' = present \ {k} /\ ssTables' = ssTables /\ puts' = puts /\ lost' = lost
  BY Zenon DEF Store!Del
<1>2. StoreType'
  BY <1>1, Zenon DEF StoreInv, StoreType
<1>3. /\ \A x : PutLines(x)' = PutLines(x) /\ Store!LastPut(x)' = Store!LastPut(x)
      /\ \A x : \A f : NewestHolds(x, f)' <=> NewestHolds(x, f)
      /\ \A x : \A f : Store!Found(x, ssTables[f])' = Store!Found(x, ssTables[f])
  BY <1>1, Zenon DEF PutLines, Store!LastPut, NewestHolds, Store!HeldIn, Store!Found
<1>4. \A x \in DOMAIN memtable' : puts'[x] # << >> /\ memtable'[x] = Store!LastPut(x)'
  BY <1>1, <1>3, Zenon DEF StoreInv
<1>5. \A x \in present' \ lost' : x \notin DOMAIN memtable' => \E f \in DOMAIN ssTables' : NewestHolds(x, f)'
  BY <1>1, <1>3, Zenon DEF StoreInv
<1>6. \A x \in StoreKey \ lost' : \A f \in DOMAIN ssTables' : Store!Found(x, ssTables[f])' \subseteq PutLines(x)'
  BY <1>1, <1>3, Zenon DEF StoreInv
<1> QED
  BY <1>2, <1>4, <1>5, <1>6, Zenon DEF StoreInv

-----------------------------------------------------------------------------
(* RpcServing.                                                             *)

CONSTANTS Service, MethodsOf, Method, Topology, MaxServings
VARIABLES phase, rpc_serving_configs, raw_services, topologies, necessities

Serving == INSTANCE RpcServing

\* What the phases have checked stays true: add_serving and add_topology are
\* over when AppProxy::init checks the topologies.
ServingInv ==
  /\ rpc_serving_configs \in Seq(Serving!Config)
  /\ phase \in {"start", "serving"} => Serving!Checked
  /\ phase = "serving" =>
       Serving!Accepted /\ necessities = [s \in Service |-> Serving!Necessities(s)]

LEMMA ServingInitInv == Serving!Init => ServingInv
  BY DEF Serving!Init, ServingInv

LEMMA ServingStep == ServingInv /\ [Serving!Next]_(Serving!vars) => ServingInv'
<1> SUFFICES ASSUME ServingInv, [Serving!Next]_(Serving!vars) PROVE ServingInv'
  OBVIOUS
<1>1. ASSUME NEW c \in Serving!Config, Serving!add_serving(c) PROVE ServingInv'
  BY <1>1 DEF Serving!add_serving, ServingInv
<1>2. ASSUME NEW s \in Service, Serving!add_raw_serving(s) PROVE ServingInv'
  BY <1>2 DEF Serving!add_raw_serving, ServingInv
<1>3. ASSUME NEW t \in Topology, NEW u \in Topology, Serving!add_topology(<<t, u>>) PROVE ServingInv'
  BY <1>3 DEF Serving!add_topology, ServingInv
<1>4. CASE Serving!AppInitReturns
  BY <1>4 DEF Serving!AppInitReturns, ServingInv
<1>5. CASE Serving!AppProxyInit
  BY <1>5 DEF Serving!AppProxyInit, ServingInv, Serving!Checked
<1>6. CASE Serving!addService
  <2>1. /\ UNCHANGED <<rpc_serving_configs, raw_services, topologies>>
        /\ Serving!Checked
        /\ \/ Serving!Accepted /\ necessities' = [s \in Service |-> Serving!Necessities(s)]
           \/ phase' = "failed"
    BY <1>6 DEF Serving!addService, ServingInv
  <2>2. Serving!Checked' /\ (Serving!Accepted => Serving!Accepted')
    BY <2>1 DEF Serving!Checked, Serving!Accepted, Serving!method_mapping
  <2>3. \A s \in Service : Serving!Necessities(s)' = Serving!Necessities(s)
    BY <2>1 DEF Serving!Necessities, Serving!method_mapping
  <2> QED
    BY <2>1, <2>2, <2>3 DEF ServingInv
<1>7. CASE UNCHANGED Serving!vars
  <2>1. UNCHANGED <<phase, rpc_serving_configs, raw_services, topologies, necessities>>
    BY <1>7 DEF Serving!vars
  <2>2. (Serving!Checked => Serving!Checked') /\ (Serving!Accepted => Serving!Accepted')
    BY <2>1 DEF Serving!Checked, Serving!Accepted, Serving!method_mapping
  <2>3. \A s \in Service : Serving!Necessities(s)' = Serving!Necessities(s)
    BY <2>1, SMTT(20) DEF Serving!Necessities, Serving!method_mapping
  <2> QED
    BY <2>1, <2>2, <2>3 DEF ServingInv
<1> QED
  BY <1>1, <1>2, <1>3, <1>4, <1>5, <1>6, <1>7, Zenon
     DEF Serving!Next, Serving!Stopped, Serving!vars

-----------------------------------------------------------------------------
(* RpcServing: what start() builds.                                        *)

INSTANCE FiniteSetTheorems

\* A service that is accepted has a config for each of its methods: as many
\* configs as methods, no two for the same method.
LEMMA EachMethodOnce ==
  ASSUME Serving!Constants, rpc_serving_configs \in Seq(Serving!Config), Serving!Accepted,
         NEW s \in Serving!Exposed, NEW k \in DOMAIN MethodsOf[s]
  PROVE  /\ Serving!Necessities(s) \in [1 .. Len(MethodsOf[s]) -> Nat]
         /\ Serving!Necessities(s)[k] \in Serving!method_mapping(s)
         /\ rpc_serving_configs[Serving!Necessities(s)[k]].method = MethodsOf[s][k]
<1> DEFINE M == Serving!method_mapping(s)
           n == Len(MethodsOf[s])
           f == [j \in M |-> Serving!Index(s, rpc_serving_configs[j].method)]
           At(m) == {j \in Serving!method_mapping(s) : Serving!Index(s, rpc_serving_configs[j].method) = m}
<1>0. \A S : Serving!Cardinality(S) = Cardinality(S)
  BY Zenon DEF Serving!Cardinality, Cardinality
<1>1. s \in Service /\ MethodsOf[s] \in Seq(Method) /\ n \in Nat /\ DOMAIN MethodsOf[s] = 1 .. n
  <2>1. PICK j \in DOMAIN rpc_serving_configs : s = rpc_serving_configs[j].service
    BY Zenon DEF Serving!Exposed, Serving!Range
  <2>2. rpc_serving_configs[j] \in Serving!Config
    BY <2>1
  <2>3. s \in Service
    BY <2>1, <2>2, SMTT(20) DEF Serving!Config
  <2> QED
    BY <2>3 DEF Serving!Constants
<1>2. M \subseteq 1 .. Len(rpc_serving_configs) /\ M \subseteq Nat \ {0}
  BY DEF Serving!method_mapping
<1>3. /\ \A j \in M : rpc_serving_configs[j].method \in Serving!Range(MethodsOf[s])
      /\ Cardinality(M) = n
      /\ \A j, m \in M : rpc_serving_configs[j].method = rpc_serving_configs[m].method => j = m
  <2>1. \A j \in M : /\ j \in DOMAIN rpc_serving_configs
                    /\ rpc_serving_configs[j].service = s
                    /\ rpc_serving_configs[j] \in Serving!Range(rpc_serving_configs)
    BY Zenon DEF Serving!method_mapping, Serving!Range
  <2>2. PICK c \in Serving!Range(rpc_serving_configs) : c.service = s
    BY Zenon DEF Serving!Exposed
  <2> QED
    BY <1>0, <2>1, <2>2, Zenon DEF Serving!Accepted
<1>4. \A j \in M : f[j] \in 1 .. n /\ MethodsOf[s][f[j]] = rpc_serving_configs[j].method
  BY <1>1, <1>3, Zenon DEF Serving!Index, Serving!Range
<1>5. f \in Injection(M, 1 .. n)
  BY <1>3, <1>4 DEF Injection, IsInjective
<1>6. IsFiniteSet(1 .. n) /\ Cardinality(1 .. n) = n
  BY <1>1, FS_Interval
<1>7. f \in Surjection(M, 1 .. n)
  <2> HIDE DEF f, M, n
  <2> QED
    BY <1>3, <1>5, <1>6, FS_Injection, SMTT(20)
<1>8. \A m \in 1 .. n : \E j \in M : At(m) = {j}
  <2>1. /\ \A m \in 1 .. n : \E j \in M : f[j] = m
        /\ \A j, l \in M : f[j] = f[l] => j = l
    <3> HIDE DEF f, M, n
    <3>1. f \in [M -> 1 .. n] /\ \A m \in 1 .. n : \E j \in M : f[j] = m
      BY <1>7, Zenon DEF Surjection
    <3>2. DOMAIN f = M
      BY <3>1, Zenon
    <3> QED
      BY <1>5, <3>1, <3>2, Zenon DEF Injection, IsInjective
  <2>2. \A j \in M : f[j] = Serving!Index(s, rpc_serving_configs[j].method)
    BY Zenon
  <2>3. \A m : At(m) = {j \in M : f[j] = m}
    BY <2>2, Zenon
  <2> HIDE DEF f, At, M, n
  <2>4. ASSUME NEW m \in 1 .. n, NEW j \in M, f[j] = m PROVE At(m) = {j}
    BY <2>1, <2>3, <2>4, SMTT(20)
  <2> QED
    BY <2>1, <2>4, Zenon
<1> DEFINE Used == {m \in DOMAIN MethodsOf[s] : At(m) # {}}
           Places == Serving!Max({Cardinality(M)} \cup Used)
<1>9. Places = n
  <2>1. n \in {Cardinality(M)} \cup Used /\ \A m \in {Cardinality(M)} \cup Used : m \in 0 .. n /\ n >= m
    BY <1>1, <1>3
  <2> HIDE DEF Used, n, M
  <2>2. /\ Places \in {Cardinality(M)} \cup Used
        /\ \A m \in {Cardinality(M)} \cup Used : Places >= m
    BY <2>1, Zenon DEF Serving!Max
  <2>3. Places \in 0 .. n /\ Places >= n
    BY <2>1, <2>2, Zenon
  <2> HIDE DEF Places
  <2> QED
    BY <1>1, <2>3, SMTT(20)
<1>10. \A m \in 1 .. n : At(m) # {} /\ Serving!Max(At(m)) \in At(m)
  <2> SUFFICES ASSUME NEW m \in 1 .. n PROVE At(m) # {} /\ Serving!Max(At(m)) \in At(m)
    BY Zenon
  <2>1. PICK j \in M : At(m) = {j}
    BY <1>8, Zenon
  <2> HIDE DEF At, M
  <2>2. j >= j
    BY <1>2, <2>1
  <2> QED
    BY <2>1, <2>2, Zenon DEF Serving!Max
<1>11. Serving!Necessities(s) = [m \in 1 .. Places |-> IF At(m) = {} THEN 0 ELSE Serving!Max(At(m))]
  BY <1>0, Zenon DEF Serving!Necessities
<1> HIDE DEF Places
<1>12. Serving!Necessities(s) = [m \in 1 .. n |-> Serving!Max(At(m))]
  <2> HIDE DEF At, n
  <2> QED
    BY <1>9, <1>10, <1>11, SMTT(20)
<1>13. \A m \in 1 .. n : Serving!Max(At(m)) \in M /\ Serving!Index(s, rpc_serving_configs[Serving!Max(At(m))].method) = m
  BY <1>10, Zenon
<1>14. Serving!Necessities(s) \in [1 .. n -> Nat]
  BY <1>2, <1>12, <1>13, SMTT(20)
<1>15. Serving!Necessities(s)[k] \in M /\ f[Serving!Necessities(s)[k]] = k
  <2>1. k \in 1 .. n /\ Serving!Necessities(s)[k] = Serving!Max(At(k))
    BY <1>1, <1>12, SMTT(20)
  <2> QED
    BY <1>13, <2>1, Zenon
<1> QED
  BY <1>4, <1>14, <1>15, SMTT(20)

\* What RpcServer::start builds serves every method, by its own config and with
\* its topology there.
LEMMA ServedByInv == Serving!Constants /\ ServingInv => Serving!EveryMethodServed
<1> SUFFICES ASSUME Serving!Constants, ServingInv, phase = "serving", NEW s \in Serving!Exposed, NEW k \in DOMAIN MethodsOf[s]
             PROVE  /\ k \in DOMAIN necessities[s]
                    /\ necessities[s][k] # 0
                    /\ rpc_serving_configs[necessities[s][k]].service = s
                    /\ rpc_serving_configs[necessities[s][k]].method = MethodsOf[s][k]
                    /\ rpc_serving_configs[necessities[s][k]].topology \in topologies
  BY Zenon DEF Serving!EveryMethodServed
<1>1. /\ Serving!Necessities(s) \in [1 .. Len(MethodsOf[s]) -> Nat]
      /\ Serving!Necessities(s)[k] \in Serving!method_mapping(s)
      /\ rpc_serving_configs[Serving!Necessities(s)[k]].method = MethodsOf[s][k]
  BY EachMethodOnce DEF ServingInv
<1>2. s \in Service /\ necessities[s] = Serving!Necessities(s)
  <2>1. PICK j \in DOMAIN rpc_serving_configs : s = rpc_serving_configs[j].service
    BY Zenon DEF Serving!Exposed, Serving!Range
  <2>2. rpc_serving_configs[j] \in Serving!Config
    BY <2>1 DEF ServingInv
  <2>3. s \in Service
    BY <2>1, <2>2, SMTT(20) DEF Serving!Config
  <2> QED
    BY <2>3 DEF ServingInv
<1>3. /\ necessities[s][k] \in DOMAIN rpc_serving_configs
      /\ rpc_serving_configs[necessities[s][k]].service = s
  BY <1>1, <1>2, SMTT(20) DEF Serving!method_mapping
<1>4. k \in DOMAIN necessities[s] /\ necessities[s][k] # 0
  BY <1>1, <1>2, <1>3, SMTT(20) DEF ServingInv, Serving!Constants
<1> QED
  BY <1>1, <1>2, <1>3, <1>4, SMTT(20) DEF ServingInv, Serving!Checked

\* Whatever an app passes to add_serving and add_topology, a server that runs has
\* for each method of each service it exposes the config of that method, and its
\* topology: addService lets no service through of which a method is missing.
THEOREM MethodsAreServed == ASSUME Serving!Constants PROVE Serving!Spec => []Serving!EveryMethodServed
  BY ServingInitInv, ServingStep, ServedByInv, PTL DEF Serving!Spec

-----------------------------------------------------------------------------
(* LSMDB: what get() returns.                                              *)

\* A nonempty set of numbers has a least one.
LEMMA LeastNumber ==
  ASSUME NEW T, T \subseteq Nat, T # {}
  PROVE  \E m \in T : \A n \in T : m <= n
<1>1. \E R : IsWellFoundedOn(R, Nat) /\ \A x, y \in Nat : y < x => <<y, x>> \in R
  <2> DEFINE R == OpToRel(<, Nat)
  <2>1. IsWellFoundedOn(R, Nat)
    BY NatLessThanWellFounded, Zenon
  <2>2. \A x, y \in Nat : y < x => <<y, x>> \in R
    BY Zenon DEF OpToRel
  <2> QED
    BY <2>1, <2>2, Zenon
<1>2. PICK R : IsWellFoundedOn(R, Nat) /\ \A x, y \in Nat : y < x => <<y, x>> \in R
  BY <1>1, Zenon
<1>3. PICK x \in T : \A y \in T : ~(<<y, x>> \in R)
  BY <1>2, WFMin, Zenon
<1>4. \A y \in T : ~(y < x)
  BY <1>2, <1>3, Zenon
<1> QED
  BY <1>4

\* The first of the files that open has a value that was put for its key, and the
\* last one if that file is the newest with the key.
LEMMA FirstFileIsRight ==
  ASSUME Store!Storable, StoreInv, NEW k \in StoreKey \ lost, k \notin DOMAIN memtable,
         NEW f \in DOMAIN ssTables, NewestHolds(k, f),
         NEW unread, Store!HeldIn(k) \ unread # {}
  PROVE  /\ Store!Get(k, unread) \in Store!Range(puts[k])
         /\ Store!HeldIn(k) \ unread = {f} => Store!Get(k, unread) = Store!LastPut(k)
<1> DEFINE hits == Store!HeldIn(k) \ unread
           first == CHOOSE i \in hits : \A j \in hits : i <= j
           line == CHOOSE l \in Store!Found(k, ssTables[first]) : TRUE
<1>1. Store!Get(k, unread) = Store!CurValue(line)
  BY Zenon DEF Store!Get
<1>2. hits \subseteq Nat
  BY DEF StoreInv, StoreType, Store!HeldIn
<1>3. first \in hits
  <2> HIDE DEF hits
  <2>1. \E i \in hits : \A j \in hits : i <= j
    <3>1. hits # {}
      BY Zenon DEF hits
    <3> QED
      BY <1>2, <3>1, LeastNumber, Zenon
  <2> QED
    BY <2>1, Zenon
<1> HIDE DEF first
<1>4. first \in DOMAIN ssTables /\ Store!Found(k, ssTables[first]) # {}
  BY <1>3, Zenon DEF Store!HeldIn
<1>5. line \in Store!Found(k, ssTables[first])
  BY <1>4, Zenon
<1> HIDE DEF line
<1>6. line \in PutLines(k)
  BY <1>4, <1>5, Zenon DEF StoreInv
<1>7. ASSUME NEW v \in Store!Range(puts[k]) PROVE Store!CurValue(Store!Line(k, v)) = v
  <2>1. puts[k] \in Seq(StoreValue)
    BY Zenon DEF StoreInv, StoreType
  <2>2. v \in StoreValue
    BY <2>1 DEF Store!Range
  <2>3. k \in Seq(Char) /\ (\A j \in DOMAIN k : k[j] # ":") /\ v \in Seq(Char)
    BY <2>2, StorableFacts, Zenon
  <2> QED
    BY <2>3, LineSplits, Zenon
<1>8. PICK v \in Store!Range(puts[k]) : line = Store!Line(k, v)
  BY <1>6, Zenon DEF PutLines
<1>9. Store!Get(k, unread) = v
  BY <1>1, <1>7, <1>8, Zenon
<1>10. ASSUME hits = {f} PROVE v = Store!LastPut(k)
  <2>1. first = f
    BY <1>3, <1>10, Zenon
  <2>2. line = Store!Line(k, Store!LastPut(k)) /\ Store!Found(k, ssTables[f]) = {line}
    BY <1>5, <2>1, Zenon DEF NewestHolds
  <2>3. Store!LastPut(k) \in Store!Range(puts[k])
    <3>1. puts[k] \in Seq(StoreValue) /\ v \in Store!Range(puts[k])
      BY Zenon DEF StoreInv, StoreType
    <3>2. puts[k] # << >>
      BY <3>1 DEF Store!Range
    <3> QED
      BY <3>1, <3>2, LastIsPut, Zenon DEF Store!LastPut
  <2> QED
    BY <1>7, <1>8, <2>2, <2>3, Zenon
<1> QED
  BY <1>9, <1>10, Zenon

\* What get() returns of a key that is there, whichever files fail to open.
LEMMA GetIsRight == Store!Storable /\ StoreInv => Store!NoKeyLost
<1> SUFFICES ASSUME Store!Storable, StoreInv, NEW k \in present, k \in DOMAIN memtable \/ k \notin lost,
                    NEW unread \in SUBSET DOMAIN ssTables
             PROVE  \/ k \in DOMAIN memtable /\ Store!Get(k, unread) = Store!LastPut(k)
                    \/ /\ Store!HeldIn(k) \ unread # {} /\ Store!Get(k, unread) \in Store!Range(puts[k])
                       /\ Store!HeldIn(k) \ unread = {Store!Max(Store!HeldIn(k))} =>
                            Store!Get(k, unread) = Store!LastPut(k)
                    \/ /\ Store!HeldIn(k) \ unread = {} /\ Store!HeldIn(k) # {}
                       /\ Store!Get(k, unread) = NULL
  BY Zenon DEF Store!NoKeyLost
<1>1. CASE k \in DOMAIN memtable
  BY <1>1, Zenon DEF Store!Get, StoreInv
<1>2. CASE k \notin DOMAIN memtable
  <2>1. k \in StoreKey \ lost
    BY <1>2, Zenon DEF StoreInv, StoreType
  <2>2. PICK f \in DOMAIN ssTables : NewestHolds(k, f)
    BY <1>2, Zenon DEF StoreInv
  <2>3. Store!Max(Store!HeldIn(k)) = f
    <3>1. f \in Store!HeldIn(k) /\ \A g \in Store!HeldIn(k) : f >= g
      BY <2>2, Zenon DEF NewestHolds
    <3>2. \A g \in Store!HeldIn(k) : g \in Nat
      BY DEF StoreInv, StoreType, Store!HeldIn
    <3>3. \A g \in Store!HeldIn(k) : g >= f => g = f
      BY <3>1, <3>2
    <3> QED
      BY <3>1, <3>3, Zenon DEF Store!Max
  <2>4. CASE Store!HeldIn(k) \ unread # {}
    BY <1>2, <2>1, <2>2, <2>3, <2>4, FirstFileIsRight, Zenon
  <2>5. CASE Store!HeldIn(k) \ unread = {}
    BY <1>2, <2>2, <2>5, Zenon DEF Store!Get, NewestHolds
  <2> QED
    BY <2>4, <2>5, Zenon
<1> QED
  BY <1>1, <1>2, Zenon

\* For all keys and values the file format can hold, whatever the threshold,
\* whichever flushes fail and however: get() of a key that is there returns the
\* last value from memory, or from the files one that was put and was not hit by a
\* failing write, and it misses the key only if none of its files opens.
THEOREM PutsAreFound == ASSUME Store!Storable PROVE Store!Spec => []Store!NoKeyLost
<1>1. Store!Init => StoreInv
  <2> SUFFICES ASSUME Store!Init PROVE StoreInv
    BY Zenon
  <2>1. /\ DOMAIN memtable = {} /\ ssTables = << >> /\ DOMAIN ssTables = {} /\ present = {}
        /\ puts \in [StoreKey -> Seq(StoreValue)]
    BY DEF Store!Init
  <2> QED
    BY <2>1 DEF StoreInv, StoreType
<1>2. StoreInv /\ [Store!Next]_(Store!vars) => StoreInv'
  <2> SUFFICES ASSUME StoreInv, [Store!Next]_(Store!vars) PROVE StoreInv'
    BY Zenon
  <2>1. CASE \E k \in StoreKey, v \in StoreValue : Store!Put(k, v)
    BY <2>1, PutKeeps, Zenon
  <2>2. CASE \E k \in StoreKey : Store!Del(k)
    BY <2>2, DelKeeps, Zenon
  <2>3. CASE UNCHANGED Store!vars
    <3>1. UNCHANGED <<memtable, ssTables, puts, present, lost>>
      BY <2>3, Zenon DEF Store!vars
    <3> QED
      BY <3>1, Zenon DEF StoreInv, StoreType, PutLines, Store!LastPut, NewestHolds, Store!HeldIn, Store!Found
  <2> QED
    BY <2>1, <2>2, <2>3, Zenon DEF Store!Next
<1> QED
  BY <1>1, <1>2, GetIsRight, PTL DEF Store!Spec
=============================================================================
