----------------------------- MODULE MCPrograms -----------------------------
(***************************************************************************)
(* TLC instance of the sequential programs of the repository: the          *)
(* structures of a search engine that it tries out (Bloom filter, posting  *)
(* list codecs, product quantization, LSM tree, LRU cache), the programs   *)
(* that order work by its dependencies, and those of the notes on lists,   *)
(* trees, arrays and tables.  They share no state, so a behaviour is one   *)
(* of one of them and the others stay as they begin.                       *)
(***************************************************************************)
EXTENDS BloomFilter, Sequences

CONSTANTS Node, Front, Back, NULL, Name, Job

VARIABLES structure,                                      \* the one that runs
          doc_ids, pfd_out, ef_out, ef_scalar,            \* PostingCodec
          dataset, codebooks, codes, found, query, exact, \* ProductQuantization
          memtable, ssTables, puts, present, lost,      \* LSMDB
          cache, nodes, size, got,                        \* LRUCache
          modules_, executor, pending, visited, stack, ran,           \* DagExecutor
          adjList, search, i, marked, recursionStack, calls, result,  \* CycleDetection
          links, todo, done,                              \* TaskDSL
          program, input, output                          \* the programs of the notes

codecVars == <<doc_ids, pfd_out, ef_out, ef_scalar>>
pqVars == <<dataset, codebooks, codes, found, query, exact>>
lsmVars == <<memtable, ssTables, puts, present, lost>>
lruVars == <<cache, nodes, size, got>>
dagVars == <<modules_, executor, pending, visited, stack, ran>>
searchVars == <<adjList, search, i, marked, recursionStack, calls, result>>
taskVars == <<links, todo, done>>
noteVars == <<program, input, output>>
indexVars == <<vars, codecVars, pqVars, lsmVars, lruVars>>
orderVars == <<dagVars, searchVars, taskVars>>
allVars == <<structure, indexVars, orderVars, noteVars>>

\* Lists of up to four ids; gaps that fit the width, fit an exception, and fit
\* neither.
Codec == INSTANCE PostingCodec
  WITH MaxId <- 17, MaxLen <- 4, bit_width <- 2, ExcBits <- 3, B <- 3, Stride <- 2

\* Vectors of two parts of two coordinates, and two centres for each part.
Coord == {0, 2}
Part == [1 .. 2 -> Coord]
AnyDataset == {<<a, b>> : a, b \in {v \in [1 .. 4 -> Coord] : v[4] = 0}}
AnyCodebooks == {<<<<a, b>>, <<c, d>>>> : a, c \in {p \in Part : p[1] = 0}, b, d \in {p \in Part : p[1] = 2}}
PQ == INSTANCE ProductQuantization
  WITH DIM <- 4, M <- 2, K <- 2, Coordinate <- Coord, Datasets <- AnyDataset, Codebooks <- AnyCodebooks

\* Two keys, one of which a line that is cut off can turn into the other, a value
\* with a ":" in it, and puts for two flushes and one more.
LSM == INSTANCE LSMDB
  WITH Key <- {<<"a">>, <<"a", "b">>}, Value <- {<<"x">>, <<"y", ":", "x">>},
       SOME_THRESHOLD <- 2, MaxPuts <- 5

ASSUME StorableAssumption == LSM!Storable

\* One node more than the capacity, so that the address of an evicted node is
\* used again at once.
LRU == INSTANCE LRUCache
  WITH Key <- {1, 2, 3}, Value <- {10, 20}, capacity <- 2, NotFound <- 0, head <- Front, tail <- Back, result <- got

\* Every graph of three modules, of three vertices, and links of four jobs.
Dag == INSTANCE DagExecutor WITH pc <- executor
Search == INSTANCE CycleDetection
  WITH numVertices <- 3, pc <- search, visited <- marked, stack <- calls
Task == INSTANCE TaskDSL WITH MaxLinks <- 4
OneLink == CHOOSE l \in Task!Links : TRUE

\* Lists and arrays of up to five, trees of three levels, tables of 3 by 3.
Lists == INSTANCE ListPrograms WITH Val <- 1 .. 3, MaxLen <- 5
Trees == INSTANCE TreePrograms WITH Val <- 1 .. 3, Height <- 3
Searches == INSTANCE SearchPrograms WITH Num <- 0 .. 3, MaxLen <- 5, Bits <- 3
Grids == INSTANCE GridPrograms WITH Num <- 0 .. 3, MaxLen <- 5, MaxSide <- 3

Notes == {"lists", "trees", "searches", "grids"}

Structures == Notes \cup {"bloom", "codec", "pq", "lsm", "lru", "executor", "search", "task"}

\* The one that runs begins with any of its inputs, the others with one of theirs;
\* what runs comes last, for TLC to enumerate it alone.
Idle ==
  /\ structure # "bloom" => hasher = [key \in Key |-> [s \in Seed |-> 0]] /\ Init
  /\ structure # "codec" => doc_ids = <<0>> /\ Codec!Init
  /\ structure # "pq" =>
       /\ dataset = CHOOSE d \in AnyDataset : TRUE
       /\ codebooks = CHOOSE c \in AnyCodebooks : TRUE
       /\ PQ!Init
  /\ structure # "task" => links = <<OneLink>> /\ Task!Init
  /\ structure \notin Notes => program = "none" /\ input = << >> /\ output = << >>
  /\ LSM!Init /\ LRU!Init /\ Dag!Init /\ Search!Init

Runs ==
  /\ structure = "bloom" => Init
  /\ structure = "codec" => Codec!Init
  /\ structure = "pq" => PQ!Init
  /\ structure = "task" => Task!Init
  /\ structure = "lists" => Lists!Init
  /\ structure = "trees" => Trees!Init
  /\ structure = "searches" => Searches!Init
  /\ structure = "grids" => Grids!Init

AllInit == structure \in Structures /\ Idle /\ Runs

\* A search leaves the codes as they are: one query for each dataset is enough.
IndexNext ==
  \/ structure = "bloom" /\ Next /\ UNCHANGED <<codecVars, pqVars, lsmVars, lruVars>>
  \/ structure = "codec" /\ Codec!Next /\ UNCHANGED <<vars, pqVars, lsmVars, lruVars>>
  \/ structure = "pq" /\ query = << >> /\ PQ!Next /\ UNCHANGED <<vars, codecVars, lsmVars, lruVars>>
  \/ structure = "lsm" /\ LSM!Next /\ UNCHANGED <<vars, codecVars, pqVars, lruVars>>
  \/ structure = "lru" /\ LRU!Next /\ UNCHANGED <<vars, codecVars, pqVars, lsmVars>>

OrderNext ==
  \/ structure = "executor" /\ Dag!Next /\ UNCHANGED <<searchVars, taskVars>>
  \/ structure = "search" /\ Search!Next /\ UNCHANGED <<dagVars, taskVars>>
  \/ structure = "task" /\ Task!Run /\ UNCHANGED <<dagVars, searchVars>>

NotesNext ==
  \/ structure = "lists" /\ Lists!Next
  \/ structure = "trees" /\ Trees!Next
  \/ structure = "searches" /\ Searches!Next
  \/ structure = "grids" /\ Grids!Next

AllNext ==
  /\ \/ IndexNext /\ UNCHANGED <<orderVars, noteVars>>
     \/ OrderNext /\ UNCHANGED <<indexVars, noteVars>>
     \/ NotesNext /\ UNCHANGED <<indexVars, orderVars>>
  /\ UNCHANGED structure

\* A call of execute() goes on.
Executes ==
  /\ structure = "executor" /\ Dag!Step
  /\ UNCHANGED <<structure, indexVars, searchVars, taskVars, noteVars>>
AllSpec == AllInit /\ [][AllNext]_allVars /\ WF_allVars(Executes)

-----------------------------------------------------------------------------
\* search() returns the decoded vector nearest to the query.
FindsNearestDecoded == structure = "pq" => PQ!FindsNearestDecoded

\* A key of the LSM tree is found, with a value that was put for it, unless a
\* write failed or none of its files opens.
NoKeyLost == structure = "lsm" => LSM!NoKeyLost

\* The LRU cache implements eviction of the least recently used key.
ImplementsRecencyCache == LRU!ImplementsRecencyCache

\* The decoders of posting lists undo their encoders, within the width.
DecodeInvertsEncode == structure = "codec" => Codec!DecodeInvertsEncode

\* excutor_all runs a module after those it depends on, and a job of the task
\* DSL runs after the jobs linked before it.
RunsInDependencyOrder ==
  /\ structure = "executor" => Dag!RunsAfterDeps
  /\ structure = "task" => Task!RunsAfterPredecessors

\* excutor_all returns with every module run once, or crashes on one not added.
RunsAllOnce == Dag!RunsAllOnce

\* isCyclic() says "cyclic" exactly for the graphs that have a cycle.
AnswerIsRight == structure = "search" => Search!AnswerIsRight

\* The programs on linked lists return the lists and the nodes they promise.
ListsAreRight == structure = "lists" => Lists!ListsAreRight

\* The programs on binary trees return what the shape of the tree defines.
TreesAreRight == structure = "trees" => Trees!TreesAreRight

\* The searches, merges, counts and sums are those of an exhaustive look.
SearchesAreRight == structure = "searches" => Searches!SearchesAreRight

\* The tables that are filled cell by cell hold what their cells stand for.
GridsAreRight == structure = "grids" => Grids!GridsAreRight
=============================================================================
