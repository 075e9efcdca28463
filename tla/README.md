# A verification of learing_note in TLA+

The repository is a collection of working notes around a search worker: a
server skeleton that loads an application as a shared library and serves RPCs
by running topologies (DAGs of modules), the concurrent data structure its
index lives in, and a number of self-contained programs (double buffer, LSM
tree, paged KV cache, posting list codecs, Bloom filter, LRU cache, and some
eighty small programs on lists, trees, arrays and grids).

This directory models the parts of it that have state worth arguing about. TLC
checks the models on small instances, and TLAPS proves the properties of
fourteen of them for every instance (section 4). `PROJECT.json` maps each definition to the lines it
models and lists the runs, the hazards they are aimed at, a mutation of the
code's logic that each property rejects, and the theorems.

## 1. The system and its parts

**The search worker** (`src/DAG/sw/server`). `sw_main` loads the configuration
and the application's library, creates the `SearchWorker`, and waits for a
signal. The worker holds an `AppProxy` (which initialises the app, and has a
thread that reloads its data), an `RpcServer`, and a controller whose threads
call `checkHealth` and `loadBiz` / `unloadBiz`. The app registers its modules
through static registerers and, while it is initialised, calls the
`RpcComponent`: `add_topology`, `add_serving`, `add_calling`. A topology goes
through `RpcComponentImpl` (which packs a short form into a general one), is
sorted by `topology_sort`, and is published by the `ModuleTopologyManager` in an
index held in a `DoublyBufferedData`. A request reads the index, counts a
reference to the topology it picked, runs it, and gives the reference back. A
thread that replaces or removes a topology takes it out of the index, waits for
the count to reach zero, and deletes it.

So the pieces rest on each other in this order: `DoublyBufferedData` gives an
atomic index and a grace period; the topology manager relies on the grace
period and on its own counts to delete safely; the serving path relies on the
manager always having a topology; the worker's start and stop decide which
threads exist while any of this is alive.

**The stand-alone programs** do not interact with the worker or each other.

### Inventory

| Part | Source | Module | Status |
|---|---|---|---|
| DoublyBufferedData | `double_buffer/brpc_double.cpp` | `DoublyBufferedData`, `ReadMostlyData`, `DoublyBufferedDataProofs` | modelled, proved |
| Topology manager | `DAG/sw/server/ModuleTopologyManager.{h,cpp}`, `RpcServiceImpl.cpp`, `AppProxy.cpp` | `ModuleTopologyManager`, `ModuleTopologyManagerProofs` | modelled, proved |
| Packing and sorting of topologies | `ModuleTopologyManager.cpp`, `component/RpcComponentImpl.cpp` | `TopologySort`, `TopologySortProofs` | modelled, proved |
| Definitions of modules | `ModuleTopologyManager.cpp` | `ModuleDefinitions` | modelled |
| Worker process | `SearchWorker.cpp`, `ServerMain.cpp`, `AppLoader.cpp`, `AppProxy.cpp` | `SearchWorker`, `AppLoader`, `WorkerTopologies`, `WorkerTopologiesProofs` | partly, proved |
| RPC serving | `RpcServer.cpp`, `RpcServiceImpl.cpp`, `component/RpcComponentImpl.cpp` | `RpcServing`, `SequentialProofs` | partly, proved |
| RPC calling | `component/RpcComponentImpl.cpp` | `RpcCalling` | modelled |
| Configuration | `DAG/sw/config` | `ServerConfiguration` | modelled |
| Registries | `DAG/registry`, `DAG/app_sdk` | `ModuleRegistry`, `SequentialProofs` | modelled, proved |
| DAG executor | `DAG/dag.cpp` | `DagExecutor`, `GraphProofs` | modelled, proved |
| Task DSL | `recipes/TaskDSL.cpp`, `recipes/Typelist.hpp` | `TaskDSL` | partly |
| Double buffer | `double.cpp` | `DoubleBuffer`, `ReferenceCountProofs` | modelled, proved |
| LSM tree | `lsmtree.cpp` | `LSMDB`, `SequentialProofs` | modelled, proved |
| Paged KV cache | `paged_attention_lab/paged_kv.py`, `04_prefix_cow.py` | `PagedKVCache`, `PagedKVCacheProofs` | modelled, proved |
| Prefix cache | `paged_attention_lab/05_prefix_cache.py` | `PrefixBlockManager` | modelled |
| Posting list codecs | `Partitioned-Elias-Fano.cpp` | `PostingCodec` | modelled |
| Bloom filter | `BloomFilter.cpp` | `BloomFilter`, `SequentialProofs` | modelled, proved |
| Product quantization | `pq_test.cpp` | `ProductQuantization` | partly |
| LRU cache | `find_job/look_for_job.cpp` | `LRUCache`, `RecencyCache` | modelled |
| Shared_Ptr | `find_job/look_for_job.cpp` | `SharedPtr`, `ReferenceCountProofs` | modelled, proved |
| Cycle detection | `find_job/look_for_job.cpp` | `CycleDetection`, `GraphProofs` | modelled, proved |
| Programs on lists | `find_job/look_for_job.cpp` | `ListPrograms` | modelled |
| Programs on trees | `find_job/look_for_job.cpp` | `TreePrograms` | modelled |
| Programs on arrays and strings | `find_job/look_for_job.cpp` | `SearchPrograms` | modelled |
| Dynamic programming, grids | `find_job/look_for_job.cpp` | `GridPrograms` | modelled |

Not modelled, and why:

- `DAG/app_interface`: abstract classes and accessors. The scheduler that calls
  `init`, `run` and `continue_run` is not in the repository.
- `DAG/echo_server`: an example application of one topology.
- `common/ComponentRegistry`: the registry templates again, with no operation of
  its own. `regest.cpp` and `learing_searcher_work.cpp` are single-file copies
  of the registry, and `recipes/dsl.cpp` of the task DSL.
- `Roaring.cpp`: calls of a library that is not in the repository.
- `00` to `03` of `paged_attention_lab`: floating-point demonstrations over the
  block pool, which `PagedKVCache` models in its full form.
- `double_buffer/pthread_key.c`: prints thread-specific values.
- the rest of `find_job/look_for_job.cpp`: prose; repetitions of a program that
  is modelled from its first copy (639-679, 767-789, 2396-2408, 2543-2563); code
  that does not compile (the concurrent hash map, 3333-3382); `Foo` (29-86),
  whose `main` calls one of its three functions from one thread; the `String`
  class (3173-3281), an exercise in copying and moving; and the programs that
  section 5 says do not do what they are for.
- inside the modelled parts: logging and monitoring output, the thread dump
  file, response prototypes, the parsing of the controller's targets and of the
  command line, random training and timing in `pq_test.cpp`.

## 2. The modules and the code

### DoublyBufferedData and ReadMostlyData

`DoublyBufferedData` is `brpc_double.cpp`: a step is what a thread does between
two operations on shared memory. `data`, `index`, `wrappers`, `modifyMutex` and
`wrappersMutex` are `_data`, `_index`, `_wrappers`, `_modify_mutex` and
`_wrappers_mutex`; `tls` is the value of the pthread key and `mutex` the lock
inside each `Wrapper`; `pc`, `w`, `ptr`, `fn`, `bg` and `todo` are where each
thread is and its locals. `Read` goes through the lookup of the thread's
wrapper, its registration if there is none, the lock of the wrapper, the load
of `_index` and the user's reading until `EndRead`. `Modify` takes its mutex,
calls `fn` on the background instance (and returns there if `fn` returns non-zero),
flips, locks and unlocks every wrapper, and calls `fn` again. A thread may exit
(`RemoveWrapper`), and the owner may destroy the object and construct another.
A failing `pthread_key_create` or allocation is a choice. `WithFG0`, `WithFG1`
and `Closure1` are covered by `Apply(f, d, e)`, where `e` is the other instance.

`ReadMostlyData` is what its users rely on, with no buffers or locks: a
published value, readers that keep the value they began with, and a
modification that publishes in one step and returns when nobody holds an older
value. The refinement maps the published value to `data[index]`, a reader's
view to the instance it points to, and the readers a modification waits for to
those still reading the instance that was in front before the flip.

### ModuleTopologyManager

The threads are the main thread, threads of the app, the controller's threads
and requests. The index is an instance of `ReadMostlyData`: the manager uses
`butil::DoublyBufferedData`, of which `brpc_double.cpp` is a copy that takes a
non-zero result of `fn` for a failure where the library takes zero for one, and
`ReadMostlyData` is what either promises for an `fn` that succeeds. A `Topo` is an address
that can be freed and allocated again. `add_topology` is one action per line
that touches shared state: the monitor of the name, allocation and testing of
the pool, `_dbd.Modify`, `_storage->Add`, and then, for each replaced topology,
the wait for its count and its deletion. `remove_topology`, `clear`, `Exit` and
the startup phases are modelled the same way, and a request goes through the
dispatch of `RpcServiceImpl`: read the index, pick, increment, run, finish. An
inspector stands for the threads that only look: `contain`, the copies of the
index and `print_session_using_count`.

### TopologySort

The three `pack_topology` forms, `create_topology`, the collection of
definitions, `resolve_dependencies` and `topology_sort` with its two orders
(one by one, and in waves that may run in parallel). The loops are actions. An
input is one of four kinds: a general, a semi-sequential, a sequential or an
already runnable configuration.

### ModuleDefinitions

Where a module of a topology gets its factory and its params from.
`add_module` and `add_module_if_not_exist` fill `_global_modules` until the app is
initialised; `add_topology` compares the definitions that come with a topology
with the global ones of the same name, takes the local one first, and lays the
params of the element over those of the module; `add_topology` of a description
turns a copy of another topology's elements back into definitions. Params keep
the repeated field of the message: a key may come twice, and the last value
counts. Dependencies are left to `TopologySort`.

### SearchWorker, AppLoader, WorkerTopologies

In `SearchWorker` the main thread goes through the startup steps, any of which
may fail, then `sigwait`, `stop`, `destroy` and the closing of the library.
Requests, the controller's threads and the reload thread run beside it. `app`,
`server` and `controller` say what is alive. Two things are coarser than the code.
The failures of `AppProxy::init` before the app is initialised
(`AppProxy.cpp:31-43`) are one failing step, since none of them has started
anything. And a controller that fails to start is one that has no thread.

When that last step fails, `start()` returns false with the server running, and
`stop()` of a worker that is not `_started` does nothing (`SearchWorker.cpp:88-91`,
101). `ServerAbandoned` names these states. `AppOutlivesUsers` and `ExitIsClean` say
what holds of every failure, and name this server as their one exception.

`AppLoader` is the loader it holds: `CdlLoader`, for libraries that do not open,
lack one of the four functions or return a null name, or `StaticLoader`. A null
name leaves the write lock taken (`AppLoader.cpp:117`), and the later calls of
the same thread give up on it; the model follows both.

`WorkerTopologies` joins `SearchWorker` with `ModuleTopologyManager`. Both have a
view of the main thread: the manager's `phase` becomes a function of the worker's
state, the topologies are added inside `SwApp::init`, a request of the worker is
one of the manager, and a `loadBiz` or `unloadBiz` that a controller thread is in
is its `add_topology` or `remove_topology` (the build with
`_SW_BIND_BIZ_AND_TOPOLOGY`). `ModuleTopologyManager` by itself assumes when
requests and loads may come: its actions test `phase`, which the code does not. The
composition takes the bodies of those actions without that test, under the
guards of the worker alone, so the refinement shows that the worker keeps to it.

### RpcServing, RpcCalling, ServerConfiguration, ModuleRegistry

`RpcServing`: the three forms of `add_serving`, building the services when the
server starts, and the choice of a topology for a call. `RpcCalling`: the three
forms of `add_calling` with the resolution of methods, messages and channels.
`ServerConfiguration`: flags, environment, the JSON file, the preloaded items
and `Get`, with the conversion from string to number on a few representative
strings (a number followed by letters, a word, the empty string).
`ModuleRegistry`: static registerers in any order, creation and destruction of
elements, and type traits.

### DagExecutor, CycleDetection, TaskDSL

`DagExecutor` and `CycleDetection` keep the call stack of the recursion as a
sequence of frames. `TaskDSL` evaluates the type-level program: collection of
jobs, the sort of the type list, and the run.

### PagedKVCache, PrefixBlockManager, SharedPtr

The first two have a pool of blocks with counts and a table per sequence. In
`PagedKVCache` an `append` that needs a block and finds none raises
(`AppendRaises`), before it has changed anything, and the sequences go on;
`allocate` of the prefix cache is a loop, one action per block, and leaves the
blocks it had taken when it raises.
`SharedPtr` has the steps of `Release` and `AddRef` under the mutex in the
order of the code, by several threads.

### PostingCodec, BloomFilter, ProductQuantization, LSMDB, LRUCache, DoubleBuffer

`PostingCodec` computes what the encoders write and the decoders read back,
with masks as remainders. `BloomFilter` takes the hash function as an unknown
that is fixed in the initial state. `LSMDB` models the line format of its files
character by character, because a property depends on it. A file may fail to open
for writing (the table is kept), a write may fail after that (the table is cleared
all the same, and the file has some lines and the beginning of another: `lost`
remembers whose), and any of the files may fail to open for a `get`, which skips
it. `LRUCache` models the
nodes and pointers; `RecencyCache` is the ordered list it implements.
`DoubleBuffer` models `double.cpp`, whose correctness rests on a sleep: the
constant `SleepCoversLoad` says whether the sleep outlasts every `Load`, and
`double_buffers` takes it to.

### ListPrograms, TreePrograms, SearchPrograms, GridPrograms

One operator per function of the notes, with the name of the function; loops
are recursive operators over the variables the loop changes, or folds where it
only accumulates. `Init` chooses a program and an input it is meant for (`Input`),
and `Run` stores what the program returns. `Right` says what the result must be
without an algorithm: the set of all pairs, paths or subsequences with a
condition, the path to a node, a permutation that is sorted. Where the notes
have several functions for one problem, `Right` demands the same of each.
A list is a map from node to value and next node, so that a program that changes
pointers does so in the model, and a deleted node cannot be read. A tree is a
map from paths to values. Each program runs on a fresh object: the tree programs
that keep fields between calls (`res`, `v`, `visited`) are not called twice. A field
that is read and was never set has the value `Unset`. In `GridPrograms` a table is a function on its cells,
filled in the order of the loops.

## 3. Runs

A run with several components chooses one of them in its initial state: the
components share no state, so no interleaving of theirs is lost, and each
behaviour is one of a single component. Those runs are `double_buffers`,
`startup`, `sharing` and `programs`.

| Run | Checks | Bounds |
|---|---|---|
| `double_buffers` | A modification never overlaps a reader of the same instance; no freed wrapper is used; the instances are equal between modifications; the refinement of `ReadMostlyData`; every call returns. For `double.cpp`: the first update has its buffer for itself if the sleep is long enough, and an `Update` that has the mutex returns. | 3 threads, 2 wrappers, 4 calls; 2 readers and 2 writers |
| `doubly_buffered_data_test_client` (violation) | The instances are equal when the functions are those of the file's own test | 2 threads, 4 calls |
| `double_buffer_update` (violation) | The two buffers of `double.cpp` are equal between updates | as `double_buffers` |
| `topology_manager` | No request uses a freed topology; only tested pools run; a method served by `default` always finds a topology; nothing is left at exit | 2 names, 4 addresses, 2 requests, 2 loading threads, 1 inspector |
| `topology_manager_live` | Every load and unload returns while requests keep coming | 3 addresses, 2 requests, one call per thread |
| `topology_manager_leak` (violation) | Every replaced or removed topology is freed | as `topology_manager` |
| `startup` | Every method of a served service has its own config and topology; a preloaded item and a later `GetAppConfig` agree while the item's variable has not changed; registrations survive any order of construction; a calling configuration that was accepted is there whole. The sorted list respects the dependencies and is complete once accepted; loops are rejected and nothing else; parallel marks are justified; the short forms are sequential. Each element runs as every definition of its module says | 2 services with 3 methods, 3 servings, 2 topologies; 2 configured services; 5 registerers; 3 channel names; every relation on 3 elements with every choice of sync modules, lists of up to 2 elements with every kind of repetition; 2 modules with 2 factories and 2 keys; 756,160 states |
| `search_worker` | The app outlives its users and the exit is clean, but for the server of a failed controller start; a signal ends the process, and the worker uses the topology manager as `ModuleTopologyManager` assumes (refinement) | 1 request at a time, 1 controller thread, 2 signals, 2 names, 3 addresses, every kind of library, failure of any startup step; 222,378 states |
| `search_worker_stop_order` (violation) | No thread uses a deleted `RpcServer` | 2 requests, no failure |
| `search_worker_clear_order` (violation) | No topology is left when the app is destroyed | as `search_worker` |
| `sharing` | Counts are exact in all three programs; each sequence reads back its own tokens, whatever its forks wrote and whatever its prefix was shared with, also under a hash that collides; with an ideal hash exactly the equal full prefixes share; what a `Shared_Ptr` counts lives exactly while it is used | 3 sequences, 4 blocks of 2, 4 tokens; 2 hashes; 2 threads, 2 variables, 3 objects; 199,734 states |
| `programs` | The Bloom filter's answers are those its keys justify; decoders undo encoders; the PQ search finds the nearest decoded vector; no key of the LSM tree is lost but by a failing write; the LRU list implements `RecencyCache`; modules and jobs run after what they depend on, each module once; `isCyclic` is right; the programs on lists, trees, arrays and grids return what defines their result | all graphs on 3 nodes, 4 jobs and 4 links; lists and arrays of up to 5, trees of up to 3 levels, matrices of up to 3 by 3; see `MCPrograms`; 590,519 states |

### Why the bounds are enough

- *DoublyBufferedData*: three threads are two readers and a modifier, or two
  modifiers and a reader, and two wrappers for three threads make a wrapper
  pass from a thread that exits to one that arrives. The interesting schedules
  take a modification, a reader from before its flip, one from after it, and a
  thread that exits: four calls. The proofs remove these bounds.
- *ModuleTopologyManager*: a use after free takes a request with an old index, a
  thread that replaces and one address that is allocated again. Two loading
  threads are needed for the race between `Modify` and `Add`. Four addresses
  let both threads hold a new topology while two are listed, and the heap runs
  out in some behaviours, so reuse is forced. Symmetry permutes addresses,
  requests and controller threads, none of which the model names.
- *TopologySort*: a cycle of length three is the first that is neither a self
  loop nor mutual; three elements give every order in which an element can be
  ready before, in, or after the pass that looks at it.
- *SearchWorker*: each signal is sent at most once, and requests come back
  without limit. One controller thread is enough for `checkHealth` to meet the
  deletion of the server. In the composition one request and one controller
  thread meet every phase of the main thread; their meeting each other in larger
  numbers is what `topology_manager` explores.
- *ModuleDefinitions*: nothing is added after the copy of a topology. A name can
  be defined globally, locally, both ways alike and both ways differently, and a
  key come from the module, from the element, twice, or not at all.
- *PagedKVCache*: a sequence of four tokens fills two blocks of two, and three
  sequences that share nothing would need six: with four, an append that must
  copy a shared block and one that must open a new block both find the pool empty
  in some behaviours, and raise.
- *PostingCodec*: ids up to 17 give gaps that fit the width, that need an
  exception, and that fit neither.
- *Lists, trees, arrays, grids*: five elements are two full groups and a rest of
  one, or one of three and a rest, for the programs on groups, leave room on both
  sides of an interval that shrinks, and put a window before, on and after its
  maximum; three levels of a tree have an only child, a missing middle and both
  kinds of inner node. Values repeat and are absent.
- The other sequential programs are explored for all inputs of the sizes given
  in the MC modules.

### Fairness

Safety runs use none. For liveness:

- `double_buffers`, `topology_manager_live`: weak fairness of the next step of
  every thread that is inside a call, which is what a preemptive scheduler gives
  a thread that is not blocked. A `std::mutex` gives no turn to a waiting
  thread, so the number of calls is bounded rather than the mutex assumed fair.
  In `topology_manager_live` requests are not bounded: what is shown is that
  they cannot keep a topology alive for ever once it is out of the index. A
  user is assumed to destroy its `ScopedPtr`, and a module to finish its run.
  For `double.cpp` the same holds of a writer that has the mutex and of a reader
  inside `Load`, and `reader()` lets its buffer go in every round.
- `search_worker`: strong fairness of the main thread and weak fairness of
  requests, controller calls and reloads that have begun, and of the app's own
  calls of `add_topology`. Strong fairness stands
  for a join: the condition the main thread waits for may come and go while a
  reload ends and another begins, but the destructor of the loop thread asks it
  to stop and no new work begins, so the join is not overtaken for ever.
- `programs`: `excutor_all`, a sequential program, takes its next step.

Deadlock is checked except in the composed runs of programs that end.

## 4. Proofs

### DoublyBufferedDataProofs

For any set of threads, any set of wrapper addresses, any data and functions,
assuming only that `Apply` maps data to data (`DataAssumption`) and that `NULL`
is none of the values used (`NULLAssumption`):

- `TypeCorrect`: `TypeOK` is an invariant;
- `NoDataRaceHolds`: `fn` never runs on an instance a `ScopedPtr` refers to;
- `NoFreedWrapperHolds`: no thread touches the mutex of a deleted wrapper.

With the header's demand on functions (`FnContract`: two calls on equal instances
leave equal instances, and a call that reports a failure has changed nothing):

- `InstancesEquivalentHolds`: between modifications both instances are equal;
- `Refinement`: the specification implements `ReadMostlyData`.

`NoDataRace` alone is not inductive: nothing in it says why a thread that is at
its second call of `fn` meets no reader of the old instance. The invariant

    IInv == TypeOK /\ LockInv /\ WrapperInv /\ LocalInv /\ GraceInv

supplies it. `LockInv` says who holds each mutex. `WrapperInv` says that a wrapper
belongs to one thread from its registration on, so that a reader's lock is not
somebody else's, and that the loop has only registered wrappers left to visit.
`LocalInv` fixes `bg_index` while the modify mutex is held. `GraceInv` is the
argument of the algorithm: a reader of the instance that is not in front began
before the flip of a modification that either has not reached its loop or has
this reader's wrapper still to visit. When the loop is over no such reader is
left, and new ones read the other instance. The proof has one lemma per conjunct
with one step per action, and `Invariance` puts them together. For the
refinement, `DataInvariance` adds how the two instances differ in the middle of
a modification (by one application of `fn`), `Invisible` shows which steps are
stutters, and one lemma for each other action shows which abstract step it is.

### ModuleTopologyManagerProofs

For any names, addresses, threads and requests (`ConstantsAssumption`: the sets are
apart from each other and from `NULL`): `UseAfterFreeImpossible`,
`ReferencesCounted`, `NothingLeaksAtExit`, `RequestsFindTopology` and, for an app
whose own threads add no topology (`AppThread = {}`), `PoolsAreTested`.

`NoUseAfterFree` does not say why the deleting thread may delete. `IInv` follows a
topology through its life: `HeapInv`, it is stored or still with the thread that
allocated it; `ListInv`, it is listed under one name, then taken out by one thread;
`ViewInv`, a reader sees what is listed or what the `Modify` that waits for it has
taken out; `CountIsExact`, the count is the number of requests that use it;
`RequestInv`, a request that has not counted yet still holds its `ScopedPtr`. So a
topology whose count is zero after the grace period can be reached by nobody.
`DefaultInv` and `TestedInv` are the two further invariants, for a listed `default`
and for tested pools.

### WorkerTopologiesProofs

`AppIsThereForItsUsers` and `ProcessExitsCleanly`, whichever of the startup steps fail,
with no assumption on the failures: the exception for the abandoned server is in
the properties. The invariant says what exists by where the main thread is; a
running server outside its steps is one that `start()` has abandoned (`ServerInv`),
and then there is no controller and the startup has failed (`OutcomeInv`).

`WorkerImplementsManager` is the refinement of `ModuleTopologyManager` by the
process. `TopologyInv` adds that only the main thread in `SwApp::init`, threads in
`loadBiz` and requests being served are inside the manager, from which the phase
that the manager assumes follows. `WorkerIsSafe` and `TopologiesAreSafe` carry the
properties of both to the composition.

### TopologySortProofs

For every set of configurations whose elements have names out of some set `N`
(`InputOver(N)`): `SortIsTopological`, `LoopsAreRejected`, `ParallelModulesHavePeers`
and `ShortFormsSequential`. `SortInv` says that what is sorted is what has been
removed or is in the wave, and that removed elements wait for removed ones only;
`PassInv` that a pass without a find has changed nothing, so that at its end what is
left waits for itself.

### ReferenceCountProofs

`Shared_Ptr`, for finite sets of threads and variables (`Program`): `CountsExact` and
`BlocksLiveWhileUsed`. The invariant says where in a copy, an assignment or a
destruction each thread is, that whoever changes a count holds its mutex, and that
the thread that deletes is alone.

`double.cpp`, for finite sets of readers and writers and a sleep that outlasts every
`Load` (`SleepCoversLoad <- TRUE`): `FirstUpdateAlone`. `LoadInv` is where the sleep
comes in: except during it, a `Load` under way has read the current index.

### PagedKVCacheProofs

For every pool, block size and set of sequences (`Constants`): `BlocksAreCounted`,
whether or not callers ask for copy-on-write, and, if all do (`EnableCow = {TRUE}`),
`BranchesReadTheirOwn`. `PagedInv` adds that a table holds a block once and has one
when there is a token; `HistoryInv` says in which slot of which block each token of
a history is.

### GraphProofs

For every graph and every order in which neighbours and map entries come:
`DependenciesRunFirst` and `ExecutorEndsRight` of the executor, cyclic graphs
included, and `CycleAnswersAreRight` of `isCyclic`. Both invariants describe the
stack of calls as a path. For `isCyclic`, the vertices that are marked and off the
stack lead only to each other and have no cycle (`BlackInv`).

### SequentialProofs

- *BloomFilter*, for every number of hash functions, positive size and hash
  function (`BloomAssumption`): `TypeCorrect`, `BitsExact`, `NeverDenied`,
  `RightAnswers`. The inductive invariant is `BitsOfAdded`: the set bits are exactly
  those of the added keys.
- *ModuleRegistry*, for any set of registerers (`RegistryAssumption`: they are
  records, and `NULL` is not one of them nor a registry): `RegistrationsAreKept`. At every moment the registries hold
  what the constructors that have run registered.
- *LSMDB*, for keys without `:` and values that are not empty (`Storable`), any
  threshold: `PutsAreFound`, which is `NoKeyLost`. Of a key no failing write has
  hit, each file holds only lines that were put, and the newest file with the key
  holds its last value. That a line cut off answers for no other key rests on what
  `get` finds in the beginning of a line.
- *RpcServing*: `MethodsAreServed`, for any services, methods and servings.

### Only model-checked

Liveness under fairness (`AllCallsReturn`, `LoadsReturn`, `TerminatesOnSignal`, the
termination of the executor) and `ENABLED` are out of the prover's reach, and so is
what a recursion over data computes for every input: the codecs, the type list
sort, product quantization, the programs on lists, trees, arrays and grids. The LRU
cache, the prefix cache, the definitions of modules, the callings and the
configuration are checked on the instances of section 3 only.

The proofs hold of the models. Where a run states a property for several programs
at once (`CountsAreExact`, `AnswerIsRight`, `RunsInDependencyOrder`), the theorem is
about the program it names.

## 5. What the checks found

Five runs end in a violation and are listed as findings:

- **`doubly_buffered_data_test_client`.** `Modify()` returns before the flip when
  `fn` returns a non-zero value (`brpc_double.cpp:363`), and the functions of
  `TestDoubleBuffer` return `true` for success. Each of its modifications changes
  the background instance only: readers never see it, and the instances drift
  apart, although line 102 says that `fn` is called twice.
- **`topology_manager_leak`.** `add_topology` publishes a topology
  (`ModuleTopologyManager.cpp:644`) before it stores it (645). A thread that
  replaces or removes it in between finds nothing to delete in the storage, and
  the topology stays allocated until exit.
- **`search_worker_stop_order`.** `stop()` deletes the `RpcServer` before it stops
  the controller (`SearchWorker.cpp:106`, 109), the order of the start rather than
  its reverse (comment, line 99), so `checkHealth` can use the deleted server.
- **`search_worker_clear_order`.** `destroy()` calls `clear()` before it destroys the
  app, but the `Modify` that would empty the index
  (`ModuleTopologyManager.cpp:726-733`) is commented out: nothing is removed, the
  assertion at 735 that no topology is stored is false for every worker that has
  one, and the topologies, whose modules are objects of the app's code, go only
  when the static objects do. `NothingLeftAtExit` holds because of those.
- **`double_buffer_update`.** `Update` of `double.cpp` calls its updater twice on the
  same `write_buffer` (64 and 67), the second time when that buffer has been
  published, so readers may hold it, and never on the other one, against the
  comments at 54 and 63: the next `Update` takes the first one's data away.

Other places where the code departs from its comments or falls short of what a
caller would expect. The runs state their properties so as not to depend on them:

- `ModuleTopologyManager.cpp:631`: `add_topology` reads `_app_initialized` long
  before it publishes. A thread of the app that adds a topology while startup
  ends can publish a pool that nobody tested (comment, 629). `topology_manager`
  therefore has `AppThread = {}`: after startup only the controller adds.
- `AppProxy.cpp:170`: only the topology called `default` is kept from being
  unloaded (comment, 169). A method served by another name can lose its topology
  after the check that `AppProxy::init` makes of it.
- `SearchWorker.cpp:101`: when the controller fails to start, `_started` is still
  false, `stop()` returns at once and the app is destroyed with the server
  running, whose requests may then call it. `search_worker` lets this step fail
  like every other, and its properties state the exception.
- `paged_kv.py:171`: `enable_cow` is `False` by default. Branches of a fork then
  write to the same block, and a sequence need not read its own tokens back. The
  run passes `True`, as `04_prefix_cow.py` does; that the counts are exact is
  proved for both.
- `double.cpp:50`: a `Load` that has read `read_idx_` and takes longer than the sleep
  to copy the pointer can pick a buffer that is being written. The run and the
  proof of `FirstUpdateIsAlone` take the sleep to be long enough, which nothing in
  the code ensures.
- `lsmtree.cpp:91`: `get` reads the oldest file first, so a key that was flushed
  twice gives its old value. `lsmtree.cpp:116`: `del` reaches the memory table
  only, and a flushed key comes back. `lsmtree.cpp:55`: the table is cleared whether
  or not its lines were written. `NoKeyLost` says what does hold: a key that was put
  and not deleted, and that no failing write has hit, is found unless none of its
  files opens, with a value that was put for it; with its last value from memory,
  or if the newest of its files is the only one to open.
- `registry_inl.h:26`: for two classes under one name the traits keep the first
  while the factory keeps the last.
- `ModuleTopologyManager.cpp:510`: definitions are compared when a topology is added.
  A global module that is added afterwards is not compared with the topology's
  own definition of that name, so from then on the name means two things. And a
  copied description whose elements had params of their own cannot be added
  again while the module is global: the merged params differ from the global
  ones, and `Equal` refuses them.
- `look_for_job.cpp:1100-1113`: the fourth search for the lowest common ancestor
  returns an `ans` that nothing has set when the two nodes are the same one, where
  the other three return the node. `TreesAreRight` says so.
- `look_for_job.cpp:2336-2377`: the third version of the longest increasing
  subsequence starts its table at 0 instead of 1; `[3, 1, 2]` gives a sequence of
  length 1. `look_for_job.cpp:113-181`: the list-based LRU uses an iterator it has
  erased. `maxWater2` (2463) of an empty array computes `size() - 1` of zero;
  `GridPrograms` calls it with arrays that have an element.

## 6. What could come next

- *LRUCache*: a proof of the step simulation of `RecencyCache`, which `programs`
  checks.
- *PrefixBlockManager*: a proof of its counts, after those of `PagedKVCache`.
- *ModuleDefinitions*, *RpcCalling* and *ServerConfiguration* have model-checked
  properties only.
- The programs on trees with one object for several calls.
