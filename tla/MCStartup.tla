----------------------------- MODULE MCStartup -----------------------------
(***************************************************************************)
(* TLC instance of what the worker is told before it serves: the static    *)
(* registerers, the configuration, the servings and callings of the app,   *)
(* its modules and its topologies.  The parts share no state, so a         *)
(* behaviour is one of one of them and the others stay as they begin.      *)
(***************************************************************************)
EXTENDS TopologySort, SequencesExt

CONSTANTS Service, MethodsOf, Method, Topology, MaxServings,             \* RpcServing
          ConfService, StrItem, IntItem, Raw, Flags, Files, MaxSetenv,   \* ServerConfiguration
          Name, Registerer, MaxObjects, NULL                             \* ModuleRegistry

VARIABLES part,                                                      \* the part that runs
          phase, rpc_serving_configs, raw_services, topologies,
          necessities,                                               \* RpcServing
          flags, env, file, loaded, conf, envAtLoad, setenvs, got,   \* ServerConfiguration
          instance, pending, running, objects,                       \* ModuleRegistry
          channels, last,                                            \* RpcCalling
          _global_modules, _app_initialized, desc, added             \* ModuleDefinitions

\* A service with two methods and one with one, and a method name that only
\* the first has.
MCMethodsOf == [s \in {"echo", "admin"} |-> IF s = "echo" THEN <<"get", "put">> ELSE <<"get">>]

Serving == INSTANCE RpcServing

ASSUME ServingAssumption == Serving!Constants

-----------------------------------------------------------------------------
\* Two services, one item of each type, and files that are missing, malformed,
\* or hold some entries.
MCConfService == {"search", "ads"}
AnyFlags ==
  {f \in [service_name : MCConfService \cup {""}, cat_domain : {"", "cat"}, enable_cat_monitor : BOOLEAN] :
     f.cat_domain = "" \/ f.enable_cat_monitor}
Empty == [e \in MCConfService \X {"max_concurrency", "PORT"} |-> "absent"]
Entries ==
  {[Empty EXCEPT ![<<"search", "max_concurrency">>] = a, ![<<"ads", "max_concurrency">>] = b,
                 ![<<"search", "PORT">>] = p] :
     a, b \in {"absent", "", "8082x"}, p \in {"absent", "8082x", "word"}}
NoFile == [exists |-> FALSE, json |-> FALSE, entries |-> Empty]
AnyFile ==
  {NoFile, [NoFile EXCEPT !.exists = TRUE]}
    \cup {[exists |-> TRUE, json |-> TRUE, entries |-> f] : f \in Entries}

Conf == INSTANCE ServerConfiguration WITH Service <- ConfService

ConfIdle ==
  /\ flags = [service_name |-> "", cat_domain |-> "", enable_cat_monitor |-> FALSE]
  /\ env = [n \in Conf!Names |-> ""]
  /\ file = NoFile

-----------------------------------------------------------------------------
\* Two classes under one name, and an element.
Reg(k, n, c) == [kind |-> k, name |-> n, class |-> c]
MCRegisterer == {Reg("factory", "echo", "EchoModule"), Reg("factory", "echo", "EchoModuleV2"),
                 Reg("factory", "rank", "RankModule"), Reg("element", "dict", "Dict"),
                 Reg("element", "dict", "EchoModule")}

Registry == INSTANCE ModuleRegistry

-----------------------------------------------------------------------------
\* One name with every shape of a request and another with what a configuration
\* may hold, which has no descriptors.
AnyRequest ==
  [name : {"", "a"}, descriptor : {"nullptr", "S.M"}, full : {"", "S.M", "S.X"},
   uri : {"list"}, pb : BOOLEAN, meta : {"", "Meta", "NoMeta"}]
    \cup [name : {"b"}, descriptor : {"nullptr"}, full : {"", "S.M"}, uri : {"list"}, pb : {TRUE}, meta : {""}]
    \cup {[name |-> "a", descriptor |-> "nullptr", full |-> "S.M", uri |-> "", pb |-> TRUE, meta |-> ""]}
FromConfig ==
  {r \in AnyRequest : r.descriptor = "nullptr" /\ r.meta = "" /\ r.name # "" /\ r.full # "S.X"}
AnyBatch == {<< >>} \cup {<<r, s>> : r, s \in FromConfig}

Calling == INSTANCE RpcCalling
  WITH Request <- AnyRequest, Batch <- AnyBatch, KnownMethod <- {"S.M"}, KnownMessage <- {"Meta"},
       Broken <- {{}, {"b"}}, NULL <- "nullptr"

-----------------------------------------------------------------------------
\* Every dependency relation of three modules and every choice of sync modules,
\* one by one and in waves.  Elements are listed in the order of their names, so
\* that every order of every relation is met up to renaming.
Pos == 1 .. 3
Def(n, f) == [name |-> n, factory |-> f]
AnyFactory == {[j \in Pos |-> Def(j, F[j])] : F \in [Pos -> {"sync", "async"}]}
AnyRelation ==
  {[j \in Pos |-> [name |-> j, dep |-> D[j], allow |-> FALSE]] : D \in [Pos -> SUBSET Pos]}
Relations ==
  [kind : {"runnable", "semi", "minimal"}, global : {<< >>}, module : AnyFactory,
   element : AnyRelation, flag : [parallel : BOOLEAN, check : {FALSE}]]

\* Short lists with repeated names, names that are not defined, definitions
\* that clash, and allow_parallel fields.
Configurations ==
  [kind    : {"minimal", "simple", "semi", "runnable"},
   global  : SeqOf({Def(1, "sync"), Def(1, "async")}, 1),
   module  : SeqOf({Def(1, "sync"), Def(2, "async"), Def(2, "sync")}, 2),
   element : SeqOf([name : {1, 2}, dep : {{}, {2}}, allow : BOOLEAN], 2),
   flag    : [parallel : BOOLEAN, check : BOOLEAN]]

MCInput == Relations \cup Configurations

-----------------------------------------------------------------------------
\* Definitions that differ in the factory, in the params, or only in how the
\* params are written, and elements with params of their own or none.
Param(k, v) == [key |-> k, value |-> v]
AnyDefinition ==
  [name : {"m"}, factory : {"f"},
   params : {<< >>, <<Param("k", 1)>>, <<Param("k", 2), Param("k", 1)>>, <<Param("k", 2), Param("j", 1)>>}]
    \cup [name : {"m", "n"}, factory : {"g"}, params : {<< >>}]
    \cup {[name |-> "n", factory |-> "none", params |-> <<Param("j", 2)>>]}
AnyElement == [name : {"m", "n"}, params : {<< >>, <<Param("j", 1), Param("k", 3), Param("j", 3)>>}]

Definitions == INSTANCE ModuleDefinitions
  WITH KnownFactory <- {"f", "g"}, Definition <- AnyDefinition,
       ModuleLists <- SeqOf({m \in AnyDefinition : m.factory # "none"}, 2),
       ElementLists <- SeqOf(AnyElement, 2)

\* Bound: nothing is added after the copy of a topology.
DefinitionsNext == desc["copied"] = << >> /\ Definitions!Next

-----------------------------------------------------------------------------
servingVars == <<phase, rpc_serving_configs, raw_services, topologies, necessities>>
confVars == <<flags, env, file, loaded, conf, envAtLoad, setenvs, got>>
registryVars == <<instance, pending, running, objects>>
callingVars == <<channels, last>>
definitionVars == <<_global_modules, _app_initialized, desc, added>>
serverVars == <<servingVars, confVars, registryVars, callingVars>>
topologyVars == <<vars, definitionVars>>
startupVars == <<part, serverVars, topologyVars>>

\* What begins in many ways comes last, for TLC to enumerate it alone.
StartupInit ==
  /\ part \in {"serving", "configuration", "registry", "calling", "sort", "definitions"}
  /\ Serving!Init /\ Registry!Init /\ Calling!Init /\ Definitions!Init
  /\ part # "sort" => input = (CHOOSE c \in Input : TRUE) /\ Init
  /\ part # "configuration" => ConfIdle /\ Conf!Init
  /\ part = "sort" => Init
  /\ part = "configuration" => Conf!Init

ServerNext ==
  \/ part = "serving" /\ Serving!Next /\ UNCHANGED <<confVars, registryVars, callingVars>>
  \/ part = "configuration" /\ Conf!Next /\ UNCHANGED <<servingVars, registryVars, callingVars>>
  \/ part = "registry" /\ Registry!Next /\ UNCHANGED <<servingVars, confVars, callingVars>>
  \/ part = "calling" /\ Calling!Next /\ UNCHANGED <<servingVars, confVars, registryVars>>

TopologyNext ==
  \/ part = "sort" /\ Next /\ UNCHANGED definitionVars
  \/ part = "definitions" /\ DefinitionsNext /\ UNCHANGED vars

StartupNext ==
  /\ \/ ServerNext /\ UNCHANGED topologyVars
     \/ TopologyNext /\ UNCHANGED serverVars
  /\ UNCHANGED part

StartupSpec == StartupInit /\ [][StartupNext]_startupVars

-----------------------------------------------------------------------------
\* Every method of a served service has a config of its own, and its topology.
EveryMethodServed == Serving!EveryMethodServed

\* A preloaded item and a later GetAppConfig() agree while the variable of the
\* item is what load() found.
AnswersAgreeWithItems == part = "configuration" => Conf!AnswersAgreeWithItems

\* Static constructors in any order: main() finds every registered name.
EveryRegistrationKept == Registry!EveryRegistrationKept

\* add_calling with a configuration returns true only if it added it whole.
TrueMeansAllAdded == Calling!TrueMeansAllAdded

\* Each element of a topology has the factory and the params of every
\* definition of its name.
ElementsAsDefined == Definitions!ElementsAsDefined
=============================================================================
