-------------------------- MODULE ModuleDefinitions --------------------------
(***************************************************************************)
(* Where a module of a topology gets its factory and its params from: the  *)
(* global modules of ModuleTopologyManager, the definitions that come with *)
(* a topology, and the params of its elements.  A definition is [name,     *)
(* factory, params], an element [name, params], and params are the         *)
(* repeated field custom_params, in which a key may come twice.            *)
(* Dependencies are those of TopologySort.                                 *)
(***************************************************************************)
EXTENDS Naturals, Sequences, FiniteSets, SequencesExt, Functions

CONSTANTS KnownFactory,  \* what get_runnable_module_factory_registry() contains
          Definition,    \* the definitions that configurations use
          ModuleLists,   \* the lists of them that come with a topology
          ElementLists   \* the lists of elements of a topology

VARIABLES _global_modules,   \* name -> definition
          _app_initialized,
          desc,              \* topology -> its elements: name -> [factory, params]
          added              \* history: topology -> what it was added with
vars == <<_global_modules, _app_initialized, desc, added>>

TopologyName == {"configured", "copied"}
Absent == << >>  \* no elements: an accepted topology has one

Names(s) == {s[j].name : j \in DOMAIN s}
Unique(s) == \A j, k \in DOMAIN s : s[j].name = s[k].name => j = k
Named(s, n) == s[CHOOSE j \in DOMAIN s : s[j].name = n]

Init ==
  /\ _global_modules = << >>
  /\ _app_initialized = FALSE
  /\ desc = [t \in TopologyName |-> Absent]
  /\ added = [t \in TopologyName |-> Absent]

\* p[key] = value for each param in turn, on top of map.
Assign(map, params) == FoldLeft(LAMBDA p, kv : (kv.key :> kv.value) @@ p, map, params)
AsMap(params) == Assign(<< >>, params)

-----------------------------------------------------------------------------
(* Global modules.                                                         *)

has_exactly_global_module(name, factory, params) ==
  /\ name \in DOMAIN _global_modules
  /\ LET m == _global_modules[name]
     IN  /\ m.factory = factory
         /\ Cardinality(DOMAIN params) = Len(m.params)
         /\ AsMap(m.params) = params

add_module(m) ==
  /\ IF _app_initialized \/ m.factory \notin KnownFactory \/ m.name \in DOMAIN _global_modules
     THEN UNCHANGED _global_modules
     ELSE _global_modules' = (m.name :> m) @@ _global_modules
  /\ UNCHANGED <<_app_initialized, desc, added>>

add_module_if_not_exist(name, factory) ==
  IF has_exactly_global_module(name, factory, << >>) THEN UNCHANGED vars
  ELSE add_module([name |-> name, factory |-> factory, params |-> << >>])

set_app_initialized ==
  /\ _app_initialized' = TRUE
  /\ UNCHANGED <<_global_modules, desc, added>>

-----------------------------------------------------------------------------
(* Topologies.                                                             *)

\* Mutant: the params are left out.
EqualButParams(m1, m2) == m1.name = m2.name /\ m1.factory = m2.factory

Equal(m1, m2) ==
  /\ m1.name = m2.name /\ m1.factory = m2.factory
  /\ Len(m1.params) = Len(m2.params)
  /\ AsMap(m1.params) = AsMap(m2.params)

\* module_factories and module_params: definitions of the topology first.
InScope(modules, n) == IF n \in Names(modules) THEN Named(modules, n) ELSE _global_modules[n]

Accepted(modules, elements) ==
  /\ \A n \in Names(modules) \cap DOMAIN _global_modules :
       \A j \in DOMAIN modules : modules[j].name = n => Equal(_global_modules[n], modules[j])
  /\ Unique(modules)
  /\ elements # << >>
  /\ Names(elements) \subseteq Names(modules) \cup DOMAIN _global_modules
  /\ Unique(elements)

\* The params of the element are assigned over those of its module.
SortedTopology(modules, elements) ==
  [n \in Names(elements) |->
     [factory |-> InScope(modules, n).factory,
      params  |-> Assign(AsMap(InScope(modules, n).params), Named(elements, n).params)]]

\* from is what DeepCopyTopologyDesc gave, Absent for a configuration.
AddTopology(t, modules, elements, from) ==
  /\ Accepted(modules, elements)
  /\ desc' = [desc EXCEPT ![t] = SortedTopology(modules, elements)]
  /\ added' = [added EXCEPT ![t] = [scope    |-> ToSet(modules) \cup Range(_global_modules),
                                    elements |-> elements,
                                    from     |-> from]]
  /\ UNCHANGED <<_global_modules, _app_initialized>>

\* One that is not accepted changes nothing.
add_topology(modules, elements) == AddTopology("configured", modules, elements, Absent)

\* add_topology(name, desc): a definition and an element for each entry.
add_topology_desc(d) ==
  LET name == SetToSeq(DOMAIN d)
      modules == [j \in DOMAIN name |->
                    LET p == d[name[j]].params
                        key == SetToSeq(DOMAIN p)
                    IN  [name |-> name[j], factory |-> d[name[j]].factory,
                         params |-> [k \in DOMAIN key |-> [key |-> key[k], value |-> p[key[k]]]]]]
      elements == [j \in DOMAIN name |-> [name |-> name[j], params |-> << >>]]
  IN  AddTopology("copied", modules, elements, d)

Next ==
  \/ \E m \in Definition : add_module(m)
  \/ \E m \in Definition : add_module_if_not_exist(m.name, m.factory)
  \/ set_app_initialized
  \/ \E modules \in ModuleLists, elements \in ElementLists : add_topology(modules, elements)
  \/ desc["configured"] # Absent /\ add_topology_desc(desc["configured"])

Spec == Init /\ [][Next]_vars

-----------------------------------------------------------------------------
\* A value of params for key: the last one that is given.
Gives(params, key, value) ==
  \E j \in DOMAIN params :
    /\ params[j] = [key |-> key, value |-> value]
    /\ \A k \in j + 1 .. Len(params) : params[k].key # key
Has(params, key) == \E j \in DOMAIN params : params[j].key = key

\* An accepted topology runs each element with the factory of EVERY definition
\* of its name that was in scope, global or local, and with the params they all
\* give, except those the element gives itself: a definition never shadows a
\* different one.  A topology added from a copy of another's elements has the
\* same elements.
ElementsAsDefined ==
  \A t \in TopologyName : desc[t] # Absent =>
    /\ DOMAIN desc[t] = Names(added[t].elements)
    /\ \A n \in DOMAIN desc[t], m \in added[t].scope :
         LET own == Named(added[t].elements, n).params
             params == desc[t][n].params
         IN  m.name = n =>
               /\ desc[t][n].factory = m.factory
               /\ \A key \in DOMAIN params :
                    Gives(IF Has(own, key) THEN own ELSE m.params, key, params[key])
               /\ \A key \in {kv.key : kv \in ToSet(own) \cup ToSet(m.params)} : key \in DOMAIN params
    /\ added[t].from # Absent => desc[t] = added[t].from
=============================================================================
