--------------------------- MODULE ModuleRegistry ---------------------------
(***************************************************************************)
(* The registries of DAG/registry and sw::ModuleRegistry that holds them:  *)
(* static objects of REGISTER_RUNNABLE_MODULE and REGISTER_RELOADABLE_     *)
(* MODULE, constructed in an order C++ leaves open, register classes under *)
(* names; then main() creates and destroys elements by name.               *)
(***************************************************************************)
EXTENDS Naturals, FiniteSets

CONSTANTS Name,          \* the names main() asks for
          Registerer,    \* the static registerers: [kind, name, class]
          MaxObjects,    \* bound: the objects created
          NULL

VARIABLES instance,   \* _instance: NULL, or the registries it holds
          pending,    \* the registerers not constructed yet
          running,    \* main() has begun
          objects     \* per created object: name, class, and who destroyed it

vars == <<instance, pending, running, objects>>

Empty == [creator |-> << >>, destroyer |-> << >>, traits |-> << >>,
          elements |-> << >>, element_traits |-> << >>]

Init ==
  /\ instance = NULL
  /\ pending = Registerer
  /\ running = FALSE
  /\ objects = << >>

\* instance() that constructs a registry at every call.
InstanceAlwaysNew == Empty

Instance == IF instance = NULL THEN Empty ELSE instance

\* operator[] = v, and emplace(k, v).
Assign(f, k, v) == [x \in DOMAIN f \cup {k} |-> IF x = k THEN v ELSE f[x]]
Emplace(f, k, v) == IF k \in DOMAIN f THEN f ELSE Assign(f, k, v)

\* FactoryRegisterer: register_factory, then register_type_traits.
RegisterFactory(r) ==
  instance' = [Instance EXCEPT !.creator = Assign(@, r.name, r.class),
                               !.destroyer = Assign(@, r.name, r.class),
                               !.traits = Emplace(@, r.name, r.class)]

\* ElementRegisterer: its own instance_, then register_type_traits.
RegisterElement(r) ==
  instance' = [Instance EXCEPT !.elements = Assign(@, r.name, r),
                               !.element_traits = Emplace(@, r.name, r.class)]

\* The constructor of one static registerer.
Construct(r) ==
  /\ ~running /\ r \in pending
  /\ pending' = pending \ {r}
  /\ IF r.kind = "factory" THEN RegisterFactory(r) ELSE RegisterElement(r)
  /\ UNCHANGED <<running, objects>>

Main ==
  /\ ~running /\ pending = {}
  /\ running' = TRUE
  /\ instance' = Instance
  /\ UNCHANGED <<pending, objects>>

\* create_element: nullptr for a name that is not registered.
CreateElement(n) ==
  /\ running /\ Cardinality(DOMAIN objects) < MaxObjects
  /\ objects' = Assign(objects, Cardinality(DOMAIN objects) + 1,
       [name |-> n, class |-> IF n \in DOMAIN instance.creator THEN instance.creator[n] ELSE NULL,
        destroyed_by |-> NULL])
  /\ UNCHANGED <<instance, pending, running>>

\* destroy_element(name, p), under the name the object was created by.  A
\* missing destroyer and a null pointer are left alone.
DestroyElement(i) ==
  LET o == objects[i] IN
  /\ o.destroyed_by = NULL
  /\ o.class # NULL /\ o.name \in DOMAIN instance.destroyer
  /\ objects' = [objects EXCEPT ![i].destroyed_by = instance.destroyer[o.name]]
  /\ UNCHANGED <<instance, pending, running>>

Next ==
  \/ \E r \in Registerer : Construct(r)
  \/ Main
  \/ \E n \in Name : CreateElement(n)
  \/ \E i \in DOMAIN objects : DestroyElement(i)

Spec == Init /\ [][Next]_vars

-----------------------------------------------------------------------------
\* contain, find_element and type_index.
Contain(n) == n \in DOMAIN instance.creator
FindElement(n) == IF n \in DOMAIN instance.elements THEN instance.elements[n] ELSE NULL
TypeIndex(n) == IF n \in DOMAIN instance.traits THEN instance.traits[n] ELSE NULL

\* In whatever order the static objects are constructed, main() finds every
\* name that was registered, with a class and a type that were both registered
\* under it (not always the same: the factory keeps the last, the traits the
\* first).
EveryRegistrationKept ==
  running => \A r \in Registerer :
    IF r.kind = "factory"
    THEN /\ Contain(r.name)
         /\ [r EXCEPT !.class = instance.creator[r.name]] \in Registerer
         /\ [r EXCEPT !.class = TypeIndex(r.name)] \in Registerer
    ELSE FindElement(r.name) # NULL
=============================================================================
