----------------------------- MODULE RpcServing -----------------------------
(***************************************************************************)
(* What an app serves: RpcComponentImpl::add_serving and add_topology,     *)
(* called by SwApp::init, the checks of AppProxy::init, and the table of   *)
(* methods that RpcServer::addService and RpcServiceImpl build from it.    *)
(* A method of a service is known to brpc by its index.                    *)
(***************************************************************************)
EXTENDS Sequences, FiniteSetsExt

CONSTANTS Service,     \* full names of services
          MethodsOf,   \* for each service the sequence of its method names
          Method,      \* method names an app may pass
          Topology,    \* topology names
          MaxServings  \* bound on the calls of add_serving

\* Each service has methods of its own.
Constants ==
  /\ MethodsOf \in [Service -> Seq(Method)]
  /\ \A s \in Service : IsInjective(MethodsOf[s])
  /\ MaxServings \in Nat

Config == [service : Service, method : Method, topology : Topology]

VARIABLES
  phase,              \* "init", "check", "start", "serving" or "failed"
  rpc_serving_configs,
  raw_services,
  topologies,         \* names in the ModuleTopologyManager
  necessities         \* _method_necessities_list of each RpcServiceImpl: positions
                      \* in rpc_serving_configs, 0 for nullptr

vars == <<phase, rpc_serving_configs, raw_services, topologies, necessities>>

Init ==
  /\ phase = "init"
  /\ rpc_serving_configs = << >>
  /\ raw_services = << >>
  /\ topologies = {}
  /\ necessities = [s \in Service |-> << >>]

-----------------------------------------------------------------------------
(* SwApp::init calls these in any order and may ignore what they return.   *)

\* The overload the ADD_SERVING macro uses: the method is looked for later.
\* The overload that takes names calls it for the methods it finds.  An unknown
\* name or response_compress_type returns false and adds nothing.
add_serving(c) ==
  /\ phase = "init"
  /\ Len(rpc_serving_configs) + Len(raw_services) < MaxServings
  /\ rpc_serving_configs' = Append(rpc_serving_configs, c)
  /\ UNCHANGED <<phase, raw_services, topologies, necessities>>

add_raw_serving(s) ==
  /\ phase = "init"
  /\ Len(rpc_serving_configs) + Len(raw_services) < MaxServings
  /\ raw_services' = Append(raw_services, s)
  /\ UNCHANGED <<phase, rpc_serving_configs, topologies, necessities>>

\* A configuration with several topologies: the first that fails ends the
\* call, and those before it stay.
add_topology(ts) ==
  /\ phase = "init"
  /\ \E n \in 0 .. Len(ts) : topologies' = topologies \cup {ts[j] : j \in 1 .. n}
  /\ UNCHANGED <<phase, rpc_serving_configs, raw_services, necessities>>

AppInitReturns ==
  /\ phase = "init"
  /\ phase' \in {"check", "failed"}
  /\ UNCHANGED <<rpc_serving_configs, raw_services, topologies, necessities>>

\* "check (default) topology existence".
Checked == \A j \in DOMAIN rpc_serving_configs : rpc_serving_configs[j].topology \in topologies

\* The rest of AppProxy::init; the IntegratingWithSw of a raw service may fail.
AppProxyInit ==
  /\ phase = "check"
  /\ \/ Checked /\ phase' = "start"
     \/ ~Checked /\ phase' = "failed"
     \/ raw_services # << >> /\ phase' = "failed"
  /\ UNCHANGED <<rpc_serving_configs, raw_services, topologies, necessities>>

-----------------------------------------------------------------------------
(* RpcServer::addService.                                                  *)

\* method_mapping[s], as positions in rpc_serving_configs: a vector in their order.
method_mapping(s) == {j \in DOMAIN rpc_serving_configs : rpc_serving_configs[j].service = s}

Index(s, m) == CHOOSE k \in DOMAIN MethodsOf[s] : MethodsOf[s][k] = m

\* Mutant: a method that is added twice is not noticed.
AcceptedRepeated ==
  /\ IsInjective(raw_services)
  /\ \A c \in Range(rpc_serving_configs) :
       /\ c.method \in Range(MethodsOf[c.service])
       /\ c.service \notin Range(raw_services)
       /\ Cardinality(method_mapping(c.service)) = Len(MethodsOf[c.service])

\* No method is unknown or repeated, every method of a service is exposed, and
\* brpc accepts a service once.
Accepted ==
  /\ IsInjective(raw_services)
  /\ \A c \in Range(rpc_serving_configs) :
       /\ c.method \in Range(MethodsOf[c.service])
       /\ c.service \notin Range(raw_services)
       /\ Cardinality(method_mapping(c.service)) = Len(MethodsOf[c.service])
  /\ \A j, k \in DOMAIN rpc_serving_configs :
       /\ rpc_serving_configs[j].service = rpc_serving_configs[k].service
       /\ rpc_serving_configs[j].method = rpc_serving_configs[k].method
       => j = k

\* The constructor of RpcServiceImpl: a list of as many entries as configs,
\* grown when an index lies beyond it; later configs overwrite earlier ones.
Necessities(s) ==
  LET At(k) == {j \in method_mapping(s) : Index(s, rpc_serving_configs[j].method) = k}
      Used  == {k \in DOMAIN MethodsOf[s] : At(k) # {}}
      Size  == Max({Cardinality(method_mapping(s))} \cup Used)
  IN  [k \in 1 .. Size |-> IF At(k) = {} THEN 0 ELSE Max(At(k))]

\* RpcServer::start: addService, then the builtin service and brpc's Start,
\* which may fail.
addService ==
  /\ phase = "start"
  /\ \/ /\ Accepted
        /\ necessities' = [s \in Service |-> Necessities(s)]
        /\ phase' = "serving"
     \/ phase' = "failed" /\ UNCHANGED necessities
  /\ UNCHANGED <<rpc_serving_configs, raw_services, topologies>>

Stopped == phase \in {"serving", "failed"} /\ UNCHANGED vars

Next ==
  \/ \E c \in Config : add_serving(c)
  \/ \E s \in Service : add_raw_serving(s)
  \/ \E t, u \in Topology : add_topology(<<t, u>>)
  \/ AppInitReturns
  \/ AppProxyInit
  \/ addService
  \/ Stopped

Spec == Init /\ [][Next]_vars

-----------------------------------------------------------------------------
(* Properties.                                                             *)

\* The services RpcServer has made from serving configs.
Exposed == {c.service : c \in Range(rpc_serving_configs)}

\* Whatever method of an exposed service brpc asks GetRequestPrototype and
\* CallMethod for, there is a config in its place and it is that method's: the
\* process does not "crash when requesting sw unknown methods", nor does one
\* method answer for another.  Its default topology is there, whichever of the
\* app's add_topology calls failed halfway.
EveryMethodServed ==
  phase = "serving" =>
    \A s \in Exposed : \A k \in DOMAIN MethodsOf[s] :
      /\ k \in DOMAIN necessities[s]
      /\ necessities[s][k] # 0
      /\ LET config == rpc_serving_configs[necessities[s][k]] IN
           config.service = s /\ config.method = MethodsOf[s][k] /\ config.topology \in topologies
=============================================================================
