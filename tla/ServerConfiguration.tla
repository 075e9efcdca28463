-------------------------- MODULE ServerConfiguration --------------------------
(***************************************************************************)
(* ServerConfiguration of the search worker: load() settles the name of    *)
(* the service, reads the local configuration and preloads the items, each *)
(* from the environment, else the local configuration, else its default;   *)
(* Get() goes to the environment, as it is then, on every call.            *)
(***************************************************************************)
EXTENDS Naturals

CONSTANTS Service, \* names a service can have; "" is no name
          StrItem, \* items of type string, found in the environment by their own name
          IntItem, \* items of type int, found there by a key of their own
          Raw,     \* the strings of the environment and of the file
          Flags,   \* the command lines the process is started with
          Files,   \* the configuration files it is given
          MaxSetenv \* bound: changes of the environment after load()

\* Of these strings, what stoi reads of each: a number with a tail is read up
\* to the tail, a word or a number too large throws.
Digits == [r \in Raw |-> IF r = "8082x" THEN 8082 ELSE 0]
Default(item) == IF item \in IntItem THEN 8899 ELSE "unlimited"

Item == StrItem \cup IntItem
\* An item belongs to a service; a key such as SERVICE_SERVER_PORT does not.
Entry == Service \X Item
EnvName(service, item) == IF item \in IntItem THEN <<"", item>> ELSE <<service, item>>
SERVICE_NAME == <<"", "SERVICE_NAME">>

VARIABLES flags,     \* service_name, cat_domain and enable_cat_monitor
          env,       \* name of the environment -> string, "" when not set
          file,      \* the configuration file: there, well-formed, its entries
          loaded,    \* "no" | "ok" | "failed"
          conf,      \* _serviceName, _catDomain, the local entries and the items
          envAtLoad, \* history: the environment that load() read
          setenvs,   \* changes of the environment since
          got        \* history: the last GetAppConfig(): the item asked for, the
                     \* variable it found in the environment, what it returned
vars == <<flags, env, file, loaded, conf, envAtLoad, setenvs, got>>

Absent == "absent"
Unset == [item \in Item |-> IF item \in IntItem THEN 0 ELSE ""]
Names == {SERVICE_NAME} \cup {EnvName(e[1], e[2]) : e \in Entry}

Environment ==
  {e \in [Names -> Raw \cup Service \cup {""}] :
     \A n \in Names : IF n = SERVICE_NAME THEN e[n] \in Service \cup {""} ELSE e[n] \in Raw \cup {""}}

Init ==
  /\ flags \in Flags
  /\ env \in Environment
  /\ file \in Files
  /\ loaded = "no"
  /\ conf = [service |-> "", cat |-> "", custom |-> [e \in Entry |-> Absent], item |-> Unset]
  /\ envAtLoad = env
  /\ setenvs = 0
  /\ got = [item |-> Absent, env |-> "", found |-> FALSE, value |-> ""]

\* Get(name, &value, environ_key), in the environment e.
GetFrom(e, custom, service, item) ==
  IF e[EnvName(service, item)] # "" THEN [found |-> TRUE, value |-> e[EnvName(service, item)]]
  ELSE IF custom[<<service, item>>] # Absent THEN [found |-> TRUE, value |-> custom[<<service, item>>]]
  ELSE [found |-> FALSE, value |-> ""]

\* parse_value: a string is taken as it is.
Parses(item, raw) == item \in StrItem \/ (raw # "" /\ Digits[raw] # 0)
Parsed(item, raw) == IF item \in StrItem THEN raw ELSE Digits[raw]

\* OPTIONAL_PRELOAD_4 that looks at the local configuration first.
PreloadLocalFirst(custom, service, item) ==
  LET c == custom[<<service, item>>]
      g == IF c # Absent THEN [found |-> TRUE, value |-> c] ELSE GetFrom(env, custom, service, item)
  IN IF g.found /\ Parses(item, g.value) THEN Parsed(item, g.value) ELSE Default(item)

OPTIONAL_PRELOAD_4(custom, service, item) ==
  LET g == GetFrom(env, custom, service, item)
  IN IF g.found /\ Parses(item, g.value) THEN Parsed(item, g.value) ELSE Default(item)

ServiceName == IF flags.service_name # "" THEN flags.service_name ELSE env[SERVICE_NAME]

\* The service name is settled before the checks and kept when they fail.
load ==
  /\ loaded = "no"
  /\ LET service == ServiceName
         named == [conf EXCEPT !.cat = flags.cat_domain, !.service = service] IN
       \/ /\ \/ service = ""
             \/ flags.enable_cat_monitor /\ flags.cat_domain = ""
             \/ ~file.exists
             \/ ~file.json
          /\ loaded' = "failed"
          /\ conf' = named
       \/ /\ service # ""
          /\ flags.enable_cat_monitor => flags.cat_domain # ""
          /\ file.exists /\ file.json
          /\ loaded' = "ok"
          /\ conf' = [named EXCEPT !.custom = file.entries,
                        !.item = [i \in Item |-> OPTIONAL_PRELOAD_4(file.entries, service, i)]]
  /\ envAtLoad' = env
  /\ UNCHANGED <<flags, env, file, setenvs, got>>

\* The application, a library or the process itself changes its environment.
Setenv(n, r) ==
  /\ loaded = "ok" /\ setenvs < MaxSetenv
  /\ setenvs' = setenvs + 1
  /\ env' = [env EXCEPT ![n] = r]
  /\ UNCHANGED <<flags, file, loaded, conf, envAtLoad, got>>

GetAppConfig(item) ==
  /\ loaded = "ok"
  /\ LET g == GetFrom(env, conf.custom, conf.service, item) IN
       got' = [item |-> item, env |-> env[EnvName(conf.service, item)], found |-> g.found, value |-> g.value]
  /\ UNCHANGED <<flags, env, file, loaded, conf, envAtLoad, setenvs>>

Next ==
  \/ load
  \/ \E n \in Names \ {SERVICE_NAME}, r \in Raw \cup {""} : Setenv(n, r)
  \/ \E item \in Item : GetAppConfig(item)
Spec == Init /\ [][Next]_vars
-----------------------------------------------------------------------------
\* A setting can be read in two ways, as the item that load() preloaded and by
\* GetAppConfig() when it is needed.  They agree for as long as its variable is
\* what load() found, whatever else was set in between: the item is what the
\* answer parses to, or the default if there is none or it does not parse.  So a
\* variable that does not parse hides the entry of the file from both.
AnswersAgreeWithItems ==
  got.item # Absent /\ got.env = envAtLoad[EnvName(conf.service, got.item)] =>
    conf.item[got.item] =
      IF got.found /\ Parses(got.item, got.value) THEN Parsed(got.item, got.value) ELSE Default(got.item)
=============================================================================
