----------------------------- MODULE RpcCalling -----------------------------
(***************************************************************************)
(* The callings of RpcComponentImpl: channels to other services, added by  *)
(* method descriptor, by method name, or from a configuration with a list  *)
(* of them.  ChannelManager is external: a map from names to channels,     *)
(* whose Add may fail.                                                     *)
(*                                                                         *)
(* A request is [name, descriptor, full, uri, pb, meta]: descriptor is the *)
(* name of the method it describes or NULL, full the method_full_name ("": *)
(* none), pb whether the protocol is a protobuf one, meta the name of the  *)
(* custom meta message ("": none).                                         *)
(***************************************************************************)
EXTENDS Sequences, SequencesExt

CONSTANTS Request,      \* what an app passes to add_calling, one at a time
          Batch,        \* the lists of requests in a configuration
          KnownMethod,  \* the methods in the generated descriptor pool
          KnownMessage, \* the messages in it
          Broken,       \* the sets of names whose channels cannot be created
          NULL

VARIABLES channels, \* ChannelManager: name -> descriptor, full, pb
          last      \* the last call: its requests and what it returned

vars == <<channels, last>>

Init == channels = << >> /\ last = [asked |-> << >>, res |-> TRUE]

HasCalling(chs, name) == name \in DOMAIN chs

\* The descriptor and the name, each from the other where it is missing.
MethodOf(r) ==
  [descriptor |-> IF r.descriptor = NULL /\ r.full # "" /\ r.pb THEN r.full ELSE r.descriptor,
   full |-> IF r.descriptor # NULL /\ r.full = "" THEN r.descriptor ELSE r.full,
   pb |-> r.pb]

\* The checks that need the request only.
WellFormed(r) ==
  /\ r.name # "" /\ r.uri # ""
  /\ r.descriptor # NULL /\ r.full # "" => r.descriptor = r.full
  /\ r.descriptor = NULL /\ r.full # "" /\ r.pb => r.full \in KnownMethod
  /\ r.meta # "" => r.meta \in KnownMessage

Valid(chs, r) == WellFormed(r) /\ ~HasCalling(chs, r.name)

\* add_calling, on state s == [channels, res]; broken: the names whose channel
\* ChannelManager cannot create.
AddOne(s, r, broken) ==
  IF Valid(s.channels, r) /\ r.name \notin broken
  THEN [s EXCEPT !.channels = [n \in DOMAIN @ \cup {r.name} |-> IF n = r.name THEN MethodOf(r) ELSE @[n]]]
  ELSE [s EXCEPT !.res = FALSE]

\* The loop that goes on after a request that failed and returns true.
AddEachCareless(rs, broken) ==
  [FoldLeft(LAMBDA s, r : AddOne(s, r, broken), [channels |-> channels, res |-> TRUE], rs)
     EXCEPT !.res = TRUE]

\* The loop of the configuration: it stops at the first request that fails.
AddEach(rs, broken) ==
  FoldLeft(LAMBDA s, r : IF s.res THEN AddOne(s, r, broken) ELSE s,
           [channels |-> channels, res |-> TRUE], rs)

AddCallings(rs, broken) ==
  LET s == AddEach(rs, broken) IN
  /\ channels' = s.channels
  /\ last' = [asked |-> rs, res |-> s.res]

\* add_calling by descriptor or by name.
AddCalling(r, broken) == AddCallings(<<r>>, broken)

\* add_calling of a configuration: it cannot be read or parsed, or has a list.
AddConfig(rs, broken) == AddCallings(rs, broken)

AddConfigUnreadable ==
  /\ last' = [asked |-> << >>, res |-> FALSE]
  /\ UNCHANGED channels

Next ==
  \/ \E r \in Request, b \in Broken : AddCalling(r, b)
  \/ \E rs \in Batch, b \in Broken : AddConfig(rs, b)
  \/ AddConfigUnreadable

Spec == Init /\ [][Next]_vars

-----------------------------------------------------------------------------
\* A configuration that was added with true has all its callings, each as this
\* configuration has it and not as an earlier call had it.
TrueMeansAllAdded ==
  last.res => \A i \in DOMAIN last.asked :
    LET r == last.asked[i] IN HasCalling(channels, r.name) /\ channels[r.name] = MethodOf(r)
=============================================================================
