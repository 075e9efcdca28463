---------------------------- MODULE GraphProofs ----------------------------
(***************************************************************************)
(* The two depth-first walks of the repository, for every graph: the DAG   *)
(* executor of dag.cpp and the cycle detection of look_for_job.cpp.  Each  *)
(* section has the inductive invariant, the lemmas about its operators,    *)
(* one lemma per action, and the theorems.                                 *)
(***************************************************************************)
EXTENDS Integers, Sequences, FiniteSets, TLAPS

CONSTANT Name
-----------------------------------------------------------------------------
(* DagExecutor.                                                            *)

VARIABLES modules_, executor, pending, visited, stack, ran

Dag == INSTANCE DagExecutor WITH pc <- executor

Call == [mod : Name, left : SUBSET Name]

DagType ==
  /\ executor \in {"adding", "running", "done", "crashed"}
  /\ Dag!Added \subseteq Name
  /\ \A m \in Dag!Added : modules_[m] \subseteq Name
  /\ visited \subseteq Dag!Added /\ pending \subseteq Dag!Added
  /\ stack \in Seq(Call) /\ ran \in Seq(Name)

CallsReach ==
  \A k \in DOMAIN stack : \A j \in 1 .. k - 1 : Dag!Reaches(stack[j].mod, stack[k].mod)

\* A module that is visited has run or is on the stack, once in all, and no other
\* is; each call of the stack is reached from those below it, and is through with
\* dependencies that are visited.
WalkInv ==
  /\ visited = Dag!Range(ran) \cup {stack[j].mod : j \in DOMAIN stack}
  /\ \A j, k \in DOMAIN ran : ran[j] = ran[k] => j = k
  /\ \A j, k \in DOMAIN stack : stack[j].mod = stack[k].mod => j = k
  /\ \A j \in DOMAIN stack : stack[j].mod \notin Dag!Range(ran)
  /\ \A j \in DOMAIN stack : stack[j].left \subseteq modules_[stack[j].mod]
  /\ \A j \in DOMAIN stack : modules_[stack[j].mod] \ stack[j].left \subseteq visited
  /\ CallsReach

\* excutor_all returns with every module run, and once, or crashes on one that
\* was never added.
EndsRight ==
  /\ executor = "done" => Dag!Range(ran) = Dag!Added /\ \A j, k \in DOMAIN ran : ran[j] = ran[k] => j = k
  /\ executor = "crashed" => \E m \in Dag!Added : ~(modules_[m] \subseteq Dag!Added)

DagInv ==
  /\ DagType /\ WalkInv /\ Dag!RunsAfterDeps /\ EndsRight
  /\ executor = "adding" => pending = {} /\ visited = {} /\ stack = << >> /\ ran = << >>
  /\ executor \in {"running", "done"} => Dag!Added = visited \cup pending

LEMMA DagInitInv == Dag!Init => DagInv
<1> SUFFICES ASSUME Dag!Init PROVE DagInv
  BY Zenon
<1>1. /\ executor = "adding" /\ Dag!Added = {} /\ visited = {} /\ pending = {} /\ stack = << >> /\ ran = << >>
      /\ DOMAIN stack = {} /\ DOMAIN ran = {}
  BY DEF Dag!Init, Dag!Added
<1>2. DagType
  BY <1>1 DEF DagType
<1>3. WalkInv /\ Dag!RunsAfterDeps /\ EndsRight
  BY <1>1, Zenon DEF WalkInv, CallsReach, Dag!RunsAfterDeps, EndsRight, Dag!Range
<1> QED
  BY <1>1, <1>2, <1>3, Zenon DEF DagInv

\* What a module reaches, its dependencies' dependencies are part of.
LEMMA ReachesOn ==
  ASSUME NEW a, NEW m \in Dag!Added, NEW d \in Dag!Added, d \in modules_[m], a = m \/ Dag!Reaches(a, m)
  PROVE  Dag!Reaches(a, d)
  BY Zenon DEF Dag!Reaches, Dag!HoldsDeps

\* Taking a dependency changes the innermost call alone.
LEMMA DepTaken ==
  ASSUME NEW d, stack \in Seq(Call), stack # << >>
  PROVE  /\ Dag!Taken(d) \in Seq(Call) /\ Len(Dag!Taken(d)) = Len(stack)
         /\ \A j \in 1 .. Len(stack) :
              /\ Dag!Taken(d)[j].mod = stack[j].mod
              /\ j # Len(stack) => Dag!Taken(d)[j].left = stack[j].left
              /\ j = Len(stack) => Dag!Taken(d)[j].left = stack[j].left \ {d}
<1> DEFINE L == Len(stack)
           f == [stack[L] EXCEPT !.left = stack[L].left \ {d}]
<1>1. L \in Nat \ {0} /\ L \in 1 .. L /\ DOMAIN stack = 1 .. L /\ \A j \in 1 .. L : stack[j] \in Call
  OBVIOUS
<1>2. f \in Call /\ f.mod = stack[L].mod /\ f.left = stack[L].left \ {d}
  BY <1>1, Zenon DEF Call
<1>3. Dag!Taken(d) = [stack EXCEPT ![L] = f]
  BY Zenon DEF Dag!Taken
<1> HIDE DEF f
<1>4. /\ [stack EXCEPT ![L] = f] \in Seq(Call) /\ Len([stack EXCEPT ![L] = f]) = L
      /\ \A j \in 1 .. L : [stack EXCEPT ![L] = f][j] = IF j = L THEN f ELSE stack[j]
  BY <1>1, <1>2
<1>5. ASSUME NEW j \in 1 .. L
      PROVE  /\ Dag!Taken(d)[j].mod = stack[j].mod
             /\ j # L => Dag!Taken(d)[j].left = stack[j].left
             /\ j = L => Dag!Taken(d)[j].left = stack[j].left \ {d}
  BY <1>2, <1>3, <1>4, Zenon
<1> QED
  BY <1>3, <1>4, <1>5, Zenon

\* execute() on a module that was not visited, from the call that took it from
\* its dependencies, if there is one.
LEMMA DagEnterKeeps ==
  ASSUME DagType, WalkInv, NEW m \in Dag!Added \ visited, modules_' = modules_, ran' = ran,
         NEW below \in Seq(Call), Dag!Enter(m, below), Len(below) = Len(stack),
         \A j \in 1 .. Len(stack) :
            /\ below[j].mod = stack[j].mod
            /\ j # Len(stack) => below[j].left = stack[j].left
            /\ j = Len(stack) => m \in stack[j].left /\ below[j].left = stack[j].left \ {m}
  PROVE  visited' = visited \cup {m} /\ stack' \in Seq(Call) /\ WalkInv'
<1> DEFINE L == Len(stack)
           c == stack'
<1>1. visited' = visited \cup {m} /\ c = Append(below, [mod |-> m, left |-> modules_[m]])
  BY Zenon DEF Dag!Enter
<1>2. /\ stack \in Seq(Call) /\ L \in Nat /\ DOMAIN stack = 1 .. L /\ m \in Name
      /\ modules_[m] \in SUBSET Name /\ \A j \in 1 .. L : L # 0
  BY DEF DagType
<1>3. /\ c \in Seq(Call) /\ Len(c) = L + 1 /\ DOMAIN c = 1 .. L + 1
      /\ c[L + 1].mod = m /\ c[L + 1].left = modules_[m]
      /\ \A j \in 1 .. L : c[j] = below[j]
  BY <1>1, <1>2 DEF Call
<1> HIDE DEF c
<1>4. \A j \in 1 .. L : /\ c[j].mod = stack[j].mod
                        /\ j # L => c[j].left = stack[j].left
                        /\ j = L => m \in stack[j].left /\ c[j].left = stack[j].left \ {m}
  BY <1>3, Zenon
<1> HIDE DEF L
<1>5. /\ visited = Dag!Range(ran) \cup {stack[j].mod : j \in 1 .. L}
      /\ \A j, k \in 1 .. L : stack[j].mod = stack[k].mod => j = k
      /\ \A j \in 1 .. L : stack[j].mod \notin Dag!Range(ran)
      /\ \A j \in 1 .. L : stack[j].left \subseteq modules_[stack[j].mod]
      /\ \A j \in 1 .. L : modules_[stack[j].mod] \ stack[j].left \subseteq visited
      /\ \A k \in 1 .. L : \A j \in 1 .. k - 1 : Dag!Reaches(stack[j].mod, stack[k].mod)
  BY <1>2, Zenon DEF WalkInv, CallsReach
<1>6. \A j \in 1 .. L : stack[j].mod # m
  BY <1>5
<1>7. visited' = Dag!Range(ran) \cup {c[j].mod : j \in DOMAIN c}
  <2>1. \A x : x \in {stack[j].mod : j \in 1 .. L} <=> \E j \in 1 .. L : x = c[j].mod
    <3>1. \A j \in 1 .. L : c[j].mod = stack[j].mod
      BY <1>4, Zenon
    <3> QED
      BY <3>1, Zenon
  <2>2. \A x : x \in {c[j].mod : j \in DOMAIN c} <=> x = m \/ \E j \in 1 .. L : x = c[j].mod
    <3> SUFFICES ASSUME NEW x PROVE x \in {c[j].mod : j \in DOMAIN c} <=> x = m \/ \E j \in 1 .. L : x = c[j].mod
      BY Zenon
    <3>1. \A j : j \in DOMAIN c <=> j = L + 1 \/ j \in 1 .. L
      BY <1>2, <1>3
    <3>2. c[L + 1].mod = m
      BY <1>3, Zenon
    <3> QED
      BY <3>1, <3>2, Zenon
  <2>3. \A x : x \in visited <=> x \in Dag!Range(ran) \/ \E j \in 1 .. L : x = c[j].mod
    BY <1>5, <2>1, Zenon
  <2>4. \A x : x \in visited' <=> x \in visited \/ x = m
    BY <1>1, Zenon
  <2>5. \A x : x \in visited' <=> x \in Dag!Range(ran) \cup {c[j].mod : j \in DOMAIN c}
    <3> TAKE x
    <3>1. x \in Dag!Range(ran) \cup {c[j].mod : j \in DOMAIN c} <=>
            x \in Dag!Range(ran) \/ x \in {c[j].mod : j \in DOMAIN c}
      BY Zenon
    <3> QED
      BY <2>2, <2>3, <2>4, <3>1, Zenon
  <2> QED
    BY <2>5, Zenon
<1>8. \A j, k \in DOMAIN c : c[j].mod = c[k].mod => j = k
  <2>1. \A j : j \in DOMAIN c <=> j = L + 1 \/ j \in 1 .. L
    BY <1>2, <1>3
  <2>2. c[L + 1].mod = m /\ \A j \in 1 .. L : c[j].mod = stack[j].mod /\ c[j].mod # m
    BY <1>3, <1>4, <1>6, Zenon
  <2>3. ASSUME NEW j \in DOMAIN c, NEW k \in DOMAIN c, c[j].mod = c[k].mod PROVE j = k
    <3>1. CASE j = L + 1 \/ k = L + 1
      BY <2>1, <2>2, <2>3, <3>1, Zenon
    <3>2. CASE j \in 1 .. L /\ k \in 1 .. L
      BY <1>5, <2>2, <2>3, <3>2, Zenon
    <3> QED
      BY <2>1, <2>3, <3>1, <3>2, Zenon
  <2> QED
    BY <2>3, Zenon
<1>9. \A j \in DOMAIN c : c[j].mod \notin Dag!Range(ran)
  BY <1>2, <1>3, <1>4, <1>5
<1>10. \A j \in DOMAIN c : c[j].left \subseteq modules_[c[j].mod]
  BY <1>2, <1>3, <1>4, <1>5
<1>11. \A j \in DOMAIN c : modules_[c[j].mod] \ c[j].left \subseteq visited \cup {m}
  BY <1>2, <1>3, <1>4, <1>5
<1>12. ASSUME NEW k \in DOMAIN c, NEW j \in 1 .. k - 1 PROVE Dag!Reaches(c[j].mod, c[k].mod)
  <2>1. CASE k # L + 1
    <3>1. k \in 1 .. L /\ j \in 1 .. L
      BY <1>2, <1>3, <2>1
    <3> QED
      BY <1>4, <1>5, <3>1, Zenon
  <2>2. CASE k = L + 1
    <3>1. j \in 1 .. L /\ L \in 1 .. L /\ (j = L \/ j \in 1 .. L - 1)
      BY <1>2, <1>3, <2>2
    <3>2. stack[L].mod \in Dag!Added /\ m \in modules_[stack[L].mod]
      <4>1. stack[L].mod \in visited
        BY <1>5, <3>1, Zenon
      <4> QED
        BY <1>4, <1>5, <3>1, <4>1, Zenon DEF DagType
    <3>3. stack[j].mod = stack[L].mod \/ Dag!Reaches(stack[j].mod, stack[L].mod)
      BY <1>5, <3>1, Zenon
    <3>4. Dag!Reaches(stack[j].mod, m)
      BY <3>2, <3>3, ReachesOn, Zenon
    <3> QED
      BY <1>3, <1>4, <2>2, <3>1, <3>4, Zenon
  <2> QED
    BY <2>1, <2>2, Zenon
<1>13. CallsReach'
  BY <1>12 DEF CallsReach, c, Dag!Reaches, Dag!HoldsDeps, Dag!Added
<1>14. WalkInv'
  <2>1. \A j, k \in DOMAIN ran : ran[j] = ran[k] => j = k
    BY Zenon DEF WalkInv
  <2>2. Dag!Range(ran)' = Dag!Range(ran)
    BY Zenon DEF Dag!Range
  <2> QED
    BY <1>1, <1>7, <1>8, <1>9, <1>10, <1>11, <1>13, <2>1, <2>2, Zenon DEF WalkInv, c
<1> QED
  BY <1>1, <1>3, <1>14, Zenon DEF c

\* A call that takes a dependency which is visited.
LEMMA DagSkipKeeps ==
  ASSUME DagType, WalkInv, NEW d \in visited, stack # << >>, stack' = Dag!Taken(d),
         UNCHANGED <<modules_, visited, ran>>
  PROVE  stack' \in Seq(Call) /\ WalkInv'
<1> DEFINE L == Len(stack)
           c == stack'
<1>1. stack \in Seq(Call) /\ L \in Nat \ {0} /\ DOMAIN stack = 1 .. L
  BY DEF DagType
<1>2. /\ c \in Seq(Call) /\ Len(c) = L /\ DOMAIN c = 1 .. L
      /\ \A j \in 1 .. L : /\ c[j].mod = stack[j].mod
                           /\ j # L => c[j].left = stack[j].left
                           /\ j = L => c[j].left = stack[j].left \ {d}
  <2>1. c = Dag!Taken(d)
    BY Zenon
  <2> HIDE DEF c
  <2>2. /\ c \in Seq(Call) /\ Len(c) = L
        /\ \A j \in 1 .. L : /\ c[j].mod = stack[j].mod
                             /\ j # L => c[j].left = stack[j].left
                             /\ j = L => c[j].left = stack[j].left \ {d}
    BY <1>1, <2>1, DepTaken, Zenon
  <2> QED
    BY <2>2
<1> HIDE DEF c, L
<1>3. {c[j].mod : j \in DOMAIN c} = {stack[j].mod : j \in DOMAIN stack}
  <2>1. DOMAIN c = DOMAIN stack /\ \A j \in DOMAIN c : c[j].mod = stack[j].mod
    BY <1>1, <1>2, Zenon
  <2> QED
    BY <2>1, Zenon
<1>4. \A j \in DOMAIN c : c[j].left \subseteq modules_[c[j].mod]
  BY <1>1, <1>2 DEF WalkInv
<1>5. \A j \in DOMAIN c : modules_[c[j].mod] \ c[j].left \subseteq visited
  BY <1>1, <1>2 DEF WalkInv
<1>6. \A k \in DOMAIN c : \A j \in 1 .. k - 1 : Dag!Reaches(c[j].mod, c[k].mod)
  <2>1. \A k \in 1 .. L : \A j \in 1 .. k - 1 : j \in 1 .. L
    BY <1>1
  <2> QED
    BY <1>1, <1>2, <2>1, Zenon DEF WalkInv, CallsReach
<1>7. CallsReach'
  BY <1>6 DEF CallsReach, c, Dag!Reaches, Dag!HoldsDeps, Dag!Added
<1>8. /\ \A j, k \in DOMAIN c : c[j].mod = c[k].mod => j = k
      /\ \A j \in DOMAIN c : c[j].mod \notin Dag!Range(ran)
      /\ \A j, k \in DOMAIN ran : ran[j] = ran[k] => j = k
      /\ visited = Dag!Range(ran) \cup {c[j].mod : j \in DOMAIN c}
  BY <1>1, <1>2, <1>3, Zenon DEF WalkInv
<1>9. Dag!Range(ran)' = Dag!Range(ran)
  BY Zenon DEF Dag!Range
<1>10. WalkInv'
  BY <1>4, <1>5, <1>7, <1>8, <1>9, Zenon DEF WalkInv, c
<1> QED
  BY <1>2, <1>10, Zenon DEF c

\* The end of a call: its module runs, after the dependencies it was through with.
LEMMA RunKeeps ==
  ASSUME DagType, WalkInv, Dag!RunsAfterDeps, Dag!Run
  PROVE  ran' \in Seq(Name) /\ stack' \in Seq(Call) /\ WalkInv' /\ Dag!RunsAfterDeps'
<1> DEFINE L == Len(stack)
           c == stack'
           r == ran'
           m == stack[L].mod
           n == Len(ran)
<1>1. stack \in Seq(Call) /\ L \in Nat \ {0} /\ DOMAIN stack = 1 .. L /\ L \in 1 .. L
  BY DEF DagType, Dag!Run
<1>2. /\ c \in Seq(Call) /\ Len(c) = L - 1 /\ DOMAIN c = 1 .. L - 1
      /\ \A j \in 1 .. L - 1 : c[j] = stack[j] /\ j \in 1 .. L
  BY <1>1 DEF Dag!Run
<1>3. stack[L].left = {} /\ r = Append(ran, m) /\ UNCHANGED <<modules_, visited>>
  BY Zenon DEF Dag!Run, Dag!Top
<1>4. m \in Name
  <2>1. stack[L] \in Call
    BY <1>1
  <2> QED
    BY <2>1, Zenon DEF Call
<1>5. /\ r \in Seq(Name) /\ Len(r) = n + 1 /\ DOMAIN r = 1 .. n + 1 /\ r[n + 1] = m /\ n \in Nat
      /\ DOMAIN ran = 1 .. n /\ \A j \in 1 .. n : r[j] = ran[j]
  BY <1>3, <1>4 DEF DagType
<1> HIDE DEF c, L, r, n
<1>6. /\ visited = Dag!Range(ran) \cup {stack[j].mod : j \in 1 .. L}
      /\ \A j, k \in 1 .. L : stack[j].mod = stack[k].mod => j = k
      /\ \A j \in 1 .. L : stack[j].mod \notin Dag!Range(ran)
      /\ \A j \in 1 .. L : stack[j].left \subseteq modules_[stack[j].mod]
      /\ \A j \in 1 .. L : modules_[stack[j].mod] \ stack[j].left \subseteq visited
      /\ \A k \in 1 .. L : \A j \in 1 .. k - 1 : Dag!Reaches(stack[j].mod, stack[k].mod)
      /\ \A j, k \in 1 .. n : ran[j] = ran[k] => j = k
  BY <1>1, <1>5, Zenon DEF WalkInv, CallsReach
<1>7. Dag!Range(ran)' = Dag!Range(ran) \cup {m}
  BY <1>5 DEF Dag!Range, r
<1>8. /\ m \in visited /\ m \notin Dag!Range(ran) /\ m \in Dag!Added
  BY <1>1, <1>6 DEF DagType
<1>9. visited = Dag!Range(ran)' \cup {c[j].mod : j \in DOMAIN c}
  <2>1. \A x : x \in {c[j].mod : j \in DOMAIN c} <=> \E j \in 1 .. L - 1 : x = stack[j].mod
    <3>1. DOMAIN c = 1 .. L - 1 /\ \A j \in 1 .. L - 1 : c[j].mod = stack[j].mod
      BY <1>2, Zenon
    <3> QED
      BY <3>1, Zenon
  <2>2. \A x : x \in visited <=> \/ x \in Dag!Range(ran) \/ x = m
                                \/ \E j \in 1 .. L - 1 : x = stack[j].mod
    BY <1>1, <1>6
  <2> QED
    BY <1>7, <2>1, <2>2, Zenon
<1>10. \A j, k \in DOMAIN r : r[j] = r[k] => j = k
  <2>1. \A j \in 1 .. n : ran[j] \in Dag!Range(ran)
    BY <1>5, Zenon DEF Dag!Range
  <2> QED
    BY <1>5, <1>6, <1>8, <2>1
<1>11. /\ \A j, k \in DOMAIN c : c[j].mod = c[k].mod => j = k
       /\ \A j \in DOMAIN c : c[j].mod \notin Dag!Range(ran)'
  BY <1>1, <1>2, <1>6, <1>7
<1>12. /\ \A j \in DOMAIN c : c[j].left \subseteq modules_[c[j].mod]
       /\ \A j \in DOMAIN c : modules_[c[j].mod] \ c[j].left \subseteq visited
  BY <1>2, <1>6, Zenon
<1>13. \A k \in DOMAIN c : \A j \in 1 .. k - 1 : Dag!Reaches(c[j].mod, c[k].mod)
  <2>1. \A k \in 1 .. L - 1 : \A j \in 1 .. k - 1 : j \in 1 .. L - 1
    BY <1>1
  <2> QED
    BY <1>2, <1>6, <2>1, Zenon
<1>14. CallsReach'
  BY <1>3, <1>13, Zenon DEF CallsReach, c, Dag!Reaches, Dag!HoldsDeps, Dag!Added
<1>15. WalkInv'
  BY <1>3, <1>9, <1>10, <1>11, <1>12, <1>14, Zenon DEF WalkInv, c, r
<1>16. ASSUME NEW d \in modules_[m], d \in Dag!Added, ~Dag!Reaches(d, m)
       PROVE  \E j \in 1 .. n : ran[j] = d
  <2>1. d \in visited
    BY <1>1, <1>3, <1>6, Zenon
  <2>2. d # m
    BY <1>8, <1>16, ReachesOn, Zenon
  <2>3. \A j \in 1 .. L : stack[j].mod # d
    <3> SUFFICES ASSUME NEW j \in 1 .. L, stack[j].mod = d PROVE FALSE
      BY Zenon
    <3>1. j \in 1 .. L - 1
      BY <1>1, <2>2
    <3> QED
      BY <1>1, <1>6, <1>16, <3>1, Zenon
  <2>4. d \in Dag!Range(ran)
    BY <1>6, <2>1, <2>3, Zenon
  <2> QED
    BY <1>5, <2>4, Zenon DEF Dag!Range
<1>17. ASSUME NEW k \in DOMAIN r, NEW d \in modules_[r[k]], d \in Dag!Added, ~Dag!Reaches(d, r[k])
       PROVE  \E j \in 1 .. k - 1 : r[j] = d
  <2>1. CASE k \in 1 .. n
    <3>1. PICK j \in 1 .. k - 1 : ran[j] = d
      BY <1>5, <1>17, <2>1, Zenon DEF Dag!RunsAfterDeps
    <3> QED
      BY <1>5, <2>1, <3>1
  <2>2. CASE k = n + 1
    <3>1. PICK j \in 1 .. n : ran[j] = d
      BY <1>5, <1>16, <1>17, <2>2, Zenon
    <3> QED
      BY <1>5, <2>2, <3>1
  <2> QED
    BY <1>5, <2>1, <2>2
<1>18. Dag!RunsAfterDeps'
  BY <1>3, <1>17 DEF Dag!RunsAfterDeps, r, Dag!Reaches, Dag!HoldsDeps, Dag!Added
<1> QED
  BY <1>2, <1>5, <1>15, <1>18, Zenon DEF c, r

\* The rest of the invariant when the modules and what ran stay.
LEMMA AfterDepsKept ==
  ASSUME Dag!RunsAfterDeps, UNCHANGED <<modules_, ran>> PROVE Dag!RunsAfterDeps'
  BY DEF Dag!RunsAfterDeps, Dag!Reaches, Dag!HoldsDeps, Dag!Added

LEMMA DagAddKeeps ==
  ASSUME DagInv, NEW n \in Name, NEW deps \in SUBSET Name, Dag!add_module(n, deps) PROVE DagInv'
<1>1. /\ executor = "adding" /\ executor' = "adding" /\ pending' = {} /\ visited' = {} /\ stack' = << >> /\ ran' = << >>
      /\ DOMAIN stack' = {} /\ DOMAIN ran' = {} /\ DagType
  BY DEF DagInv, Dag!add_module
<1>2. DagType'
  BY <1>1, Zenon DEF DagType, Dag!add_module, Dag!Added
<1>3. WalkInv' /\ Dag!RunsAfterDeps' /\ EndsRight'
  BY <1>1, Zenon DEF WalkInv, CallsReach, Dag!RunsAfterDeps, EndsRight, Dag!Range
<1> QED
  BY <1>1, <1>2, <1>3, Zenon DEF DagInv

LEMMA DagStartKeeps ==
  ASSUME DagInv, Dag!excutor_all PROVE DagInv'
<1>1. /\ executor = "adding" /\ executor' = "running" /\ pending' = Dag!Added /\ visited = {}
      /\ UNCHANGED <<modules_, visited, stack, ran>>
      /\ DagType /\ WalkInv /\ Dag!RunsAfterDeps
  BY Zenon DEF DagInv, Dag!excutor_all
<1>2. Dag!Added' = Dag!Added /\ Dag!Range(ran)' = Dag!Range(ran)
  BY <1>1, Zenon DEF Dag!Added, Dag!Range
<1>3. DagType'
  BY <1>1, <1>2, Zenon DEF DagType
<1>4. WalkInv'
  BY <1>1, <1>2 DEF WalkInv, CallsReach, Dag!Reaches, Dag!HoldsDeps
<1>5. Dag!RunsAfterDeps'
  BY <1>1, AfterDepsKept, Zenon
<1> QED
  BY <1>1, <1>2, <1>3, <1>4, <1>5, Zenon DEF DagInv, EndsRight

LEMMA WalkKept == ASSUME WalkInv, UNCHANGED <<modules_, visited, stack, ran>> PROVE WalkInv'
<1>1. modules_' = modules_ /\ visited' = visited /\ stack' = stack /\ ran' = ran
  OBVIOUS
<1>2. CallsReach'
  <2>1. \A a, b : Dag!Reaches(a, b) => Dag!Reaches(a, b)'
    BY <1>1, Zenon DEF Dag!Reaches, Dag!HoldsDeps, Dag!Added
  <2>2. \A k \in DOMAIN stack : \A j \in 1 .. k - 1 : Dag!Reaches(stack[j].mod, stack[k].mod)
    BY Zenon DEF WalkInv, CallsReach
  <2>3. \A k \in DOMAIN stack : \A j \in 1 .. k - 1 : Dag!Reaches(stack[j].mod, stack[k].mod)'
    BY <1>1, <2>2, Zenon DEF Dag!Reaches, Dag!HoldsDeps, Dag!Added
  <2> QED
    BY <1>1, <2>3, Zenon DEF CallsReach
<1>3. Dag!Range(ran)' = Dag!Range(ran)
  BY <1>1, Zenon DEF Dag!Range
<1>4. {stack[j].mod : j \in DOMAIN stack}' = {stack[j].mod : j \in DOMAIN stack}
  BY <1>1
<1> QED
  BY <1>1, <1>2, <1>3, <1>4 DEF WalkInv

LEMMA NextEntryKeeps ==
  ASSUME DagInv, NEW m \in Name, Dag!NextEntry(m) PROVE DagInv'
<1>1. /\ executor = "running" /\ executor' = "running" /\ pending' = pending \ {m} /\ stack = << >> /\ m \in pending
      /\ UNCHANGED <<modules_, ran>> /\ Dag!Added = visited \cup pending
      /\ DagType /\ WalkInv /\ Dag!RunsAfterDeps
  BY Zenon DEF DagInv, Dag!NextEntry
<1>2. Dag!Added' = Dag!Added /\ Dag!Range(ran)' = Dag!Range(ran)
  BY <1>1, Zenon DEF Dag!Added, Dag!Range
<1>3. Dag!RunsAfterDeps'
  BY <1>1, AfterDepsKept, Zenon
<1>4. CASE m \in visited
  <2>1. UNCHANGED <<visited, stack>>
    BY <1>4, Zenon DEF Dag!NextEntry
  <2>2. DagType'
    BY <1>1, <1>2, <2>1, Zenon DEF DagType
  <2>3. WalkInv'
    BY <1>1, <2>1, WalkKept, Zenon
  <2>4. Dag!Added = visited' \cup pending'
    BY <1>1, <1>4, <2>1, Zenon
  <2> QED
    BY <1>1, <1>2, <1>3, <2>2, <2>3, <2>4, Zenon DEF DagInv, EndsRight
<1>5. CASE m \notin visited
  <2>1. Dag!Enter(m, << >>)
    BY <1>5, Zenon DEF Dag!NextEntry
  <2>2. m \in Dag!Added \ visited /\ << >> \in Seq(Call) /\ Len(<< >>) = Len(stack) /\ 1 .. Len(stack) = {}
    BY <1>1, <1>5
  <2>3. visited' = visited \cup {m} /\ stack' \in Seq(Call) /\ WalkInv'
    BY <1>1, <2>1, <2>2, DagEnterKeeps, Zenon
  <2>4. DagType'
    BY <1>1, <1>2, <2>2, <2>3, Zenon DEF DagType
  <2>5. Dag!Added = visited' \cup pending'
    BY <1>1, <2>3, Zenon
  <2> QED
    BY <1>1, <1>2, <1>3, <2>3, <2>4, <2>5, Zenon DEF DagInv, EndsRight
<1> QED
  BY <1>4, <1>5, Zenon

LEMMA VisitDepKeeps ==
  ASSUME DagInv, NEW dep \in Name, Dag!VisitDep(dep) PROVE DagInv'
<1>1. /\ executor = "running" /\ stack # << >> /\ dep \in stack[Len(stack)].left
      /\ UNCHANGED <<modules_, ran, pending>> /\ Dag!Added = visited \cup pending
      /\ DagType /\ WalkInv /\ Dag!RunsAfterDeps /\ stack \in Seq(Call)
  BY Zenon DEF DagInv, DagType, Dag!VisitDep, Dag!Top
<1>2. Dag!Added' = Dag!Added /\ Dag!Range(ran)' = Dag!Range(ran)
  BY <1>1, Zenon DEF Dag!Added, Dag!Range
<1>3. Dag!RunsAfterDeps'
  BY <1>1, AfterDepsKept, Zenon
<1>4. CASE dep \in visited
  <2>1. stack' = Dag!Taken(dep) /\ visited' = visited /\ executor' = executor
    BY <1>4, Zenon DEF Dag!VisitDep
  <2>2. stack' \in Seq(Call) /\ WalkInv'
    BY <1>1, <1>4, <2>1, DagSkipKeeps, Zenon
  <2>3. DagType'
    BY <1>1, <1>2, <2>1, <2>2, Zenon DEF DagType
  <2> QED
    BY <1>1, <1>2, <1>3, <2>1, <2>2, <2>3, Zenon DEF DagInv, EndsRight
<1>5. CASE dep \notin visited /\ dep \in Dag!Added
  <2>1. Dag!Enter(dep, Dag!Taken(dep)) /\ executor' = executor
    BY <1>5, Zenon DEF Dag!VisitDep
  <2>2. /\ Dag!Taken(dep) \in Seq(Call) /\ Len(Dag!Taken(dep)) = Len(stack)
        /\ \A j \in 1 .. Len(stack) :
             /\ Dag!Taken(dep)[j].mod = stack[j].mod
             /\ j # Len(stack) => Dag!Taken(dep)[j].left = stack[j].left
             /\ j = Len(stack) => Dag!Taken(dep)[j].left = stack[j].left \ {dep}
    BY <1>1, DepTaken, Zenon
  <2>3. dep \in Dag!Added \ visited
    BY <1>5, Zenon
  <2>4. visited' = visited \cup {dep} /\ stack' \in Seq(Call) /\ WalkInv'
    BY <1>1, <2>1, <2>2, <2>3, DagEnterKeeps, Zenon
  <2>5. DagType'
    BY <1>1, <1>2, <1>5, <2>1, <2>4, Zenon DEF DagType
  <2>6. Dag!Added = visited' \cup pending'
    BY <1>1, <1>5, <2>4, Zenon
  <2> QED
    BY <1>1, <1>2, <1>3, <2>1, <2>4, <2>5, <2>6, Zenon DEF DagInv, EndsRight
<1>6. CASE dep \notin visited /\ dep \notin Dag!Added
  <2>1. executor' = "crashed" /\ UNCHANGED <<visited, stack>>
    BY <1>6, Zenon DEF Dag!VisitDep
  <2>2. DagType'
    BY <1>1, <1>2, <2>1, Zenon DEF DagType
  <2>3. WalkInv'
    BY <1>1, <2>1, WalkKept, Zenon
  <2>4. \E m \in Dag!Added : ~(modules_[m] \subseteq Dag!Added)
    <3>1. Len(stack) \in DOMAIN stack
      BY <1>1
    <3>2. /\ stack[Len(stack)].mod \in Dag!Added
          /\ stack[Len(stack)].left \subseteq modules_[stack[Len(stack)].mod]
      BY <1>1, <3>1, Zenon DEF WalkInv, DagType
    <3> QED
      BY <1>1, <1>6, <3>2, Zenon
  <2> QED
    BY <1>1, <1>2, <1>3, <2>1, <2>2, <2>3, <2>4, Zenon DEF DagInv, EndsRight
<1> QED
  BY <1>4, <1>5, <1>6, Zenon

LEMMA DagRunKeeps ==
  ASSUME DagInv, Dag!Run PROVE DagInv'
<1>1. /\ executor = "running" /\ UNCHANGED <<modules_, executor, pending, visited>>
      /\ DagType /\ WalkInv /\ Dag!RunsAfterDeps /\ Dag!Added = visited \cup pending
  BY Zenon DEF DagInv, Dag!Run
<1>2. ran' \in Seq(Name) /\ stack' \in Seq(Call) /\ WalkInv' /\ Dag!RunsAfterDeps'
  BY <1>1, RunKeeps, Zenon
<1>3. Dag!Added' = Dag!Added
  BY <1>1, Zenon DEF Dag!Added
<1>4. DagType'
  BY <1>1, <1>2, <1>3, Zenon DEF DagType
<1> QED
  BY <1>1, <1>2, <1>3, <1>4, Zenon DEF DagInv, EndsRight

LEMMA DagFinishKeeps ==
  ASSUME DagInv, Dag!Finish PROVE DagInv'
<1>1. /\ executor = "running" /\ executor' = "done" /\ pending = {} /\ stack = << >> /\ DOMAIN stack = {}
      /\ UNCHANGED <<modules_, pending, visited, stack, ran>> /\ Dag!Added = visited \cup pending
      /\ DagType /\ WalkInv /\ Dag!RunsAfterDeps
  BY DEF DagInv, Dag!Finish
<1>2. Dag!Added' = Dag!Added /\ Dag!Range(ran)' = Dag!Range(ran)
  BY <1>1, Zenon DEF Dag!Added, Dag!Range
<1>3. DagType'
  BY <1>1, <1>2, Zenon DEF DagType
<1>4. WalkInv'
  BY <1>1, <1>2 DEF WalkInv, CallsReach, Dag!Reaches, Dag!HoldsDeps
<1>5. Dag!RunsAfterDeps'
  BY <1>1, AfterDepsKept, Zenon
<1>6. Dag!Range(ran) = Dag!Added /\ \A j, k \in DOMAIN ran : ran[j] = ran[k] => j = k
  <2>1. {stack[j].mod : j \in DOMAIN stack} = {}
    BY <1>1, Zenon
  <2>2. /\ visited = Dag!Range(ran) \cup {stack[j].mod : j \in DOMAIN stack}
        /\ \A j, k \in DOMAIN ran : ran[j] = ran[k] => j = k
    BY <1>1, Zenon DEF WalkInv
  <2> QED
    BY <1>1, <2>1, <2>2, Zenon
<1> QED
  BY <1>1, <1>2, <1>3, <1>4, <1>5, <1>6, Zenon DEF DagInv, EndsRight

LEMMA DagStep == DagInv /\ [Dag!Next]_(Dag!vars) => DagInv'
<1> SUFFICES ASSUME DagInv, [Dag!Next]_(Dag!vars) PROVE DagInv'
  BY Zenon
<1>1. CASE \E n \in Name, deps \in SUBSET Name : Dag!add_module(n, deps)
  BY <1>1, DagAddKeeps, Zenon
<1>2. CASE Dag!excutor_all
  BY <1>2, DagStartKeeps, Zenon
<1>3. CASE \E n \in Name : Dag!NextEntry(n) \/ Dag!VisitDep(n)
  BY <1>3, NextEntryKeeps, VisitDepKeeps, Zenon
<1>4. CASE Dag!Run
  BY <1>4, DagRunKeeps, Zenon
<1>5. CASE Dag!Finish
  BY <1>5, DagFinishKeeps, Zenon
<1>6. CASE UNCHANGED Dag!vars
  <2>1. UNCHANGED <<modules_, executor, pending, visited, stack, ran>>
    BY <1>6, Zenon DEF Dag!vars
  <2>2. Dag!Added' = Dag!Added /\ Dag!Range(ran)' = Dag!Range(ran)
    BY <2>1, Zenon DEF Dag!Added, Dag!Range
  <2>3. WalkInv'
    BY <2>1, <2>2 DEF DagInv, WalkInv, CallsReach, Dag!Reaches, Dag!HoldsDeps
  <2>4. Dag!RunsAfterDeps'
    BY <2>1, AfterDepsKept, Zenon DEF DagInv
  <2>5. DagType' /\ EndsRight'
    BY <2>1, <2>2, Zenon DEF DagInv, DagType, EndsRight
  <2> QED
    BY <2>1, <2>2, <2>3, <2>4, <2>5, Zenon DEF DagInv
<1> QED
  BY <1>1, <1>2, <1>3, <1>4, <1>5, <1>6, Zenon DEF Dag!Next, Dag!Step

\* Every module runs after its dependencies, but for those that depend on it in
\* turn, whatever the modules, the order of modules_ and that of dependencies.
THEOREM DependenciesRunFirst == Dag!Spec => []Dag!RunsAfterDeps
<1>1. DagInv => Dag!RunsAfterDeps
  BY Zenon DEF DagInv
<1> QED
  BY <1>1, DagInitInv, DagStep, PTL DEF Dag!Spec

\* When excutor_all is through, every module that was added has run, and once;
\* it crashes only where a dependency was never added: what RunsAllOnce says of
\* the state in which the recursion ends.
THEOREM ExecutorEndsRight == Dag!Spec => []EndsRight
<1>1. DagInv => EndsRight
  BY Zenon DEF DagInv
<1> QED
  BY <1>1, DagInitInv, DagStep, PTL DEF Dag!Spec

-----------------------------------------------------------------------------
(* CycleDetection.                                                         *)

CONSTANT numVertices
VARIABLES adjList, search, scan, marked, recursionStack, calls, result

Search == INSTANCE CycleDetection WITH pc <- search, i <- scan, visited <- marked, stack <- calls

Frame == [vertex : Search!Vertex, left : SUBSET Search!Vertex]

SearchType ==
  /\ adjList \in [Search!Vertex -> SUBSET Search!Vertex]
  /\ search \in {"editing", "searching"}
  /\ scan \in Nat
  /\ marked \subseteq Search!Vertex
  /\ calls \in Seq(Frame)

\* The vertices that are done with: visited, and off the recursion stack.
Black == marked \ recursionStack

\* Every nonempty part of V has a vertex with no edge into that part.
Acyclic(V) == \A S \in SUBSET V : S # {} => \E v \in S : adjList[v] \cap S = {}

\* The recursion stack is a path of distinct vertices, and what a call is through
\* with is black, but for the neighbour it is in the middle of.
PathInv ==
  /\ recursionStack = {calls[j].vertex : j \in DOMAIN calls}
  /\ recursionStack \subseteq marked
  /\ \A j, k \in DOMAIN calls : calls[j].vertex = calls[k].vertex => j = k
  /\ \A j \in 1 .. Len(calls) - 1 : calls[j + 1].vertex \in adjList[calls[j].vertex]
  /\ \A j \in DOMAIN calls : calls[j].left \subseteq adjList[calls[j].vertex]
  /\ \A j \in DOMAIN calls : \A w \in adjList[calls[j].vertex] \ calls[j].left :
       w \in Black \/ (j < Len(calls) /\ w = calls[j + 1].vertex)

BlackInv ==
  /\ \A v \in Black : adjList[v] \subseteq Black
  /\ Acyclic(Black)

SearchInv ==
  /\ SearchType
  /\ Search!AnswerIsRight
  /\ search = "searching" =>
       /\ result = "none"
       /\ \A v \in Search!Vertex : v < scan => v \in marked
       /\ PathInv /\ BlackInv

LEMMA SearchInitInv == Search!Init => SearchInv
  BY DEF Search!Init, SearchInv, SearchType, Search!AnswerIsRight

LEMMA SearchStutters == ASSUME SearchInv, UNCHANGED Search!vars PROVE SearchInv'
<1>1. UNCHANGED <<adjList, search, scan, marked, recursionStack, calls, result>>
  BY Zenon DEF Search!vars
<1> QED
  BY <1>1 DEF SearchInv, SearchType, PathInv, BlackInv, Black, Acyclic, Search!AnswerIsRight, Search!HasCycle

\* A cycle has no vertex without an edge into it.
LEMMA AcyclicHasNoCycle ==
  ASSUME numVertices \in Nat, SearchType, Acyclic(Search!Vertex) PROVE ~Search!HasCycle
<1> SUFFICES ASSUME NEW n \in 1 .. numVertices, NEW path \in [0 .. n -> Search!Vertex], path[0] = path[n],
                    \A j \in 0 .. n - 1 : path[j + 1] \in adjList[path[j]]
             PROVE  FALSE
  BY Zenon DEF Search!HasCycle
<1> DEFINE S == {path[j] : j \in 0 .. n}
<1>1. S \subseteq Search!Vertex /\ path[0] \in S
  OBVIOUS
<1>2. PICK v \in S : adjList[v] \cap S = {}
  BY <1>1, Zenon DEF Acyclic
<1>3. PICK k \in 0 .. n - 1 : v = path[k]
  <2>1. PICK j \in 0 .. n : v = path[j]
    BY Zenon
  <2>2. CASE j = n
    BY <2>1, <2>2
  <2>3. CASE j \in 0 .. n - 1
    BY <2>1, <2>3, Zenon
  <2> QED
    BY <2>2, <2>3
<1>4. path[k + 1] \in S /\ path[k + 1] \in adjList[v]
  BY <1>3
<1> QED
  BY <1>2, <1>4, Zenon

\* A vertex whose neighbours are black can be black.
LEMMA BlackGrows ==
  ASSUME NEW B, NEW v, v \notin B, Acyclic(B), \A w \in B : adjList[w] \subseteq B, adjList[v] \subseteq B
  PROVE  Acyclic(B \cup {v})
<1> SUFFICES ASSUME NEW S \in SUBSET (B \cup {v}), S # {}, \A w \in S : adjList[w] \cap S # {}
             PROVE  FALSE
  BY Zenon DEF Acyclic
<1> DEFINE T == S \ {v}
<1>1. T \in SUBSET B
  BY Zenon
<1>2. ASSUME NEW w \in S PROVE \E x \in T : x \in adjList[w]
  <2>1. PICK x \in S : x \in adjList[w]
    BY Zenon
  <2>2. x \in B
    BY <2>1, Zenon
  <2> QED
    BY <2>1, <2>2, Zenon
<1>3. T # {}
  BY <1>2, Zenon
<1>4. PICK w \in T : adjList[w] \cap T = {}
  BY <1>1, <1>3, Zenon DEF Acyclic
<1> QED
  BY <1>2, <1>4, Zenon

\* isCyclicUtil() on a vertex v that was not visited, from the call that took it
\* from its neighbours, if there is one.
LEMMA EnterKeeps ==
  ASSUME SearchType, PathInv, BlackInv, NEW v \in Search!Vertex \ marked, adjList' = adjList,
         NEW below \in Seq(Frame), Search!Enter(v, below),
         Len(below) = Len(calls),
         \A j \in 1 .. Len(calls) : /\ below[j].vertex = calls[j].vertex
                                    /\ j < Len(calls) => below[j].left = calls[j].left
                                    /\ j = Len(calls) => v \in calls[j].left /\ below[j].left = calls[j].left \ {v}
  PROVE  marked' \subseteq Search!Vertex /\ calls' \in Seq(Frame) /\ PathInv' /\ BlackInv'
<1> DEFINE L == Len(calls)
           c == calls'
<1>1. /\ marked' = marked \cup {v} /\ recursionStack' = recursionStack \cup {v}
      /\ c = Append(below, [vertex |-> v, left |-> adjList[v]])
  BY Zenon DEF Search!Enter
<1>2. /\ calls \in Seq(Frame) /\ L \in Nat /\ DOMAIN calls = 1 .. L
      /\ adjList[v] \in SUBSET Search!Vertex
  BY DEF SearchType
<1>3. /\ c \in Seq(Frame) /\ Len(c) = L + 1 /\ DOMAIN c = 1 .. L + 1
      /\ c[L + 1].vertex = v /\ c[L + 1].left = adjList[v]
      /\ \A j \in 1 .. L : c[j] = below[j]
  BY <1>1, <1>2 DEF Frame
<1> HIDE DEF c, L
<1>4. \A j \in 1 .. L : /\ c[j].vertex = calls[j].vertex
                        /\ j < L => c[j].left = calls[j].left
                        /\ j = L => v \in calls[j].left /\ c[j].left = calls[j].left \ {v}
  BY <1>3, Zenon DEF L
<1>5. Black' = Black /\ recursionStack \subseteq marked
  BY <1>1 DEF Black, PathInv
<1>6. \A j \in 1 .. L : calls[j].vertex # v
  BY <1>2, <1>5, Zenon DEF PathInv
<1>7. recursionStack' = {c[j].vertex : j \in DOMAIN c} /\ recursionStack' \subseteq marked'
  <2>1. recursionStack = {calls[j].vertex : j \in 1 .. L}
    BY <1>2, Zenon DEF PathInv
  <2>2. \A x : x \in recursionStack' <=> x = v \/ \E j \in 1 .. L : x = c[j].vertex
    <3>1. \A x : x \in recursionStack <=> \E j \in 1 .. L : x = calls[j].vertex
      BY <2>1, Zenon
    <3>2. \A j \in 1 .. L : c[j].vertex = calls[j].vertex
      BY <1>4, Zenon
    <3>3. \A x : x \in recursionStack <=> \E j \in 1 .. L : x = c[j].vertex
      BY <3>1, <3>2
    <3> QED
      BY <1>1, <3>3, Zenon
  <2>3. \A x : x \in {c[j].vertex : j \in DOMAIN c} <=> x = v \/ \E j \in 1 .. L : x = c[j].vertex
    <3>1. \A j : j \in DOMAIN c <=> j = L + 1 \/ j \in 1 .. L
      BY <1>2, <1>3
    <3>2. c[L + 1].vertex = v
      BY <1>3, Zenon
    <3> SUFFICES ASSUME NEW x
                 PROVE  x \in {c[j].vertex : j \in DOMAIN c} <=> x = v \/ \E j \in 1 .. L : x = c[j].vertex
      BY Zenon
    <3> QED
      BY <3>1, <3>2, Zenon
  <2>4. recursionStack' \subseteq marked'
    BY <1>1, <1>5, Zenon
  <2>5. \A x : x \in recursionStack' <=> x \in {c[j].vertex : j \in DOMAIN c}
    BY <2>2, <2>3, Zenon
  <2> QED
    BY <2>4, <2>5, Zenon
<1>8. \A j, k \in DOMAIN c : c[j].vertex = c[k].vertex => j = k
  <2>1. \A j, k \in 1 .. L : calls[j].vertex = calls[k].vertex => j = k
    BY <1>2, Zenon DEF PathInv
  <2>2. \A j : j \in DOMAIN c <=> j = L + 1 \/ j \in 1 .. L
    BY <1>2, <1>3
  <2>3. c[L + 1].vertex = v /\ \A j \in 1 .. L : c[j].vertex = calls[j].vertex /\ calls[j].vertex # v
    BY <1>3, <1>4, <1>6, Zenon
  <2>4. ASSUME NEW j \in DOMAIN c, NEW k \in DOMAIN c, c[j].vertex = c[k].vertex PROVE j = k
    <3>1. CASE j = L + 1 \/ k = L + 1
      BY <2>2, <2>3, <2>4, <3>1, Zenon
    <3>2. CASE j \in 1 .. L /\ k \in 1 .. L
      BY <2>1, <2>3, <2>4, <3>2, Zenon
    <3> QED
      BY <2>2, <2>4, <3>1, <3>2, Zenon
  <2> QED
    BY <2>4, Zenon
<1>9. \A j \in DOMAIN c : c[j].left \subseteq adjList[c[j].vertex]
  <2>1. \A j \in 1 .. L : calls[j].left \subseteq adjList[calls[j].vertex]
    BY <1>2, Zenon DEF PathInv
  <2> QED
    BY <1>2, <1>3, <1>4, <2>1
<1>10. \A j \in 1 .. L : c[j + 1].vertex \in adjList[c[j].vertex]
  <2>1. \A j \in 1 .. L - 1 : calls[j + 1].vertex \in adjList[calls[j].vertex]
    BY Zenon DEF PathInv, L
  <2>2. \A j \in 1 .. L : calls[j].left \subseteq adjList[calls[j].vertex]
    BY <1>2, Zenon DEF PathInv
  <2>3. ASSUME NEW j \in 1 .. L, j < L PROVE c[j + 1].vertex \in adjList[c[j].vertex]
    BY <1>2, <1>4, <2>1, <2>3
  <2>4. ASSUME NEW j \in 1 .. L, j = L PROVE c[j + 1].vertex \in adjList[c[j].vertex]
    BY <1>3, <1>4, <2>2, <2>4, Zenon
  <2> QED
    BY <1>2, <2>3, <2>4
<1>11. \A j \in DOMAIN c : \A w \in adjList[c[j].vertex] \ c[j].left :
         w \in Black \/ (j < Len(c) /\ w = c[j + 1].vertex)
  <2> SUFFICES ASSUME NEW j \in 1 .. L, NEW w \in adjList[c[j].vertex] \ c[j].left
               PROVE  w \in Black \/ w = c[j + 1].vertex
    BY <1>2, <1>3
  <2>1. ASSUME w \notin calls[j].left
        PROVE  w \in Black \/ (j < L /\ w = calls[j + 1].vertex)
    BY <1>2, <1>4, <2>1, Zenon DEF PathInv, L
  <2>2. CASE j < L
    BY <1>2, <1>4, <2>1, <2>2
  <2>3. CASE j = L
    BY <1>2, <1>3, <1>4, <2>1, <2>3
  <2> QED
    BY <1>2, <2>2, <2>3
<1>12. PathInv'
  BY <1>2, <1>3, <1>5, <1>7, <1>8, <1>9, <1>10, <1>11 DEF PathInv, c
<1>13. BlackInv'
  BY <1>5, Zenon DEF BlackInv, Acyclic
<1> QED
  BY <1>1, <1>3, <1>12, <1>13, Zenon DEF SearchType, c

\* Taking a neighbour changes the innermost call alone.
LEMMA TakenFacts ==
  ASSUME NEW v, calls \in Seq(Frame), calls # << >>
  PROVE  /\ Search!Taken(v) \in Seq(Frame) /\ Len(Search!Taken(v)) = Len(calls)
         /\ \A j \in 1 .. Len(calls) :
              /\ Search!Taken(v)[j].vertex = calls[j].vertex
              /\ j # Len(calls) => Search!Taken(v)[j].left = calls[j].left
              /\ j = Len(calls) => Search!Taken(v)[j].left = calls[j].left \ {v}
<1> DEFINE L == Len(calls)
           f == [calls[L] EXCEPT !.left = calls[L].left \ {v}]
<1>1. L \in Nat \ {0} /\ L \in 1 .. L /\ DOMAIN calls = 1 .. L /\ \A j \in 1 .. L : calls[j] \in Frame
  OBVIOUS
<1>2. f \in Frame /\ f.vertex = calls[L].vertex /\ f.left = calls[L].left \ {v}
  BY <1>1, Zenon DEF Frame
<1>3. Search!Taken(v) = [calls EXCEPT ![L] = f]
  BY Zenon DEF Search!Taken
<1> HIDE DEF f
<1>4. /\ [calls EXCEPT ![L] = f] \in Seq(Frame) /\ Len([calls EXCEPT ![L] = f]) = L
      /\ \A j \in 1 .. L : [calls EXCEPT ![L] = f][j] = IF j = L THEN f ELSE calls[j]
  BY <1>1, <1>2
<1> QED
  BY <1>1, <1>2, <1>3, <1>4

\* A call that is through with a neighbour which is black.
LEMMA SkipKeeps ==
  ASSUME SearchType, PathInv, BlackInv, NEW v \in Black, calls # << >>, v \in Search!Top.left,
         calls' = Search!Taken(v), UNCHANGED <<adjList, marked, recursionStack>>
  PROVE  calls' \in Seq(Frame) /\ PathInv' /\ BlackInv'
<1> DEFINE L == Len(calls)
           c == calls'
<1>1. /\ calls \in Seq(Frame) /\ L \in Nat \ {0} /\ DOMAIN calls = 1 .. L
  BY DEF SearchType
<1>3. /\ c \in Seq(Frame) /\ Len(c) = L /\ DOMAIN c = 1 .. L
      /\ \A j \in 1 .. L : /\ c[j].vertex = calls[j].vertex
                           /\ j # L => c[j].left = calls[j].left
                           /\ j = L => c[j].left = calls[j].left \ {v}
  <2>1. c = Search!Taken(v)
    BY Zenon
  <2> HIDE DEF c
  <2>2. /\ c \in Seq(Frame) /\ Len(c) = L
        /\ \A j \in 1 .. L : /\ c[j].vertex = calls[j].vertex
                             /\ j # L => c[j].left = calls[j].left
                             /\ j = L => c[j].left = calls[j].left \ {v}
    BY <1>1, <2>1, TakenFacts, Zenon
  <2> QED
    BY <2>2
<1> HIDE DEF c
<1> HIDE DEF L
<1>4. Black' = Black
  BY Zenon DEF Black
<1>5. \A j \in 1 .. L : \A w \in adjList[c[j].vertex] \ c[j].left :
         w \in Black \/ (j < Len(c) /\ w = c[j + 1].vertex)
  <2> SUFFICES ASSUME NEW j \in 1 .. L, NEW w \in adjList[c[j].vertex] \ c[j].left, w \notin Black
               PROVE  j < Len(c) /\ w = c[j + 1].vertex
    BY Zenon
  <2>1. w \notin calls[j].left
    BY <1>3, Zenon
  <2>2. j < L /\ w = calls[j + 1].vertex
    BY <1>1, <1>3, <2>1, Zenon DEF PathInv, L
  <2> QED
    BY <1>1, <1>3, <2>2
<1>6. PathInv'
  <2>1. recursionStack' = {c[j].vertex : j \in DOMAIN c}
    <3>1. recursionStack' = {calls[j].vertex : j \in 1 .. L} /\ DOMAIN c = 1 .. L
      BY <1>1, <1>3, Zenon DEF PathInv
    <3>2. \A x : x \in {calls[j].vertex : j \in 1 .. L} <=> x \in {c[j].vertex : j \in 1 .. L}
      BY <1>3, Zenon
    <3> QED
      BY <3>1, <3>2, Zenon
  <2>2. \A j \in 1 .. L - 1 : c[j + 1].vertex \in adjList[c[j].vertex]
    <3>1. \A j \in 1 .. L - 1 : calls[j + 1].vertex \in adjList[calls[j].vertex]
      BY Zenon DEF PathInv, L
    <3>2. \A j \in 1 .. L - 1 : j \in 1 .. L /\ j + 1 \in 1 .. L
      BY <1>1
    <3> QED
      BY <1>3, <3>1, <3>2, Zenon
  <2>3. \A j \in DOMAIN c : c[j].left \subseteq adjList[c[j].vertex]
    BY <1>1, <1>3 DEF PathInv
  <2>4. \A j, k \in DOMAIN c : c[j].vertex = c[k].vertex => j = k
    BY <1>1, <1>3, Zenon DEF PathInv
  <2> QED
    BY <1>3, <1>4, <1>5, <2>1, <2>2, <2>3, <2>4 DEF PathInv, c
<1> QED
  BY <1>3, <1>4, <1>6, Zenon DEF BlackInv, Acyclic, c

\* The end of a call: its vertex turns black.
LEMMA LeaveKeeps ==
  ASSUME SearchType, PathInv, BlackInv, calls # << >>, Search!Top.left = {},
         recursionStack' = recursionStack \ {Search!Top.vertex},
         calls' = SubSeq(calls, 1, Len(calls) - 1), UNCHANGED <<adjList, marked>>
  PROVE  calls' \in Seq(Frame) /\ PathInv' /\ BlackInv'
<1> DEFINE L == Len(calls)
           c == calls'
           u == calls[L].vertex
<1>1. calls \in Seq(Frame) /\ L \in Nat \ {0} /\ DOMAIN calls = 1 .. L
  BY DEF SearchType
<1>2. /\ c \in Seq(Frame) /\ Len(c) = L - 1 /\ DOMAIN c = 1 .. L - 1
      /\ \A j \in 1 .. L - 1 : c[j] = calls[j] /\ j \in 1 .. L /\ j + 1 \in 1 .. L
  BY <1>1
<1>3. recursionStack' = recursionStack \ {u} /\ calls[L].left = {}
  BY Zenon DEF Search!Top
<1> HIDE DEF c, L
<1>4. /\ recursionStack = {calls[j].vertex : j \in 1 .. L}
      /\ \A j, k \in 1 .. L : calls[j].vertex = calls[k].vertex => j = k
      /\ \A j \in 1 .. L - 1 : calls[j + 1].vertex \in adjList[calls[j].vertex]
      /\ \A j \in 1 .. L : calls[j].left \subseteq adjList[calls[j].vertex]
      /\ \A j \in 1 .. L : \A w \in adjList[calls[j].vertex] \ calls[j].left :
           w \in Black \/ (j < L /\ w = calls[j + 1].vertex)
  BY <1>1, Zenon DEF PathInv, L
<1>5. u \in marked /\ u \notin Black /\ Black' = Black \cup {u}
  BY <1>1, <1>3, <1>4 DEF PathInv, Black
<1>6. adjList[u] \subseteq Black
  BY <1>1, <1>3, <1>4
<1>7. BlackInv'
  <2>1. Acyclic(Black \cup {u})
    BY <1>5, <1>6, BlackGrows, Zenon DEF BlackInv
  <2> QED
    BY <1>5, <1>6, <2>1, Zenon DEF BlackInv, Acyclic
<1>8. recursionStack' = {c[j].vertex : j \in DOMAIN c}
  <2>1. \A x : x \in recursionStack' <=> \E j \in 1 .. L - 1 : x = calls[j].vertex
    BY <1>1, <1>3, <1>4
  <2>2. \A j \in 1 .. L - 1 : c[j].vertex = calls[j].vertex
    BY <1>2, Zenon
  <2>3. \A x : x \in recursionStack' <=> \E j \in DOMAIN c : x = c[j].vertex
    <3>1. DOMAIN c = 1 .. L - 1
      BY <1>2, Zenon
    <3> QED
      BY <2>1, <2>2, <3>1
  <2> QED
    BY <2>3
<1>9. \A j \in 1 .. L - 1 : \A w \in adjList[c[j].vertex] \ c[j].left :
         w \in Black' \/ (j < L - 1 /\ w = c[j + 1].vertex)
  <2> SUFFICES ASSUME NEW j \in 1 .. L - 1, NEW w \in adjList[c[j].vertex] \ c[j].left, w \notin Black \cup {u}
               PROVE  j < L - 1 /\ w = c[j + 1].vertex
    BY <1>5, Zenon
  <2>1. w = calls[j + 1].vertex
    BY <1>2, <1>4, Zenon
  <2>2. j + 1 # L
    BY <2>1, Zenon
  <2> QED
    BY <1>1, <1>2, <2>1, <2>2
<1>10. \A j \in 1 .. Len(c) - 1 : c[j + 1].vertex \in adjList[c[j].vertex]
  BY <1>1, <1>2, <1>4
<1>11. \A j, k \in DOMAIN c : c[j].vertex = c[k].vertex => j = k
  BY <1>2, <1>4, Zenon
<1>12. \A j \in DOMAIN c : c[j].left \subseteq adjList[c[j].vertex]
  BY <1>2, <1>4, Zenon
<1>13. recursionStack' \subseteq marked'
  BY <1>3, Zenon DEF PathInv
<1>14. \A j \in DOMAIN c : \A w \in adjList[c[j].vertex] \ c[j].left :
         w \in Black' \/ (j < Len(c) /\ w = c[j + 1].vertex)
  BY <1>2, <1>9, Zenon
<1>15. PathInv'
  BY <1>8, <1>10, <1>11, <1>12, <1>13, <1>14, Zenon DEF PathInv, c
<1> QED
  BY <1>2, <1>7, <1>15, Zenon DEF c

INSTANCE FiniteSetTheorems

\* A neighbour of the innermost call that is on the recursion stack closes a
\* cycle, which is no longer than there are vertices.
LEMMA CycleFound ==
  ASSUME numVertices \in Nat, SearchType, PathInv, calls # << >>,
         NEW v \in recursionStack, v \in Search!Top.left
  PROVE  Search!HasCycle
<1> DEFINE L == Len(calls)
<1>1. /\ calls \in Seq(Frame) /\ L \in Nat \ {0} /\ DOMAIN calls = 1 .. L
      /\ \A j \in 1 .. L : calls[j].vertex \in Search!Vertex
  <2>1. calls \in Seq(Frame) /\ L \in Nat \ {0} /\ DOMAIN calls = 1 .. L /\ \A j \in 1 .. L : calls[j] \in Frame
    BY DEF SearchType
  <2> QED
    BY <2>1, Zenon DEF Frame
<1>2. v \in calls[L].left
  BY Zenon DEF Search!Top
<1> HIDE DEF L
<1>3. /\ recursionStack = {calls[j].vertex : j \in 1 .. L}
      /\ \A j, k \in 1 .. L : calls[j].vertex = calls[k].vertex => j = k
      /\ \A j \in 1 .. L - 1 : calls[j + 1].vertex \in adjList[calls[j].vertex]
      /\ calls[L].left \subseteq adjList[calls[L].vertex]
  <2>1. DOMAIN calls = 1 .. L /\ L \in 1 .. L
    BY <1>1
  <2> QED
    BY <2>1, Zenon DEF PathInv, L
<1>4. L <= numVertices
  <2> SUFFICES ASSUME numVertices < L PROVE FALSE
    BY <1>1
  <2> DEFINE f == [j \in 1 .. L |-> calls[j].vertex]
  <2>1. f \in [1 .. L -> Search!Vertex]
    BY <1>1, Zenon
  <2>2. IsFiniteSet(1 .. L) /\ Cardinality(1 .. L) = L
    BY <1>1, FS_Interval
  <2>3. IsFiniteSet(Search!Vertex) /\ Cardinality(Search!Vertex) = numVertices
    <3>1. IsFiniteSet(0 .. numVertices - 1) /\ Cardinality(0 .. numVertices - 1) = numVertices
      <4>1. /\ 0 \in Int /\ numVertices - 1 \in Int
            /\ numVertices = IF 0 > numVertices - 1 THEN 0 ELSE (numVertices - 1) - 0 + 1
        OBVIOUS
      <4> QED
        BY <4>1, FS_Interval, Zenon
    <3> QED
      BY <3>1, Zenon DEF Search!Vertex
  <2>4. Cardinality(Search!Vertex) < Cardinality(1 .. L)
    BY <2>2, <2>3, Zenon
  <2>5. \E x, y \in 1 .. L : x # y /\ f[x] = f[y]
    <3> HIDE DEF f
    <3> QED
      BY <2>1, <2>2, <2>3, <2>4, FS_PigeonHole, Zenon
  <2> QED
    BY <1>3, <2>5, Zenon
<1>5. PICK k \in 1 .. L : calls[k].vertex = v
  BY <1>3, Zenon
<1> DEFINE n == L - k + 1
           path == [j \in 0 .. n |-> IF j = n THEN v ELSE calls[k + j].vertex]
<1>6. n \in 1 .. numVertices
  BY <1>1, <1>4
<1>7. path \in [0 .. n -> Search!Vertex]
  BY <1>1, <1>5
<1>8. path[0] = path[n]
  BY <1>1, <1>5, <1>6
<1>9. ASSUME NEW j \in 0 .. n - 1 PROVE path[j + 1] \in adjList[path[j]]
  <2>1. CASE j = n - 1
    BY <1>1, <1>2, <1>3, <2>1
  <2>2. CASE j < n - 1
    <3>1. k + j \in 1 .. L - 1 /\ j \in 0 .. n /\ j + 1 \in 0 .. n /\ j # n /\ j + 1 # n
      BY <1>1, <2>2
    <3>2. path[j] = calls[k + j].vertex /\ path[j + 1] = calls[(k + j) + 1].vertex
      BY <1>1, <3>1
    <3> QED
      BY <1>3, <3>1, <3>2, Zenon
  <2> QED
    BY <1>1, <2>1, <2>2
<1> HIDE DEF n, path
<1> QED
  BY <1>6, <1>7, <1>8, <1>9, Zenon DEF Search!HasCycle

LEMMA AddEdgeKeeps ==
  ASSUME numVertices \in Nat, SearchInv,
         NEW src \in 0 .. numVertices, NEW dest \in 0 .. numVertices, Search!addEdge(src, dest)
  PROVE  SearchInv'
<1>1. adjList' \in [Search!Vertex -> SUBSET Search!Vertex]
  <2>1. CASE src >= numVertices \/ dest >= numVertices
    BY <2>1, Zenon DEF Search!addEdge, SearchInv, SearchType
  <2>2. CASE ~(src >= numVertices \/ dest >= numVertices)
    <3>1. src \in Search!Vertex /\ dest \in Search!Vertex
      BY <2>2 DEF Search!Vertex
    <3>2. adjList' = [adjList EXCEPT ![src] = adjList[src] \cup {dest}]
      BY <2>2, Zenon DEF Search!addEdge
    <3> QED
      BY <3>1, <3>2, Zenon DEF SearchInv, SearchType
  <2> QED
    BY <2>1, <2>2, Zenon
<1> QED
  BY <1>1, Zenon DEF Search!addEdge, SearchInv, SearchType, Search!AnswerIsRight

LEMMA IsCyclicKeeps ==
  ASSUME SearchInv, Search!isCyclic PROVE SearchInv'
<1>1. /\ search' = "searching" /\ scan' = 0 /\ marked' = {} /\ recursionStack' = {} /\ calls' = << >>
      /\ result' = "none" /\ adjList' = adjList
  BY Zenon DEF Search!isCyclic
<1>2. SearchType'
  BY <1>1 DEF SearchInv, SearchType
<1>3. PathInv'
  BY <1>1 DEF PathInv
<1>4. BlackInv'
  BY <1>1, Zenon DEF BlackInv, Black, Acyclic
<1>5. \A v \in Search!Vertex : ~(v < 0)
  BY DEF Search!Vertex
<1> QED
  BY <1>1, <1>2, <1>3, <1>4, <1>5, Zenon DEF SearchInv, Search!AnswerIsRight

\* When the loop is over every vertex is black.
LEMMA NextVertexKeeps ==
  ASSUME numVertices \in Nat, SearchInv, Search!NextVertex PROVE SearchInv'
<1>1. /\ SearchType /\ PathInv /\ BlackInv /\ result = "none" /\ calls = << >> /\ adjList' = adjList
      /\ search = "searching" /\ \A v \in Search!Vertex : v < scan => v \in marked
  BY Zenon DEF SearchInv, Search!NextVertex
<1>2. recursionStack = {}
  BY <1>1 DEF PathInv
<1>3. CASE scan >= numVertices
  <2>1. /\ search' = "editing" /\ result' = "acyclic"
        /\ UNCHANGED <<scan, marked, recursionStack, calls, adjList>>
    BY <1>3, Zenon DEF Search!NextVertex, Search!Return
  <2>2. Black = Search!Vertex
    <3>1. \A v \in Search!Vertex : v < scan
      BY <1>1, <1>3 DEF Search!Vertex, SearchType
    <3> QED
      BY <1>1, <1>2, <3>1, Zenon DEF Black, SearchType
  <2>3. ~Search!HasCycle
    BY <1>1, <2>2, AcyclicHasNoCycle, Zenon DEF BlackInv
  <2>4. ~Search!HasCycle'
    BY <2>1, <2>3, Zenon DEF Search!HasCycle
  <2>5. SearchType'
    BY <1>1, <2>1, Zenon DEF SearchType
  <2> QED
    BY <2>1, <2>4, <2>5, Zenon DEF SearchInv, Search!AnswerIsRight
<1>4. CASE ~(scan >= numVertices) /\ scan \in marked
  <2>1. scan' = scan + 1 /\ UNCHANGED <<search, result, marked, recursionStack, calls, adjList>>
    BY <1>4, Zenon DEF Search!NextVertex
  <2>2. \A v \in Search!Vertex : v < scan' => v \in marked'
    BY <1>1, <1>4, <2>1 DEF Search!Vertex, SearchType
  <2>3. SearchType'
    BY <1>1, <2>1 DEF SearchType
  <2>4. PathInv' /\ BlackInv'
    BY <1>1, <2>1 DEF PathInv, BlackInv, Black, Acyclic
  <2> QED
    BY <1>1, <2>1, <2>2, <2>3, <2>4, Zenon DEF SearchInv, Search!AnswerIsRight
<1>5. CASE ~(scan >= numVertices) /\ scan \notin marked
  <2>1. scan' = scan + 1 /\ search' = search /\ result' = result /\ Search!Enter(scan, << >>)
    BY <1>5, Zenon DEF Search!NextVertex
  <2>2. scan \in Search!Vertex \ marked /\ << >> \in Seq(Frame)
    BY <1>1, <1>5 DEF Search!Vertex, SearchType
  <2>3. Len(<< >>) = Len(calls) /\ 1 .. Len(calls) = {}
    BY <1>1
  <2>4. marked' \subseteq Search!Vertex /\ calls' \in Seq(Frame) /\ PathInv' /\ BlackInv'
    BY <1>1, <2>1, <2>2, <2>3, EnterKeeps, Zenon
  <2>5. \A v \in Search!Vertex : v < scan' => v \in marked'
    BY <1>1, <2>1 DEF Search!Vertex, SearchType, Search!Enter
  <2>6. SearchType'
    BY <1>1, <2>1, <2>4 DEF SearchType
  <2> QED
    BY <1>1, <2>1, <2>4, <2>5, <2>6, Zenon DEF SearchInv, Search!AnswerIsRight
<1> QED
  BY <1>3, <1>4, <1>5, Zenon

LEMMA NeighbourKeeps ==
  ASSUME numVertices \in Nat, SearchInv, NEW v \in Search!Vertex, Search!Neighbour(v) PROVE SearchInv'
<1>1. /\ SearchType /\ PathInv /\ BlackInv /\ result = "none" /\ calls # << >> /\ adjList' = adjList /\ scan' = scan
      /\ search = "searching" /\ \A w \in Search!Vertex : w < scan => w \in marked
      /\ v \in Search!Top.left /\ calls \in Seq(Frame)
  BY Zenon DEF SearchInv, SearchType, Search!Neighbour
<1>2. CASE v \notin marked
  <2>1. search' = search /\ result' = result /\ Search!Enter(v, Search!Taken(v))
    BY <1>2, Zenon DEF Search!Neighbour
  <2>2. /\ Search!Taken(v) \in Seq(Frame) /\ Len(Search!Taken(v)) = Len(calls)
        /\ \A j \in 1 .. Len(calls) :
             /\ Search!Taken(v)[j].vertex = calls[j].vertex
             /\ j # Len(calls) => Search!Taken(v)[j].left = calls[j].left
             /\ j = Len(calls) => Search!Taken(v)[j].left = calls[j].left \ {v}
    BY <1>1, TakenFacts, Zenon
  <2>3. /\ v \in Search!Vertex \ marked /\ v \in calls[Len(calls)].left
        /\ \A j \in 1 .. Len(calls) : j < Len(calls) => j # Len(calls)
    BY <1>1, <1>2 DEF Search!Top
  <2>4. marked' \subseteq Search!Vertex /\ calls' \in Seq(Frame) /\ PathInv' /\ BlackInv'
    BY <1>1, <2>1, <2>2, <2>3, EnterKeeps, Zenon
  <2>5. \A w \in Search!Vertex : w < scan' => w \in marked'
    BY <1>1, <2>1, Zenon DEF Search!Enter
  <2>6. SearchType'
    BY <1>1, <2>1, <2>4, Zenon DEF SearchType
  <2> QED
    BY <1>1, <2>1, <2>4, <2>5, <2>6, Zenon DEF SearchInv, Search!AnswerIsRight
<1>3. CASE v \in marked /\ v \in recursionStack
  <2>1. search' = "editing" /\ result' = "cyclic" /\ UNCHANGED <<marked, recursionStack, calls>>
    BY <1>3, Zenon DEF Search!Neighbour, Search!Return
  <2>2. Search!HasCycle
    BY <1>1, <1>3, CycleFound, Zenon
  <2>3. Search!HasCycle'
    BY <1>1, <2>2, Zenon DEF Search!HasCycle
  <2>4. SearchType'
    BY <1>1, <2>1, Zenon DEF SearchType
  <2> QED
    BY <2>1, <2>3, <2>4, Zenon DEF SearchInv, Search!AnswerIsRight
<1>4. CASE v \in marked /\ v \notin recursionStack
  <2>1. search' = search /\ result' = result /\ calls' = Search!Taken(v) /\ UNCHANGED <<marked, recursionStack>>
    BY <1>4, Zenon DEF Search!Neighbour
  <2>2. v \in Black /\ UNCHANGED <<adjList, marked, recursionStack>>
    BY <1>1, <1>4, <2>1, Zenon DEF Black
  <2>3. calls' \in Seq(Frame) /\ PathInv' /\ BlackInv'
    BY <1>1, <2>1, <2>2, SkipKeeps, Zenon
  <2>4. SearchType'
    BY <1>1, <2>1, <2>3, Zenon DEF SearchType
  <2> QED
    BY <1>1, <2>1, <2>3, <2>4, Zenon DEF SearchInv, Search!AnswerIsRight
<1> QED
  BY <1>2, <1>3, <1>4, Zenon

LEMMA LeaveKeepsInv ==
  ASSUME SearchInv, Search!Leave PROVE SearchInv'
<1>1. /\ SearchType /\ PathInv /\ BlackInv /\ result = "none" /\ calls # << >>
      /\ search = "searching" /\ \A w \in Search!Vertex : w < scan => w \in marked
      /\ Search!Top.left = {} /\ recursionStack' = recursionStack \ {Search!Top.vertex}
      /\ calls' = SubSeq(calls, 1, Len(calls) - 1) /\ UNCHANGED <<adjList, marked>>
      /\ search' = search /\ result' = result /\ scan' = scan
  BY Zenon DEF SearchInv, Search!Leave
<1>2. calls' \in Seq(Frame) /\ PathInv' /\ BlackInv'
  BY <1>1, LeaveKeeps, Zenon
<1>3. SearchType'
  BY <1>1, <1>2, Zenon DEF SearchType
<1> QED
  BY <1>1, <1>2, <1>3, Zenon DEF SearchInv, Search!AnswerIsRight

\* isCyclic() says "cyclic" exactly when the graph has a cycle, for every number
\* of vertices, every graph addEdge() builds and every order of the neighbours.
THEOREM CycleAnswersAreRight ==
  ASSUME numVertices \in Nat PROVE Search!Spec => []Search!AnswerIsRight
<1>1. SearchInv /\ [Search!Next]_(Search!vars) => SearchInv'
  <2> SUFFICES ASSUME SearchInv, [Search!Next]_(Search!vars) PROVE SearchInv'
    BY Zenon
  <2>1. CASE \E src, dest \in 0 .. numVertices : Search!addEdge(src, dest)
    BY <2>1, AddEdgeKeeps, Zenon
  <2>2. CASE Search!isCyclic
    BY <2>2, IsCyclicKeeps, Zenon
  <2>3. CASE Search!NextVertex
    BY <2>3, NextVertexKeeps, Zenon
  <2>4. CASE \E v \in Search!Vertex : Search!Neighbour(v)
    BY <2>4, NeighbourKeeps, Zenon
  <2>5. CASE Search!Leave
    BY <2>5, LeaveKeepsInv, Zenon
  <2>6. CASE UNCHANGED Search!vars
    BY <2>6, SearchStutters, Zenon
  <2> QED
    BY <2>1, <2>2, <2>3, <2>4, <2>5, <2>6, Zenon DEF Search!Next
<1>2. SearchInv => Search!AnswerIsRight
  BY Zenon DEF SearchInv
<1> QED
  BY <1>1, <1>2, SearchInitInv, PTL DEF Search!Spec
=============================================================================
