---------------------------- MODULE TreePrograms ----------------------------
(***************************************************************************)
(* The programs on binary trees of look_for_job.cpp.  A node is the path   *)
(* to it from the root, 0 for left and 1 for right; a tree maps its nodes  *)
(* to their values, so that a pointer is null when it is no node of the    *)
(* tree.  Stacks and queues are sequences whose head is taken first.  Each *)
(* program runs once on a fresh object: what its fields (res, v, visited)  *)
(* would carry over to a second call is left out.                          *)
(***************************************************************************)
EXTENDS Integers, Sequences, FiniteSets, SequencesExt, FiniteSetsExt

CONSTANTS Val,    \* values of nodes
          Height  \* bound: levels of a tree

VARIABLES program, input, output
vars == <<program, input, output>>

Root == << >>
L(n) == Append(n, 0)
R(n) == Append(n, 1)
NoTree == << >>

Below(t, d) ==
  LET under == {n \in DOMAIN t : n # Root /\ Head(n) = d}
  IN  [n \in {Tail(m) : m \in under} |-> t[<<d>> \o n]]
TreeOf(v, l, r) ==
  [n \in {Root} \cup {<<0>> \o m : m \in DOMAIN l} \cup {<<1>> \o m : m \in DOMAIN r} |->
     IF n = Root THEN v ELSE IF Head(n) = 0 THEN l[Tail(n)] ELSE r[Tail(n)]]

\* The children of n that are there, left first.
Children(t, n) == SelectSeq(<<L(n), R(n)>>, LAMBDA m : m \in DOMAIN t)
IsLeaf(t, n) == Children(t, n) = << >>

-----------------------------------------------------------------------------
(* Traversals.  vec holds nodes where the code holds their values.         *)

RECURSIVE PrintFrom(_, _, _)
PrintFrom(t, q, vec) ==
  IF q = << >> THEN vec
  ELSE PrintFrom(t, Tail(q) \o Children(t, Head(q)), Append(vec, Head(q)))

PrintFromTopToBottom(t) == IF t = NoTree THEN << >> ELSE PrintFrom(t, <<Root>>, << >>)

\* One round of the outer loop takes the nodes that the queue holds.
RECURSIVE Levels(_, _, _)
Levels(t, q, res) ==
  IF q = << >> THEN res
  ELSE Levels(t, FlattenSeq([j \in DOMAIN q |-> Children(t, q[j])]), Append(res, q))

levelOrder(t) == IF t = NoTree THEN << >> ELSE Levels(t, <<Root>>, << >>)
levelOrderBottom(t) == Reverse(levelOrder(t))

RECURSIVE maxDepth(_)
maxDepth(t) == IF t = NoTree THEN 0 ELSE Max({maxDepth(Below(t, 0)), maxDepth(Below(t, 1))}) + 1

\* The second one counts the rounds.
maxDepth2(t) == IF t = NoTree THEN 0 ELSE Len(Levels(t, <<Root>>, << >>))

\* The three orders of the recursive traversal(cur, vec).
RECURSIVE traversal(_, _, _)
traversal(t, cur, order) ==
  IF cur \notin DOMAIN t THEN << >>
  ELSE LET left == traversal(t, L(cur), order)
           right == traversal(t, R(cur), order)
       IN  CASE order = "pre"  -> <<cur>> \o left \o right
             [] order = "in"   -> left \o <<cur>> \o right
             [] order = "post" -> left \o right \o <<cur>>

RECURSIVE PreFrom(_, _, _)
PreFrom(t, st, result) ==
  IF st = << >> THEN result
  ELSE PreFrom(t, Children(t, Head(st)) \o Tail(st), Append(result, Head(st)))

preorderTraversal(t) == IF t = NoTree THEN << >> ELSE PreFrom(t, <<Root>>, << >>)

RECURSIVE InFrom(_, _, _, _)
InFrom(t, cur, st, result) ==
  IF cur \in DOMAIN t THEN InFrom(t, L(cur), <<cur>> \o st, result)
  ELSE IF st = << >> THEN result
  ELSE InFrom(t, R(Head(st)), Tail(st), Append(result, Head(st)))

inorderTraversal(t) == InFrom(t, Root, << >>, << >>)

RECURSIVE RootRightLeft(_, _, _)
RootRightLeft(t, st, result) ==
  IF st = << >> THEN result
  ELSE RootRightLeft(t, Reverse(Children(t, Head(st))) \o Tail(st), Append(result, Head(st)))

postorderTraversal(t) == IF t = NoTree THEN << >> ELSE Reverse(RootRightLeft(t, <<Root>>, << >>))

-----------------------------------------------------------------------------
(* buildTree: a tree from its values in preorder and in order.             *)

\* Bounds of sequences count from 0, as in the code.
RECURSIVE myBuildTree(_, _, _, _, _, _)
myBuildTree(preorder, index, preorder_left, preorder_right, inorder_left, inorder_right) ==
  IF preorder_left > preorder_right THEN NoTree
  ELSE LET v == preorder[preorder_left + 1]
           inorder_root == index[v]
           size_left_subtree == inorder_root - inorder_left
       IN  TreeOf(v,
             myBuildTree(preorder, index, preorder_left + 1, preorder_left + size_left_subtree,
                         inorder_left, inorder_root - 1),
             myBuildTree(preorder, index, preorder_left + size_left_subtree + 1, preorder_right,
                         inorder_root + 1, inorder_right))

buildTree(preorder, inorder) ==
  LET n == Len(preorder)
      index == [v \in Range(inorder) |-> (CHOOSE j \in 1 .. n : inorder[j] = v) - 1]
  IN  myBuildTree(preorder, index, 0, n - 1, 0, n - 1)

-----------------------------------------------------------------------------
(* The lowest common ancestor, four times, in trees of distinct values.    *)

nullptr == <<-1>>
Unset == <<-2>>

RECURSIVE dfsfinParent(_, _, _)
dfsfinParent(t, n, parent) ==
  LET left == IF L(n) \in DOMAIN t THEN dfsfinParent(t, L(n), (t[L(n)] :> t[n]) @@ parent) ELSE parent
  IN  IF R(n) \in DOMAIN t THEN dfsfinParent(t, R(n), (t[R(n)] :> t[n]) @@ left) ELSE left

\* The values from o up to the root.
RECURSIVE Upwards(_, _)
Upwards(parent, o) == IF o = -1 THEN << >> ELSE <<o>> \o Upwards(parent, parent[o])

lowestCommonAncestor(t, o1, o2) ==
  LET parent == dfsfinParent(t, Root, t[Root] :> -1)
      visited == Range(Upwards(parent, o1))
      common == SelectSeq(Upwards(parent, o2), LAMBDA o : o \in visited)
  IN  IF common = << >> THEN -1 ELSE Head(common)

\* dfs returns whether it saw p or q, and leaves ans behind: a field that nothing
\* initializes.
RECURSIVE LcaDfs(_, _, _, _, _)
LcaDfs(t, n, p, q, ans) ==
  IF n \notin DOMAIN t THEN [seen |-> FALSE, ans |-> ans]
  ELSE LET l == LcaDfs(t, L(n), p, q, ans)
           r == LcaDfs(t, R(n), p, q, l.ans)
           here == t[n] = t[p] \/ t[n] = t[q]
       IN  [seen |-> l.seen \/ r.seen \/ here,
            ans |-> IF (l.seen /\ r.seen) \/ (here /\ (l.seen \/ r.seen)) THEN n ELSE r.ans]

\* The third one returns a node, or nullptr.
RECURSIVE LcaNode(_, _, _, _)
LcaNode(t, n, p, q) ==
  IF n \notin DOMAIN t THEN nullptr
  ELSE IF n \in {p, q} THEN n
  ELSE LET l == LcaNode(t, L(n), p, q)
           r == LcaNode(t, R(n), p, q)
       IN  IF l = nullptr THEN r ELSE IF r = nullptr THEN l ELSE n

\* The fourth one keeps the parents as nodes, by the value of the child.
RECURSIVE LcaFathers(_, _, _)
LcaFathers(t, n, fa) ==
  LET left == IF L(n) \in DOMAIN t THEN LcaFathers(t, L(n), (t[L(n)] :> n) @@ fa) ELSE fa
  IN  IF R(n) \in DOMAIN t THEN LcaFathers(t, R(n), (t[R(n)] :> n) @@ left) ELSE left

RECURSIVE NodesUp(_, _, _)
NodesUp(t, fa, p) == IF p = nullptr THEN << >> ELSE <<p>> \o NodesUp(t, fa, fa[t[p]])

LcaVisited(t, p, q) ==
  LET fa == LcaFathers(t, Root, t[Root] :> nullptr)
      vis == {t[n] : n \in Range(NodesUp(t, fa, p))}
      common == SelectSeq(NodesUp(t, fa, q), LAMBDA n : t[n] \in vis)
  IN  IF common = << >> THEN nullptr ELSE Head(common)

-----------------------------------------------------------------------------
(* Paths from the root to the leaves.  A path is the sequence of its       *)
(* values; binaryTreePaths writes them with "->" in between.               *)

RECURSIVE PathsOfSum(_, _, _, _)
PathsOfSum(t, n, cur, target) ==
  IF n \notin DOMAIN t THEN << >>
  ELSE LET path == Append(cur, t[n])
           left == target - t[n]
       IN  IF left = 0 /\ IsLeaf(t, n) THEN <<path>>
           ELSE PathsOfSum(t, L(n), path, left) \o PathsOfSum(t, R(n), path, left)

pathSum(t, sum) == PathsOfSum(t, Root, << >>, sum)

\* The path is shared by the calls: each caller takes the last value off again.
RECURSIVE PathsBelow(_, _, _, _)
PathsBelow(t, cur, path, result) ==
  LET here == Append(path, t[cur])
      left == IF L(cur) \notin DOMAIN t THEN [path |-> here, result |-> result]
              ELSE LET r == PathsBelow(t, L(cur), here, result) IN [r EXCEPT !.path = Front(@)]
  IN  IF IsLeaf(t, cur) THEN [path |-> here, result |-> Append(result, here)]
      ELSE IF R(cur) \notin DOMAIN t THEN left
      ELSE LET r == PathsBelow(t, R(cur), left.path, left.result) IN [r EXCEPT !.path = Front(@)]

binaryTreePaths(t) == IF t = NoTree THEN << >> ELSE PathsBelow(t, Root, << >>, << >>).result

\* The second one keeps a stack of nodes and one of their paths.
RECURSIVE PathsFrom(_, _, _, _)
PathsFrom(t, treeSt, pathSt, result) ==
  IF treeSt = << >> THEN result
  ELSE LET node == Head(treeSt)
           path == Head(pathSt)
           next == Children(t, node)
       IN  PathsFrom(t, next \o Tail(treeSt),
                     [j \in DOMAIN next |-> Append(path, t[next[j]])] \o Tail(pathSt),
                     IF next = << >> THEN Append(result, path) ELSE result)

binaryTreePaths2(t) == IF t = NoTree THEN << >> ELSE PathsFrom(t, <<Root>>, <<<<t[Root]>>>>, << >>)

-----------------------------------------------------------------------------
(* Mirrors, equality, merging, and what judgeIt and KthNode tell.          *)

RECURSIVE invertTree(_)
invertTree(t) == IF t = NoTree THEN t ELSE TreeOf(t[Root], invertTree(Below(t, 1)), invertTree(Below(t, 0)))

\* Mutant: the inner children are not crossed.
RECURSIVE compareStraight(_, _, _)
compareStraight(t, left, right) ==
  \/ left \notin DOMAIN t /\ right \notin DOMAIN t
  \/ /\ {left, right} \subseteq DOMAIN t
     /\ t[left] = t[right]
     /\ compareStraight(t, L(left), R(right))
     /\ compareStraight(t, R(left), R(right))

RECURSIVE compare(_, _, _)
compare(t, left, right) ==
  \/ left \notin DOMAIN t /\ right \notin DOMAIN t
  \/ /\ {left, right} \subseteq DOMAIN t
     /\ t[left] = t[right]
     /\ compare(t, L(left), R(right))
     /\ compare(t, R(left), L(right))

isSymmetric(t) == t = NoTree \/ compare(t, L(Root), R(Root))

RECURSIVE MirrorPairs(_, _)
MirrorPairs(t, que) ==
  IF que = << >> THEN TRUE
  ELSE LET l == que[1]
           r == que[2]
           rest == SubSeq(que, 3, Len(que))
       IN  IF l \notin DOMAIN t /\ r \notin DOMAIN t THEN MirrorPairs(t, rest)
           ELSE /\ l \in DOMAIN t /\ r \in DOMAIN t
                /\ t[l] = t[r]
                /\ MirrorPairs(t, rest \o <<L(l), R(r), R(l), L(r)>>)

isSymmetric2(t) == t = NoTree \/ MirrorPairs(t, <<L(Root), R(Root)>>)

RECURSIVE SameFrom(_, _, _, _)
SameFrom(t1, t2, s1, s2) ==
  IF s1 = << >> \/ s2 = << >> THEN TRUE
  ELSE LET n1 == Head(s1)
           n2 == Head(s2)
       IN  IF n1 \notin DOMAIN t1 /\ n2 \notin DOMAIN t2 THEN SameFrom(t1, t2, Tail(s1), Tail(s2))
           ELSE /\ n1 \in DOMAIN t1 /\ n2 \in DOMAIN t2
                /\ t1[n1] = t2[n2]
                /\ SameFrom(t1, t2, <<R(n1), L(n1)>> \o Tail(s1), <<R(n2), L(n2)>> \o Tail(s2))

isSameTree(p, q) == (p = NoTree /\ q = NoTree) \/ SameFrom(p, q, <<Root>>, <<Root>>)

\* The recursive ones, which reuse t1 or make new nodes.
RECURSIVE mergeTrees(_, _)
mergeTrees(t1, t2) ==
  IF t1 = NoTree THEN t2
  ELSE IF t2 = NoTree THEN t1
  ELSE TreeOf(t1[Root] + t2[Root],
              mergeTrees(Below(t1, 0), Below(t2, 0)), mergeTrees(Below(t1, 1), Below(t2, 1)))

\* The subtree of t2 at n, hung into t1 at the same place.
Graft(t1, t2, n) ==
  [m \in {x \in DOMAIN t2 : IsPrefix(n, x)} |-> t2[m]] @@ t1

\* The third one queues the nodes that both trees have.
RECURSIVE MergeFrom(_, _, _)
MergeFrom(t1, t2, que) ==
  IF que = << >> THEN t1
  ELSE LET n == Head(que)
           both == SelectSeq(<<L(n), R(n)>>, LAMBDA m : m \in DOMAIN t1 /\ m \in DOMAIN t2)
           sum == [t1 EXCEPT ![n] = @ + t2[n]]
           left == IF L(n) \notin DOMAIN t1 THEN Graft(sum, t2, L(n)) ELSE sum
           right == IF R(n) \notin DOMAIN t1 THEN Graft(left, t2, R(n)) ELSE left
       IN  MergeFrom(right, t2, Tail(que) \o both)

mergeTrees3(t1, t2) ==
  IF t1 = NoTree THEN t2 ELSE IF t2 = NoTree THEN t1 ELSE MergeFrom(t1, t2, <<Root>>)

RECURSIVE NoNodeAfterNull(_, _, _)
NoNodeAfterNull(t, q, reachend) ==
  \/ q = << >>
  \/ IF Head(q) \in DOMAIN t
       THEN ~reachend /\ NoNodeAfterNull(t, Tail(q) \o <<L(Head(q)), R(Head(q))>>, reachend)
       ELSE NoNodeAfterNull(t, Tail(q), TRUE)

check_perfect(t) == t = NoTree \/ NoNodeAfterNull(t, <<Root>>, FALSE)

\* In order, each value must exceed the one before it.
judgeIt(t) ==
  LET v == traversal(t, Root, "in")
  IN  <<\A j \in 2 .. Len(v) : t[v[j]] > t[v[j - 1]], check_perfect(t)>>

KthNode(t, k) == IF t = NoTree \/ k = 0 THEN nullptr ELSE traversal(t, Root, "in")[k]

-----------------------------------------------------------------------------
(* The inputs: all trees of some height, with values, or with a number of  *)
(* its own in each node; one tree, or two, or a tree and two of its nodes. *)

RECURSIVE TreesOf(_, _)
TreesOf(V, h) ==
  IF h = 0 THEN {NoTree}
  ELSE LET T == TreesOf(V, h - 1) IN {NoTree} \cup {TreeOf(v, l, r) : v \in V, l \in T, r \in T}

\* The place of a node: among all nodes level by level; and in an order that
\* puts a node at digit `at` between its left and its right subtree.
HeapIndex(n) == FoldLeft(LAMBDA x, d : 2 * x + d, 1, n)
Digits(n, left, right, at) ==
  FoldLeft(LAMBDA x, d : 3 * x + d, 0,
           [j \in 1 .. Height + 1 |-> IF j > Len(n) THEN at ELSE IF n[j] = 0 THEN left ELSE right])
InKey(n) == Digits(n, 0, 2, 1)

Shapes(h) == TreesOf({0}, h)
Numbered(t) == [n \in DOMAIN t |-> InKey(n)]

Input ==
  [program : {"traversals"}, t : Shapes(Height + 1), u : {0}]
    \cup [program : {"buildTree"}, t : {Numbered(t) : t \in Shapes(Height)}, u : {0}]
    \cup UNION {[program : {"lca"}, t : {Numbered(t)}, u : (DOMAIN t) \X (DOMAIN t)] : t \in Shapes(Height) \ {NoTree}}
    \cup UNION {[program : {"KthNode"}, t : {Numbered(t)}, u : 0 .. Cardinality(DOMAIN t)] : t \in Shapes(Height)}
    \cup [program : {"judgeIt", "mirrors", "paths"}, t : TreesOf(Val, Height), u : {0}]
    \cup [program : {"pathSum"}, t : TreesOf({1, 2}, Height), u : 0 .. 6]
    \cup [program : {"pairs"}, t : TreesOf({1, 2}, Height - 1), u : TreesOf({1, 2}, Height - 1)]
    \cup [program : {"pairs"}, t : Shapes(Height), u : Shapes(Height)]

Values(t, nodes) == [j \in DOMAIN nodes |-> t[nodes[j]]]

Result(p, t, u) ==
  CASE p = "traversals" ->
         <<PrintFromTopToBottom(t), FlattenSeq(levelOrder(t)), levelOrder(t), levelOrderBottom(t),
           maxDepth(t), maxDepth2(t),
           traversal(t, Root, "pre"), traversal(t, Root, "in"), traversal(t, Root, "post"),
           preorderTraversal(t), inorderTraversal(t), postorderTraversal(t)>>
    [] p = "buildTree" -> buildTree(Values(t, preorderTraversal(t)), Values(t, inorderTraversal(t)))
    [] p = "lca" ->
         <<lowestCommonAncestor(t, t[u[1]], t[u[2]]), LcaNode(t, Root, u[1], u[2]), LcaVisited(t, u[1], u[2]),
           LcaDfs(t, Root, u[1], u[2], Unset).ans>>
    [] p = "KthNode" -> KthNode(t, u)
    [] p = "judgeIt" -> judgeIt(t)
    [] p = "mirrors" -> <<invertTree(t), isSymmetric(t), isSymmetric2(t)>>
    [] p = "paths" -> <<binaryTreePaths(t), binaryTreePaths2(t)>>
    [] p = "pathSum" -> pathSum(t, u)
    [] p = "pairs" -> <<isSameTree(t, u), mergeTrees(t, u), mergeTrees3(t, u)>>

Init == \E x \in Input : program = x.program /\ input = <<x.t, x.u>> /\ output = << >>

Run ==
  /\ output = << >>
  /\ output' = <<Result(program, input[1], input[2])>>
  /\ UNCHANGED <<program, input>>

Next == Run
Spec == Init /\ [][Next]_vars

-----------------------------------------------------------------------------
(* What the programs promise, said of the positions of nodes.              *)

\* The nodes, from the one with the smallest key on.
ByKey(key) ==
  [j \in 1 .. Cardinality(DOMAIN key) |->
     CHOOSE n \in DOMAIN key : Cardinality({m \in DOMAIN key : key[m] < key[n]}) = j - 1]

PreOrder(t) == ByKey([n \in DOMAIN t |-> Digits(n, 1, 2, 0)])
InOrder(t) == ByKey([n \in DOMAIN t |-> InKey(n)])
PostOrder(t) == ByKey([n \in DOMAIN t |-> Digits(n, 0, 1, 2)])
LevelOrder(t) == ByKey([n \in DOMAIN t |-> HeapIndex(n)])
Depth(t) == Max({0} \cup {Len(n) + 1 : n \in DOMAIN t})
LevelsOf(t) == [d \in 1 .. Depth(t) |-> SelectSeq(LevelOrder(t), LAMBDA n : Len(n) = d - 1)]

Lowest(m, n) == SubSeq(m, 1, Max({d \in 0 .. Len(m) : IsPrefix(SubSeq(m, 1, d), n)}))
Flip(n) == [j \in DOMAIN n |-> 1 - n[j]]
Flipped(t) == [n \in {Flip(m) : m \in DOMAIN t} |-> t[Flip(n)]]
PathTo(t, n) == [j \in 1 .. Len(n) + 1 |-> t[SubSeq(n, 1, j - 1)]]
LeafPaths(t) ==
  LET leaves == SelectSeq(PreOrder(t), LAMBDA n : IsLeaf(t, n))
  IN  [j \in DOMAIN leaves |-> PathTo(t, leaves[j])]
At(t, n) == IF n \in DOMAIN t THEN t[n] ELSE 0

Right(p, t, u, r) ==
  CASE p = "traversals" ->
         r = <<LevelOrder(t), LevelOrder(t), LevelsOf(t), Reverse(LevelsOf(t)), Depth(t), Depth(t),
               PreOrder(t), InOrder(t), PostOrder(t), PreOrder(t), InOrder(t), PostOrder(t)>>
    [] p = "buildTree" -> r = t
    [] p = "lca" -> LET a == Lowest(u[1], u[2]) IN r = <<t[a], a, a, IF u[1] = u[2] THEN Unset ELSE a>>
    [] p = "KthNode" ->
         IF u = 0 THEN r = nullptr ELSE r \in DOMAIN t /\ Cardinality({n \in DOMAIN t : t[n] < t[r]}) = u - 1
    [] p = "judgeIt" ->
         r = <<\A m, n \in DOMAIN t : /\ IsPrefix(L(m), n) => t[n] < t[m]
                                      /\ IsPrefix(R(m), n) => t[n] > t[m],
               {HeapIndex(n) : n \in DOMAIN t} = 1 .. Cardinality(DOMAIN t)>>
    [] p = "mirrors" -> r = <<Flipped(t), t = Flipped(t), t = Flipped(t)>>
    [] p = "paths" -> r = <<LeafPaths(t), LeafPaths(t)>>
    [] p = "pathSum" -> r = SelectSeq(LeafPaths(t), LAMBDA path : FoldLeft(+, 0, path) = u)
    [] p = "pairs" ->
         LET sum == [n \in DOMAIN t \cup DOMAIN u |-> At(t, n) + At(u, n)] IN r = <<t = u, sum, sum>>

\* Each program on trees answers what its name promises, in every shape of
\* tree: recursive and iterative traversals visit the same nodes in the order
\* their positions define, a tree is rebuilt from its traversals, the four
\* ancestor searches, both mirror tests and the mergers agree with definitions
\* on positions.  The search with the field ans is right for two different nodes
\* only: for a node and itself it never sets ans, and returns what it finds there.
TreesAreRight == output # << >> => Right(program, input[1], input[2], output[1])
=============================================================================
