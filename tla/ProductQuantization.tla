------------------------- MODULE ProductQuantization -------------------------
(***************************************************************************)
(* Nearest-neighbour search of pq_test.cpp: the linear scan, and the       *)
(* product quantizer that encodes each part of a vector by its nearest     *)
(* centre and searches with a table of distances.  Coordinates are small   *)
(* integers, so that sums are exact; the centres are random in the code    *)
(* and any here.                                                           *)
(***************************************************************************)
EXTENDS Integers, Sequences, SequencesExt

CONSTANTS DIM, M, K,
          Coordinate,
          Datasets,  \* the datasets to encode: sequences of vectors
          Codebooks  \* what train() may leave: M sequences of K centres

sub_dim == DIM \div M
Vector == [1 .. DIM -> Coordinate]

VARIABLES dataset, codebooks, codes,
          found, \* what search() returned: index and distance
          query, \* and the query it was for
          exact  \* what linear_scan() returned for the same query
vars == <<dataset, codebooks, codes, found, query, exact>>

\* The squared distance over n coordinates, from offsets s and t.
Dist(a, s, b, t, n) == FoldLeft(LAMBDA sum, d : sum + (a[s + d] - b[t + d]) * (a[s + d] - b[t + d]), 0,
                                [d \in 1 .. n |-> d])

\* The loops with "dist < min_dist": the first index with the least distance.
FirstLeast(dists) ==
  CHOOSE i \in DOMAIN dists : /\ \A j \in DOMAIN dists : dists[i] <= dists[j]
                              /\ \A j \in 1 .. i - 1 : dists[j] > dists[i]

Nearest(dists) == [index |-> FirstLeast(dists), dist |-> dists[FirstLeast(dists)]]

linear_scan(q) == Nearest([i \in DOMAIN dataset |-> Dist(q, 0, dataset[i], 0, DIM)])

Init ==
  /\ dataset \in Datasets
  /\ codebooks \in Codebooks
  /\ codes = << >>
  /\ found = [index |-> 0, dist |-> 0] /\ query = << >> /\ exact = found

encode ==
  /\ codes = << >>
  /\ codes' = [i \in DOMAIN dataset |-> [m \in 1 .. M |->
                 FirstLeast([k \in 1 .. K |-> Dist(dataset[i], (m - 1) * sub_dim, codebooks[m][k], 0, sub_dim)])]]
  /\ UNCHANGED <<dataset, codebooks, found, query, exact>>

\* search() whose sum leaves out the last part.
SearchOneShort(q) ==
  /\ codes # << >>
  /\ LET precomputed == [m \in 1 .. M |-> [k \in 1 .. K |->
                           Dist(q, (m - 1) * sub_dim, codebooks[m][k], 0, sub_dim)]]
         sum(i) == FoldLeft(LAMBDA s, m : s + precomputed[m][codes[i][m]], 0, [m \in 1 .. M - 1 |-> m])
     IN found' = Nearest([i \in DOMAIN codes |-> sum(i)])
  /\ query' = q /\ exact' = linear_scan(q)
  /\ UNCHANGED <<dataset, codebooks, codes>>

\* search(), and the linear scan it is compared with in main().
search(q) ==
  /\ codes # << >>
  /\ LET precomputed == [m \in 1 .. M |-> [k \in 1 .. K |->
                           Dist(q, (m - 1) * sub_dim, codebooks[m][k], 0, sub_dim)]]
         sum(i) == FoldLeft(LAMBDA s, m : s + precomputed[m][codes[i][m]], 0, [m \in 1 .. M |-> m])
     IN found' = Nearest([i \in DOMAIN codes |-> sum(i)])
  /\ query' = q /\ exact' = linear_scan(q)
  /\ UNCHANGED <<dataset, codebooks, codes>>

Next == encode \/ \E q \in Vector : search(q)
Spec == Init /\ [][Next]_vars

-----------------------------------------------------------------------------
\* The vector a code stands for.
Decoded(i) == FlattenSeq([m \in 1 .. M |-> codebooks[m][codes[i][m]]])

\* search() returns the first of the decoded vectors nearest to the query, with
\* its distance: the sum over the table is the distance of whole vectors, and of
\* equally near ones the first is kept.
FindsNearestDecoded ==
  query # << >> =>
    /\ found.dist = Dist(query, 0, Decoded(found.index), 0, DIM)
    /\ \A j \in DOMAIN codes : LET dist == Dist(query, 0, Decoded(j), 0, DIM) IN
         found.dist <= dist /\ (j < found.index => found.dist < dist)
=============================================================================
