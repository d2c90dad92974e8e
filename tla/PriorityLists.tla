--------------------------- MODULE PriorityLists ----------------------------
(***************************************************************************)
(* The consistent hashing table VigLB is to have: for every row, i.e.      *)
(* every hash below its height, all backends in the order in which their   *)
(* permutations of the rows come to it (lb_balancer.c).                    *)
(***************************************************************************)
EXTENDS Integers, FiniteSets

\* Mutant of permutation: the first backend stays at its offset.
PermutationNoShift(height, b, p) ==
  (((b * 31) % height) + (b % height) * p) % height

\* permutations[b * height + p]
permutation(height, b, p) ==
  LET offset == (b * 31) % height
      shift == (b % height) + 1
  IN  (offset + shift * p) % height

\* The position at which backend b comes to a row.
Position(height, b, row) ==
  CHOOSE p \in 0 .. height - 1 : permutation(height, b, p) = row

\* At equal positions the smaller number comes first.
Before(height, row, b, c) ==
  \/ Position(height, b, row) < Position(height, c, row)
  \/ Position(height, b, row) = Position(height, c, row) /\ b < c

\* How many of the backends come to a row before b does.
Rank(height, capacity, row, b) ==
  Cardinality({c \in 0 .. capacity - 1 : Before(height, row, c, b)})

\* The table, row after row: cell n lies in row n \div capacity.
PriorityTable(height, capacity) ==
  [n \in 0 .. height * capacity - 1 |->
     CHOOSE b \in 0 .. capacity - 1 :
       Rank(height, capacity, n \div capacity, b) = n % capacity]
=============================================================================
