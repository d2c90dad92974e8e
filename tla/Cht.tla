-------------------------------- MODULE Cht --------------------------------
(***************************************************************************)
(* The consistent hashing table of the load balancer: lb_fill_cht and      *)
(* lb_find_preferred_available_backend of lb_balancer.c.  One step of the  *)
(* fill is one iteration of its innermost loop.                            *)
(***************************************************************************)
EXTENDS PriorityLists

CONSTANTS
  MaxHeight,     \* bound on cht_height
  MaxCapacity    \* bound on backend_capacity

ASSUME ChtAssumption == MaxHeight \in Nat /\ MaxCapacity \in Nat \ {0}

VARIABLES
  cht_height, backend_capacity,   \* the arguments
  cht,                            \* the table, cht_height * backend_capacity cells
  i, j, bknd, perm_pos,           \* the local variables
  pc,                             \* "check", "fill", "filled" or "abort"
  chosen                          \* the last lookup: hash, active backends, result

chtVars == <<cht_height, backend_capacity, cht, i, j, bknd, perm_pos, pc, chosen>>

Backends == 0 .. backend_capacity - 1
None == -1

\* lb_allocate_balancer; the cells of the vector are set to 0 by null_init.
ChtInit ==
  /\ cht_height \in 1 .. MaxHeight
  /\ backend_capacity \in 1 .. MaxCapacity
  /\ cht = [c \in 0 .. cht_height * backend_capacity - 1 |-> 0]
  /\ i = 0 /\ j = 0 /\ bknd = 0 /\ perm_pos = 0
  /\ pc = "check"
  /\ chosen = [hash |-> 0, active |-> {}, backend |-> None]

\* The assertions on the arguments: a prime height above the capacity.
Check ==
  /\ pc = "check"
  /\ pc' = IF /\ \A d \in 2 .. cht_height :
                   d * d <= cht_height => d * (cht_height \div d) # cht_height
              /\ backend_capacity < cht_height
           THEN "fill" ELSE "abort"
  /\ UNCHANGED <<cht_height, backend_capacity, cht, i, j, bknd, perm_pos, chosen>>

\* Mutant of Advance: all backends stay at the same position.
AdvanceSamePosition ==
  /\ bknd' = IF backend_capacity <= bknd + 1 THEN 0 ELSE bknd + 1
  /\ UNCHANGED perm_pos

\* The next backend, or the next position for all of them.
Advance ==
  /\ bknd' = IF backend_capacity <= bknd + 1 THEN 0 ELSE bknd + 1
  /\ perm_pos' = IF backend_capacity <= bknd + 1 THEN perm_pos + 1 ELSE perm_pos

\* Backend bknd does not come to row i at this position.  The assertion.
Skip ==
  /\ pc = "fill" /\ i < cht_height /\ j < backend_capacity
  /\ permutation(cht_height, bknd, perm_pos) # i
  /\ Advance
  /\ pc' = IF perm_pos' < cht_height THEN "fill" ELSE "abort"
  /\ UNCHANGED <<cht_height, backend_capacity, cht, i, j, chosen>>

\* Mutant of Take: the search goes on with the same backend.
TakeStaying ==
  /\ pc = "fill" /\ i < cht_height /\ j < backend_capacity
  /\ permutation(cht_height, bknd, perm_pos) = i
  /\ cht' = [cht EXCEPT ![i * backend_capacity + j] = bknd]
  /\ j' = j + 1
  /\ UNCHANGED <<cht_height, backend_capacity, i, bknd, perm_pos, pc, chosen>>

\* It does: it is the next in the priority list of the row.
Take ==
  /\ pc = "fill" /\ i < cht_height /\ j < backend_capacity
  /\ permutation(cht_height, bknd, perm_pos) = i
  /\ cht' = [cht EXCEPT ![i * backend_capacity + j] = bknd]
  /\ j' = j + 1
  /\ Advance
  /\ pc' = IF j + 1 = backend_capacity \/ perm_pos' < cht_height THEN "fill" ELSE "abort"
  /\ UNCHANGED <<cht_height, backend_capacity, i, chosen>>

NextRow ==
  /\ pc = "fill" /\ j = backend_capacity
  /\ i' = i + 1
  /\ j' = 0 /\ bknd' = 0 /\ perm_pos' = 0
  /\ pc' = IF i + 1 = cht_height THEN "filled" ELSE "fill"
  /\ UNCHANGED <<cht_height, backend_capacity, cht, chosen>>

\* The first candidate, for k = 0 .. backend_capacity - 1, that is active.
lb_find_preferred_available_backend(hash, active) ==
  LET Candidate(k) == cht[(hash + k) % cht_height]
      Hit(k) == /\ Candidate(k) \in active
                /\ \A l \in 0 .. k - 1 : Candidate(l) \notin active
  IN  /\ pc = "filled"
      /\ \/ \E k \in Backends :
              /\ Hit(k)
              /\ chosen' = [hash |-> hash, active |-> active, backend |-> Candidate(k)]
         \/ /\ ~\E k \in Backends : Hit(k)
            /\ chosen' = [hash |-> hash, active |-> active, backend |-> None]
      /\ UNCHANGED <<cht_height, backend_capacity, cht, i, j, bknd, perm_pos, pc>>

ChtNext ==
  \/ Check \/ Skip \/ Take \/ NextRow
  \/ \E hash \in 0 .. cht_height - 1, active \in SUBSET Backends :
       lb_find_preferred_available_backend(hash, active)
  \/ pc = "abort" /\ UNCHANGED chtVars

\* lb_fill_cht runs to its end.
ChtSpec == ChtInit /\ [][ChtNext]_chtVars /\ WF_chtVars(Check \/ Skip \/ Take \/ NextRow)

-----------------------------------------------------------------------------
(* Properties.                                                             *)

IsPrime(n) == n > 1 /\ \A d \in 2 .. n - 1 : n % d # 0

\* Every row of the filled table is a priority list of all backends, each one
\* once, ordered by the position at which its permutation comes to the row
\* (the smaller number first among equals): the nested loops, which carry bknd
\* and perm_pos from one cell to the next, neither skip nor repeat a backend.
RowsArePriorityLists ==
  pc = "filled" =>
    \A r \in 0 .. cht_height - 1 :
      LET Cell(k) == cht[r * backend_capacity + k]
      IN  /\ {Cell(k) : k \in Backends} = Backends
          /\ \A k, l \in Backends : k < l => Before(cht_height, r, Cell(k), Cell(l))

\* The assertions in the loops cannot fail for arguments that pass the first
\* ones: aborting means that the height is not prime or not above the capacity.
AbortsOnlyOnArguments ==
  pc = "abort" => ~IsPrime(cht_height) \/ cht_height <= backend_capacity

\* Filling the table ends.
FillEnds == <>(pc \in {"filled", "abort"})

\* "Fill the priority lists for each hash in [0, cht_height)" (lb_balancer.c):
\* the backend chosen for a hash is the first active one of its list.
ChosenFromPriorityList ==
  LET r == chosen.hash % cht_height
      Cell(k) == cht[r * backend_capacity + k]
  IN  chosen.active # {} =>
        \E k \in Backends : /\ Cell(k) = chosen.backend
                            /\ chosen.backend \in chosen.active
                            /\ \A l \in 0 .. k - 1 : Cell(l) \notin chosen.active
=============================================================================
