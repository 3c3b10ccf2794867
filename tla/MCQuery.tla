------------------------------ MODULE MCQuery ------------------------------
(* A small instance of Query: the payloads tell the filters apart, and the *)
(* queries use each rule and each requirement.                             *)
EXTENDS Query, TLC

Symmetry == Permutations(Boots)

CONSTANTS s1, s2, k1, k2, o1, n1, n2

Here ==
  [node |-> n1, local |-> TRUE, health |-> "HEALTHY", freshness |-> 3, access |-> 1,
   latency |-> 1, bytes |-> 1, bandwidth |-> 2, restore |-> 1, recompute |-> 1,
   adaptation |-> 0]
There ==
  [Here EXCEPT !.node = n2, !.local = FALSE, !.health = "DEGRADED", !.access = 5,
               !.bandwidth = NaN]
MCOffers == {There}

Plain ==
  [kind |-> k1, owner |-> o1, compat |-> "COMPATIBLE", deps |-> {}, offers |-> <<There, Here>>,
   freshness |-> 3, policy |-> 1]
Dependent ==
  [kind |-> k2, owner |-> o1, compat |-> None, deps |-> {[state |-> s1, gen |-> 2, required |-> TRUE]},
   offers |-> <<There>>, freshness |-> 1, policy |-> 0]
MCPayloads == {Plain, Dependent}

Whole ==
  [state |-> None, wildcard |-> FALSE, kind |-> None, owner |-> None, rule |-> "CURRENT",
   gen |-> 0, compat |-> "NONE", deps |-> {}, nodes |-> {},
   preference |-> [n \in {n1, n2} |-> 0], health |-> "UNKNOWN", replicas |-> 0, freshness |-> 0,
   maxCost |-> 0, policy |-> 0, includeInvalidated |-> FALSE, historical |-> FALSE]
One == [Whole EXCEPT !.state = s1]
MCQueries ==
  { Whole, One,
    [Whole EXCEPT !.rule = "ANY", !.historical = TRUE, !.policy = 1],
    [One EXCEPT !.wildcard = TRUE, !.kind = k1, !.health = "HEALTHY"],
    [One EXCEPT !.includeInvalidated = TRUE, !.maxCost = 3, !.preference[n2] = 20],
    [One EXCEPT !.historical = TRUE, !.freshness = 2],
    [One EXCEPT !.compat = "EXACT", !.owner = o1],
    [One EXCEPT !.rule = "MINIMUM", !.gen = 2, !.compat = "COMPATIBLE"],
    [One EXCEPT !.rule = "AS_OF", !.gen = 1, !.historical = TRUE, !.replicas = 2],
    [Whole EXCEPT !.state = s2, !.deps = {[state |-> s1, gen |-> 2, required |-> TRUE]},
                  !.nodes = {n2}] }

(* Bounds: only s1 is withdrawn, by an invalidation or by tombstones, and  *)
(* s2 has one generation; only the first record's locations change; a      *)
(* third record is one more of s1, published only while nothing is         *)
(* withdrawn or moved (three to rank).                                     *)
OnlyS1Withdrawn ==
  /\ tombstones[s2].floor = NoFloor
  /\ \A i \in 1..Len(invalidations) :
       invalidations[i].state = s1 /\ invalidations[i].bound # 0 /\ tombstones[s1] = NoTombstone
  /\ tombstones[s1].floor # 0
OnlyS1Ages == \A id \in RecordIds : Stored(id) /\ records[id].state = s2 => records[id].gen = 1
Moved == {id \in RecordIds : Stored(id) /\ offers[id] # payload[id].offers}
OnlyFirstMoves == Moved \subseteq {1}
ThirdOnlyRanks ==
  Stored(3) => /\ records[3].state = s1 /\ payload[3] = Plain /\ Moved = {}
               /\ invalidations = <<>> /\ tombstones[s1] = NoTombstone

=============================================================================
