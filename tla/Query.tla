------------------------------- MODULE Query -------------------------------
(***************************************************************************)
(* The query planner of src/engine.cpp: which records a query looks at     *)
(* (initial_candidate_ids), why it refuses one (evaluate_candidate), how   *)
(* it ranks the rest (candidate_less) and what it answers (run_query).     *)
(*                                                                         *)
(* A query holds the engine's mutex and changes nothing, so an answer is   *)
(* an operator of the state and the query.  The state is the engine's,     *)
(* with what records carry that queries ask about.                         *)
(*                                                                         *)
(* A record's kind stands for its namespace and content digest too, its    *)
(* owner for its producer, a node for the node, domain and device of a     *)
(* location.  Costs and bandwidths are doubles that come from requests and *)
(* are tested nowhere: natural numbers here, or NaN.                       *)
(***************************************************************************)
EXTENDS StateIndexEngine, FiniteSets

CONSTANTS
  Kinds,      \* StateKind values
  Owners,     \* OwnerId values
  Nodes,      \* NodeId values
  NaN,        \* the double that is not a number
  Offers,     \* the locations that are added
  MaxOffers,  \* bound: locations of one record
  Payloads,   \* what records are published with
  Queries     \* the queries that are asked

VARIABLES
  payload,    \* record id -> what it was published with, None when absent
  offers      \* record id -> its locations, in their order

payloadVars == <<payload, offers>>
queryVars == <<vars, payloadVars>>

CompatibilityOutcomes ==
  {"UNKNOWN", "NONE", "EXACT", "COMPATIBLE", "COMPATIBLE_WITH_ADAPTATION", "INCOMPATIBLE"}
CompatibilityRequirements == {"NONE", "EXACT", "COMPATIBLE", "COMPATIBLE_WITH_ADAPTATION"}
GenerationRules == {"CURRENT", "MINIMUM", "EXACT", "AS_OF", "ANY"}

RejectionReasons ==
  {"WRONG_STATE_KIND", "INSUFFICIENT_EVIDENCE", "TOMBSTONED", "INVALIDATED", "NOT_CURRENT",
   "STALE_GENERATION", "COMPATIBILITY_MISMATCH", "DEPENDENCY_MISMATCH",
   "MISSING_REQUIRED_DEPENDENCY", "LOCATION_UNAVAILABLE", "HEALTH_UNACCEPTABLE",
   "FRESHNESS_BELOW_REQUIREMENT"}

(* A location: where it is and what it would cost to read it there.        *)
(* Freshness is its score: 0 unknown (or no requirement), 3 current.       *)
Healths == {"HEALTHY", "DEGRADED", "UNKNOWN", "UNHEALTHY", "UNAVAILABLE"}
Double == {NaN} \cup Nat
Offer ==
  [node: Nodes, local: BOOLEAN, health: Healths, freshness: 0..3, access: Double,
   latency: Double, bytes: Double, bandwidth: Double, restore: Double, recompute: Double,
   adaptation: Double]

(* A dependency of a record, or one that a query requires.                 *)
Dependency == [state: States, gen: Nat, required: BOOLEAN]
Payload ==
  [kind: Kinds, owner: Owners, compat: CompatibilityOutcomes \cup {None},
   deps: SUBSET Dependency, offers: Seq(Offer), freshness: 0..3, policy: Nat]

(* None, {}, 0 and UNKNOWN ask for nothing, and so does a rule without its *)
(* generation, which is ANY.  historical tells query_historical from       *)
(* query; neither reads the descriptor's own historical_only.              *)
QueryDescriptor ==
  [state: States \cup {None}, wildcard: BOOLEAN, kind: Kinds \cup {None},
   owner: Owners \cup {None}, rule: GenerationRules, gen: Nat,
   compat: CompatibilityRequirements, deps: SUBSET Dependency, nodes: SUBSET Nodes,
   preference: [Nodes -> Nat], health: Healths, replicas: Nat, freshness: 0..3,
   maxCost: Nat, policy: Nat, includeInvalidated: BOOLEAN, historical: BOOLEAN]

ASSUME QueryAssumption ==
  /\ RecordIds \subseteq Nat      \* the last tie is broken by record id
  /\ IsFiniteSet(RecordIds)
  /\ NaN \notin Int
  /\ None \notin States \cup Kinds \cup Owners \cup Payload \cup Offer
  /\ None \notin CompatibilityOutcomes \cup RejectionReasons
  /\ Offers \subseteq Offer
  /\ MaxOffers \in Nat
  /\ Payloads \subseteq Payload
  /\ Queries \subseteq QueryDescriptor

-----------------------------------------------------------------------------
(* initial_candidate_ids.  by_state_ lists the history of a state, for a   *)
(* wildcard query too (LocationProofs!IndexesComplete).                    *)
LookedAtCurrent(q) ==                                                        \* mutant
  IF q.state # None THEN {current[q.state]} \ {None}
  ELSE {id \in RecordIds : Stored(id) /\ q.kind \in {None, payload[id].kind}}
LookedAt(q) ==
  IF q.state # None THEN history[q.state]
  ELSE {id \in RecordIds : Stored(id) /\ q.kind \in {None, payload[id].kind}}

(* find_state(s), at generation g or above.                                *)
CurrentFrom(s, g) == current[s] # None /\ records[current[s]].gen >= g

(* dep_satisfied: what the record requires is current and not withdrawn.   *)
DepSatisfiedOnce(id) ==                                                      \* mutant
  \A dep \in payload[id].deps : dep.required =>
    \E other \in history[dep.state] : records[other].gen >= dep.gen
DepSatisfied(id) ==
  \A dep \in payload[id].deps : dep.required =>
    /\ CurrentFrom(dep.state, dep.gen)
    /\ records[current[dep.state]].lifecycle \notin {"INVALIDATED", "TOMBSTONED"}

(* The generation rule: the reason it refuses record id for, or None.      *)
GenerationRefusalByLifecycle(id, q) ==                                       \* mutant
  LET g == records[id].gen IN
  CASE q.rule = "CURRENT" ->
         IF ~q.historical /\ records[id].historical THEN "NOT_CURRENT" ELSE None
    [] q.rule = "MINIMUM" -> IF g < q.gen THEN "STALE_GENERATION" ELSE None
    [] q.rule = "EXACT" -> IF g # q.gen THEN "STALE_GENERATION" ELSE None
    [] q.rule = "AS_OF" -> IF g > q.gen THEN "NOT_CURRENT" ELSE None
    [] q.rule = "ANY" -> None
GenerationRefusal(id, q) ==
  LET g == records[id].gen IN
  CASE q.rule = "CURRENT" ->
         IF ~q.historical /\ current[records[id].state] # id THEN "NOT_CURRENT" ELSE None
    [] q.rule = "MINIMUM" -> IF g < q.gen THEN "STALE_GENERATION" ELSE None
    [] q.rule = "EXACT" -> IF g # q.gen THEN "STALE_GENERATION" ELSE None
    [] q.rule = "AS_OF" -> IF g > q.gen THEN "NOT_CURRENT" ELSE None
    [] q.rule = "ANY" -> None

(* CompatibilityRef::satisfies.                                            *)
Satisfies(outcome, requirement) ==
  \/ outcome = "EXACT"
  \/ outcome = "COMPATIBLE" /\ requirement # "EXACT"
  \/ outcome = "COMPATIBLE_WITH_ADAPTATION" /\ requirement = "COMPATIBLE_WITH_ADAPTATION"

(* The query's requirement on compatibility, and on dependencies (which of *)
(* these fails first does not matter: both reasons count as incompatible). *)
CompatibilityRefusal(id, q) ==
  IF q.compat = "NONE" THEN None
  ELSE IF payload[id].compat \in {None, "UNKNOWN"} THEN "INSUFFICIENT_EVIDENCE"
  ELSE IF ~Satisfies(payload[id].compat, q.compat) THEN "COMPATIBILITY_MISMATCH"
  ELSE None
DependencyRefusal(id, q) ==
  LET named == {dep.state : dep \in payload[id].deps} IN
  IF \E req \in q.deps : req.state \in named /\ ~CurrentFrom(req.state, req.gen)
    THEN "DEPENDENCY_MISMATCH"
  ELSE IF \E req \in q.deps : req.required /\ req.state \notin named
    THEN "MISSING_REQUIRED_DEPENDENCY"
  ELSE IF ~DepSatisfied(id) THEN "DEPENDENCY_MISMATCH"
  ELSE None

(* Locations of record id that are usable, and those of them within the    *)
(* query's constraint; {} constrains nothing.                              *)
Usable(id) == {i \in 1..Len(offers[id]) : offers[id][i].health \in {"HEALTHY", "DEGRADED"}}
UsableFor(id, q) == {i \in Usable(id) : q.nodes = {} \/ offers[id][i].node \in q.nodes}

Exceeds(x, y) == x # NaN /\ y # NaN /\ x > y

(* The best placement: the first of those of the highest rank_of, which    *)
(* compares the latency last.  A rank that is not a number is neither      *)
(* above nor below another.                                                *)
HealthScore(health) ==
  IF health = "HEALTHY" THEN 3
  ELSE IF health = "DEGRADED" THEN 2
  ELSE IF health = "UNKNOWN" THEN 1
  ELSE 0
Locality(offer, q) == q.preference[offer.node] + (IF offer.local THEN 10 ELSE 0)
RanksAbove(x, y, q) ==
  LET mx == Locality(x, q) + HealthScore(x.health)
      my == Locality(y, q) + HealthScore(y.health)
  IN /\ x.latency # NaN /\ y.latency # NaN
     /\ mx > my \/ (mx = my /\ x.latency < y.latency)
BestPlacement(id, q) ==
  LET offered == offers[id]
      best[i \in 0..Len(offered)] ==
        IF i = 0 THEN None
        ELSE IF i \in UsableFor(id, q)
                  /\ (best[i - 1] = None \/ RanksAbove(offered[i], best[i - 1], q))
          THEN offered[i]
        ELSE best[i - 1]
  IN best[Len(offered)]

(* evaluate_candidate: the first filter that record id fails, or None.     *)
Rejection(id, q) ==
  LET rec == records[id]
      own == payload[id]
      generation == GenerationRefusal(id, q)
      compatibility == CompatibilityRefusal(id, q)
      dependency == DependencyRefusal(id, q)
  IN
  IF q.kind \notin {None, own.kind} THEN "WRONG_STATE_KIND"
  ELSE IF q.owner \notin {None, own.owner} THEN "INSUFFICIENT_EVIDENCE"
  ELSE IF q.state \notin {None, rec.state} /\ ~q.wildcard THEN "WRONG_STATE_KIND"
  ELSE IF IsTombstoned(rec.state, rec.gen) THEN "TOMBSTONED"
  ELSE IF rec.lifecycle \in {"INVALIDATED", "TOMBSTONED"} THEN "INVALIDATED"
  ELSE IF /\ ~q.historical /\ ~q.includeInvalidated
          /\ rec.lifecycle \in {"SUPERSEDED", "RETIRED", "MISSING", "FAILED"} THEN "NOT_CURRENT"
  ELSE IF generation # None THEN generation
  ELSE IF compatibility # None THEN compatibility
  ELSE IF dependency # None THEN dependency
  ELSE IF UsableFor(id, q) = {} THEN "LOCATION_UNAVAILABLE"
  ELSE IF /\ q.health # "UNKNOWN"
          /\ \A i \in UsableFor(id, q) : offers[id][i].health # q.health THEN "HEALTH_UNACCEPTABLE"
  ELSE IF own.freshness < q.freshness THEN "FRESHNESS_BELOW_REQUIREMENT"
  ELSE IF Cardinality(UsableFor(id, q)) < q.replicas THEN "LOCATION_UNAVAILABLE"
  ELSE IF q.maxCost > 0 /\ Exceeds(BestPlacement(id, q).access, q.maxCost) THEN "LOCATION_UNAVAILABLE"
  ELSE None

InScope(q) == {id \in LookedAt(q) : Rejection(id, q) = None}

-----------------------------------------------------------------------------
(* The ranking factors, in factor_order.  Of a cost the inverse counts:    *)
(* less is more.                                                           *)
IsExactIdentity(id, q) == q.state = records[id].state /\ ~q.wildcard
CompatScore(outcome) ==
  IF outcome = "EXACT" THEN 3
  ELSE IF outcome = "COMPATIBLE" THEN 2
  ELSE IF outcome = "COMPATIBLE_WITH_ADAPTATION" THEN 1
  ELSE 0
Inv(cost) == IF cost = NaN THEN NaN ELSE -cost
Factors(id, q) ==
  LET best == BestPlacement(id, q) IN
  << IF IsExactIdentity(id, q) THEN 1 ELSE 0,
     Locality(best, q),
     CompatScore(payload[id].compat),
     HealthScore(best.health),
     best.freshness,
     records[id].gen,
     Inv(best.latency),
     Inv(best.bytes),
     best.bandwidth,
     Inv(best.restore),
     Inv(best.recompute),
     Len(offers[id]),
     IF q.policy # 0 /\ payload[id].policy = q.policy THEN 1 ELSE 0,
     Inv(best.adaptation) >>
FactorPositions == 1..14

(* What candidate_less is given of a record in scope (CandidateAssessment).*)
Assessment(id, q) ==
  [record_id |-> id, generation |-> records[id].gen, factors |-> Factors(id, q)]

(* candidate_less: the first factor that differs decides, then the         *)
(* generation, then the record id.  NaN differs from everything, itself    *)
(* included, and is greater than nothing.                                  *)
Differ(x, y) == x = NaN \/ x # y
Outweighs(fa, fb) ==
  \E i \in FactorPositions :
    Exceeds(fa[i], fb[i]) /\ \A j \in 1..(i - 1) : ~Differ(fa[j], fb[j])
Tied(fa, fb) == \A i \in FactorPositions : ~Differ(fa[i], fb[i])
LessWithoutTies(a, b) == Outweighs(a.factors, b.factors)                     \* mutant
Less(a, b) ==
  \/ Outweighs(a.factors, b.factors)
  \/ /\ Tied(a.factors, b.factors)
     /\ \/ a.generation > b.generation
        \/ a.generation = b.generation /\ a.record_id < b.record_id

(* The groups in which run_query counts the reasons it saw.                *)
CategoryOf(reason) ==
  CASE reason \in {"INVALIDATED", "TOMBSTONED"} -> "invalidated"
    [] reason \in {"STALE_GENERATION", "NOT_CURRENT", "FRESHNESS_BELOW_REQUIREMENT"} -> "stale"
    [] reason \in {"COMPATIBILITY_MISMATCH", "DEPENDENCY_MISMATCH",
                   "MISSING_REQUIRED_DEPENDENCY"} -> "incompatible"
    [] reason = "INSUFFICIENT_EVIDENCE" -> "insufficient"
    [] OTHER -> "other"
Seen(q) == {CategoryOf(Rejection(id, q)) : id \in LookedAt(q)}

EmptyOutcomeMerged(q) ==                                                     \* mutant
  IF LookedAt(q) = {} THEN "NOT_FOUND"
  ELSE IF "invalidated" \in Seen(q) THEN "INVALIDATED_ONLY"
  ELSE IF "incompatible" \in Seen(q) THEN "INCOMPATIBLE_ONLY"
  ELSE IF "stale" \in Seen(q) THEN "STALE_ONLY"
  ELSE "INSUFFICIENT_EVIDENCE"

(* run_query: the outcome when no record is in scope, and the outcome.     *)
EmptyOutcome(q) ==
  LET seen == Seen(q) IN
  IF seen = {} THEN "NOT_FOUND"
  ELSE IF seen = {"invalidated"} THEN "INVALIDATED_ONLY"
  ELSE IF "incompatible" \in seen /\ seen \subseteq {"incompatible", "other"}
    THEN "INCOMPATIBLE_ONLY"
  ELSE IF "stale" \in seen /\ seen \cap {"insufficient", "other"} = {} THEN "STALE_ONLY"
  ELSE IF seen \cap {"insufficient", "other"} # {} THEN "INSUFFICIENT_EVIDENCE"
  ELSE "NOT_FOUND"
Outcome(q) ==
  LET found == InScope(q) IN
  IF found = {} THEN EmptyOutcome(q)
  ELSE IF Cardinality(found) > 1 THEN "FOUND_MULTIPLE"
  ELSE IF \A id \in found : /\ IsExactIdentity(id, q)
                            /\ q.compat = "NONE" \/ payload[id].compat = "EXACT"
    THEN "FOUND_EXACT"
  ELSE "FOUND_COMPATIBLE"

-----------------------------------------------------------------------------
QueryInit ==
  /\ Init
  /\ payload = [id \in RecordIds |-> None]
  /\ offers = [id \in RecordIds |-> <<>>]

(* register_state, of a record with all it carries.                        *)
PublishWith(id, own, s, g, lifecycle, e, b) ==
  /\ RegisterState(id, s, g, lifecycle, e, b)
  /\ payload' = [payload EXCEPT ![id] = own]
  /\ offers' = [offers EXCEPT ![id] = own.offers]

(* add_location and remove_location (Locations.tla has them whole): the    *)
(* current record of s is given a location more, another in the place of   *)
(* one it has, or one less.                                                *)
Without(locs, i) == [j \in 1..(Len(locs) - 1) |-> IF j < i THEN locs[j] ELSE locs[j + 1]]
Relocate(s, e, b) ==
  /\ Admitted(e, b)
  /\ current[s] # None
  /\ LET id == current[s] IN
     \/ \E offer \in Offers :
          /\ Len(offers[id]) < MaxOffers
          /\ offers' = [offers EXCEPT ![id] = Append(offers[id], offer)]
     \/ \E i \in 1..Len(offers[id]) :
          \/ \E offer \in Offers : offers' = [offers EXCEPT ![id] = [offers[id] EXCEPT ![i] = offer]]
          \/ offers' = [offers EXCEPT ![id] = Without(offers[id], i)]
  /\ UNCHANGED <<vars, payload>>

(* The other operations touch neither.                                     *)
OtherStep ==
  /\ \/ \E w \in Workers, b \in Boots : RegisterWorker(w, b)
     \/ \E b \in Boots : UnregisterWorker(b)
     \/ AdvanceEpoch
     \/ \E s \in States, g \in Gens, e \in Epochs, b \in Boots :
          \/ Invalidate(s, g, e, b)
          \/ \E flag \in TombstoneFlags : Tombstone(s, g, flag, e, b)
  /\ UNCHANGED payloadVars

QueryNext ==
  \/ OtherStep
  \/ \E s \in States, e \in Epochs, b \in Boots :
       \/ Relocate(s, e, b)
       \/ \E id \in RecordIds, own \in Payloads, g \in Gens, l \in PublishedLifecycles :
            PublishWith(id, own, s, g, l, e, b)

QuerySpec == QueryInit /\ [][QueryNext]_queryVars

-----------------------------------------------------------------------------
(* Every variable has its type.                                            *)
QueryTypeOK ==
  /\ TypeOK
  /\ payload \in [RecordIds -> Payload \cup {None}]
  /\ offers \in [RecordIds -> Seq(Offer)]

(* An ordinary CURRENT query answers from the record set what the registry *)
(* judges publications by: every record it returns is in service, above    *)
(* its tombstone and holds the claim on its state, and a state has one.    *)
CurrentAnswersAuthority ==
  \A q \in Queries : q.rule = "CURRENT" /\ ~q.historical =>
    \A id \in InScope(q) :
      /\ InService(id)
      /\ records[id].gen > tombstoneFloor[records[id].state]
      /\ currentAuthority[records[id].state] = ClaimOf(records, id)
      /\ q.state # None => InScope(q) = {id}

(* A record that a query refuses as withdrawn or not current is never its  *)
(* answer later: no restart of a worker, invalidation or late request      *)
(* brings it back.  A record that a tombstone retired and left current is  *)
(* excepted: superseded, it is history.                                    *)
FinalReasons == {"TOMBSTONED", "INVALIDATED", "NOT_CURRENT"}
LeftCurrent(id) == current[records[id].state] = id /\ ~InService(id)
RefusalIsFinal ==
  [][\A q \in Queries, id \in RecordIds :
       Stored(id) /\ ~LeftCurrent(id) /\ Rejection(id, q) \in FinalReasons
         => Rejection(id, q)' \in FinalReasons]_queryVars

(* README "preserving historical access": whatever was published and has   *)
(* been neither invalidated nor tombstoned is found by a historical query  *)
(* for its generation, as long as it has a location and what it requires,  *)
(* with include_invalidated set or not.  (A note of run_query, engine.cpp: *)
(* 808-809, tells the caller the contrary for the flag unset; test_query.  *)
(* cpp:72-78 relies on this.)                                              *)
HistoricalQuery(s, g, include) ==
  [state |-> s, wildcard |-> FALSE, kind |-> None, owner |-> None, rule |-> "EXACT",
   gen |-> g, compat |-> "NONE", deps |-> {}, nodes |-> {}, preference |-> [n \in Nodes |-> 0],
   health |-> "UNKNOWN", replicas |-> 0, freshness |-> 0, maxCost |-> 0, policy |-> 0,
   includeInvalidated |-> include, historical |-> TRUE]
HistoryReachable ==
  \A id \in RecordIds, include \in BOOLEAN :
    /\ Stored(id)
    /\ records[id].lifecycle \notin {"INVALIDATED", "TOMBSTONED"}
    /\ DepSatisfied(id)
    /\ Usable(id) # {}
    => id \in InScope(HistoricalQuery(records[id].state, records[id].gen, include))

(* README "A record whose required dependency is invalidated or stale      *)
(* becomes ineligible": behind every answer, for each dependency that it   *)
(* requires, a record in service holds the claim on the other state, at    *)
(* the required generation or above.                                       *)
DependentsFollow ==
  \A q \in Queries : \A id \in InScope(q) : \A dep \in payload[id].deps :
    dep.required =>
      \E other \in RecordIds :
        /\ InService(other)
        /\ records[other].state = dep.state
        /\ records[other].gen >= dep.gen
        /\ currentAuthority[dep.state] = ClaimOf(records, other)

(* What an ordinary CURRENT query for a state says when it finds nothing   *)
(* is true of the state: INVALIDATED_ONLY, nothing of it is in service;    *)
(* INCOMPATIBLE_ONLY, it has a current record that could be asked for      *)
(* otherwise.                                                              *)
OutcomeTellsWhy ==
  \A q \in Queries : q.rule = "CURRENT" /\ ~q.historical /\ q.state # None =>
    LET outcome == Outcome(q) IN
    /\ outcome = "INVALIDATED_ONLY" =>
         \A id \in RecordIds : InService(id) => records[id].state # q.state
    /\ outcome = "INCOMPATIBLE_ONLY" => current[q.state] # None

(* std::sort needs a strict order, and a selected record that is the same  *)
(* on every run a total one.  Among candidates whose factors are numbers   *)
(* candidate_less is both: none ranks before itself, of two that differ    *)
(* one ranks first, and consistently over three.  A factor that is NaN is  *)
(* out of this statement: neither of two such candidates ranks first.      *)
Numbered(q) ==
  {a \in {Assessment(id, q) : id \in InScope(q)} : \A i \in FactorPositions : a.factors[i] \in Int}
RankingIsTotal ==
  \A q \in Queries :
    LET numbered == Numbered(q) IN
    \A a, b \in numbered :
      /\ ~Less(a, a)
      /\ a # b => (Less(a, b) <=> ~Less(b, a))
      /\ \A c \in numbered : Less(a, b) /\ Less(b, c) => Less(a, c)

=============================================================================
