---------------------------- MODULE QueryProofs ----------------------------
(***************************************************************************)
(* Proofs about Query for every value of the constants, any finite set of  *)
(* record ids, any nodes, payloads and queries.                            *)
(***************************************************************************)
EXTENDS Query, EngineProofs, FiniteSetTheorems

USE AuthorityAssumption, EngineAssumption, QueryAssumption

(* What the planner adds to the engine's state: a stored record has its    *)
(* payload, and every record its locations.                                *)
PayloadInv ==
  /\ payload \in [RecordIds -> Payload \cup {None}]
  /\ offers \in [RecordIds -> Seq(Offer)]
  /\ \A id \in RecordIds : Stored(id) => payload[id] \in Payload

LEMMA QueryStepIsEngineStep == QueryNext => [Next]_vars
<1> SUFFICES ASSUME QueryNext PROVE [Next]_vars
  OBVIOUS
<1>1. CASE OtherStep
  BY <1>1 DEF OtherStep, Next
<1>2. ASSUME NEW s \in States, NEW e \in Epochs, NEW b \in Boots, Relocate(s, e, b)
      PROVE  UNCHANGED vars
  BY <1>2 DEF Relocate
<1>3. ASSUME NEW s \in States, NEW e \in Epochs, NEW b \in Boots, NEW id \in RecordIds,
             NEW own \in Payloads, NEW g \in Gens, NEW l \in PublishedLifecycles,
             PublishWith(id, own, s, g, l, e, b)
      PROVE  Next
  BY <1>3 DEF PublishWith, Next
<1> QED BY <1>1, <1>2, <1>3 DEF QueryNext

(* Every behaviour under queries is one of the engine: what is proved of   *)
(* StateIndexEngine holds here.                                            *)
THEOREM QueriesRunEngine == QuerySpec => Spec
<1>1. QueryInit => Init
  BY DEF QueryInit
<1>2. [QueryNext]_queryVars => [Next]_vars
  BY QueryStepIsEngineStep DEF queryVars
<1> QED BY <1>1, <1>2, PTL DEF QuerySpec, Spec

LEMMA PayloadInit == QueryInit => PayloadInv
BY DEF QueryInit, Init, PayloadInv, Stored

(* Adding a location, replacing one or taking one out leaves locations.    *)
LEMMA OffersChange ==
  ASSUME NEW locs \in Seq(Offer)
  PROVE  /\ \A offer \in Offers : Append(locs, offer) \in Seq(Offer)
         /\ \A i \in 1..Len(locs), offer \in Offers : [locs EXCEPT ![i] = offer] \in Seq(Offer)
         /\ \A i \in 1..Len(locs) : Without(locs, i) \in Seq(Offer)
<1>1. \A offer \in Offers : Append(locs, offer) \in Seq(Offer)
  OBVIOUS
<1>2. ASSUME NEW i \in 1..Len(locs), NEW offer \in Offers
      PROVE  [locs EXCEPT ![i] = offer] \in Seq(Offer)
  OBVIOUS
<1>3. ASSUME NEW i \in 1..Len(locs)
      PROVE  Without(locs, i) \in Seq(Offer)
  <2>1. Len(locs) \in Nat /\ Len(locs) - 1 \in Nat
    OBVIOUS
  <2>2. ASSUME NEW j \in 1..(Len(locs) - 1)
        PROVE  (IF j < i THEN locs[j] ELSE locs[j + 1]) \in Offer
    <3>1. j \in 1..Len(locs) /\ j + 1 \in 1..Len(locs)
      BY <2>1
    <3>2. locs[j] \in Offer /\ locs[j + 1] \in Offer
      BY <3>1
    <3> QED BY <3>2
  <2>3. Without(locs, i) \in [1..(Len(locs) - 1) -> Offer]
    BY <2>2 DEF Without
  <2> QED BY <2>1, <2>3
<1> QED BY <1>1, <1>2, <1>3

(* A step leaves the payload of a stored record alone.                     *)
LEMMA PayloadStep ==
  ASSUME IInv, IInv', PayloadInv, [QueryNext]_queryVars
  PROVE  /\ PayloadInv'
         /\ \A id \in RecordIds : Stored(id) => payload'[id] = payload[id]
<1>1. \A id \in RecordIds : Stored(id)' /\ ~Stored(id) => records'[id] # records[id]
  BY DEF Stored
<1>2. CASE UNCHANGED <<records, payload, offers>>
  BY <1>2 DEF PayloadInv, Stored
<1>3. ASSUME OtherStep
      PROVE  PayloadInv' /\ UNCHANGED payload
  <2>1. [Next]_vars
    BY <1>3 DEF OtherStep, Next
  <2>2. ASSUME NEW id \in RecordIds, Stored(id)'
        PROVE  Stored(id)
    <3>1. \A s \in States, g \in Nat, l \in WithdrawnLifecycles :
            records' = RetireCovered(s, g, l) => (Stored(id)' <=> Stored(id))
      BY RetireCoveredEffect DEF IInv, Sound
    <3>2. "INVALIDATED" \in WithdrawnLifecycles /\ "TOMBSTONED" \in WithdrawnLifecycles
      BY DEF WithdrawnLifecycles
    <3>3. ASSUME NEW s \in States, NEW g \in Gens, NEW e \in Epochs, NEW b \in Boots,
                 \/ Invalidate(s, g, e, b)
                 \/ \E flag \in TombstoneFlags : Tombstone(s, g, flag, e, b)
          PROVE  Stored(id)
      <4>1. records' = RetireCovered(s, g, "INVALIDATED") \/ records' = RetireCovered(s, g, "TOMBSTONED")
        BY <3>3 DEF Invalidate, Tombstone
      <4> QED BY <2>2, <3>1, <3>2, <4>1 DEF Gens
    <3>4. ASSUME UNCHANGED records
          PROVE  Stored(id)
      BY <2>2, <3>4 DEF Stored
    <3> QED BY <1>3, <3>3, <3>4 DEF OtherStep, RegisterWorker, UnregisterWorker, AdvanceEpoch, recordVars
  <2> QED BY <1>3, <2>2 DEF OtherStep, payloadVars, PayloadInv
<1>4. ASSUME NEW s \in States, NEW e \in Epochs, NEW b \in Boots, Relocate(s, e, b)
      PROVE  PayloadInv' /\ UNCHANGED payload
  <2> DEFINE id == current[s]
  <2>1. UNCHANGED <<payload, records>>
    BY <1>4 DEF Relocate, vars, recordVars
  <2>2. id \in RecordIds /\ offers[id] \in Seq(Offer)
    BY <1>4, CurrentFacts DEF Relocate, IInv, Sound, PayloadInv
  <2>3. \E locs \in Seq(Offer) : offers' = [offers EXCEPT ![id] = locs]
    <3>1. CASE \E offer \in Offers : offers' = [offers EXCEPT ![id] = Append(offers[id], offer)]
      BY <2>2, <3>1, OffersChange
    <3>2. CASE \E i \in 1..Len(offers[id]), offer \in Offers :
                 offers' = [offers EXCEPT ![id] = [offers[id] EXCEPT ![i] = offer]]
      BY <2>2, <3>2, OffersChange
    <3>3. CASE \E i \in 1..Len(offers[id]) : offers' = [offers EXCEPT ![id] = Without(offers[id], i)]
      BY <2>2, <3>3, OffersChange
    <3> QED BY <1>4, <3>1, <3>2, <3>3 DEF Relocate
  <2>4. offers' \in [RecordIds -> Seq(Offer)]
    BY <2>3 DEF PayloadInv
  <2> QED BY <2>1, <2>4 DEF PayloadInv, Stored
<1>5. ASSUME NEW s \in States, NEW e \in Epochs, NEW b \in Boots, NEW id \in RecordIds,
             NEW own \in Payloads, NEW g \in Gens, NEW l \in PublishedLifecycles,
             PublishWith(id, own, s, g, l, e, b)
      PROVE  PayloadInv' /\ \A o \in RecordIds : Stored(o) => payload'[o] = payload[o]
  <2>1. RegisterEffect(id, s, g, l, b)
    BY <1>5, RegisterStateEffect DEF IInv, Sound, PublishWith
  <2>2. own \in Payload /\ own.offers \in Seq(Offer)
    BY DEF Payload
  <2>3. records[id] = None
    BY <1>5 DEF PublishWith, RegisterState
  <2>4. \A o \in RecordIds : Stored(o)' /\ o # id => Stored(o)
    BY <2>1, RegisterKeeps DEF IInv, Sound
  <2>5. PayloadInv'
    BY <1>5, <2>2, <2>4 DEF PublishWith, PayloadInv
  <2> QED BY <1>5, <2>3, <2>5 DEF PublishWith, PayloadInv, Stored
<1> QED BY <1>2, <1>3, <1>4, <1>5 DEF QueryNext, queryVars, vars, recordVars, payloadVars

-----------------------------------------------------------------------------
(* What the filters of evaluate_candidate decide, in the order they run.   *)

PassesStatic(id, q) ==
  /\ q.kind \in {None, payload[id].kind}
  /\ q.owner \in {None, payload[id].owner}
  /\ q.state \in {None, records[id].state} \/ q.wildcard

Gone(id) ==
  \/ IsTombstoned(records[id].state, records[id].gen)
  \/ records[id].lifecycle \in {"INVALIDATED", "TOMBSTONED"}

OutOfView(id, q) ==
  /\ ~q.historical /\ ~q.includeInvalidated
  /\ records[id].lifecycle \in {"SUPERSEDED", "RETIRED", "MISSING", "FAILED"}

NotOfCurrent(id, q) ==
  \/ q.rule = "CURRENT" /\ ~q.historical /\ current[records[id].state] # id
  \/ q.rule = "AS_OF" /\ records[id].gen > q.gen

LEMMA GenerationReasons ==
  ASSUME NEW id, NEW q \in QueryDescriptor
  PROVE  /\ GenerationRefusal(id, q) \in {None, "NOT_CURRENT", "STALE_GENERATION"}
         /\ GenerationRefusal(id, q) = "NOT_CURRENT" <=> NotOfCurrent(id, q)
<1>1. q.rule \in {"CURRENT", "MINIMUM", "EXACT", "AS_OF", "ANY"}
  BY DEF QueryDescriptor, GenerationRules
<1>2. None \notin {"NOT_CURRENT", "STALE_GENERATION"}
  BY DEF RejectionReasons
<1> QED BY <1>1, <1>2 DEF GenerationRefusal, NotOfCurrent

LEMMA CompatibilityReasons ==
  ASSUME NEW id, NEW q
  PROVE  CompatibilityRefusal(id, q) \in {None, "INSUFFICIENT_EVIDENCE", "COMPATIBILITY_MISMATCH"}
BY DEF CompatibilityRefusal

LEMMA DependencyReasons ==
  ASSUME NEW id, NEW q
  PROVE  /\ DependencyRefusal(id, q) \in
              {None, "DEPENDENCY_MISMATCH", "MISSING_REQUIRED_DEPENDENCY"}
         /\ DependencyRefusal(id, q) = None => DepSatisfied(id)
<1>1. None \notin {"DEPENDENCY_MISMATCH", "MISSING_REQUIRED_DEPENDENCY"}
  BY DEF RejectionReasons
<1> QED BY <1>1 DEF DependencyRefusal

LEMMA RejectionByOrder ==
  ASSUME NEW id, NEW q \in QueryDescriptor
  PROVE  /\ Rejection(id, q) \in FinalReasons <=>
               PassesStatic(id, q) /\ (Gone(id) \/ OutOfView(id, q) \/ NotOfCurrent(id, q))
         /\ Rejection(id, q) \in {"INVALIDATED", "TOMBSTONED"} => Gone(id)
         /\ Rejection(id, q) \in {None, "COMPATIBILITY_MISMATCH", "DEPENDENCY_MISMATCH",
                                 "MISSING_REQUIRED_DEPENDENCY"} =>
               ~Gone(id) /\ GenerationRefusal(id, q) = None
         /\ Rejection(id, q) = None => DepSatisfied(id) /\ UsableFor(id, q) # {}
<1> DEFINE gr == GenerationRefusal(id, q)
           cr == CompatibilityRefusal(id, q)
           dr == DependencyRefusal(id, q)
<1>1. /\ gr \in {None, "NOT_CURRENT", "STALE_GENERATION"}
      /\ gr = "NOT_CURRENT" <=> NotOfCurrent(id, q)
  BY GenerationReasons
<1>2. cr \in {None, "INSUFFICIENT_EVIDENCE", "COMPATIBILITY_MISMATCH"}
  BY CompatibilityReasons
<1>3. /\ dr \in {None, "DEPENDENCY_MISMATCH", "MISSING_REQUIRED_DEPENDENCY"}
      /\ dr = None => DepSatisfied(id)
  BY DependencyReasons
<1>4. \A r \in RejectionReasons : r # None
  OBVIOUS
<1>5. PassesStatic(id, q) <=>
        ~ \/ q.kind \notin {None, payload[id].kind}
          \/ q.owner \notin {None, payload[id].owner}
          \/ q.state \notin {None, records[id].state} /\ ~q.wildcard
  BY DEF PassesStatic
<1>6. CASE ~PassesStatic(id, q)
  <2>1. Rejection(id, q) \in {"WRONG_STATE_KIND", "INSUFFICIENT_EVIDENCE"}
    BY <1>5, <1>6 DEF Rejection
  <2> QED BY <1>4, <1>6, <2>1 DEF FinalReasons, RejectionReasons
<1>7. CASE PassesStatic(id, q) /\ Gone(id)
  <2>1. Rejection(id, q) \in {"TOMBSTONED", "INVALIDATED"}
    BY <1>5, <1>7 DEF Rejection, Gone
  <2> QED BY <1>4, <1>7, <2>1 DEF FinalReasons, RejectionReasons
<1>8. CASE PassesStatic(id, q) /\ ~Gone(id) /\ OutOfView(id, q)
  <2>1. Rejection(id, q) = "NOT_CURRENT"
    BY <1>5, <1>8 DEF Rejection, Gone, OutOfView
  <2> QED BY <1>4, <1>8, <2>1 DEF FinalReasons, RejectionReasons
<1>9. CASE PassesStatic(id, q) /\ ~Gone(id) /\ ~OutOfView(id, q) /\ gr # None
  <2>1. Rejection(id, q) = gr
    BY <1>5, <1>9 DEF Rejection, Gone, OutOfView
  <2> QED BY <1>1, <1>4, <1>9, <2>1 DEF FinalReasons, RejectionReasons
<1>10. CASE PassesStatic(id, q) /\ ~Gone(id) /\ ~OutOfView(id, q) /\ gr = None
  <2>1. Rejection(id, q) \in
          {None, "INSUFFICIENT_EVIDENCE", "COMPATIBILITY_MISMATCH", "DEPENDENCY_MISMATCH",
           "MISSING_REQUIRED_DEPENDENCY", "LOCATION_UNAVAILABLE", "HEALTH_UNACCEPTABLE",
           "FRESHNESS_BELOW_REQUIREMENT"}
    BY <1>2, <1>3, <1>5, <1>10 DEF Rejection, Gone, OutOfView
  <2>2. Rejection(id, q) = None => dr = None /\ UsableFor(id, q) # {}
    BY <1>2, <1>3, <1>4, <1>5, <1>10 DEF Rejection, Gone, OutOfView, RejectionReasons
  <2>3. ~NotOfCurrent(id, q)
    BY <1>1, <1>4, <1>10 DEF RejectionReasons
  <2> QED BY <1>3, <1>4, <1>10, <2>1, <2>2, <2>3 DEF FinalReasons, RejectionReasons
<1> QED BY <1>6, <1>7, <1>8, <1>9, <1>10

-----------------------------------------------------------------------------
(* The answers.                                                            *)

LEMMA CurrentRecord ==
  ASSUME IInv, NEW s \in States, current[s] # None
  PROVE  /\ current[s] \in RecordIds
         /\ records[current[s]].state = s
         /\ records[current[s]] \in Record
         /\ current[s] \in history[s]
         /\ currentAuthority[s] = ClaimOf(records, current[s])
         /\ ~Gone(current[s]) <=> InService(current[s])
<1>1. /\ current[s] \in RecordIds /\ current[s] \in history[s] /\ Stored(current[s])
      /\ records[current[s]] \in Record /\ records[current[s]].state = s
  BY CurrentFacts DEF IInv, Sound
<1>2. ~IsTombstoned(s, records[current[s]].gen)
  BY DEF IInv, Sound, Coherent, CurrentIsServable
<1>3. InService(current[s]) \/ records[current[s]].lifecycle = "TOMBSTONED"
  BY DEF IInv, Sound, Coherent, CurrentIsServable, LeftByTombstone
<1>4. ~Gone(current[s]) <=> InService(current[s])
  BY <1>1, <1>2, <1>3 DEF Gone, InService, WithdrawnLifecycles
<1>5. currentAuthority[s] = ClaimOf(records, current[s])
  BY DEF IInv, AuthorityMirrorsCurrent
<1> QED BY <1>1, <1>4, <1>5

LEMMA LookedAtStored ==
  ASSUME IInv, NEW q \in QueryDescriptor, NEW id \in LookedAt(q)
  PROVE  /\ id \in RecordIds /\ Stored(id) /\ records[id] \in Record
         /\ q.state # None => records[id].state = q.state
BY DEF LookedAt, IInv, Sound, Coherent, HistoryComplete, TypeOK, Stored, QueryDescriptor

LEMMA CurrentAnswersLemma == IInv => CurrentAnswersAuthority
<1> SUFFICES ASSUME IInv, NEW q \in Queries, q.rule = "CURRENT", ~q.historical,
                    NEW id \in InScope(q)
             PROVE  /\ InService(id)
                    /\ records[id].gen > tombstoneFloor[records[id].state]
                    /\ currentAuthority[records[id].state] = ClaimOf(records, id)
                    /\ q.state # None => InScope(q) = {id}
  BY DEF CurrentAnswersAuthority
<1> DEFINE cur(o) == current[records[o].state] = o
<1>1. q \in QueryDescriptor
  OBVIOUS
<1>2. ASSUME NEW o \in InScope(q)
      PROVE  /\ o \in RecordIds /\ records[o] \in Record /\ cur(o)
             /\ q.state # None => records[o].state = q.state
             /\ ~Gone(o)
  <2>1. o \in LookedAt(q) /\ Rejection(o, q) = None
    BY DEF InScope
  <2>2. GenerationRefusal(o, q) = None /\ ~Gone(o)
    BY <1>1, <2>1, RejectionByOrder
  <2>3. ~NotOfCurrent(o, q)
    BY <1>1, <2>2, GenerationReasons DEF RejectionReasons
  <2> QED BY <1>1, <2>1, <2>2, <2>3, LookedAtStored DEF NotOfCurrent
<1>3. id \in RecordIds /\ records[id].state \in States /\ cur(id) /\ ~Gone(id)
  BY <1>2 DEF Record
<1>4. InService(id) /\ currentAuthority[records[id].state] = ClaimOf(records, id)
  BY <1>3, CurrentRecord
<1>5. records[id].gen > tombstoneFloor[records[id].state]
  BY <1>3, <1>4 DEF IInv, FloorHolds
<1>6. ASSUME q.state # None, NEW o \in InScope(q)
      PROVE  o = id
  BY <1>2, <1>6
<1> QED BY <1>4, <1>5, <1>6

LEMMA DependentsLemma == IInv /\ PayloadInv => DependentsFollow
<1> SUFFICES ASSUME IInv, PayloadInv, NEW q \in Queries, NEW id \in InScope(q),
                    NEW dep \in payload[id].deps, dep.required
             PROVE  \E other \in RecordIds :
                      /\ InService(other)
                      /\ records[other].state = dep.state
                      /\ records[other].gen >= dep.gen
                      /\ currentAuthority[dep.state] = ClaimOf(records, other)
  BY DEF DependentsFollow
<1>1. id \in RecordIds /\ Stored(id) /\ Rejection(id, q) = None
  BY LookedAtStored DEF InScope
<1>2. DepSatisfied(id)
  BY <1>1, RejectionByOrder
<1>3. dep.state \in States
  BY <1>1 DEF PayloadInv, Payload, Dependency
<1>4. current[dep.state] # None /\ records[current[dep.state]].gen >= dep.gen
  BY <1>2 DEF DepSatisfied, CurrentFrom
<1>5. InService(current[dep.state])
  <2>1. records[current[dep.state]].lifecycle \notin {"INVALIDATED", "TOMBSTONED"}
    BY <1>2 DEF DepSatisfied
  <2>2. ~IsTombstoned(dep.state, records[current[dep.state]].gen)
    BY <1>3, <1>4 DEF IInv, Sound, Coherent, CurrentIsServable
  <2> QED BY <1>3, <1>4, <2>1, <2>2, CurrentRecord DEF Gone
<1> QED BY <1>3, <1>4, <1>5, CurrentRecord

(* CategoryOf, the other way round.                                        *)
LEMMA Categories ==
  ASSUME NEW r
  PROVE  /\ CategoryOf(r) = "invalidated" => r \in {"INVALIDATED", "TOMBSTONED"}
         /\ CategoryOf(r) = "incompatible" =>
              r \in {"COMPATIBILITY_MISMATCH", "DEPENDENCY_MISMATCH", "MISSING_REQUIRED_DEPENDENCY"}
BY DEF CategoryOf

LEMMA OutcomeLemma == IInv => OutcomeTellsWhy
<1> SUFFICES ASSUME IInv, NEW q \in Queries, q.rule = "CURRENT", ~q.historical, q.state # None
             PROVE  /\ Outcome(q) = "INVALIDATED_ONLY" =>
                         \A id \in RecordIds : InService(id) => records[id].state # q.state
                    /\ Outcome(q) = "INCOMPATIBLE_ONLY" => current[q.state] # None
  BY DEF OutcomeTellsWhy
<1>1. q \in QueryDescriptor /\ q.state \in States
  BY DEF QueryDescriptor
<1>2. ASSUME Outcome(q) = "INVALIDATED_ONLY",
             NEW id \in RecordIds, InService(id), records[id].state = q.state
      PROVE  FALSE
  <2>1. EmptyOutcome(q) = "INVALIDATED_ONLY"
    BY <1>2 DEF Outcome
  <2>2. Seen(q) = {"invalidated"}
    BY <2>1 DEF EmptyOutcome
  <2> DEFINE c == current[q.state]
  <2>3. c # None /\ InService(c)
    <3>1. id \in history[q.state] /\ c # None
      BY <1>2, SoundFacts DEF IInv
    <3>2. ~InService(c) => ~InService(id)
      BY <1>1, <3>1 DEF IInv, Sound, Coherent, LeftBehind
    <3> QED BY <1>2, <3>1, <3>2
  <2>4. c \in LookedAt(q)
    BY <1>1, <2>3, CurrentRecord DEF LookedAt
  <2>5. CategoryOf(Rejection(c, q)) = "invalidated"
    BY <2>2, <2>4 DEF Seen
  <2>6. Gone(c)
    BY <1>1, <2>5, Categories, RejectionByOrder
  <2> QED BY <1>1, <2>3, <2>6, CurrentRecord
<1>3. ASSUME Outcome(q) = "INCOMPATIBLE_ONLY"
      PROVE  current[q.state] # None
  <2>1. EmptyOutcome(q) = "INCOMPATIBLE_ONLY"
    BY <1>3 DEF Outcome
  <2>2. "incompatible" \in Seen(q)
    BY <2>1 DEF EmptyOutcome
  <2>3. PICK id \in LookedAt(q) : CategoryOf(Rejection(id, q)) = "incompatible"
    BY <2>2 DEF Seen
  <2>4. GenerationRefusal(id, q) = None
    BY <1>1, <2>3, Categories, RejectionByOrder
  <2>5. current[records[id].state] = id
    BY <1>1, <2>4, GenerationReasons DEF NotOfCurrent, RejectionReasons
  <2> QED BY <1>1, <2>3, <2>5, LookedAtStored
<1> QED BY <1>2, <1>3

-----------------------------------------------------------------------------
(* How a stored record's lifecycle changes.                                *)

LEMMA CoveredLifecycle ==
  ASSUME IInv, NEW s \in States, NEW g \in Nat, NEW l \in WithdrawnLifecycles,
         records' = RetireCovered(s, g, l), NEW o \in RecordIds, Stored(o)
  PROVE  records'[o].lifecycle =
           IF records[o].state = s /\ records[o].gen <= g THEN l ELSE records[o].lifecycle
<1>1. o \in history[s] <=> records[o].state = s
  BY DEF IInv, Sound, HistoryComplete
<1> QED BY <1>1, RetireCoveredEffect DEF IInv, Sound

(* It changes to a withdrawn one; to SUPERSEDED only of a current record.  *)
LEMMA LifecycleStep ==
  ASSUME IInv, [Next]_vars, NEW o \in RecordIds, Stored(o)
  PROVE  \/ records'[o].lifecycle = records[o].lifecycle
         \/ records'[o].lifecycle \in {"INVALIDATED", "TOMBSTONED"}
         \/ records'[o].lifecycle = "SUPERSEDED" /\ current[records[o].state] = o
<1>1. CASE UNCHANGED <<recordVars, tombstoneFloor, currentAuthority>>
  BY <1>1 DEF recordVars
<1>2. ASSUME NEW s \in States, NEW g \in Gens, NEW e \in Epochs, NEW b \in Boots,
             NEW id \in RecordIds, NEW l \in PublishedLifecycles,
             RegisterState(id, s, g, l, e, b)
      PROVE  \/ records'[o].lifecycle = records[o].lifecycle
             \/ records'[o].lifecycle = "SUPERSEDED" /\ current[records[o].state] = o
  <2>1. RegisterEffect(id, s, g, l, b)
    BY <1>2, RegisterStateEffect DEF IInv, Sound
  <2>2. o # id
    BY <2>1 DEF RegisterEffect, Stored
  <2>3. CASE TakesOver(s, g) /\ o = current[s]
    <3>1. /\ records[o] \in Record /\ records[o].state = s
          /\ records'[o] = Retire(records[o], "SUPERSEDED")
      BY <2>1, <2>3, EngineAssumption DEF RegisterEffect
    <3>2. "SUPERSEDED" \in Lifecycles
      BY DEF Lifecycles, WithdrawnLifecycles
    <3> QED BY <2>3, <3>1, <3>2, RetireType
  <2>4. CASE ~(TakesOver(s, g) /\ o = current[s])
    BY <2>1, <2>2, <2>4 DEF RegisterEffect
  <2> QED BY <2>3, <2>4
<1>3. ASSUME NEW s \in States, NEW g \in Gens, NEW e \in Epochs, NEW b \in Boots,
             \/ Invalidate(s, g, e, b)
             \/ \E flag \in TombstoneFlags : Tombstone(s, g, flag, e, b)
      PROVE  \/ records'[o].lifecycle = records[o].lifecycle
             \/ records'[o].lifecycle \in {"INVALIDATED", "TOMBSTONED"}
  <2>1. g \in Nat /\ "INVALIDATED" \in WithdrawnLifecycles /\ "TOMBSTONED" \in WithdrawnLifecycles
    BY DEF Gens, WithdrawnLifecycles
  <2>2. records' = RetireCovered(s, g, "INVALIDATED") \/ records' = RetireCovered(s, g, "TOMBSTONED")
    BY <1>3 DEF Invalidate, Tombstone
  <2>3. CASE records' = RetireCovered(s, g, "INVALIDATED")
    BY <2>1, <2>3, CoveredLifecycle
  <2>4. CASE records' = RetireCovered(s, g, "TOMBSTONED")
    BY <2>1, <2>4, CoveredLifecycle
  <2> QED BY <2>2, <2>3, <2>4
<1> QED BY <1>1, <1>2, <1>3, StepCases

(* A record under a tombstone in force is invalidated or tombstoned,       *)
(* whether or not it had been superseded before: tombstone walks the whole *)
(* history, publication is refused, and supersession reaches only the      *)
(* current record, which no tombstone in force covers.                     *)
CoveredGone ==
  \A id \in RecordIds :
    Stored(id) /\ IsTombstoned(records[id].state, records[id].gen)
      => records[id].lifecycle \in {"INVALIDATED", "TOMBSTONED"}

(* A step that gives a state another tombstone takes out all that lies     *)
(* below it, in force or not.                                              *)
LEMMA FloorStep ==
  ASSUME IInv, [Next]_vars, NEW o \in RecordIds, Stored(o)
  PROVE  LET s == records[o].state
         IN \/ tombstones'[s] = tombstones[s]
            \/ /\ tombstones'[s].floor > tombstones[s].floor
               /\ records[o].gen <= tombstones'[s].floor => records'[o].lifecycle = "TOMBSTONED"
<1> DEFINE s == records[o].state
           Kept == \/ tombstones'[s] = tombstones[s]
                   \/ /\ tombstones'[s].floor > tombstones[s].floor
                      /\ records[o].gen <= tombstones'[s].floor => records'[o].lifecycle = "TOMBSTONED"
<1>1. ASSUME UNCHANGED tombstones PROVE Kept
  BY <1>1
<1>2. ASSUME NEW x \in States, NEW g \in Gens, NEW e \in Epochs, NEW b \in Boots,
             NEW flag \in TombstoneFlags, Tombstone(x, g, flag, e, b)
      PROVE  Kept
  <2>1. /\ tombstones[x].floor < g
        /\ tombstones' = [tombstones EXCEPT ![x] = [floor |-> g, current |-> flag]]
        /\ records' = RetireCovered(x, g, "TOMBSTONED")
    BY <1>2 DEF Tombstone
  <2>2. g \in Nat /\ "TOMBSTONED" \in WithdrawnLifecycles /\ tombstones[x].floor \in Int
    BY FloorFacts DEF Gens, WithdrawnLifecycles, IInv, Sound
  <2>3. records'[o].lifecycle =
          IF s = x /\ records[o].gen <= g THEN "TOMBSTONED" ELSE records[o].lifecycle
    BY <2>1, <2>2, CoveredLifecycle
  <2>4. tombstones'[x] = [floor |-> g, current |-> flag]
    BY <2>1 DEF IInv, Sound, Coherent, TypeOK
  <2>5. CASE s = x
    <3>1. tombstones'[s].floor = g
      BY <2>4, <2>5
    <3> QED BY <2>1, <2>2, <2>3, <2>5, <3>1
  <2>6. CASE s # x
    BY <2>1, <2>6
  <2> QED BY <2>5, <2>6
<1>3. ASSUME NEW x \in States, NEW g \in Gens, NEW e \in Epochs, NEW b \in Boots,
             \/ \E id \in RecordIds, l \in PublishedLifecycles : RegisterState(id, x, g, l, e, b)
             \/ Invalidate(x, g, e, b)
      PROVE  Kept
  <2>1. UNCHANGED tombstones
    BY <1>3 DEF RegisterState, Invalidate
  <2> HIDE DEF Kept
  <2> QED BY <1>1, <2>1
<1>4. ASSUME UNCHANGED <<recordVars, tombstoneFloor, currentAuthority>> PROVE Kept
  <2>1. UNCHANGED tombstones
    BY <1>4 DEF recordVars
  <2> HIDE DEF Kept
  <2> QED BY <1>1, <2>1
<1> HIDE DEF Kept
<1>5. Kept
  BY <1>1, <1>2, <1>3, <1>4, StepCases
<1> QED BY <1>5 DEF Kept

LEMMA CoveredGoneStep ==
  ASSUME IInv, CoveredGone, [Next]_vars
  PROVE  CoveredGone'
<1> SUFFICES ASSUME NEW id \in RecordIds, Stored(id)',
                    Covers(tombstones'[records'[id].state], records'[id].gen)
             PROVE  records'[id].lifecycle \in {"INVALIDATED", "TOMBSTONED"}
  BY DEF CoveredGone, Stored, IsTombstoned
<1>1. CASE Stored(id)
  <2> DEFINE s == records[id].state
  <2>1. /\ records[id] \in Record /\ s \in States
        /\ records'[id].state = s /\ records'[id].gen = records[id].gen
    BY <1>1, IdentityStep DEF IInv, Sound, Coherent, TypeOK, Stored, Record, SameIdentity
  <2>2. CASE tombstones'[s] # tombstones[s]
    BY <1>1, <2>1, <2>2, FloorStep DEF Covers
  <2>3. CASE tombstones'[s] = tombstones[s]
    <3>1. IsTombstoned(s, records[id].gen)
      BY <2>1, <2>3 DEF IsTombstoned
    <3>2. records[id].lifecycle \in {"INVALIDATED", "TOMBSTONED"}
      BY <1>1, <3>1 DEF CoveredGone
    <3>3. current[s] # id
      BY <2>1, <3>1, EngineAssumption DEF IInv, Sound, Coherent, CurrentIsServable
    <3> QED BY <1>1, <3>2, <3>3, LifecycleStep
  <2> QED BY <2>2, <2>3
<1>2. CASE ~Stored(id)
  <2>1. ASSUME NEW s \in States, NEW g \in Gens, NEW e \in Epochs, NEW b \in Boots,
               NEW o \in RecordIds, NEW l \in PublishedLifecycles,
               RegisterState(o, s, g, l, e, b)
        PROVE  FALSE
    <3>1. RegisterEffect(o, s, g, l, b)
      BY <2>1, RegisterStateEffect DEF IInv, Sound
    <3>2. id = o
      BY <1>2, <3>1, RegisterKeeps DEF IInv, Sound
    <3>3. records'[id].gen = g /\ records'[id].state = s /\ tombstones' = tombstones
      BY <3>1, <3>2 DEF RegisterEffect, NewRecord
    <3> QED BY <3>1, <3>3 DEF RegisterEffect, IsTombstoned
  <2>2. ASSUME NEW s \in States, NEW g \in Gens, NEW e \in Epochs, NEW b \in Boots,
               \/ Invalidate(s, g, e, b)
               \/ \E flag \in TombstoneFlags : Tombstone(s, g, flag, e, b)
        PROVE  FALSE
    <3>1. g \in Nat /\ "INVALIDATED" \in WithdrawnLifecycles /\ "TOMBSTONED" \in WithdrawnLifecycles
      BY DEF Gens, WithdrawnLifecycles
    <3>2. records' = RetireCovered(s, g, "INVALIDATED") \/ records' = RetireCovered(s, g, "TOMBSTONED")
      BY <2>2 DEF Invalidate, Tombstone
    <3>3. Stored(id)' <=> Stored(id)
      BY <3>1, <3>2, RetireCoveredEffect DEF IInv, Sound
    <3> QED BY <1>2, <3>3
  <2>3. CASE UNCHANGED <<recordVars, tombstoneFloor, currentAuthority>>
    BY <1>2, <2>3 DEF recordVars, Stored
  <2> QED BY <2>1, <2>2, <2>3, StepCases
<1> QED BY <1>1, <1>2

LEMMA QueryInductive == QuerySpec => [](IInv /\ PayloadInv /\ CoveredGone)
<1>1. QueryInit => CoveredGone
  BY DEF QueryInit, Init, CoveredGone, Stored
<1>2. IInv /\ IInv' /\ PayloadInv /\ [QueryNext]_queryVars => PayloadInv'
  BY PayloadStep
<1>3. IInv /\ CoveredGone /\ [Next]_vars => CoveredGone'
  BY CoveredGoneStep
<1> QED BY <1>1, <1>2, <1>3, PayloadInit, QueriesRunEngine, InductiveInvariant, PTL
       DEF QuerySpec, Spec

-----------------------------------------------------------------------------
(* Historical access.                                                      *)

LEMMA HistoricalDescriptor ==
  ASSUME NEW s \in States, NEW g \in Nat, NEW include \in BOOLEAN
  PROVE  HistoricalQuery(s, g, include) \in QueryDescriptor
BY DEF HistoricalQuery, QueryDescriptor, GenerationRules, CompatibilityRequirements, Healths

LEMMA ReachableLemma == IInv /\ PayloadInv /\ CoveredGone => HistoryReachable
<1> SUFFICES ASSUME IInv, PayloadInv, CoveredGone, NEW id \in RecordIds, Stored(id),
                    NEW include \in BOOLEAN,
                    records[id].lifecycle \notin {"INVALIDATED", "TOMBSTONED"},
                    DepSatisfied(id), Usable(id) # {}
             PROVE  id \in InScope(HistoricalQuery(records[id].state, records[id].gen, include))
  BY DEF HistoryReachable
<1> DEFINE s == records[id].state
           g == records[id].gen
           q == HistoricalQuery(s, g, include)
<1>0. records[id] \in Record /\ payload[id] \in Payload /\ offers[id] \in Seq(Offer)
  BY DEF IInv, Sound, Coherent, TypeOK, Stored, PayloadInv
<1>1. s \in States /\ g \in Nat /\ payload[id].freshness \in Nat
  BY <1>0 DEF Record, Payload
<1>2. /\ q.state = s /\ q.wildcard = FALSE /\ q.kind = None /\ q.owner = None
      /\ q.rule = "EXACT" /\ q.gen = g /\ q.compat = "NONE" /\ q.deps = {} /\ q.nodes = {}
      /\ q.health = "UNKNOWN" /\ q.replicas = 0 /\ q.freshness = 0 /\ q.maxCost = 0
      /\ q.historical = TRUE
  BY DEF HistoricalQuery
<1> HIDE DEF q
<1>3. id \in LookedAt(q)
  BY <1>1, <1>2 DEF LookedAt, IInv, Sound, HistoryComplete
<1>4. ~IsTombstoned(s, g)
  BY DEF CoveredGone
<1>5. GenerationRefusal(id, q) = None /\ CompatibilityRefusal(id, q) = None
  BY <1>2 DEF GenerationRefusal, CompatibilityRefusal
<1>6. DependencyRefusal(id, q) = None
  BY <1>2 DEF DependencyRefusal
<1>7. UsableFor(id, q) = Usable(id) /\ Cardinality(Usable(id)) \in Nat
  <2>1. Len(offers[id]) \in Nat /\ Usable(id) \subseteq 1..Len(offers[id])
    BY <1>0 DEF Usable
  <2>2. IsFiniteSet(Usable(id))
    <3>1. 1 \in Int /\ Len(offers[id]) \in Int
      BY <2>1
    <3>2. IsFiniteSet(1..Len(offers[id]))
      BY <3>1, FS_Interval
    <3> QED BY <2>1, <3>2, FS_Subset
  <2>3. UsableFor(id, q) = Usable(id)
    BY <1>2 DEF UsableFor
  <2> QED BY <2>2, <2>3, FS_CardinalityType
<1>8. /\ ~(payload[id].freshness < q.freshness)
      /\ ~(Cardinality(UsableFor(id, q)) < q.replicas)
      /\ ~(q.maxCost > 0)
      /\ UsableFor(id, q) # {}
  BY <1>1, <1>2, <1>7
<1>9. Rejection(id, q) = None
  BY <1>2, <1>4, <1>5, <1>6, <1>8, Zenon DEF Rejection
<1> QED BY <1>3, <1>9 DEF InScope, q

-----------------------------------------------------------------------------
(* Refusals.                                                               *)

Refused(id, q) == PassesStatic(id, q) /\ (Gone(id) \/ OutOfView(id, q) \/ NotOfCurrent(id, q))

LEMMA RefusedStep ==
  ASSUME IInv, CoveredGone, [Next]_vars,
         NEW id \in RecordIds, Stored(id), ~LeftCurrent(id), payload'[id] = payload[id],
         NEW q \in QueryDescriptor, Refused(id, q)
  PROVE  Refused(id, q)'
<1> DEFINE s == records[id].state
<1>1. /\ Stored(id)' /\ s \in States
      /\ records'[id].state = s /\ records'[id].gen = records[id].gen
  BY IdentityStep DEF IInv, Sound, Coherent, TypeOK, Stored, Record, SameIdentity
<1>2. PassesStatic(id, q)'
  BY <1>1 DEF Refused, PassesStatic
<1>3. CASE Gone(id)
  <2>1. records[id].lifecycle \in {"INVALIDATED", "TOMBSTONED"}
    BY <1>3 DEF Gone, CoveredGone
  <2>2. current[s] # id
    BY <2>1 DEF LeftCurrent, InService, WithdrawnLifecycles
  <2>3. records'[id].lifecycle \in {"INVALIDATED", "TOMBSTONED"}
    BY <2>1, <2>2, LifecycleStep
  <2> QED BY <1>2, <2>3 DEF Refused, Gone
<1>4. CASE OutOfView(id, q)
  BY <1>2, <1>4, LifecycleStep DEF OutOfView, Gone, Refused
<1>5. CASE NotOfCurrent(id, q)
  <2>1. current[s] # id => current'[s] # id
    <3>1. id # None
      OBVIOUS
    <3> QED BY <1>1, <3>1, CurrentStep DEF IInv, Sound
  <2>2. NotOfCurrent(id, q)'
    BY <1>1, <1>5, <2>1 DEF NotOfCurrent
  <2> QED BY <1>2, <2>2 DEF Refused
<1> QED BY <1>3, <1>4, <1>5 DEF Refused

LEMMA RefusedIsFinalReason ==
  \A id \in RecordIds, q \in QueryDescriptor :
    Rejection(id, q) \in FinalReasons <=> Refused(id, q)
BY RejectionByOrder DEF Refused

-----------------------------------------------------------------------------
(* The ranking.                                                            *)

(* Factors that are all numbers.  NaN is none of them, so Exceeds is > and *)
(* Differ is #.                                                            *)
Numeric(f) == \A i \in FactorPositions : f[i] \in Int
Higher(f, h, i) == f[i] > h[i] /\ \A j \in 1..(i - 1) : f[j] = h[j]

LEMMA NumericOrder ==
  ASSUME NEW f, NEW h, Numeric(f), Numeric(h)
  PROVE  /\ Outweighs(f, h) <=> \E i \in FactorPositions : Higher(f, h, i)
         /\ Tied(f, h) <=> \A i \in FactorPositions : f[i] = h[i]
<1>1. ASSUME NEW i \in FactorPositions
      PROVE  (Exceeds(f[i], h[i]) <=> f[i] > h[i]) /\ (Differ(f[i], h[i]) <=> f[i] # h[i])
  <2>1. f[i] \in Int /\ h[i] \in Int /\ NaN \notin Int
    BY DEF Numeric
  <2>2. f[i] # NaN /\ h[i] # NaN
    BY <2>1
  <2> QED BY <2>2 DEF Exceeds, Differ
<1>2. \A i \in FactorPositions : 1..(i - 1) \subseteq FactorPositions
  BY DEF FactorPositions
<1> HIDE DEF FactorPositions
<1>3. ASSUME NEW i \in FactorPositions
      PROVE  Exceeds(f[i], h[i]) /\ (\A j \in 1..(i - 1) : ~Differ(f[j], h[j])) <=> Higher(f, h, i)
  BY <1>1, <1>2 DEF Higher
<1> QED BY <1>1, <1>3 DEF Outweighs, Tied

(* The first position at which two such differ (the shortest of the        *)
(* intervals that end at one).                                             *)
LEMMA FirstPosition ==
  ASSUME NEW T, T \subseteq FactorPositions, T # {}
  PROVE  \E m \in T : \A n \in T : m <= n
<1> DEFINE Upto(k) == 1..k
           Starts == {Upto(k) : k \in T}
           R == StrictSubsetOrdering(FactorPositions)
<1>1. IsFiniteSet(FactorPositions)
  <2>1. 1 \in Int /\ 14 \in Int
    OBVIOUS
  <2>2. IsFiniteSet(1..14)
    BY <2>1, FS_Interval
  <2> QED BY <2>2 DEF FactorPositions
<1>2. IsWellFoundedOn(R, SUBSET FactorPositions)
  BY <1>1, FS_StrictSubsetOrderingWellFounded, FS_FiniteSubsetsOfFinite
<1>3. Starts \subseteq SUBSET FactorPositions /\ Starts # {}
  <2>1. ASSUME NEW k \in T PROVE Upto(k) \subseteq FactorPositions
    BY DEF FactorPositions
  <2>2. PICK k \in T : TRUE
    OBVIOUS
  <2>3. Upto(k) \in Starts
    OBVIOUS
  <2> HIDE DEF Upto
  <2> QED BY <2>1, <2>3
<1>4. PICK start \in Starts : \A other \in Starts : <<other, start>> \notin R
  <2> HIDE DEF R, Starts
  <2> QED BY <1>2, <1>3, WFMin
<1>5. PICK m \in T : start = Upto(m)
  OBVIOUS
<1>6. ASSUME NEW n \in T, ~(m <= n) PROVE FALSE
  <2>1. m \in Nat /\ n \in Nat /\ 1 <= n /\ n < m
    BY <1>6 DEF FactorPositions
  <2>2. Upto(n) \subseteq Upto(m)
    BY <2>1
  <2>3. m \in Upto(m) /\ m \notin Upto(n)
    BY <2>1
  <2>4. Upto(n) \in Starts /\ Upto(m) \in Starts
    OBVIOUS
  <2> HIDE DEF Upto, Starts
  <2>5. <<Upto(n), Upto(m)>> \in (SUBSET FactorPositions) \X (SUBSET FactorPositions)
    BY <1>3, <2>4
  <2>6. <<Upto(n), Upto(m)>> \in R
    BY <2>2, <2>3, <2>5 DEF StrictSubsetOrdering
  <2> QED BY <1>4, <1>5, <2>4, <2>6
<1> QED BY <1>6

LEMMA OutweighsAsymmetric ==
  ASSUME NEW f, NEW h, Numeric(f), Numeric(h), Outweighs(f, h)
  PROVE  ~Outweighs(h, f) /\ ~Tied(f, h) /\ ~Tied(h, f)
<1>1. PICK i \in FactorPositions : Higher(f, h, i)
  BY NumericOrder
<1>2. \A k \in FactorPositions : f[k] \in Int /\ h[k] \in Int
  BY DEF Numeric
<1>3. ASSUME NEW k \in FactorPositions, Higher(h, f, k)
      PROVE  FALSE
  BY <1>1, <1>2, <1>3 DEF Higher, FactorPositions
<1>4. f[i] # h[i]
  BY <1>1, <1>2 DEF Higher
<1> QED BY <1>3, <1>4, NumericOrder

LEMMA OutweighsTotal ==
  ASSUME NEW f, NEW h, Numeric(f), Numeric(h), ~Tied(f, h)
  PROVE  Outweighs(f, h) \/ Outweighs(h, f)
<1> DEFINE differ == {k \in FactorPositions : f[k] # h[k]}
<1>1. differ \subseteq FactorPositions /\ differ # {}
  BY NumericOrder
<1>2. PICK k \in differ : \A n \in differ : k <= n
  <2> HIDE DEF differ
  <2> QED BY <1>1, FirstPosition
<1>3. f[k] \in Int /\ h[k] \in Int /\ f[k] # h[k] /\ k \in FactorPositions
  BY DEF Numeric
<1>4. \A j \in 1..(k - 1) : f[j] = h[j]
  <2> SUFFICES ASSUME NEW j \in 1..(k - 1), f[j] # h[j] PROVE FALSE
    OBVIOUS
  <2>1. j \in FactorPositions /\ j < k
    BY <1>3 DEF FactorPositions
  <2>2. k <= j
    BY <1>2, <2>1
  <2> QED BY <1>3, <2>1, <2>2 DEF FactorPositions
<1>5. Higher(f, h, k) \/ Higher(h, f, k)
  BY <1>3, <1>4 DEF Higher
<1> QED BY <1>3, <1>5, NumericOrder

LEMMA OutweighsTransitive ==
  ASSUME NEW f, NEW h, NEW m, Numeric(f), Numeric(h), Numeric(m)
  PROVE  /\ Outweighs(f, h) /\ Outweighs(h, m) => Outweighs(f, m)
         /\ Outweighs(f, h) /\ Tied(h, m) => Outweighs(f, m)
         /\ Tied(f, h) /\ Outweighs(h, m) => Outweighs(f, m)
         /\ Tied(f, h) /\ Tied(h, m) => Tied(f, m)
<1>1. \A k \in FactorPositions : f[k] \in Int /\ h[k] \in Int /\ m[k] \in Int
  BY DEF Numeric
<1>2. ASSUME NEW i \in FactorPositions, NEW k \in FactorPositions, Higher(f, h, i), Higher(h, m, k)
      PROVE  Outweighs(f, m)
  <2>1. CASE i <= k
    <3>1. Higher(f, m, i)
      BY <1>1, <1>2, <2>1 DEF Higher, FactorPositions
    <3> QED BY <3>1, NumericOrder
  <2>2. CASE k < i
    <3>1. Higher(f, m, k)
      BY <1>1, <1>2, <2>2 DEF Higher, FactorPositions
    <3> QED BY <3>1, NumericOrder
  <2> QED BY <2>1, <2>2 DEF FactorPositions
<1>3. ASSUME NEW i \in FactorPositions,
             \/ Higher(f, h, i) /\ Tied(h, m)
             \/ Tied(f, h) /\ Higher(h, m, i)
      PROVE  Outweighs(f, m)
  <2>1. 1..(i - 1) \subseteq FactorPositions
    BY DEF FactorPositions
  <2>2. Higher(f, m, i)
    <3> HIDE DEF FactorPositions
    <3> QED BY <1>3, <2>1, NumericOrder DEF Higher
  <2> QED BY <2>2, NumericOrder
<1> QED BY <1>2, <1>3, NumericOrder

LEMMA AssessmentFacts ==
  ASSUME IInv, NEW q \in Queries, NEW a \in Numbered(q)
  PROVE  /\ a.record_id \in Nat /\ a.generation \in Nat /\ Numeric(a.factors)
         /\ \A b \in Numbered(q) : a.record_id = b.record_id => a = b
<1>1. ASSUME NEW x \in Numbered(q)
      PROVE  /\ x.record_id \in InScope(q) /\ x = Assessment(x.record_id, q)
             /\ Numeric(x.factors)
  <2>1. PICK id \in InScope(q) : x = Assessment(id, q)
    BY DEF Numbered
  <2>2. x.record_id = id
    BY <2>1 DEF Assessment
  <2> QED BY <2>1, <2>2 DEF Numbered, Numeric
<1>2. a.record_id \in RecordIds /\ records[a.record_id] \in Record
  BY <1>1, LookedAtStored DEF InScope
<1>3. a.generation = records[a.record_id].gen
  BY <1>1 DEF Assessment
<1> QED BY <1>1, <1>2, <1>3 DEF Record

LEMMA RankingLemma == IInv => RankingIsTotal
<1> SUFFICES ASSUME IInv, NEW q \in Queries,
                    NEW a \in Numbered(q), NEW b \in Numbered(q)
             PROVE  /\ ~Less(a, a)
                    /\ a # b => (Less(a, b) <=> ~Less(b, a))
                    /\ \A c \in Numbered(q) : Less(a, b) /\ Less(b, c) => Less(a, c)
  BY DEF RankingIsTotal
<1>1. ASSUME NEW x \in Numbered(q)
      PROVE  /\ x.record_id \in Nat /\ x.generation \in Nat /\ Numeric(x.factors)
             /\ \A y \in Numbered(q) : x.record_id = y.record_id => x = y
  BY AssessmentFacts
<1>2. Tied(a.factors, b.factors) <=> Tied(b.factors, a.factors)
  BY <1>1, NumericOrder
<1>3. ~Less(a, a)
  BY <1>1, OutweighsAsymmetric DEF Less
<1>4. ASSUME a # b
      PROVE  Less(a, b) <=> ~Less(b, a)
  <2>1. a.record_id # b.record_id
    BY <1>1, <1>4
  <2>2. CASE Tied(a.factors, b.factors)
    <3>1. ~Outweighs(a.factors, b.factors) /\ ~Outweighs(b.factors, a.factors)
      BY <1>1, <1>2, <2>2, OutweighsAsymmetric
    <3> QED BY <1>1, <1>2, <2>1, <2>2, <3>1 DEF Less
  <2>3. CASE ~Tied(a.factors, b.factors)
    <3>1. Outweighs(a.factors, b.factors) <=> ~Outweighs(b.factors, a.factors)
      BY <1>1, <2>3, OutweighsAsymmetric, OutweighsTotal
    <3> QED BY <1>2, <2>3, <3>1 DEF Less
  <2> QED BY <2>2, <2>3
<1>5. ASSUME NEW c \in Numbered(q), Less(a, b), Less(b, c)
      PROVE  Less(a, c)
  <2>1. CASE Tied(a.factors, b.factors) /\ Tied(b.factors, c.factors)
    <3>1. /\ Tied(a.factors, c.factors)
          /\ ~Outweighs(a.factors, b.factors) /\ ~Outweighs(b.factors, c.factors)
      BY <1>1, <2>1, OutweighsTransitive, OutweighsAsymmetric
    <3>2. /\ a.record_id \in Nat /\ b.record_id \in Nat /\ c.record_id \in Nat
          /\ a.generation \in Nat /\ b.generation \in Nat /\ c.generation \in Nat
      BY <1>1
    <3> QED BY <1>5, <3>1, <3>2 DEF Less
  <2>2. CASE ~(Tied(a.factors, b.factors) /\ Tied(b.factors, c.factors))
    <3>1. Outweighs(a.factors, c.factors)
      BY <1>1, <1>5, <2>2, OutweighsTransitive DEF Less
    <3> QED BY <3>1 DEF Less
  <2> QED BY <2>1, <2>2
<1> QED BY <1>3, <1>4, <1>5

-----------------------------------------------------------------------------
(* The results.                                                            *)

(* Every variable keeps its type.                                          *)
THEOREM QueryTypeCorrect == QuerySpec => []QueryTypeOK
<1>1. IInv /\ PayloadInv => QueryTypeOK
  BY DEF IInv, Sound, Coherent, PayloadInv, QueryTypeOK
<1> QED BY <1>1, QueryInductive, PTL

(* Ordinary CURRENT queries return exactly what the registry judges        *)
(* publications by.                                                        *)
THEOREM CurrentAnswers == QuerySpec => []CurrentAnswersAuthority
BY QueryInductive, CurrentAnswersLemma, PTL

(* Behind every answer what it depends on is current and in service.       *)
THEOREM DependentsFollowTheirTargets == QuerySpec => []DependentsFollow
BY QueryInductive, DependentsLemma, PTL

(* Nothing that was published is lost to historical queries unless it was  *)
(* invalidated or tombstoned, whatever include_invalidated says.           *)
THEOREM HistoryIsReachable == QuerySpec => []HistoryReachable
BY QueryInductive, ReachableLemma, PTL

(* INVALIDATED_ONLY and INCOMPATIBLE_ONLY say the truth about the state.   *)
THEOREM OutcomesTellWhy == QuerySpec => []OutcomeTellsWhy
BY QueryInductive, OutcomeLemma, PTL

(* Among candidates whose factors are numbers, the comparison that ranks   *)
(* them is a strict total order.                                           *)
THEOREM RankingTotal == QuerySpec => []RankingIsTotal
BY QueryInductive, RankingLemma, PTL

(* A record refused as withdrawn or not current is refused for good,       *)
(* unless a tombstone retired it and left it current.                      *)
THEOREM RefusalsAreFinal == QuerySpec => RefusalIsFinal
<1> DEFINE FinalMeansRefused ==
             \A id \in RecordIds, q \in QueryDescriptor :
               Rejection(id, q) \in FinalReasons <=> Refused(id, q)
<1>1. FinalMeansRefused /\ FinalMeansRefused'
  BY RefusedIsFinalReason, PTL
<1>2. ASSUME IInv, IInv', PayloadInv, CoveredGone, [QueryNext]_queryVars,
             NEW q \in Queries, NEW id \in RecordIds,
             Stored(id), ~LeftCurrent(id), Rejection(id, q) \in FinalReasons
      PROVE  Rejection(id, q)' \in FinalReasons
  <2>1. [Next]_vars
    BY <1>2, QueryStepIsEngineStep DEF queryVars
  <2>2. payload'[id] = payload[id]
    BY <1>2, PayloadStep
  <2>3. Refused(id, q)
    BY <1>1, <1>2
  <2>4. Refused(id, q)'
    BY <1>2, <2>1, <2>2, <2>3, RefusedStep
  <2>5. (Rejection(id, q) \in FinalReasons)'
    BY <1>1, <2>4
  <2> QED BY <2>5 DEF FinalReasons
<1>3. /\ IInv /\ PayloadInv /\ CoveredGone
      /\ (IInv /\ PayloadInv /\ CoveredGone)'
      /\ [QueryNext]_queryVars
      => [\A q \in Queries, id \in RecordIds :
            Stored(id) /\ ~LeftCurrent(id) /\ Rejection(id, q) \in FinalReasons
              => Rejection(id, q)' \in FinalReasons]_queryVars
  BY <1>2
<1> QED BY <1>3, QueryInductive, PTL DEF QuerySpec, RefusalIsFinal

=============================================================================
