-------------------------- MODULE StateIndexEngine --------------------------
(***************************************************************************)
(* The record set of the StateIndexEngine (src/engine.cpp): publication,   *)
(* supersession, invalidation and tombstones, and the AuthorityRegistry    *)
(* that the engine keeps in step with them.                                *)
(*                                                                         *)
(* Each operation runs under the engine's mutex and is one action.  Its    *)
(* envelope (epoch, boot) is any one ever issued, so an action is also the *)
(* late, repeated or reordered delivery of an old request.  A rejected     *)
(* call changes none of this state and is a stuttering step.               *)
(*                                                                         *)
(* Definitions marked "mutant" are plausible bugs, used only to show that  *)
(* the properties tell them from the code.                                 *)
(*                                                                         *)
(* Payload that these operations only carry (locations, dependencies,      *)
(* digests, the secondary indexes and the counters) is left out.           *)
(***************************************************************************)
EXTENDS Authority, Sequences

CONSTANTS
  RecordIds,            \* StateRecordId values
  PublishedLifecycles,  \* lifecycles that producers publish records with
  TombstoneFlags,       \* what requests set TombstoneRecord::current to
  MaxInvalidations      \* bound: accepted invalidations

VARIABLES
  records,        \* records_: id -> record, None when absent
  current,        \* current_: state -> id of its current record, or None
  history,        \* history_: state -> ids of all its records
  tombstones,     \* tombstones_: state -> floor and flag of its tombstone
  invalidations   \* invalidations_, in the order of invalidation_seq_

recordVars == <<records, current, history, tombstones, invalidations>>
vars == <<authorityVars, recordVars>>

(* Lifecycles that take a record out of service for good, and those that   *)
(* invalidate would promote to current.                                    *)
WithdrawnLifecycles == {"INVALIDATED", "SUPERSEDED", "TOMBSTONED"}
PromotableLifecycles == {"AVAILABLE", "DEGRADED", "DISCOVERED"}
Lifecycles ==
  WithdrawnLifecycles \cup PromotableLifecycles \cup {"STALE", "RETIRED", "MISSING", "FAILED"}

Record ==
  [state: States, gen: Nat \ {0}, boot: Boots, lifecycle: Lifecycles, historical: BOOLEAN]

(* The flag is the requester's and says whether the tombstone is in force. *)
TombstoneRecord == [floor: Nat \cup {NoFloor}, current: BOOLEAN]
NoTombstone == [floor |-> NoFloor, current |-> FALSE]

ASSUME EngineAssumption ==
  /\ None \notin RecordIds
  /\ None \notin Record
  /\ PublishedLifecycles \subseteq Lifecycles \ WithdrawnLifecycles
  /\ TombstoneFlags \subseteq BOOLEAN
  /\ MaxInvalidations \in Nat

(* TombstoneRecord::covers.                                                *)
CoversBelow(t, g) == t.current /\ g # 0 /\ g < t.floor                       \* mutant
Covers(t, g) == t.current /\ g # 0 /\ g <= t.floor
IsTombstoned(s, g) == Covers(tombstones[s], g)

(* A record that leaves service, under the lifecycle that says why.        *)
Retire(rec, lifecycle) == [rec EXCEPT !.lifecycle = lifecycle, !.historical = TRUE]

(* What the registry is told of record id of a record set.                 *)
ClaimOf(recs, id) ==
  IF id = None THEN None ELSE [gen |-> recs[id].gen, boot |-> recs[id].boot]

Init ==
  /\ AuthorityInit
  /\ records = [id \in RecordIds |-> None]
  /\ current = [s \in States |-> None]
  /\ history = [s \in States |-> {}]
  /\ tombstones = [s \in States |-> NoTombstone]
  /\ invalidations = <<>>

-----------------------------------------------------------------------------
(* The newcomer becomes current unless the current record's generation is  *)
(* at least its own.                                                       *)
OutranksNever(id, rec) == current[rec.state] \in {None, id}                  \* mutant
OutranksOnEqual(id, rec) ==                                                  \* mutant
  LET old == current[rec.state]
  IN old \in {None, id} \/ records[old].gen <= rec.gen
Outranks(id, rec) ==
  LET old == current[rec.state]
  IN old \in {None, id} \/ records[old].gen < rec.gen

(* set_current, with the store of the new record that precedes it.  A      *)
(* newcomer that does not become current is only added to the history.     *)
SetCurrentForgetsLosers(id, rec) ==                                          \* mutant
  LET s == rec.state
      old == current[s]
      stored == [records EXCEPT ![id] = rec]
  IN /\ records' = IF Outranks(id, rec) /\ old \notin {None, id}
                     THEN [stored EXCEPT ![old] = Retire(records[old], "SUPERSEDED")]
                     ELSE stored
     /\ IF Outranks(id, rec)
          THEN /\ current' = [current EXCEPT ![s] = id]
               /\ currentAuthority' = [currentAuthority EXCEPT ![s] = ClaimOf(stored, id)]
               /\ history' = [history EXCEPT ![s] = @ \cup {id}]
          ELSE UNCHANGED <<current, currentAuthority, history>>
SetCurrent(id, rec) ==
  LET s == rec.state
      old == current[s]
      stored == [records EXCEPT ![id] = rec]
  IN /\ records' = IF Outranks(id, rec) /\ old \notin {None, id}
                     THEN [stored EXCEPT ![old] = Retire(records[old], "SUPERSEDED")]
                     ELSE stored
     /\ history' = [history EXCEPT ![s] = @ \cup {id}]
     /\ IF Outranks(id, rec)
          THEN /\ current' = [current EXCEPT ![s] = id]
               /\ currentAuthority' = [currentAuthority EXCEPT ![s] = ClaimOf(stored, id)]
          ELSE UNCHANGED <<current, currentAuthority>>

RegisterStateReusesId(id, s, g, lifecycle, e, b) ==                           \* mutant
  /\ ValidateStatePublication(s, e, b, g) = "ACCEPTED"
  /\ ~IsTombstoned(s, g)
  /\ SetCurrent(id, [state |-> s, gen |-> g, boot |-> b,
                     lifecycle |-> lifecycle, historical |-> FALSE])
  /\ UNCHANGED <<epoch, liveBoots, workerIncarnation, tombstoneFloor, tombstones, invalidations>>

(* register_state: boot b publishes generation g of state s as record id.  *)
RegisterState(id, s, g, lifecycle, e, b) ==
  /\ ValidateStatePublication(s, e, b, g) = "ACCEPTED"
  /\ records[id] = None
  /\ g # 0
  /\ ~IsTombstoned(s, g)
  /\ SetCurrent(id, [state |-> s, gen |-> g, boot |-> b,
                     lifecycle |-> lifecycle, historical |-> FALSE])
  /\ UNCHANGED <<epoch, liveBoots, workerIncarnation, tombstoneFloor, tombstones, invalidations>>

(* The records of s that an operation with bound g takes out of service,   *)
(* and the record set after it.                                            *)
CoveredBelow(s, g, lifecycle) ==                                             \* mutant
  {id \in history[s] : records[id].gen < g /\ records[id].lifecycle # lifecycle}
Covered(s, g, lifecycle) ==
  {id \in history[s] : records[id].gen <= g /\ records[id].lifecycle # lifecycle}
RetireCoveredIfCurrent(s, g, lifecycle) ==                                   \* mutant
  [id \in RecordIds |-> IF id \in Covered(s, g, lifecycle) /\ id = current[s]
                          THEN Retire(records[id], lifecycle) ELSE records[id]]
RetireCovered(s, g, lifecycle) ==
  [id \in RecordIds |-> IF id \in Covered(s, g, lifecycle)
                          THEN Retire(records[id], lifecycle) ELSE records[id]]

(* Where invalidate looks for the next current record: the highest         *)
(* promotable generation above the bound.                                  *)
Promotable(recs, s, bound) ==
  {id \in history[s] : /\ recs[id].lifecycle \in PromotableLifecycles
                       /\ ~IsTombstoned(s, recs[id].gen)
                       /\ recs[id].gen > bound}
Best(recs, ids) == {id \in ids : \A other \in ids : recs[other].gen <= recs[id].gen}

(* invalidate: every generation of s up to bound goes out of service.      *)
Invalidate(s, bound, e, b) ==
  /\ Admitted(e, b)
  /\ current[s] # None => records[current[s]].gen <= bound
  /\ Len(invalidations) < MaxInvalidations
  /\ invalidations' = Append(invalidations, [state |-> s, bound |-> bound])
  /\ records' = RetireCovered(s, bound, "INVALIDATED")
  /\ IF Covered(s, bound, "INVALIDATED") = {} /\ current[s] = None
       THEN UNCHANGED <<current, currentAuthority>>
       ELSE LET best == Best(records', Promotable(records', s, bound))
            IN \E id \in (IF best = {} THEN {None} ELSE best) :
                 /\ current' = [current EXCEPT ![s] = id]
                 /\ currentAuthority' = [currentAuthority EXCEPT ![s] = ClaimOf(records', id)]
  /\ UNCHANGED <<epoch, liveBoots, workerIncarnation, tombstoneFloor, history, tombstones>>

(* tombstone: generations of s up to floor may never be current again.     *)
(* Everything up to the floor goes out of service whatever the flag says,  *)
(* but the current record is given up only if the tombstone is in force.   *)
Tombstone(s, floor, flag, e, b) ==
  /\ Admitted(e, b)
  /\ tombstones[s].floor < floor
  /\ tombstones' = [tombstones EXCEPT ![s] = [floor |-> floor, current |-> flag]]
  /\ tombstoneFloor' = [tombstoneFloor EXCEPT ![s] = floor]
  /\ records' = RetireCovered(s, floor, "TOMBSTONED")
  /\ IF current[s] # None /\ Covers(tombstones'[s], records[current[s]].gen)
       THEN /\ current' = [current EXCEPT ![s] = None]
            /\ currentAuthority' = [currentAuthority EXCEPT ![s] = None]
       ELSE UNCHANGED <<current, currentAuthority>>
  /\ UNCHANGED <<epoch, liveBoots, workerIncarnation, history, invalidations>>

(* register_worker, unregister_worker, advance_epoch: the registry's own.  *)
RegisterWorker(w, b) == RegisterBoot(w, b) /\ UNCHANGED recordVars
UnregisterWorker(b) == UnregisterBoot(b) /\ UNCHANGED recordVars
AdvanceEpoch == NextEpoch /\ UNCHANGED recordVars

Next ==
  \/ \E w \in Workers, b \in Boots : RegisterWorker(w, b)
  \/ \E b \in Boots : UnregisterWorker(b)
  \/ AdvanceEpoch
  \/ \E s \in States, g \in Gens, e \in Epochs, b \in Boots :
       \/ \E id \in RecordIds, l \in PublishedLifecycles : RegisterState(id, s, g, l, e, b)
       \/ Invalidate(s, g, e, b)
       \/ \E flag \in TombstoneFlags : Tombstone(s, g, flag, e, b)

Spec == Init /\ [][Next]_vars

-----------------------------------------------------------------------------
(* Every variable has its type.                                            *)
TypeOK ==
  /\ AuthorityTypeOK
  /\ records \in [RecordIds -> Record \cup {None}]
  /\ current \in [States -> RecordIds \cup {None}]
  /\ history \in [States -> SUBSET RecordIds]
  /\ tombstones \in [States -> TombstoneRecord]
  /\ invalidations \in Seq([state: States, bound: Nat])

Stored(id) == records[id] # None
InService(id) == Stored(id) /\ records[id].lifecycle \notin WithdrawnLifecycles

(* The registry and the engine decide from two copies of one fact, kept by *)
(* hand in every operation: the claim on a state is exactly that of its    *)
(* current record, and there is none when the state has no current record. *)
AuthorityMirrorsCurrent ==
  \A s \in States : currentAuthority[s] = ClaimOf(records, current[s])

(* find_state hands out current_[s] unchecked: it names a stored record of *)
(* that very state, which no tombstone in force covers and which is in     *)
(* service and not historical.  There is one exception: a tombstone that   *)
(* came with its flag unset retires the current record and leaves it.      *)
LeftByTombstone(s) ==
  /\ ~tombstones[s].current
  /\ records[current[s]].lifecycle = "TOMBSTONED"
  /\ records[current[s]].gen <= tombstones[s].floor
CurrentIsServable ==
  \A s \in States : current[s] # None =>
    /\ Stored(current[s])
    /\ records[current[s]].state = s
    /\ ~IsTombstoned(s, records[current[s]].gen)
    /\ \/ InService(current[s]) /\ ~records[current[s]].historical
       \/ LeftByTombstone(s)

(* No record left in service outranks the current one of its state, and    *)
(* while a record is in service its state does have a current one          *)
(* (invariant_check's "highest eligible generation").  A newer generation  *)
(* is never hidden behind an older one by any order of publications,       *)
(* restarts, invalidations and tombstones.                                 *)
CurrentIsHighest ==
  \A id \in RecordIds : InService(id) =>
    LET cur == current[records[id].state]
    IN cur # None /\ records[id].gen <= records[cur].gen

(* The same of the records that the history lists, as far as no tombstone  *)
(* in force covers them: what is left of it after a load that failed.      *)
ListedOutrankNobody ==
  \A s \in States : \A id \in history[s] :
    InService(id) /\ ~IsTombstoned(s, records[id].gen) =>
      current[s] # None /\ records[id].gen <= records[current[s]].gen

(* The floor that publication is tested against is the tombstone's, and    *)
(* nothing at or below it is in service, whenever it was published and     *)
(* whether or not the tombstone is in force.                               *)
FloorHolds ==
  /\ \A s \in States : tombstoneFloor[s] = tombstones[s].floor
  /\ \A id \in RecordIds : InService(id) => records[id].gen > tombstones[records[id].state].floor

(* history_ is what invalidate and tombstone walk: it lists every stored   *)
(* record of the state and nothing else, so neither misses one.            *)
HistoryComplete ==
  \A s \in States :
    history[s] = {id \in RecordIds : Stored(id) /\ records[id].state = s}

(* README "Invalidation does not rewrite history": a stored record is      *)
(* never dropped, replaced or given another identity, and one that went    *)
(* out of service stays out and never becomes current again.               *)
SameIdentity(rec, rec2) ==
  rec2 # None /\ rec2.state = rec.state /\ rec2.gen = rec.gen /\ rec2.boot = rec.boot
HistoryNotRewritten ==
  [][\A id \in RecordIds : Stored(id) =>
       /\ SameIdentity(records[id], records'[id])
       /\ ~InService(id) =>
            /\ ~InService(id)'
            /\ \A s \in States : current'[s] = id => current[s] = id]_vars

(* A state's current record changes only to nothing or to the record being *)
(* published: the promotion branch of invalidate never finds a candidate.  *)
OnlyFreshBecomesCurrent ==
  [][\A s \in States :
       current'[s] \notin {None, current[s]} => ~Stored(current'[s])]_vars

(* Every run of the engine is a run of the abstract index: publications,   *)
(* withdrawals and fences on the claims the registry holds.                *)
Abstract == INSTANCE AbstractIndex WITH holder <- currentAuthority, fence <- tombstoneFloor
ImplementsAbstractIndex == Abstract!Spec

=============================================================================
