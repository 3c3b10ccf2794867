----------------------------- MODULE Locations -----------------------------
(***************************************************************************)
(* The locations of a record, the secondary indexes over the records, and  *)
(* the count of locations: add_location and remove_location of             *)
(* src/engine.cpp, SecondaryIndexes (include/stateindex/index.hpp), and    *)
(* what publications and withdrawals of StateIndexEngine do to them.       *)
(*                                                                         *)
(* A location is its generation and its node: the placement names it, and  *)
(* device and domain are indexed as the node is.  Of the indexes there are *)
(* three: by_state_ for those whose key a record keeps for life,           *)
(* by_lifecycle_ and by_node_ for those whose key changes.                 *)
(***************************************************************************)
EXTENDS StateIndexEngine, FiniteSets

CONSTANTS
  Placements,        \* PlacementId values
  Nodes,             \* NodeId values
  MaxLocGen,         \* bound: highest LocationGeneration
  MaxLocationCount   \* bound: highest value of the count of locations

VARIABLES
  locations,      \* record id -> placement -> location, None when absent
  indexes,        \* entries <<index, key, record id>>
  locationCount   \* accounting_.locations

locationVars == <<locations, indexes, locationCount>>
locVars == <<vars, locationVars>>

Location == [gen: 1..MaxLocGen, node: Nodes]
NoLocations == [p \in Placements |-> None]

ASSUME LocationAssumption ==
  /\ IsFiniteSet(Placements)
  /\ MaxLocGen \in Nat
  /\ MaxLocationCount \in Nat
  /\ None \notin Location

Located(locs) == {p \in Placements : locs[p] # None}

(* Where record id belongs in the indexes.                                 *)
EntriesOf(id, rec, locs) ==
  {<<"state", rec.state, id>>, <<"lifecycle", rec.lifecycle, id>>}
    \cup {<<"node", locs[p].node, id>> : p \in Located(locs)}

(* indexes_.remove(updated); indexes_.insert(updated): both calls are      *)
(* given the record as it will be, not as it was.                          *)
ReindexedInsertFirst(entries) == (indexes \cup entries) \ entries            \* mutant
Reindexed(entries) == (indexes \ entries) \cup entries

(* Every record an operation of the engine stored or rewrote, indexed anew.*)
Touched == {id \in RecordIds : records'[id] # records[id]}
ReindexTouched ==
  indexes' = Reindexed(UNION {EntriesOf(id, records'[id], locations'[id]) : id \in Touched})

LocInit ==
  /\ Init
  /\ locations = [id \in RecordIds |-> NoLocations]
  /\ indexes = {}
  /\ locationCount = 0

-----------------------------------------------------------------------------
(* register_state, of a record that comes with locations.                  *)
Publish(id, s, g, lifecycle, locs, e, b) ==
  /\ RegisterState(id, s, g, lifecycle, e, b)
  /\ locations' = [locations EXCEPT ![id] = locs]
  /\ ReindexTouched
  /\ locationCount' = locationCount + Cardinality(Located(locs))
  /\ locationCount' <= MaxLocationCount

(* invalidate and tombstone leave the locations alone.                     *)
Withdraw ==
  /\ \E s \in States, g \in Gens, e \in Epochs, b \in Boots :
       \/ Invalidate(s, g, e, b)
       \/ \E flag \in TombstoneFlags : Tombstone(s, g, flag, e, b)
  /\ UNCHANGED <<locations, locationCount>>
  /\ ReindexTouched

(* The current record id of s is given other locations.                    *)
Relocate(id, locs) ==
  /\ locations' = [locations EXCEPT ![id] = locs]
  /\ indexes' = Reindexed(EntriesOf(id, records[id], locs))
  /\ UNCHANGED vars

(* add_location: a new location of the state's current record, or another  *)
(* for the same placement.  Generations are compared only when the         *)
(* envelope carries one (checked).                                         *)
AddLocationToLatest(s, p, loc, checked, e, b) ==                             \* mutant
  /\ Admitted(e, b)
  /\ \E id \in history[s] :
       /\ \A other \in history[s] : records[other].gen <= records[id].gen
       /\ checked /\ locations[id][p] # None => loc.gen > locations[id][p].gen
       /\ Relocate(id, [locations[id] EXCEPT ![p] = loc])
  /\ locationCount < MaxLocationCount
  /\ locationCount' = locationCount + 1
AddLocation(s, p, loc, checked, e, b) ==
  /\ Admitted(e, b)
  /\ current[s] # None
  /\ LET id == current[s]
         old == locations[id][p]
     IN /\ checked /\ old # None => loc.gen > old.gen
        /\ Relocate(id, [locations[id] EXCEPT ![p] = loc])
  /\ locationCount < MaxLocationCount
  /\ locationCount' = locationCount + 1

(* remove_location: whatever generation the placement has now.  A placement*)
(* that is absent is accepted and changes nothing.                         *)
RemoveLocationTwice(s, p, e, b) ==                                           \* mutant
  /\ Admitted(e, b)
  /\ current[s] # None
  /\ Relocate(current[s], [locations[current[s]] EXCEPT ![p] = None])
  /\ locationCount' = locationCount - 1
RemoveLocation(s, p, e, b) ==
  /\ Admitted(e, b)
  /\ current[s] # None
  /\ locations[current[s]][p] # None
  /\ Relocate(current[s], [locations[current[s]] EXCEPT ![p] = None])
  /\ locationCount' = locationCount - 1

RegistryStep ==
  /\ \/ \E w \in Workers, b \in Boots : RegisterWorker(w, b)
     \/ \E b \in Boots : UnregisterWorker(b)
     \/ AdvanceEpoch
  /\ UNCHANGED locationVars

LocNext ==
  \/ RegistryStep
  \/ Withdraw
  \/ \E s \in States, e \in Epochs, b \in Boots :
       \/ \E id \in RecordIds, g \in Gens, l \in PublishedLifecycles,
             locs \in [Placements -> Location \cup {None}] : Publish(id, s, g, l, locs, e, b)
       \/ \E p \in Placements :
            \/ RemoveLocation(s, p, e, b)
            \/ \E loc \in Location, checked \in BOOLEAN : AddLocation(s, p, loc, checked, e, b)

LocSpec == LocInit /\ [][LocNext]_locVars

-----------------------------------------------------------------------------
IndexNames == {"state", "lifecycle", "node"}

(* Every variable has its type.                                            *)
LocTypeOK ==
  /\ TypeOK
  /\ locations \in [RecordIds -> [Placements -> Location \cup {None}]]
  /\ \A entry \in indexes : entry[1] \in IndexNames /\ entry[3] \in RecordIds
  /\ locationCount \in 0..MaxLocationCount

(* A lookup misses no record: each is under its state, its lifecycle and   *)
(* the node of each of its locations.  Nor does an index name a record     *)
(* that is not stored, and by_state_, from which queries take their        *)
(* candidates, lists exactly the state's history.                          *)
IndexMissesNothing ==
  /\ \A id \in RecordIds : Stored(id) => EntriesOf(id, records[id], locations[id]) \subseteq indexes
  /\ \A entry \in indexes : Stored(entry[3])
  /\ \A s \in States : history[s] = {id \in RecordIds : <<"state", s, id>> \in indexes}

StoredLocations ==
  {x \in RecordIds \X Placements : locations[x[1]][x[2]] # None}

(* remove_location decrements an unsigned counter: there is always a       *)
(* location counted for every one stored, over all records, so no order of *)
(* repeated additions, replacements and removals takes it below zero.      *)
EveryLocationCounted == Cardinality(StoredLocations) <= locationCount

(* History is not rewritten: the locations of a stored record change only  *)
(* while it is the current record of its state, never once it has been     *)
(* superseded or given up, whoever sends the request and however late.     *)
OnlyCurrentMoves ==
  [][\A id \in RecordIds :
       Stored(id) /\ locations'[id] # locations[id] => current[records[id].state] = id]_locVars

=============================================================================
