--------------------------- MODULE LocationProofs ---------------------------
(***************************************************************************)
(* Proofs about Locations for every value of the constants.  Everything    *)
(* proved of StateIndexEngine carries over, because a step of Locations is *)
(* a step of the engine's records or leaves them alone.                    *)
(***************************************************************************)
EXTENDS Locations, EngineProofs, FiniteSetTheorems

USE AuthorityAssumption, EngineAssumption, LocationAssumption

LEMMA LocStepIsEngineStep == LocNext => [Next]_vars
<1> SUFFICES ASSUME LocNext PROVE [Next]_vars
  OBVIOUS
<1>1. CASE RegistryStep
  BY <1>1 DEF RegistryStep, Next
<1>2. CASE Withdraw
  BY <1>2 DEF Withdraw, Next
<1>3. ASSUME NEW s \in States, NEW e \in Epochs, NEW b \in Boots, NEW id \in RecordIds,
             NEW g \in Gens, NEW l \in PublishedLifecycles,
             NEW locs \in [Placements -> Location \cup {None}],
             Publish(id, s, g, l, locs, e, b)
      PROVE  Next
  BY <1>3 DEF Publish, Next
<1>4. ASSUME NEW s \in States, NEW e \in Epochs, NEW b \in Boots, NEW p \in Placements,
             RemoveLocation(s, p, e, b)
      PROVE  UNCHANGED vars
  BY <1>4 DEF RemoveLocation, Relocate
<1>5. ASSUME NEW s \in States, NEW e \in Epochs, NEW b \in Boots, NEW p \in Placements,
             NEW loc \in Location, NEW checked \in BOOLEAN,
             AddLocation(s, p, loc, checked, e, b)
      PROVE  UNCHANGED vars
  BY <1>5 DEF AddLocation, Relocate
<1> QED BY <1>1, <1>2, <1>3, <1>4, <1>5 DEF LocNext

(* Locations runs the engine: every behaviour of it is one of              *)
(* StateIndexEngine, so all that is proved of the engine holds of it.      *)
THEOREM LocationsRunEngine == LocSpec => Spec
<1>1. LocInit => Init
  BY DEF LocInit
<1>2. [LocNext]_locVars => [Next]_vars
  BY LocStepIsEngineStep DEF locVars
<1> QED BY <1>1, <1>2, PTL DEF LocSpec, Spec

-----------------------------------------------------------------------------
(* The indexes.  A record keeps its state for life, which is why an entry  *)
(* of by_state_ stays true although entries are never taken out.           *)
StateEntriesTrue ==
  \A s \in States, id \in RecordIds :
    <<"state", s, id>> \in indexes => records[id].state = s

EntriesComplete ==
  \A id \in RecordIds : Stored(id) => EntriesOf(id, records[id], locations[id]) \subseteq indexes

EntriesStored == \A entry \in indexes : entry[3] \in RecordIds /\ Stored(entry[3])

IndexInv == EntriesComplete /\ EntriesStored /\ StateEntriesTrue

(* Reindexing adds the entries of the records that changed and drops none. *)
LEMMA ReindexedIsUnion ==
  ASSUME NEW entries
  PROVE  Reindexed(entries) = indexes \cup entries
BY DEF Reindexed

LEMMA EntriesNameRecord ==
  ASSUME NEW id, NEW rec, NEW locs, NEW entry \in EntriesOf(id, rec, locs)
  PROVE  /\ entry[3] = id
         /\ \A s, o : entry = <<"state", s, o>> => s = rec.state /\ o = id
BY DEF EntriesOf

(* A step that indexes anew the records whose entries it changed keeps the *)
(* invariant, when stored records keep their identity.                     *)
LEMMA ReindexStep ==
  ASSUME IndexInv,
         NEW changed \in SUBSET RecordIds,
         \A id \in changed : Stored(id)',
         \A id \in RecordIds : Stored(id) => Stored(id)' /\ records'[id].state = records[id].state,
         \A id \in RecordIds \ changed : records'[id] = records[id] /\ locations'[id] = locations[id],
         indexes' = Reindexed(UNION {EntriesOf(id, records'[id], locations'[id]) : id \in changed})
  PROVE  IndexInv'
<1> DEFINE entries == UNION {EntriesOf(id, records'[id], locations'[id]) : id \in changed}
<1>1. indexes' = indexes \cup entries
  BY ReindexedIsUnion
<1>2. ASSUME NEW entry \in entries
      PROVE  \E id \in changed : entry \in EntriesOf(id, records'[id], locations'[id])
  OBVIOUS
<1>3. EntriesComplete'
  <2> SUFFICES ASSUME NEW id \in RecordIds, Stored(id)'
               PROVE  EntriesOf(id, records'[id], locations'[id]) \subseteq indexes'
    BY DEF EntriesComplete
  <2>1. CASE id \in changed
    BY <2>1, <1>1
  <2>2. CASE id \notin changed
    <3>1. Stored(id) /\ records'[id] = records[id] /\ locations'[id] = locations[id]
      BY <2>2 DEF Stored
    <3> QED BY <3>1, <1>1 DEF IndexInv, EntriesComplete
  <2> QED BY <2>1, <2>2
<1>4. EntriesStored'
  <2> SUFFICES ASSUME NEW entry \in indexes'
               PROVE  entry[3] \in RecordIds /\ Stored(entry[3])'
    BY DEF EntriesStored, Stored
  <2>1. CASE entry \in indexes
    BY <2>1 DEF IndexInv, EntriesStored
  <2>2. CASE entry \in entries
    BY <2>2, <1>2, EntriesNameRecord
  <2> QED BY <2>1, <2>2, <1>1
<1>5. StateEntriesTrue'
  <2> SUFFICES ASSUME NEW s \in States, NEW id \in RecordIds, <<"state", s, id>> \in indexes'
               PROVE  records'[id].state = s
    BY DEF StateEntriesTrue
  <2>1. CASE <<"state", s, id>> \in indexes
    <3>1. Stored(id) /\ records[id].state = s
      BY <2>1 DEF IndexInv, EntriesStored, StateEntriesTrue
    <3> QED BY <3>1
  <2>2. CASE <<"state", s, id>> \in entries
    <3>1. PICK o \in changed : <<"state", s, id>> \in EntriesOf(o, records'[o], locations'[o])
      BY <2>2, <1>2
    <3> QED BY <3>1, EntriesNameRecord
  <2> QED BY <2>1, <2>2, <1>1
<1> QED BY <1>3, <1>4, <1>5 DEF IndexInv

(* Every step of the engine that is not a step of the registry stores or   *)
(* rewrites the records it touches and drops none.                         *)
LEMMA TouchedStored ==
  ASSUME Coherent, [Next]_vars
  PROVE  /\ \A id \in RecordIds :
              Stored(id) => Stored(id)' /\ records'[id].state = records[id].state
         /\ \A id \in Touched : Stored(id)'
<1>1. ASSUME NEW id \in RecordIds, Stored(id)
      PROVE  Stored(id)' /\ records'[id].state = records[id].state
  BY <1>1, HistoryStep DEF SameIdentity, Stored
<1>2. ASSUME NEW id \in Touched
      PROVE  Stored(id)'
  BY <1>1, <1>2 DEF Touched, Stored
<1> QED BY <1>1, <1>2

(* The type of the locations, and the invariant of the indexes.            *)
LocationsType == locations \in [RecordIds -> [Placements -> Location \cup {None}]]
LocInv == LocationsType /\ IndexInv

LEMMA LocInitInv == LocInit => LocInv
BY DEF LocInit, LocInv, LocationsType, NoLocations, IndexInv, EntriesComplete,
       EntriesStored, StateEntriesTrue, Init, Stored

LEMMA RelocateInv ==
  ASSUME LocInv, NEW id \in RecordIds, Stored(id),
         NEW locs \in [Placements -> Location \cup {None}], Relocate(id, locs)
  PROVE  LocInv'
<1>1. locations' = [locations EXCEPT ![id] = locs] /\ records' = records
  BY DEF Relocate, vars, recordVars
<1>2. LocationsType'
  BY <1>1 DEF LocInv, LocationsType
<1>3. indexes' = Reindexed(UNION {EntriesOf(o, records'[o], locations'[o]) : o \in {id}})
  <2>1. locations'[id] = locs
    BY <1>1 DEF LocInv, LocationsType
  <2>2. UNION {EntriesOf(o, records'[o], locations'[o]) : o \in {id}} = EntriesOf(id, records[id], locs)
    BY <1>1, <2>1
  <2> QED BY <2>2 DEF Relocate
<1>4. \A o \in RecordIds \ {id} : records'[o] = records[o] /\ locations'[o] = locations[o]
  BY <1>1 DEF LocInv, LocationsType
<1>5. \A o \in RecordIds : Stored(o) => Stored(o)' /\ records'[o].state = records[o].state
  BY <1>1 DEF Stored
<1>6. IndexInv'
  <2> HIDE DEF Relocate
  <2> DEFINE changed == {id}
  <2>1. changed \in SUBSET RecordIds /\ \A o \in changed : Stored(o)'
    BY <1>5
  <2> HIDE DEF changed
  <2>2. indexes' = Reindexed(UNION {EntriesOf(o, records'[o], locations'[o]) : o \in changed})
    BY <1>3 DEF changed
  <2>3. \A o \in RecordIds \ changed : records'[o] = records[o] /\ locations'[o] = locations[o]
    BY <1>4 DEF changed
  <2> QED BY <2>1, <2>2, <2>3, <1>5, ReindexStep DEF LocInv
<1> QED BY <1>2, <1>6 DEF LocInv

(* A step that reindexes what it touched, with locations moved for touched *)
(* records only.                                                           *)
LEMMA ReindexTouchedInv ==
  ASSUME Coherent, LocInv, [Next]_vars, ReindexTouched, LocationsType',
         \A id \in RecordIds \ Touched : locations'[id] = locations[id]
  PROVE  LocInv'
<1>1. Touched \in SUBSET RecordIds
  BY DEF Touched
<1>2. \A id \in RecordIds \ Touched : records'[id] = records[id] /\ locations'[id] = locations[id]
  BY DEF Touched
<1>3. indexes' = Reindexed(UNION {EntriesOf(id, records'[id], locations'[id]) : id \in Touched})
  BY DEF ReindexTouched
<1> QED BY <1>1, <1>2, <1>3, TouchedStored, ReindexStep DEF LocInv

LEMMA LocNextInv == Sound /\ LocInv /\ [LocNext]_locVars => LocInv'
<1> SUFFICES ASSUME Sound, LocInv, [LocNext]_locVars PROVE LocInv'
  OBVIOUS
<1>c. Coherent
  BY DEF Sound
<1>s. ASSUME LocNext PROVE [Next]_vars
  BY <1>s, LocStepIsEngineStep
<1>1. ASSUME RegistryStep PROVE LocInv'
  BY <1>1 DEF RegistryStep, RegisterWorker, UnregisterWorker, AdvanceEpoch, recordVars,
              locationVars, LocInv, LocationsType, IndexInv, EntriesComplete, EntriesStored,
              StateEntriesTrue, Stored
<1>2. ASSUME Withdraw PROVE LocInv'
  <2>1. LocNext
    BY <1>2 DEF LocNext
  <2>2. UNCHANGED locations /\ ReindexTouched
    BY <1>2 DEF Withdraw
  <2> QED BY <2>1, <2>2, <1>c, <1>s, ReindexTouchedInv DEF LocInv, LocationsType
<1>3. ASSUME NEW s \in States, NEW e \in Epochs, NEW b \in Boots, NEW id \in RecordIds,
             NEW g \in Gens, NEW l \in PublishedLifecycles,
             NEW locs \in [Placements -> Location \cup {None}],
             Publish(id, s, g, l, locs, e, b)
      PROVE  LocInv'
  <2>1. LocNext
    BY <1>3 DEF LocNext
  <2>2. locations' = [locations EXCEPT ![id] = locs] /\ ReindexTouched
    BY <1>3 DEF Publish
  <2>3. id \in Touched
    <3>1. records[id] = None /\ RegisterEffect(id, s, g, l, b)
      BY <1>c, <1>3, RegisterStateEffect DEF Publish, RegisterState
    <3>2. records'[id] # None
      BY <1>c, <3>1, RegisterKeeps DEF Stored
    <3> QED BY <3>1, <3>2 DEF Touched
  <2>4. LocationsType' /\ \A o \in RecordIds \ Touched : locations'[o] = locations[o]
    BY <2>2, <2>3 DEF LocInv, LocationsType
  <2> QED BY <2>1, <2>2, <2>4, <1>c, <1>s, ReindexTouchedInv
<1>4. ASSUME NEW s \in States, current[s] # None
      PROVE  current[s] \in RecordIds /\ Stored(current[s])
  BY <1>c, <1>4, CurrentFacts
<1>5. ASSUME NEW s \in States, NEW e \in Epochs, NEW b \in Boots, NEW p \in Placements,
             RemoveLocation(s, p, e, b)
      PROVE  LocInv'
  <2>1. current[s] \in RecordIds /\ Stored(current[s])
    BY <1>5, <1>4 DEF RemoveLocation
  <2>2. [locations[current[s]] EXCEPT ![p] = None] \in [Placements -> Location \cup {None}]
    BY <2>1 DEF LocInv, LocationsType
  <2> QED BY <1>5, <2>1, <2>2, RelocateInv DEF RemoveLocation
<1>6. ASSUME NEW s \in States, NEW e \in Epochs, NEW b \in Boots, NEW p \in Placements,
             NEW loc \in Location, NEW checked \in BOOLEAN,
             AddLocation(s, p, loc, checked, e, b)
      PROVE  LocInv'
  <2>1. current[s] \in RecordIds /\ Stored(current[s])
    BY <1>6, <1>4 DEF AddLocation
  <2>2. [locations[current[s]] EXCEPT ![p] = loc] \in [Placements -> Location \cup {None}]
    BY <2>1 DEF LocInv, LocationsType
  <2> QED BY <1>6, <2>1, <2>2, RelocateInv DEF AddLocation
<1>7. ASSUME UNCHANGED locVars PROVE LocInv'
  BY <1>7 DEF locVars, vars, recordVars, locationVars, LocInv, LocationsType, IndexInv,
              EntriesComplete, EntriesStored, StateEntriesTrue, Stored
<1> QED BY <1>1, <1>2, <1>3, <1>5, <1>6, <1>7 DEF LocNext

LEMMA LocInductiveInvariant == LocSpec => [](Sound /\ LocInv)
<1>1. LocSpec => []IInv
  BY LocationsRunEngine, InductiveInvariant, PTL
<1>2. IInv => Sound
  BY DEF IInv
<1> QED BY <1>1, <1>2, LocInitInv, LocNextInv, PTL DEF LocSpec

LEMMA IndexLemma == Sound /\ LocInv => IndexMissesNothing
<1> SUFFICES ASSUME Sound, LocInv PROVE IndexMissesNothing
  OBVIOUS
<1>1. ASSUME NEW s \in States
      PROVE  history[s] = {id \in RecordIds : <<"state", s, id>> \in indexes}
  <2>1. ASSUME NEW id \in RecordIds, Stored(id), records[id].state = s
        PROVE  <<"state", s, id>> \in indexes
    BY <2>1 DEF LocInv, IndexInv, EntriesComplete, EntriesOf
  <2>2. ASSUME NEW id \in RecordIds, <<"state", s, id>> \in indexes
        PROVE  Stored(id) /\ records[id].state = s
    BY <2>2 DEF LocInv, IndexInv, EntriesStored, StateEntriesTrue
  <2> QED BY <2>1, <2>2 DEF Sound, HistoryComplete
<1> QED BY <1>1 DEF IndexMissesNothing, LocInv, IndexInv, EntriesComplete, EntriesStored

(* No lookup misses a record, no index names one that is not stored, and   *)
(* by_state_ lists exactly the history of the state, although the engine   *)
(* hands remove the wrong keys.                                            *)
THEOREM IndexesComplete == LocSpec => []IndexMissesNothing
BY IndexLemma, LocInductiveInvariant, PTL

-----------------------------------------------------------------------------
(* A current record is stored, and a record is current of its own state.   *)
LEMMA CurrentStored ==
  ASSUME Sound, NEW s \in States, current[s] # None
  PROVE  current[s] \in RecordIds /\ Stored(current[s]) /\ records[current[s]].state = s
BY CurrentFacts DEF Sound

(* What a step does to the locations: nothing, or those of a record that   *)
(* is being published, or one placement of a current record.               *)
LEMMA LocationStepCases ==
  ASSUME Sound, [LocNext]_locVars
  PROVE  \/ UNCHANGED locations /\ UNCHANGED locationCount
         \/ \E id \in RecordIds, locs \in [Placements -> Location \cup {None}] :
              /\ ~Stored(id)
              /\ locations' = [locations EXCEPT ![id] = locs]
              /\ locationCount' = locationCount + Cardinality(Located(locs))
         \/ \E id \in RecordIds, p \in Placements, loc \in Location \cup {None} :
              /\ Stored(id) /\ current[records[id].state] = id
              /\ locations' = [locations EXCEPT ![id] = [locations[id] EXCEPT ![p] = loc]]
              /\ IF loc = None
                   THEN locations[id][p] # None /\ locationCount' = locationCount - 1
                   ELSE locationCount' = locationCount + 1
<1>1. CASE RegistryStep \/ Withdraw \/ UNCHANGED locVars
  BY <1>1 DEF RegistryStep, Withdraw, locVars, locationVars
<1>2. ASSUME NEW s \in States, NEW e \in Epochs, NEW b \in Boots, NEW id \in RecordIds,
             NEW g \in Gens, NEW l \in PublishedLifecycles,
             NEW locs \in [Placements -> Location \cup {None}],
             Publish(id, s, g, l, locs, e, b)
      PROVE  /\ ~Stored(id)
             /\ locations' = [locations EXCEPT ![id] = locs]
             /\ locationCount' = locationCount + Cardinality(Located(locs))
  BY <1>2 DEF Publish, RegisterState, Stored
<1>3. ASSUME NEW s \in States, NEW e \in Epochs, NEW b \in Boots, NEW p \in Placements,
             RemoveLocation(s, p, e, b)
      PROVE  \E id \in RecordIds :
               /\ Stored(id) /\ current[records[id].state] = id
               /\ locations' = [locations EXCEPT ![id] = [locations[id] EXCEPT ![p] = None]]
               /\ locations[id][p] # None /\ locationCount' = locationCount - 1
  BY <1>3, CurrentStored DEF RemoveLocation, Relocate
<1>4. ASSUME NEW s \in States, NEW e \in Epochs, NEW b \in Boots, NEW p \in Placements,
             NEW loc \in Location, NEW checked \in BOOLEAN,
             AddLocation(s, p, loc, checked, e, b)
      PROVE  \E id \in RecordIds :
               /\ Stored(id) /\ current[records[id].state] = id
               /\ locations' = [locations EXCEPT ![id] = [locations[id] EXCEPT ![p] = loc]]
               /\ locationCount' = locationCount + 1
  BY <1>4, CurrentStored DEF AddLocation, Relocate
<1>5. CASE \E s \in States, e \in Epochs, b \in Boots, id \in RecordIds, g \in Gens,
              l \in PublishedLifecycles, locs \in [Placements -> Location \cup {None}] :
                Publish(id, s, g, l, locs, e, b)
  BY <1>5, <1>2
<1>6. CASE \E s \in States, e \in Epochs, b \in Boots, p \in Placements : RemoveLocation(s, p, e, b)
  <2>1. PICK p \in Placements, id \in RecordIds :
               /\ Stored(id) /\ current[records[id].state] = id
               /\ locations' = [locations EXCEPT ![id] = [locations[id] EXCEPT ![p] = None]]
               /\ locations[id][p] # None /\ locationCount' = locationCount - 1
    BY <1>6, <1>3
  <2>2. None \in Location \cup {None}
    OBVIOUS
  <2> QED BY <2>1, <2>2
<1>7. CASE \E s \in States, e \in Epochs, b \in Boots, p \in Placements, loc \in Location,
              checked \in BOOLEAN : AddLocation(s, p, loc, checked, e, b)
  <2>1. PICK p \in Placements, loc \in Location, id \in RecordIds :
               /\ Stored(id) /\ current[records[id].state] = id
               /\ locations' = [locations EXCEPT ![id] = [locations[id] EXCEPT ![p] = loc]]
               /\ locationCount' = locationCount + 1
    BY <1>7, <1>4
  <2>2. loc \in Location \cup {None} /\ loc # None
    BY LocationAssumption
  <2> QED BY <2>1, <2>2
<1> QED BY <1>1, <1>5, <1>6, <1>7 DEF LocNext

(* Only the locations of a current record change, or of one that is being  *)
(* published: a superseded or withdrawn record keeps the locations it had, *)
(* whatever requests arrive, and whenever.                                 *)
THEOREM WithdrawnKeepLocations == LocSpec => OnlyCurrentMoves
<1>1. Sound /\ LocInv /\ [LocNext]_locVars =>
        [\A id \in RecordIds :
           Stored(id) /\ locations'[id] # locations[id] => current[records[id].state] = id]_locVars
  <2> SUFFICES ASSUME Sound, LocInv, [LocNext]_locVars, NEW id \in RecordIds,
                      Stored(id), locations'[id] # locations[id]
               PROVE  current[records[id].state] = id
    OBVIOUS
  <2>1. DOMAIN locations = RecordIds
    BY DEF LocInv, LocationsType
  <2>2. \A o \in RecordIds : \A locs : locations' = [locations EXCEPT ![o] = locs] => o = id
    BY <2>1
  <2> QED BY <2>2, LocationStepCases
<1> QED BY <1>1, LocInductiveInvariant, PTL DEF LocSpec, OnlyCurrentMoves

-----------------------------------------------------------------------------
(* The count of locations.                                                 *)
CountInv ==
  /\ locationCount \in Int
  /\ IsFiniteSet(StoredLocations)
  /\ Cardinality(StoredLocations) <= locationCount

LEMMA CountInit == LocInit => CountInv
<1> SUFFICES ASSUME LocInit PROVE CountInv
  OBVIOUS
<1>1. StoredLocations = {}
  BY DEF LocInit, NoLocations, StoredLocations
<1> QED BY <1>1, FS_EmptySet DEF LocInit, CountInv

(* A publication adds at most the locations that the record comes with.    *)
LEMMA CountPublish ==
  ASSUME CountInv, LocationsType, NEW id \in RecordIds,
         NEW locs \in [Placements -> Location \cup {None}],
         locations' = [locations EXCEPT ![id] = locs],
         locationCount' = locationCount + Cardinality(Located(locs))
  PROVE  CountInv'
<1> DEFINE own == {id} \X Located(locs)
<1>1. IsFiniteSet(Located(locs))
  <2>1. Located(locs) \in SUBSET Placements
    BY DEF Located
  <2> QED BY <2>1, FS_Subset, LocationAssumption
<1>2. IsFiniteSet(own) /\ Cardinality(own) = Cardinality(Located(locs))
  <2>1. IsFiniteSet({id}) /\ Cardinality({id}) = 1
    BY FS_Singleton
  <2>2. IsFiniteSet(own) /\ Cardinality(own) = 1 * Cardinality(Located(locs))
    BY <1>1, <2>1, FS_Product
  <2> QED BY <2>2, <1>1, FS_CardinalityType
<1>3. StoredLocations' \in SUBSET (StoredLocations \cup own)
  <2> SUFFICES ASSUME NEW x \in StoredLocations' PROVE x \in StoredLocations \cup own
    OBVIOUS
  <2>1. x \in RecordIds \X Placements /\ locations'[x[1]][x[2]] # None
    BY DEF StoredLocations
  <2>2. CASE x[1] = id
    BY <2>1, <2>2 DEF LocationsType, Located
  <2>3. CASE x[1] # id
    BY <2>1, <2>3 DEF LocationsType, StoredLocations
  <2> QED BY <2>2, <2>3
<1> HIDE DEF own
<1>4. /\ IsFiniteSet(StoredLocations \cup own)
      /\ Cardinality(StoredLocations \cup own) =
           Cardinality(StoredLocations) + Cardinality(own) - Cardinality(StoredLocations \cap own)
  BY <1>2, FS_Union DEF CountInv
<1>5. IsFiniteSet(StoredLocations \cap own)
  <2>1. (StoredLocations \cap own) \in SUBSET own
    OBVIOUS
  <2> QED BY <2>1, <1>2, FS_Subset
<1>6. /\ IsFiniteSet(StoredLocations')
      /\ Cardinality(StoredLocations') <= Cardinality(StoredLocations \cup own)
  BY <1>3, <1>4, FS_Subset
<1>7. /\ Cardinality(StoredLocations) \in Nat /\ Cardinality(own) \in Nat
      /\ Cardinality(StoredLocations \cap own) \in Nat
      /\ Cardinality(StoredLocations') \in Nat
      /\ Cardinality(StoredLocations \cup own) \in Nat
  BY <1>2, <1>4, <1>5, <1>6, FS_CardinalityType DEF CountInv
<1>8. locationCount' \in Int /\ Cardinality(StoredLocations') <= locationCount'
  BY <1>2, <1>4, <1>6, <1>7 DEF CountInv
<1> QED BY <1>6, <1>8 DEF CountInv

(* Placing a location at one placement adds at most one; taking away one   *)
(* that is there removes exactly one.                                      *)
LEMMA CountMove ==
  ASSUME CountInv, LocationsType, NEW id \in RecordIds, NEW p \in Placements,
         NEW loc \in Location \cup {None},
         locations' = [locations EXCEPT ![id] = [locations[id] EXCEPT ![p] = loc]],
         IF loc = None THEN locations[id][p] # None /\ locationCount' = locationCount - 1
                       ELSE locationCount' = locationCount + 1
  PROVE  CountInv'
<1> DEFINE x == <<id, p>>
<1>1. locations[id] \in [Placements -> Location \cup {None}]
  BY DEF LocationsType
<1>2. \A y \in RecordIds \X Placements :
        locations'[y[1]][y[2]] = IF y = x THEN loc ELSE locations[y[1]][y[2]]
  <2> SUFFICES ASSUME NEW o \in RecordIds, NEW q \in Placements
               PROVE  locations'[o][q] = IF o = id /\ q = p THEN loc ELSE locations[o][q]
    OBVIOUS
  <2>1. CASE o = id
    BY <2>1, <1>1 DEF LocationsType
  <2>2. CASE o # id
    BY <2>2 DEF LocationsType
  <2> QED BY <2>1, <2>2
<1>3. Cardinality(StoredLocations) \in Nat
  BY FS_CardinalityType DEF CountInv
<1>4. CASE loc = None
  <2>1. StoredLocations' = StoredLocations \ {x} /\ x \in StoredLocations
    BY <1>2, <1>4 DEF StoredLocations
  <2>2. IsFiniteSet(StoredLocations \ {x})
        /\ Cardinality(StoredLocations \ {x}) = Cardinality(StoredLocations) - 1
    BY <2>1, FS_RemoveElement DEF CountInv
  <2> QED BY <2>1, <2>2, <1>3, <1>4 DEF CountInv
<1>5. CASE loc # None
  <2>1. StoredLocations' = StoredLocations \cup {x}
    BY <1>2, <1>5 DEF StoredLocations
  <2>2. IsFiniteSet(StoredLocations \cup {x})
        /\ Cardinality(StoredLocations \cup {x}) <= Cardinality(StoredLocations) + 1
    <3> HIDE DEF x
    <3>1. /\ IsFiniteSet(StoredLocations \cup {x})
          /\ Cardinality(StoredLocations \cup {x}) =
               IF x \in StoredLocations THEN Cardinality(StoredLocations)
                                        ELSE Cardinality(StoredLocations) + 1
      BY FS_AddElement DEF CountInv
    <3> QED BY <3>1, <1>3
  <2>3. Cardinality(StoredLocations \cup {x}) \in Nat
    BY <2>2, FS_CardinalityType
  <2> QED BY <2>1, <2>2, <2>3, <1>3, <1>5 DEF CountInv
<1> QED BY <1>4, <1>5

LEMMA CountNextInv == Sound /\ LocInv /\ CountInv /\ [LocNext]_locVars => CountInv'
<1> SUFFICES ASSUME Sound, LocInv, CountInv, [LocNext]_locVars PROVE CountInv'
  OBVIOUS
<1>1. LocationsType
  BY DEF LocInv
<1>2. CASE UNCHANGED locations /\ UNCHANGED locationCount
  BY <1>2 DEF CountInv, StoredLocations
<1> QED BY <1>1, <1>2, LocationStepCases, CountPublish, CountMove

LEMMA LocCountInv == LocSpec => []CountInv
BY CountInit, CountNextInv, LocInductiveInvariant, PTL DEF LocSpec

(* The count never falls below the locations stored, so remove_location    *)
(* never decrements it below zero.                                         *)
THEOREM LocationsCounted == LocSpec => []EveryLocationCounted
<1>1. CountInv => EveryLocationCounted
  BY DEF CountInv, EveryLocationCounted
<1> QED BY <1>1, LocCountInv, PTL

-----------------------------------------------------------------------------
(* What LocTypeOK says beyond the invariants above.                        *)
NamesAndBound ==
  /\ \A entry \in indexes : entry[1] \in IndexNames
  /\ locationCount \in Int /\ locationCount <= MaxLocationCount

LEMMA EntryNamed ==
  ASSUME NEW id, NEW rec, NEW locs, NEW entry \in EntriesOf(id, rec, locs)
  PROVE  entry[1] \in IndexNames
BY DEF EntriesOf, IndexNames

(* Every entry an operation adds belongs to some record.                   *)
LEMMA IndexGrows ==
  ASSUME [LocNext]_locVars, NEW entry \in indexes', entry \notin indexes
  PROVE  \E id, rec, locs : entry \in EntriesOf(id, rec, locs)
<1>1. ASSUME ReindexTouched
      PROVE  \E id, rec, locs : entry \in EntriesOf(id, rec, locs)
  BY <1>1, ReindexedIsUnion DEF ReindexTouched
<1>2. ASSUME NEW id, NEW locs, Relocate(id, locs)
      PROVE  \E o, rec, ls : entry \in EntriesOf(o, rec, ls)
  BY <1>2, ReindexedIsUnion DEF Relocate
<1>3. CASE RegistryStep \/ UNCHANGED locVars
  BY <1>3 DEF RegistryStep, locVars, locationVars
<1>4. CASE Withdraw
  BY <1>1, <1>4 DEF Withdraw
<1>5. ASSUME NEW s \in States, NEW e \in Epochs, NEW b \in Boots, NEW id \in RecordIds,
             NEW g \in Gens, NEW l \in PublishedLifecycles,
             NEW locs \in [Placements -> Location \cup {None}],
             Publish(id, s, g, l, locs, e, b)
      PROVE  ReindexTouched
  BY <1>5 DEF Publish
<1>6. ASSUME NEW s \in States, NEW e \in Epochs, NEW b \in Boots, NEW p \in Placements,
             \/ RemoveLocation(s, p, e, b)
             \/ \E loc \in Location, checked \in BOOLEAN : AddLocation(s, p, loc, checked, e, b)
      PROVE  \E o, rec, ls : entry \in EntriesOf(o, rec, ls)
  BY <1>2, <1>6 DEF RemoveLocation, AddLocation
<1> QED BY <1>1, <1>3, <1>4, <1>5, <1>6 DEF LocNext

LEMMA NamesAndBoundStep ==
  ASSUME CountInv, CountInv', NamesAndBound, [LocNext]_locVars
  PROVE  NamesAndBound'
<1>1. ASSUME NEW entry \in indexes' PROVE entry[1] \in IndexNames
  BY <1>1, IndexGrows, EntryNamed DEF NamesAndBound
<1>2. locationCount' <= MaxLocationCount
  <2>1. CASE UNCHANGED locationCount
    BY <2>1 DEF NamesAndBound
  <2>2. CASE locationCount' <= MaxLocationCount
    BY <2>2
  <2>3. CASE locationCount < MaxLocationCount /\ locationCount' = locationCount + 1
    BY <2>3, LocationAssumption DEF NamesAndBound
  <2>4. CASE locationCount' = locationCount - 1
    BY <2>4, LocationAssumption DEF NamesAndBound
  <2>5. \/ UNCHANGED locationCount \/ locationCount' <= MaxLocationCount
        \/ locationCount < MaxLocationCount /\ locationCount' = locationCount + 1
        \/ locationCount' = locationCount - 1
    <3>1. CASE RegistryStep \/ Withdraw \/ UNCHANGED locVars
      BY <3>1 DEF RegistryStep, Withdraw, locVars, locationVars
    <3>2. ASSUME NEW s \in States, NEW e \in Epochs, NEW b \in Boots, NEW id \in RecordIds,
                 NEW g \in Gens, NEW l \in PublishedLifecycles,
                 NEW locs \in [Placements -> Location \cup {None}],
                 Publish(id, s, g, l, locs, e, b)
          PROVE  locationCount' <= MaxLocationCount
      BY <3>2 DEF Publish
    <3>3. ASSUME NEW s \in States, NEW e \in Epochs, NEW b \in Boots, NEW p \in Placements,
                 RemoveLocation(s, p, e, b)
          PROVE  locationCount' = locationCount - 1
      BY <3>3 DEF RemoveLocation
    <3>4. ASSUME NEW s \in States, NEW e \in Epochs, NEW b \in Boots, NEW p \in Placements,
                 NEW loc \in Location, NEW checked \in BOOLEAN,
                 AddLocation(s, p, loc, checked, e, b)
          PROVE  locationCount < MaxLocationCount /\ locationCount' = locationCount + 1
      BY <3>4 DEF AddLocation
    <3> QED BY <3>1, <3>2, <3>3, <3>4 DEF LocNext
  <2> QED BY <2>1, <2>2, <2>3, <2>4, <2>5
<1> QED BY <1>1, <1>2 DEF NamesAndBound, CountInv

(* Every variable keeps its type, the count of locations between zero and  *)
(* its bound.                                                              *)
THEOREM LocTypeCorrect == LocSpec => []LocTypeOK
<1>1. LocInit => NamesAndBound
  BY LocationAssumption DEF LocInit, NamesAndBound
<1>2. Sound /\ LocInv /\ CountInv /\ NamesAndBound => LocTypeOK
  <2> SUFFICES ASSUME Sound, LocInv, CountInv, NamesAndBound PROVE LocTypeOK
    OBVIOUS
  <2>1. locationCount \in 0..MaxLocationCount
    <3>1. Cardinality(StoredLocations) \in Nat
      BY FS_CardinalityType DEF CountInv
    <3> QED BY <3>1, LocationAssumption DEF CountInv, NamesAndBound
  <2> QED BY <2>1 DEF LocTypeOK, Sound, Coherent, LocInv, LocationsType, IndexInv, EntriesStored, NamesAndBound
<1>3. NamesAndBound /\ CountInv /\ CountInv' /\ [LocNext]_locVars => NamesAndBound'
  BY NamesAndBoundStep
<1> QED BY <1>1, <1>2, <1>3, LocInductiveInvariant, LocCountInv, PTL DEF LocSpec

=============================================================================
