----------------------- MODULE LocationRecoveryProofs -----------------------
(***************************************************************************)
(* Proofs about LocationRecovery.  It runs Persistence, so all that is     *)
(* proved there holds of it; the invariant of the locations is that of     *)
(* LocationProofs, of an engine without a failed load in its past, with    *)
(* what the file must say for load to establish it again.                  *)
(***************************************************************************)
EXTENDS LocationRecovery, LocationProofs, RecoveryProofs

USE AuthorityAssumption, EngineAssumption, LocationAssumption, PersistenceAssumption,
    LocationRecoveryAssumption

LEMMA OutgrownImage == Image(Outgrown) \in Images
<1>1. Outgrown \in SUBSET {id \in MayOutgrow : Stored(id)}
  BY DEF Outgrown
<1> QED BY <1>1 DEF Images

LEMMA LoadLocationsLoads == LoadLocations => Load
BY DEF LoadLocations, RecoverLocations, RecoverLocationsHalf, Load, locVars

LEMMA ServedSteps == ServeLocations => [LocNext]_locVars
<1> SUFFICES ASSUME ServeLocations PROVE LocNext
  OBVIOUS
<1>1. CASE ServePublish
  BY <1>1 DEF ServePublish, LocNext
<1>2. CASE ServeAdd
  BY <1>2 DEF ServeAdd, LocNext
<1>3. CASE ServeRemove
  BY <1>3 DEF ServeRemove, LocNext
<1>4. CASE ServeOther
  BY <1>4 DEF ServeOther, LocNext
<1> QED BY <1>1, <1>2, <1>3, <1>4 DEF ServeLocations

LEMMA LocRecStepPersists == [LocRecNext]_locRecVars => [PersistNext]_persistVars
<1> SUFFICES ASSUME [LocRecNext]_locRecVars PROVE [PersistNext]_persistVars
  OBVIOUS
<1>1. CASE ServeLocations
  <2>1. [Next]_vars
    BY <1>1, ServedSteps, LocStepIsEngineStep DEF locVars
  <2>2. process = "up" /\ UNCHANGED <<process, disk, halfLoaded>>
    BY <1>1 DEF ServeLocations
  <2> QED BY <2>1, <2>2 DEF PersistNext, Serve, persistVars
<1>2. CASE SaveLocations
  BY <1>2 DEF SaveLocations, PersistNext
<1>3. CASE StartupLocations
  BY <1>3, LoadLocationsLoads DEF StartupLocations, Startup, PersistNext
<1>4. CASE LoadRequestLocations
  BY <1>4, LoadLocationsLoads DEF LoadRequestLocations, LoadRequest, PersistNext
<1>5. CASE CrashLocations
  BY <1>5 DEF CrashLocations, PersistNext
<1>6. CASE UNCHANGED locRecVars
  BY <1>6 DEF locRecVars, locVars, persistVars
<1> QED BY <1>1, <1>2, <1>3, <1>4, <1>5, <1>6 DEF LocRecNext

(* The composition runs Persistence: what crashes and recoveries preserve  *)
(* of the records they preserve with locations and indexes in the picture. *)
THEOREM LocationsRecoverRecords == LocRecSpec => PersistSpec
<1>1. LocRecInit => PersistInit
  BY DEF LocRecInit, LocInit, PersistInit
<1> QED BY <1>1, LocRecStepPersists, PTL DEF LocRecSpec, PersistSpec

-----------------------------------------------------------------------------
(* The invariant.  Of an engine that a failed load left behind, and of the *)
(* files it writes, it says nothing.                                       *)
FreshInv == (fresh \cap Volatile(locations)) \subseteq reported

FileLocated ==
  {x \in RecordIds \X Placements : diskLocations.locations[x[1]][x[2]] # None}
FileInv ==
  /\ diskLocations.locations \in [RecordIds -> [Placements -> Location \cup {None}]]
  /\ diskLocations.count \in Int
  /\ IsFiniteSet(FileLocated)
  /\ Cardinality(FileLocated) <= diskLocations.count

(* The records that were not current when the file was written have kept   *)
(* their locations, and are not current.                                   *)
NotServed(id) == disk.records[id] # None /\ disk.served[disk.records[id].state] # id
HeldBack ==
  \A id \in RecordIds : NotServed(id) =>
    /\ locations[id] = diskLocations.locations[id]
    /\ \A s \in States : current[s] # id

LocRecInv ==
  /\ ~halfLoaded => LocInv /\ CountInv /\ FreshInv
  /\ disk.kind = "image" /\ ~disk.halfLoaded => FileInv
  /\ process = "up" /\ ~halfLoaded /\ disk.kind = "image" => HeldBack

LEMMA LocInitHolds == LocInit /\ fresh = {} => LocInv /\ CountInv /\ FreshInv
BY LocInitInv, CountInit DEF FreshInv

LEMMA LocRecInitInv == LocRecInit => LocRecInv
BY LocInitHolds DEF LocRecInit, LocRecInv, NoFile

-----------------------------------------------------------------------------
(* Serving.                                                                *)

LEMMA VolatilePlace ==
  ASSUME NEW locs, NEW x \in Volatile(locs)
  PROVE  \E o \in RecordIds, p \in Placements : x = <<o, p>>
<1>1. x \in RecordIds \X Placements
  BY DEF Volatile
<1>2. x = <<x[1], x[2]>> /\ x[1] \in RecordIds /\ x[2] \in Placements
  BY <1>1
<1> QED BY <1>1, <1>2

(* What a report adds to what is fresh is reported; what it does not touch *)
(* is as it was.                                                           *)
LEMMA ReportKeeps ==
  ASSUME FreshInv, NEW places, Report(places),
         \A o \in RecordIds, p \in Placements : <<o, p>> \notin places /\ locations'[o][p] # None =>
           locations'[o][p] = locations[o][p]
  PROVE  FreshInv'
<1> SUFFICES ASSUME NEW x \in fresh', x \in Volatile(locations')
             PROVE  x \in reported'
  BY DEF FreshInv
<1>1. CASE x \in places
  BY <1>1 DEF Report
<1>2. CASE x \notin places
  <2>1. PICK o \in RecordIds, p \in Placements : x = <<o, p>>
    BY VolatilePlace
  <2>2. x \in fresh /\ x \in Volatile(locations)
    BY <1>2, <2>1 DEF Report, Volatile
  <2> QED BY <1>2, <2>2 DEF FreshInv, Report
<1> QED BY <1>1, <1>2

LEMMA ServeFresh ==
  ASSUME Sound, LocationsType, FreshInv, ServeLocations
  PROVE  FreshInv'
<1>1. ASSUME NEW s \in States, NEW e \in Epochs, NEW b \in Boots, NEW id \in RecordIds,
             NEW g \in Gens, NEW l \in PublishedLifecycles,
             NEW locs \in [Placements -> Location \cup {None}],
             Publish(id, s, g, l, locs, e, b), Report({id} \X Located(locs))
      PROVE  FreshInv'
  <2> DEFINE places == {id} \X Located(locs)
  <2>1. ASSUME NEW o \in RecordIds, NEW p \in Placements,
               <<o, p>> \notin places, locations'[o][p] # None
        PROVE  locations'[o][p] = locations[o][p]
    <3>1. locations' = [locations EXCEPT ![id] = locs]
      BY <1>1 DEF Publish
    <3>2. CASE o = id
      BY <2>1, <3>1, <3>2 DEF LocationsType, Located
    <3>3. CASE o # id
      BY <3>1, <3>3 DEF LocationsType
    <3> QED BY <3>2, <3>3
  <2>2. Report(places)
    BY <1>1
  <2> HIDE DEF places
  <2> QED BY <2>1, <2>2, ReportKeeps
<1>2. ASSUME NEW s \in States, NEW e \in Epochs, NEW b \in Boots, NEW p \in Placements,
             NEW loc \in Location, NEW checked \in BOOLEAN,
             AddLocation(s, p, loc, checked, e, b), Report({<<current[s], p>>})
      PROVE  FreshInv'
  <2> DEFINE places == {<<current[s], p>>}
  <2>1. ASSUME NEW o \in RecordIds, NEW q \in Placements, <<o, q>> \notin places
        PROVE  locations'[o][q] = locations[o][q]
    <3>1. /\ current[s] \in RecordIds
          /\ locations' = [locations EXCEPT ![current[s]] = [locations[current[s]] EXCEPT ![p] = loc]]
      BY <1>2, CurrentStored DEF AddLocation, Relocate
    <3>2. CASE o = current[s]
      BY <2>1, <3>1, <3>2 DEF LocationsType
    <3>3. CASE o # current[s]
      BY <3>1, <3>3 DEF LocationsType
    <3> QED BY <3>2, <3>3
  <2>2. Report(places)
    BY <1>2
  <2> HIDE DEF places
  <2> QED BY <2>1, <2>2, ReportKeeps
<1>3. ASSUME NEW s \in States, NEW e \in Epochs, NEW b \in Boots, NEW p \in Placements,
             RemoveLocation(s, p, e, b), Withdrawn(<<current[s], p>>)
      PROVE  FreshInv'
  <2> DEFINE place == <<current[s], p>>
  <2>1. ASSUME NEW o \in RecordIds, NEW q \in Placements, <<o, q>> # place
        PROVE  locations'[o][q] = locations[o][q]
    <3>1. /\ current[s] \in RecordIds
          /\ locations' = [locations EXCEPT ![current[s]] = [locations[current[s]] EXCEPT ![p] = None]]
      BY <1>3, CurrentStored DEF RemoveLocation, Relocate
    <3>2. CASE o = current[s]
      BY <2>1, <3>1, <3>2 DEF LocationsType
    <3>3. CASE o # current[s]
      BY <3>1, <3>3 DEF LocationsType
    <3> QED BY <3>2, <3>3
  <2>2. Withdrawn(place)
    BY <1>3
  <2> HIDE DEF place
  <2>3. ASSUME NEW x \in fresh', x \in Volatile(locations')
        PROVE  x \in reported'
    <3>1. x \in fresh /\ x # place
      BY <2>2, <2>3 DEF Withdrawn
    <3>2. x \in Volatile(locations)
      <4>1. PICK o \in RecordIds, q \in Placements : x = <<o, q>>
        BY <2>3, VolatilePlace
      <4> QED BY <2>1, <2>3, <3>1, <4>1 DEF Volatile
    <3> QED BY <2>2, <3>1, <3>2 DEF Withdrawn, FreshInv
  <2> QED BY <2>3 DEF FreshInv
<1>4. CASE ServeOther
  <2>1. UNCHANGED locations /\ UNCHANGED freshVars
    BY <1>4 DEF ServeOther, RegistryStep, Withdraw, locationVars
  <2> QED BY <2>1 DEF FreshInv, Volatile, freshVars
<1>5. CASE ServePublish
  BY <1>1, <1>5 DEF ServePublish
<1>6. CASE ServeAdd
  BY <1>2, <1>6 DEF ServeAdd
<1>7. CASE ServeRemove
  BY <1>3, <1>7 DEF ServeRemove
<1> QED BY <1>4, <1>5, <1>6, <1>7 DEF ServeLocations

(* A record that was not current in the file does not become current, and  *)
(* only current records are given other locations.                         *)
LEMMA ServeHeldBack ==
  ASSUME Sound, LocationsType, Kept(disk), HeldBack, [LocNext]_locVars,
         UNCHANGED <<disk, diskLocations>>
  PROVE  HeldBack'
<1> SUFFICES ASSUME NEW id \in RecordIds, NotServed(id)
             PROVE  /\ locations'[id] = diskLocations.locations[id]
                    /\ \A s \in States : current'[s] # id
  BY DEF HeldBack, NotServed
<1>1. Stored(id) /\ locations[id] = diskLocations.locations[id] /\ \A s \in States : current[s] # id
  BY DEF NotServed, HeldBack, Kept, SameIdentity, Stored
<1>2. ASSUME NEW s \in States PROVE current'[s] # id
  <2>1. [Next]_vars /\ Coherent
    BY LocStepIsEngineStep DEF locVars, Sound
  <2> QED BY <1>1, <2>1, CurrentStep, EngineAssumption
<1>3. locations'[id] = locations[id]
  <2>1. ASSUME NEW o \in RecordIds, NEW locs, o # id, locations' = [locations EXCEPT ![o] = locs]
        PROVE  locations'[id] = locations[id]
    BY <2>1 DEF LocationsType
  <2>2. ASSUME NEW o \in RecordIds, Stored(o), current[records[o].state] = o
        PROVE  o # id
    <3>1. records[o].state \in States
      BY <2>2 DEF Sound, Coherent, TypeOK, Record, Stored
    <3> QED BY <1>1, <2>2, <3>1
  <2> QED BY <1>1, <2>1, <2>2, LocationStepCases
<1> QED BY <1>1, <1>2, <1>3

LEMMA ServeLocRecInv ==
  ASSUME PersistInv, PersistInv', LocRecInv, [LocNext]_locVars,
         \/ ServeLocations
         \/ UNCHANGED locVars /\ UNCHANGED freshVars,
         UNCHANGED <<process, disk, halfLoaded, diskLocations>>
  PROVE  LocRecInv'
<1>1. ASSUME ~halfLoaded PROVE LocInv' /\ CountInv' /\ FreshInv'
  <2>1. Sound /\ LocInv /\ CountInv /\ FreshInv
    BY <1>1 DEF PersistInv, LocRecInv
  <2>2. LocInv' /\ CountInv'
    BY <2>1, LocNextInv, CountNextInv
  <2>3. CASE ServeLocations
    BY <2>1, <2>2, <2>3, ServeFresh DEF LocInv
  <2>4. CASE UNCHANGED locVars /\ UNCHANGED freshVars
    BY <2>1, <2>2, <2>4 DEF FreshInv, Volatile, locVars, locationVars, freshVars
  <2> QED BY <2>2, <2>3, <2>4
<1>2. ASSUME process = "up", ~halfLoaded, disk.kind = "image" PROVE HeldBack'
  BY <1>2, ServeHeldBack DEF PersistInv, LocRecInv, LocInv
<1>3. FileInv => FileInv'
  BY DEF FileInv, FileLocated
<1> QED BY <1>1, <1>2, <1>3 DEF LocRecInv

-----------------------------------------------------------------------------
(* Saving.                                                                 *)
LEMMA SaveLocRecInv ==
  ASSUME PersistInv, LocRecInv, SaveLocations
  PROVE  LocRecInv'
<1>1. UNCHANGED locVars /\ UNCHANGED freshVars /\ UNCHANGED <<process, halfLoaded>>
  BY DEF SaveLocations, Save, locVars
<1>2. ASSUME ~halfLoaded PROVE LocInv' /\ CountInv' /\ FreshInv'
  <2>1. LocInv /\ CountInv /\ FreshInv
    BY <1>2 DEF LocRecInv
  <2> QED BY <1>1, <2>1
        DEF LocInv, LocationsType, IndexInv, EntriesComplete, EntriesStored, StateEntriesTrue,
            Stored, CountInv, StoredLocations, FreshInv, Volatile,
            locVars, vars, recordVars, locationVars, freshVars
<1>3. CASE disk' \in {ShortFile, NoFile}
  BY <1>1, <1>2, <1>3 DEF LocRecInv, ShortFile, NoFile
<1>4. CASE disk' = Image(Outgrown)
  <2>1. disk' \in Images
    BY <1>4, OutgrownImage
  <2>2. /\ disk'.kind = "image" /\ disk'.halfLoaded = halfLoaded
        /\ \A id \in RecordIds :
             disk'.records[id] # None => Stored(id) /\ disk'.records[id].state = records[id].state
    BY <2>1, ImageLemma DEF PersistInv
  <2>3. disk'.served = current
    BY <1>4 DEF Image
  <2>4. diskLocations' = [locations |-> locations, fresh |-> fresh, count |-> locationCount]
    BY <2>2 DEF SaveLocations, ShortFile, LocationImage
  <2>5. ASSUME ~halfLoaded PROVE FileInv'
    <3>1. LocationsType /\ CountInv
      BY <2>5 DEF LocRecInv, LocInv
    <3>2. FileLocated' = StoredLocations
      BY <2>4 DEF FileLocated, StoredLocations
    <3> QED BY <2>4, <3>1, <3>2 DEF FileInv, LocationsType, CountInv
  <2>6. ASSUME ~halfLoaded PROVE HeldBack'
    <3> SUFFICES ASSUME NEW id \in RecordIds, NotServed(id)'
                 PROVE  /\ locations'[id] = diskLocations'.locations[id]
                        /\ \A s \in States : current'[s] # id
      BY DEF HeldBack, NotServed
    <3>1. Stored(id) /\ current[records[id].state] # id
      BY <2>2, <2>3 DEF NotServed
    <3>2. ASSUME NEW s \in States PROVE current[s] # id
      <4>1. Sound
        BY <2>6 DEF PersistInv
      <4>2. current[s] # None => records[current[s]].state = s
        BY <4>1, CurrentStored
      <4> QED BY <3>1, <4>2, EngineAssumption
    <3> QED BY <1>1, <2>4, <3>2 DEF locVars, vars, recordVars, locationVars
  <2> QED BY <1>1, <1>2, <2>2, <2>5, <2>6 DEF LocRecInv
<1> QED BY <1>3, <1>4 DEF SaveLocations

-----------------------------------------------------------------------------
(* Loading.                                                                *)

(* What load puts back into a record set that the file accepts.            *)
LEMMA RecoveredEntries ==
  ASSUME ImageType(disk), Recover(disk), NEW id \in RecordIds
  PROVE  /\ Stored(id)' <=> disk.records[id] # None
         /\ Stored(id)' => /\ records'[id].state = disk.records[id].state
                           /\ records'[id].lifecycle = disk.records[id].lifecycle
<1> DEFINE back == [disk.records[id] EXCEPT
                      !.historical = Recomputed(disk)[disk.records[id].state] # id]
<1>1. records'[id] = IF disk.records[id] = None THEN None ELSE back
  BY DEF Recover, RecoverRecords
<1>2. ASSUME disk.records[id] # None
      PROVE  back \in Record /\ back.state = disk.records[id].state
             /\ back.lifecycle = disk.records[id].lifecycle
  <2>1. disk.records[id] \in Record
    BY <1>2 DEF ImageType
  <2> HIDE DEF Recover
  <2> DEFINE h == Recomputed(disk)[disk.records[id].state] # id
  <2>2. h \in BOOLEAN
    OBVIOUS
  <2> HIDE DEF h
  <2> QED BY <2>1, <2>2 DEF Record, h
<1> HIDE DEF back
<1> QED BY <1>1, <1>2, EngineAssumption DEF Stored

LEMMA RebuiltIndexes ==
  ASSUME ImageType(disk), Recover(disk), locations' = diskLocations.locations, indexes' = Rebuilt
  PROVE  IndexInv'
<1>1. ASSUME NEW id \in RecordIds, Stored(id)'
      PROVE  /\ disk.records[id] # None
             /\ EntriesOf(id, records'[id], locations'[id]) =
                  EntriesOf(id, disk.records[id], diskLocations.locations[id])
  BY <1>1, RecoveredEntries DEF EntriesOf
<1>2. EntriesComplete'
  BY <1>1 DEF EntriesComplete, Stored, Rebuilt
<1>3. ASSUME NEW entry \in indexes'
      PROVE  \E id \in RecordIds : disk.records[id] # None
               /\ entry \in EntriesOf(id, disk.records[id], diskLocations.locations[id])
  BY <1>3 DEF Rebuilt
<1>4. EntriesStored'
  <2> SUFFICES ASSUME NEW entry \in indexes'
               PROVE  entry[3] \in RecordIds /\ Stored(entry[3])'
    BY DEF EntriesStored, Stored
  <2> QED BY <1>3, EntriesNameRecord, RecoveredEntries
<1>5. StateEntriesTrue'
  <2> SUFFICES ASSUME NEW s \in States, NEW id \in RecordIds, <<"state", s, id>> \in indexes'
               PROVE  records'[id].state = s
    BY DEF StateEntriesTrue
  <2>1. disk.records[id] # None /\ s = disk.records[id].state
    BY <1>3, EntriesNameRecord
  <2> QED BY <2>1, RecoveredEntries
<1> QED BY <1>2, <1>4, <1>5 DEF IndexInv

LEMMA LoadLocRecInv ==
  ASSUME PersistInv, PersistInv', LocRecInv, LoadLocations, UNCHANGED <<disk, diskLocations>>
  PROVE  /\ ~halfLoaded' => LocInv' /\ CountInv' /\ FreshInv'
         /\ ~halfLoaded' /\ disk.kind = "image" => HeldBack'
<1>1. CASE disk.kind # "image" /\ UNCHANGED <<locVars, halfLoaded, freshVars>>
  <2>1. ~halfLoaded => LocInv /\ CountInv /\ FreshInv
    BY DEF LocRecInv
  <2> QED BY <1>1, <2>1
        DEF LocInv, LocationsType, IndexInv, EntriesComplete, EntriesStored, StateEntriesTrue,
            Stored, CountInv, StoredLocations, FreshInv, Volatile,
            locVars, vars, recordVars, locationVars, freshVars
<1>2. CASE disk.kind = "image" /\ RecoverLocations /\ reported' = {}
  <2>1. /\ Recover(disk) /\ ImageType(disk)
        /\ locations' = diskLocations.locations /\ indexes' = Rebuilt
        /\ locationCount' = diskLocations.count /\ fresh' = Revalidated
        /\ halfLoaded' = disk.halfLoaded
    BY <1>2 DEF RecoverLocations, PersistInv, Recover, RecoverRecords
  <2> SUFFICES ASSUME ~disk.halfLoaded
               PROVE  LocInv' /\ CountInv' /\ FreshInv' /\ HeldBack'
    BY <2>1
  <2>2. FileInv /\ ImageSound(disk)
    BY <1>2 DEF LocRecInv, PersistInv
  <2>3. LocInv'
    BY <2>1, <2>2, RebuiltIndexes DEF LocInv, LocationsType, FileInv
  <2>4. CountInv'
    <3>1. StoredLocations' = FileLocated
      BY <2>1 DEF StoredLocations, FileLocated
    <3> QED BY <2>1, <2>2, <3>1 DEF CountInv, FileInv
  <2>5. FreshInv'
    BY <2>1 DEF FreshInv, Revalidated
  <2>6. HeldBack'
    <3> SUFFICES ASSUME NEW id \in RecordIds, NotServed(id)
                 PROVE  \A s \in States : current'[s] # id
      BY <2>1 DEF HeldBack, NotServed
    <3>1. current' = ServedInService(disk)
      BY <2>1, <2>2, RecomputedLemma DEF Recover, RecoverRecords
    <3> QED BY <2>2, <3>1, EngineAssumption DEF ImageSound, NotServed, ServedInService
  <2> QED BY <2>3, <2>4, <2>5, <2>6
<1>3. CASE disk.kind = "image" /\ RecoverLocationsHalf
  BY <1>3 DEF RecoverLocationsHalf, RecoverHalf
<1> QED BY <1>1, <1>2, <1>3 DEF LoadLocations

LEMMA LocRecNextInv ==
  PersistInv /\ PersistInv' /\ LocRecInv /\ [LocRecNext]_locRecVars => LocRecInv'
<1> SUFFICES ASSUME PersistInv, PersistInv', LocRecInv, [LocRecNext]_locRecVars PROVE LocRecInv'
  OBVIOUS
<1>1. CASE ServeLocations
  BY <1>1, ServedSteps, ServeLocRecInv DEF ServeLocations
<1>2. CASE SaveLocations
  BY <1>2, SaveLocRecInv
<1>3. CASE StartupLocations \/ LoadRequestLocations
  <2>1. LoadLocations /\ UNCHANGED <<disk, diskLocations>>
    BY <1>3 DEF StartupLocations, LoadRequestLocations
  <2>2. FileInv => FileInv'
    BY <2>1 DEF FileInv, FileLocated
  <2> QED BY <2>1, <2>2, LoadLocRecInv DEF LocRecInv
<1>4. CASE CrashLocations
  <2>0. Init'
    BY <1>4 DEF CrashLocations, Crash, Init, AuthorityInit
  <2>1. LocInit' /\ (fresh = {})'
    BY <1>4, <2>0 DEF CrashLocations, LocInit
  <2>2. LocInv' /\ CountInv' /\ FreshInv'
    BY <2>1, LocInitHolds, PTL
  <2>3. process' = "down" /\ UNCHANGED <<disk, diskLocations>>
    BY <1>4 DEF CrashLocations, Crash
  <2>4. FileInv => FileInv'
    BY <2>3 DEF FileInv, FileLocated
  <2> QED BY <2>2, <2>3, <2>4 DEF LocRecInv
<1>5. CASE UNCHANGED locRecVars
  <2>1. /\ UNCHANGED locVars /\ UNCHANGED freshVars
        /\ UNCHANGED <<process, disk, halfLoaded, diskLocations>>
    BY <1>5 DEF locRecVars
  <2> QED BY <2>1, ServeLocRecInv
<1> QED BY <1>1, <1>2, <1>3, <1>4, <1>5 DEF LocRecNext

LEMMA LocRecInductive == LocRecSpec => [](PersistInv /\ LocRecInv)
<1>1. LocRecSpec => []PersistInv
  BY LocationsRecoverRecords, PersistInductive, PTL
<1> QED BY <1>1, LocRecInitInv, LocRecNextInv, PTL DEF LocRecSpec

-----------------------------------------------------------------------------
(* The results.                                                            *)

(* After any number of restarts a location in machine-local memory is      *)
(* fresh only if a worker reported it since.                               *)
THEOREM FreshIsReported == LocRecSpec => []FreshMeansReported
<1>1. LocRecInv => FreshMeansReported
  BY DEF LocRecInv, FreshInv, FreshMeansReported
<1> QED BY <1>1, LocRecInductive, PTL

(* Lookups miss nothing, before a recovery and after it.                   *)
THEOREM IndexesRecovered == LocRecSpec => []RecoveredIndexMissesNothing
<1>1. Sound /\ LocInv => IndexMissesNothing
  BY IndexLemma
<1>2. PersistInv /\ LocRecInv => RecoveredIndexMissesNothing
  BY <1>1 DEF PersistInv, LocRecInv, RecoveredIndexMissesNothing
<1> QED BY <1>2, LocRecInductive, PTL

(* Nor does the count of locations fall below the locations stored.        *)
THEOREM LocationsStayCounted == LocRecSpec => []RecoveredLocationsCounted
<1>1. LocRecInv => RecoveredLocationsCounted
  BY DEF LocRecInv, CountInv, EveryLocationCounted, RecoveredLocationsCounted
<1> QED BY <1>1, LocRecInductive, PTL

(* What the file says of the locations of a record that was not current    *)
(* stays true of it.                                                       *)
THEOREM SavedLocationsKept == LocRecSpec => []SavedLocationsHold
<1>1. LocRecInv => SavedLocationsHold
  BY DEF LocRecInv, HeldBack, NotServed, SavedLocationsHold
<1> QED BY <1>1, LocRecInductive, PTL

=============================================================================
