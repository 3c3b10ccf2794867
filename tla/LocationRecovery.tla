-------------------------- MODULE LocationRecovery --------------------------
(***************************************************************************)
(* What saving, crashing and recovering do to the locations of the         *)
(* records, the indexes over them and the count of locations: Locations    *)
(* and Persistence composed.                                               *)
(*                                                                         *)
(* Persistence says which records come back; here is the rest of the file. *)
(* save writes the locations with their freshness and the counters.  load  *)
(* takes the counters as they are written, builds the indexes anew from    *)
(* the records, and marks the locations in machine-local memory            *)
(* REVALIDATION_REQUIRED.  A record may hold more locations than load      *)
(* accepts of one: add_location has no limit.                              *)
(***************************************************************************)
EXTENDS Locations, Persistence

CONSTANTS
  VolatileNodes,   \* nodes that stand for HOST_MEMORY, HOST_PINNED, CUDA_DEVICE
  LocationLimit    \* locations of one record that load accepts

VARIABLES
  fresh,           \* <<record id, placement>> not marked REVALIDATION_REQUIRED
  reported,        \* history variable: <<record id, placement>> in machine-local
                   \* memory that a worker reported since the last load
  diskLocations    \* what the file says of locations, their freshness and count

freshVars == <<fresh, reported>>
locRecVars == <<locVars, process, disk, halfLoaded, freshVars, diskLocations>>

ASSUME LocationRecoveryAssumption ==
  /\ VolatileNodes \subseteq Nodes
  /\ LocationLimit \in Nat
  /\ MayOutgrow = RecordIds

NoLocationFile ==
  [locations |-> [id \in RecordIds |-> NoLocations], fresh |-> {}, count |-> 0]

(* Records whose image load refuses.                                       *)
Outgrown == {id \in RecordIds : Stored(id) /\ Cardinality(Located(locations[id])) > LocationLimit}

(* Locations that do not survive the machine they were reported from.      *)
Volatile(locs) ==
  {x \in RecordIds \X Placements :
     locs[x[1]][x[2]] # None /\ locs[x[1]][x[2]].node \in VolatileNodes}

LocRecInit ==
  /\ LocInit
  /\ process = "down"
  /\ disk = NoFile
  /\ halfLoaded = FALSE
  /\ fresh = {}
  /\ reported = {}
  /\ diskLocations = NoLocationFile

-----------------------------------------------------------------------------
(* Workers report the locations they publish or add as CURRENT.            *)
Report(places) ==
  /\ fresh' = fresh \cup places
  /\ reported' = (reported \ places) \cup (places \cap Volatile(locations'))
Withdrawn(place) ==
  /\ fresh' = fresh \ {place}
  /\ reported' = reported \ {place}

ServePublish ==
  \E s \in States, e \in Epochs, b \in Boots, id \in RecordIds, g \in Gens,
     l \in PublishedLifecycles, locs \in [Placements -> Location \cup {None}] :
    /\ Publish(id, s, g, l, locs, e, b)
    /\ Report({id} \X Located(locs))

ServeAdd ==
  \E s \in States, e \in Epochs, b \in Boots, p \in Placements, loc \in Location,
     checked \in BOOLEAN :
    /\ AddLocation(s, p, loc, checked, e, b)
    /\ Report({<<current[s], p>>})

ServeRemove ==
  \E s \in States, e \in Epochs, b \in Boots, p \in Placements :
    /\ RemoveLocation(s, p, e, b)
    /\ Withdrawn(<<current[s], p>>)

ServeOther == (RegistryStep \/ Withdraw) /\ UNCHANGED freshVars

ServeLocations ==
  /\ process = "up"
  /\ ServePublish \/ ServeAdd \/ ServeRemove \/ ServeOther
  /\ UNCHANGED <<process, disk, halfLoaded, diskLocations>>

(* save: all locations are written as they are, however many.              *)
LocationImage == [locations |-> locations, fresh |-> fresh, count |-> locationCount]
SaveLocations ==
  /\ Save
  /\ disk' \in {Image(Outgrown), ShortFile, NoFile}
  /\ diskLocations' = IF disk'.kind = "image" THEN LocationImage ELSE NoLocationFile
  /\ UNCHANGED <<locationVars, freshVars>>

(* load, of a file it accepts.                                             *)
RebuiltOver == indexes \cup                                                  \* mutant
  UNION {EntriesOf(id, disk.records[id], diskLocations.locations[id]) :
           id \in {o \in RecordIds : disk.records[o] # None}}
Rebuilt ==
  UNION {EntriesOf(id, disk.records[id], diskLocations.locations[id]) :
           id \in {o \in RecordIds : disk.records[o] # None}}
NothingLost == diskLocations.fresh                                           \* mutant
Revalidated == diskLocations.fresh \ Volatile(diskLocations.locations)
RecoverCountLost ==                                                          \* mutant
  /\ Recover(disk)
  /\ locations' = diskLocations.locations
  /\ indexes' = Rebuilt
  /\ locationCount' = 0
  /\ fresh' = Revalidated
RecoverLocations ==
  /\ Recover(disk)
  /\ locations' = diskLocations.locations
  /\ indexes' = Rebuilt
  /\ locationCount' = diskLocations.count
  /\ fresh' = Revalidated

(* load, of a file it refuses half way: the records read so far are there  *)
(* as the file has them, counters and indexes have not been reached.       *)
RecoverLocationsHalf ==
  /\ RecoverHalf(disk)
  /\ locations' = [id \in RecordIds |->
       IF records'[id] = None THEN NoLocations ELSE diskLocations.locations[id]]
  /\ locationCount' = 0
  /\ fresh' = {x \in diskLocations.fresh : records'[x[1]] # None}
  /\ UNCHANGED indexes

LoadLocations ==
  \/ disk.kind # "image" /\ UNCHANGED <<locVars, halfLoaded, freshVars>>
  \/ /\ disk.kind = "image"
     /\ RecoverLocations \/ RecoverLocationsHalf
     /\ reported' = {}

StartupLocations ==
  /\ process = "down"
  /\ process' = "up"
  /\ LoadLocations
  /\ UNCHANGED <<disk, diskLocations>>

LoadRequestLocations ==
  /\ process = "up"
  /\ LoadLocations
  /\ UNCHANGED <<process, disk, diskLocations>>

CrashLocations ==
  /\ Crash
  /\ locations' = [id \in RecordIds |-> NoLocations]
  /\ indexes' = {}
  /\ locationCount' = 0
  /\ fresh' = {}
  /\ reported' = {}
  /\ UNCHANGED diskLocations

LocRecNext ==
  \/ ServeLocations
  \/ SaveLocations
  \/ StartupLocations
  \/ LoadRequestLocations
  \/ CrashLocations

LocRecSpec == LocRecInit /\ [][LocRecNext]_locRecVars

-----------------------------------------------------------------------------
(* No location in machine-local memory is taken for fresh unless a worker  *)
(* reported it since the engine last came up or loaded its file, however   *)
(* often the file was saved and loaded again.                              *)
FreshMeansReported == ~halfLoaded => (fresh \cap Volatile(locations)) \subseteq reported

(* The indexes are not in the file; lookups miss nothing all the same.     *)
RecoveredIndexMissesNothing == ~halfLoaded => IndexMissesNothing

(* The counters are in the file.  The one that remove_location decrements  *)
(* covers the locations stored after every crash and recovery.             *)
RecoveredLocationsCounted == ~halfLoaded => EveryLocationCounted

(* A record that was not current when the file was written keeps the       *)
(* locations the file gives it, through crashes and late requests.         *)
SavedLocationsHold ==
  process = "up" /\ ~halfLoaded /\ disk.kind = "image" =>
    \A id \in RecordIds :
      disk.records[id] # None /\ disk.served[disk.records[id].state] # id =>
        locations[id] = diskLocations.locations[id]

=============================================================================
