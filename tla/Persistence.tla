---------------------------- MODULE Persistence ----------------------------
(***************************************************************************)
(* Saving, crashing and recovering: StateIndexEngine::save, load and       *)
(* recompute_current (src/engine.cpp), and the coordinator process         *)
(* (src/coordinator_main.cpp) that loads its file when it starts, serves   *)
(* SAVE and LOAD requests, and loses the engine whenever it dies.          *)
(*                                                                         *)
(* There is one file.  It is replaced by a rename, so a process that dies  *)
(* while it saves leaves the old file, which is a crash before the save,   *)
(* unless the rename is refused: then save removes the old file first.     *)
(* Two facts the program does not keep are carried along to state          *)
(* properties: which records were current when the image was written, and  *)
(* whether the engine descends from a load that failed half way.           *)
(*                                                                         *)
(* Locations and dependencies are left out (LocationRecovery has the       *)
(* locations), but not that a record with more of them than load accepts   *)
(* is written all the same: which records those are is open here.          *)
(***************************************************************************)
EXTENDS StateIndexEngine

CONSTANTS
  WriteOutcomes,   \* what becomes of a write: "whole", "short", "lost"
  MayOutgrow       \* records that may grow beyond what load accepts

VARIABLES
  process,      \* the coordinator: "down" or "up"
  disk,         \* the persisted file
  halfLoaded    \* history variable: the engine descends from a failed load

persistVars == <<vars, process, disk, halfLoaded>>

ASSUME PersistenceAssumption ==
  /\ RecordIds \subseteq Nat        \* canonical_records sorts by record id
  /\ WriteOutcomes \subseteq {"whole", "short", "lost"}
  /\ MayOutgrow \subseteq RecordIds

NoFile == [kind |-> "absent"]
ShortFile == [kind |-> "short"]

(* What save writes when the records outgrown have more locations or       *)
(* dependencies than load accepts of one record.  is_historical is not     *)
(* serialized: it reads back as false.                                     *)
Image(outgrown) ==
  [kind |-> "image",
   records |-> [id \in RecordIds |->
                  IF Stored(id) THEN [records[id] EXCEPT !.historical = FALSE] ELSE None],
   invalidations |-> invalidations,
   tombstones |-> tombstones,
   epoch |-> epoch,
   outgrown |-> outgrown,
   served |-> current,            \* not in the file
   halfLoaded |-> halfLoaded]     \* not in the file
Images == {Image(outgrown) : outgrown \in SUBSET {id \in MayOutgrow : Stored(id)}}

(* A second record of the same state and generation: load throws there.    *)
Repeats(image, id) ==
  \E other \in RecordIds :
    /\ other < id
    /\ image.records[other] # None
    /\ image.records[other].state = image.records[id].state
    /\ image.records[other].gen = image.records[id].gen
Repeated(image) == {id \in RecordIds : image.records[id] # None /\ Repeats(image, id)}

(* The records at which load throws.                                       *)
Refused(image) == Repeated(image) \cup image.outgrown

(* recompute_current: the highest generation of s that is neither out of   *)
(* service nor tombstoned.                                                 *)
EligibleIfWithdrawn(image, s) ==                                            \* mutant
  {id \in RecordIds :
     /\ image.records[id] # None
     /\ image.records[id].state = s
     /\ ~Covers(image.tombstones[s], image.records[id].gen)}
Eligible(image, s) ==
  {id \in RecordIds :
     /\ image.records[id] # None
     /\ image.records[id].state = s
     /\ image.records[id].lifecycle \notin WithdrawnLifecycles
     /\ ~Covers(image.tombstones[s], image.records[id].gen)}
RecomputedLowest(image) ==                                                   \* mutant
  [s \in States |->
     LET ids == Eligible(image, s)
     IN IF ids = {} THEN None
        ELSE CHOOSE id \in ids : \A other \in ids : id <= other]
Recomputed(image) ==
  [s \in States |->
     LET ids == Best(image.records, Eligible(image, s))
     IN IF ids = {} THEN None ELSE CHOOSE id \in ids : TRUE]

-----------------------------------------------------------------------------
(* The record set that load builds from the image.                         *)
RecoverRecords(image) ==
  /\ records' = [id \in RecordIds |->
       IF image.records[id] = None THEN None
       ELSE [image.records[id] EXCEPT
               !.historical = Recomputed(image)[image.records[id].state] # id]]
  /\ current' = Recomputed(image)
  /\ history' = [s \in States |->
       {id \in RecordIds : image.records[id] # None /\ image.records[id].state = s}]
  /\ invalidations' = image.invalidations
  /\ halfLoaded' = image.halfLoaded

(* clear_live_workers: no incarnation is live until it says HELLO again.   *)
ClearLiveWorkers ==
  /\ liveBoots' = [b \in Boots |-> None]
  /\ workerIncarnation' = [w \in Workers |-> None]

(* load, of an image without such a record.  The registry's floors and     *)
(* claims are not touched.                                                 *)
RecoverTombstonesLost(image) ==                                              \* mutant
  /\ Refused(image) = {}
  /\ RecoverRecords(image)
  /\ tombstones' = [s \in States |-> NoTombstone]
  /\ epoch' = image.epoch
  /\ ClearLiveWorkers
  /\ UNCHANGED <<tombstoneFloor, currentAuthority>>
Recover(image) ==
  /\ Refused(image) = {}
  /\ RecoverRecords(image)
  /\ tombstones' = image.tombstones
  /\ epoch' = image.epoch
  /\ ClearLiveWorkers
  /\ UNCHANGED <<tombstoneFloor, currentAuthority>>

(* load, of any other image: everything has been cleared and the records   *)
(* before the first refused one are stored when it throws.                 *)
RecoverHalf(image) ==
  /\ Refused(image) # {}
  /\ records' = [id \in RecordIds |->
       IF \E first \in Refused(image) : first <= id THEN None ELSE image.records[id]]
  /\ current' = [s \in States |-> None]
  /\ history' = [s \in States |-> {}]
  /\ invalidations' = <<>>
  /\ tombstones' = [s \in States |-> NoTombstone]
  /\ halfLoaded' = TRUE
  /\ UNCHANGED authorityVars

(* load.  Without a file, or when the file fails its checksums, it throws  *)
(* before it changes anything.                                             *)
Load ==
  \/ disk.kind # "image" /\ UNCHANGED <<vars, halfLoaded>>
  \/ disk.kind = "image" /\ (Recover(disk) \/ RecoverHalf(disk))

-----------------------------------------------------------------------------
PersistInit ==
  /\ Init
  /\ process = "down"
  /\ disk = NoFile
  /\ halfLoaded = FALSE

(* The process starts with a fresh engine and tries its file; whatever     *)
(* becomes of that, it goes on to serve.                                   *)
Startup ==
  /\ process = "down"
  /\ process' = "up"
  /\ Load
  /\ UNCHANGED disk

(* The process dies, and with it all that was not saved.                   *)
Crash ==
  /\ process = "up"
  /\ process' = "down"
  /\ epoch' = 1
  /\ liveBoots' = [b \in Boots |-> None]
  /\ workerIncarnation' = [w \in Workers |-> None]
  /\ tombstoneFloor' = [s \in States |-> NoFloor]
  /\ currentAuthority' = [s \in States |-> None]
  /\ records' = [id \in RecordIds |-> None]
  /\ current' = [s \in States |-> None]
  /\ history' = [s \in States |-> {}]
  /\ tombstones' = [s \in States |-> NoTombstone]
  /\ invalidations' = <<>>
  /\ halfLoaded' = FALSE
  /\ UNCHANGED disk

(* SAVE, and the save of TERMINATE.  The stream is never asked whether the *)
(* write went through, and the rename follows either way.  When the rename *)
(* is refused the old file is removed and the rename tried again: until    *)
(* then, and for good if it fails again and save throws, there is no file. *)
Save ==
  /\ process = "up"
  /\ \/ "whole" \in WriteOutcomes /\ disk' \in Images
     \/ "short" \in WriteOutcomes /\ disk' = ShortFile
     \/ "lost" \in WriteOutcomes /\ disk' = NoFile
  /\ UNCHANGED <<vars, process, halfLoaded>>
SaveReturns == Save /\ disk'.kind # "absent"
SaveThrows == Save /\ disk'.kind = "absent"

(* LOAD, on an engine that is serving.                                     *)
LoadRequest ==
  /\ process = "up"
  /\ Load
  /\ UNCHANGED <<process, disk>>

Serve ==
  /\ process = "up"
  /\ Next
  /\ UNCHANGED <<process, disk, halfLoaded>>

PersistNext == Startup \/ Crash \/ Save \/ LoadRequest \/ Serve

PersistSpec == PersistInit /\ [][PersistNext]_persistVars

-----------------------------------------------------------------------------
(* Every variable has its type.                                            *)
PersistTypeOK ==
  /\ TypeOK
  /\ process \in {"down", "up"}
  /\ disk.kind \in {"absent", "short", "image"}
  /\ halfLoaded \in BOOLEAN

(* What the engine serves is as sound after any number of crashes,         *)
(* recoveries and LOAD requests as in one that never stopped, although the *)
(* registry forgets its claims and floors.  Also after a load that failed  *)
(* half way: a current record is servable, and no record that the history  *)
(* lists, in service and under no tombstone, outranks the current one.     *)
(* Without such a load in its past the histories miss no record and        *)
(* nothing in service lies under a tombstone.                              *)
RecoveredServiceSound ==
  /\ CurrentIsServable
  /\ ListedOutrankNobody
  /\ ~halfLoaded =>
       /\ HistoryComplete
       /\ CurrentIsHighest
       /\ \A id \in RecordIds : InService(id) => ~IsTombstoned(records[id].state, records[id].gen)

(* The file does not hold current_: load computes it again.  For every     *)
(* image it accepts it arrives at exactly the records that were current    *)
(* and in service when the image was written.                              *)
ServedInService(image) ==
  [s \in States |->
     LET id == image.served[s]
     IN IF id # None /\ image.records[id].lifecycle \in WithdrawnLifecycles THEN None ELSE id]
RecoveryRestoresCurrent ==
  disk.kind = "image" /\ ~disk.halfLoaded /\ Refused(disk) = {} =>
    Recomputed(disk) = ServedInService(disk)

(* What the file says holds in the serving engine for good, through        *)
(* crashes and whatever was published since: its records are there, those  *)
(* it shows out of service are not back, its tombstones stand or have made *)
(* way for higher ones, and its epoch has not been passed back.            *)
SavedStateHolds ==
  process = "up" /\ ~halfLoaded /\ disk.kind = "image" =>
    /\ \A id \in RecordIds : disk.records[id] # None =>
         /\ SameIdentity(disk.records[id], records[id])
         /\ disk.records[id].lifecycle \in WithdrawnLifecycles => ~InService(id)
    /\ \A s \in States :
         \/ tombstones[s] = disk.tombstones[s]
         \/ tombstones[s].floor > disk.tombstones[s].floor
    /\ disk.epoch <= epoch

=============================================================================
