----------------------------- MODULE Authority -----------------------------
(***************************************************************************)
(* The AuthorityRegistry (include/stateindex/authority.hpp): the one place *)
(* that decides whether a mutation is stale.  It holds the coordinator     *)
(* epoch, the live worker boots, and per state the tombstone floor and the *)
(* (generation, boot) that is authoritative now.                           *)
(*                                                                         *)
(* The registry has no life of its own: the engine calls it inside its own *)
(* operations, so this module gives operators and partial actions which    *)
(* StateIndexEngine completes.  Definitions marked "mutant" are plausible  *)
(* bugs, used only to show that the properties tell them from the code.    *)
(***************************************************************************)
EXTENDS Integers

CONSTANTS
  States,      \* StateId values
  Workers,     \* WorkerId values
  Boots,       \* WorkerBootId values, one per process incarnation
  MaxGen,      \* bound: highest StateGeneration a request carries
  MaxEpoch,    \* bound: highest CoordinatorEpoch reached
  None         \* std::nullopt, or a key that is absent from a map

(* StateGeneration's default 0 is "unset" (strong.hpp), so requests may    *)
(* carry it.                                                               *)
Gens == 0..MaxGen
Epochs == 1..MaxEpoch

(* An absent floor is below every generation, which is what the registry's *)
(* test  floor.has_value() && gen <= *floor  makes of it.                  *)
NoFloor == -1

AuthorityClaim == [gen: Nat, boot: Boots]

ASSUME AuthorityAssumption ==
  /\ MaxGen \in Nat
  /\ MaxEpoch \in Nat \ {0}
  /\ None \notin Boots
  /\ None \notin Workers
  /\ None \notin AuthorityClaim

VARIABLES
  epoch,              \* epoch_
  liveBoots,          \* live_boots_: boot -> worker, None when not live
  workerIncarnation,  \* worker_incarnation_: worker -> its latest boot
  tombstoneFloor,     \* tombstone_floor_: state -> generation
  currentAuthority    \* current_authority_: state -> (generation, boot)

authorityVars ==
  <<epoch, liveBoots, workerIncarnation, tombstoneFloor, currentAuthority>>

AuthorityTypeOK ==
  /\ epoch \in Nat \ {0}
  /\ liveBoots \in [Boots -> Workers \cup {None}]
  /\ workerIncarnation \in [Workers -> Boots \cup {None}]
  /\ tombstoneFloor \in [States -> Nat \cup {NoFloor}]
  /\ currentAuthority \in [States -> AuthorityClaim \cup {None}]

AuthorityInit ==
  /\ epoch = 1
  /\ liveBoots = [b \in Boots |-> None]
  /\ workerIncarnation = [w \in Workers |-> None]
  /\ tombstoneFloor = [s \in States |-> NoFloor]
  /\ currentAuthority = [s \in States |-> None]

IsLive(b) == liveBoots[b] # None

(* The two tokens every mutation is tested for before anything else.       *)
Admitted(e, b) == e = epoch /\ IsLive(b)

(* The claim on s is held by a boot that still runs.  A publisher has been *)
(* found live when this is asked, so the holder's own publications and a   *)
(* live competitor's fall under the same comparison of generations.        *)
HeldByLiveBoot(s) == currentAuthority[s] # None /\ IsLive(currentAuthority[s].boot)

(* validate_state_publication: boot b, quoting epoch e, publishes          *)
(* generation g of state s.                                                *)
ValidateStatePublication(s, e, b, g) ==
  IF e # epoch THEN "REJECTED_STALE_EPOCH"
  ELSE IF ~IsLive(b) THEN "REJECTED_STALE_BOOT"
  ELSE IF g = 0 THEN "REJECTED_GENERATION_REGRESSION"
  ELSE IF g <= tombstoneFloor[s] THEN "REJECTED_TOMBSTONED"
  ELSE IF ~HeldByLiveBoot(s) THEN "ACCEPTED"
  ELSE IF g = currentAuthority[s].gen THEN "REJECTED_DUPLICATE"
  ELSE IF g < currentAuthority[s].gen THEN "REJECTED_GENERATION_REGRESSION"
  ELSE "ACCEPTED"

(* register_worker: a worker says HELLO.  Nothing retires a boot the       *)
(* worker registered earlier.                                              *)
RegisterBoot(w, b) ==
  /\ liveBoots' = [liveBoots EXCEPT ![b] = w]
  /\ workerIncarnation' = [workerIncarnation EXCEPT ![w] = b]
  /\ UNCHANGED <<epoch, tombstoneFloor, currentAuthority>>

(* unregister_worker: a boot's connection ended.  Its claims and the       *)
(* worker's incarnation stay.                                              *)
UnregisterBootDropsClaims(b) ==                                              \* mutant
  /\ liveBoots' = [liveBoots EXCEPT ![b] = None]
  /\ currentAuthority' = [s \in States |->
       IF currentAuthority[s] # None /\ currentAuthority[s].boot = b
         THEN None ELSE currentAuthority[s]]
  /\ UNCHANGED <<epoch, workerIncarnation, tombstoneFloor>>
UnregisterBoot(b) ==
  /\ liveBoots' = [liveBoots EXCEPT ![b] = None]
  /\ UNCHANGED <<epoch, workerIncarnation, tombstoneFloor, currentAuthority>>

(* advance_epoch, up to the bound.                                         *)
NextEpochWraps ==                                                            \* mutant
  /\ epoch' = (epoch + 1) % (MaxEpoch + 1)
  /\ UNCHANGED <<liveBoots, workerIncarnation, tombstoneFloor, currentAuthority>>
NextEpoch ==
  /\ epoch < MaxEpoch
  /\ epoch' = epoch + 1
  /\ UNCHANGED <<liveBoots, workerIncarnation, tombstoneFloor, currentAuthority>>

=============================================================================
