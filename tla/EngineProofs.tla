---------------------------- MODULE EngineProofs ----------------------------
(***************************************************************************)
(* Proofs about StateIndexEngine for every set of states, boots, workers   *)
(* and record ids and every value of the bounds.                           *)
(***************************************************************************)
EXTENDS StateIndexEngine, TLAPS

USE AuthorityAssumption, EngineAssumption

-----------------------------------------------------------------------------
(* Facts about the operators.                                              *)

LEMMA RetireType ==
  ASSUME NEW rec \in Record, NEW l \in Lifecycles
  PROVE  /\ Retire(rec, l) \in Record
         /\ Retire(rec, l).state = rec.state
         /\ Retire(rec, l).gen = rec.gen
         /\ Retire(rec, l).boot = rec.boot
         /\ Retire(rec, l).lifecycle = l
BY DEF Retire, Record

(* Covered records are stored ones, if the history lists no other id.      *)
LEMMA RetireCoveredType ==
  ASSUME TypeOK, NEW s \in States, \A id \in history[s] : Stored(id), NEW g \in Nat, NEW l \in Lifecycles
  PROVE  RetireCovered(s, g, l) \in [RecordIds -> Record \cup {None}]
<1> SUFFICES ASSUME NEW id \in RecordIds
             PROVE  (IF id \in Covered(s, g, l) THEN Retire(records[id], l) ELSE records[id])
                      \in Record \cup {None}
  BY DEF RetireCovered
<1>1. CASE id \in Covered(s, g, l)
  <2>1. records[id] \in Record
    BY <1>1 DEF Covered, Stored, TypeOK
  <2> QED BY <1>1, <2>1, RetireType
<1>2. CASE id \notin Covered(s, g, l)
  BY <1>2 DEF TypeOK
<1> QED BY <1>1, <1>2

-----------------------------------------------------------------------------
(* The inductive invariant, in three layers.  Coherent holds of any        *)
(* engine, also of one that a failed load left half filled: the histories  *)
(* and current_ name stored records of their state, the current record is  *)
(* servable, and no listed one outranks it.  A record that a tombstone     *)
(* left current has nothing listed in service beside it, and the registry  *)
(* lets nothing in at or below that tombstone.                             *)
HistoryListsStored ==
  \A s \in States : \A id \in history[s] : Stored(id) /\ records[id].state = s
CurrentListed ==
  \A s \in States : current[s] # None => current[s] \in history[s]
LeftBehind ==
  \A s \in States : current[s] # None /\ ~InService(current[s]) =>
    /\ tombstoneFloor[s] >= tombstones[s].floor
    /\ \A id \in history[s] : ~InService(id)

Coherent ==
  /\ TypeOK
  /\ HistoryListsStored
  /\ CurrentListed
  /\ CurrentIsServable
  /\ ListedOutrankNobody
  /\ LeftBehind

(* Sound holds of an engine without such a load in its past: no record is  *)
(* missing from the histories and nothing in service lies under a          *)
(* tombstone in force.  IInv adds what the registry remembers, which a     *)
(* recovery forgets.                                                       *)
NothingCovered ==
  \A id \in RecordIds : InService(id) => ~IsTombstoned(records[id].state, records[id].gen)

Sound ==
  /\ Coherent
  /\ NothingCovered
  /\ HistoryComplete

IInv ==
  /\ Sound
  /\ AuthorityMirrorsCurrent
  /\ FloorHolds

LEMMA InitIInv == Init => IInv
<1> SUFFICES ASSUME Init PROVE IInv
  OBVIOUS
<1>1. TypeOK
  BY DEF Init, AuthorityInit, TypeOK, AuthorityTypeOK, NoTombstone, TombstoneRecord, NoFloor
<1>2. \A id \in RecordIds : ~Stored(id)
  BY DEF Init, Stored
<1>3. \A s \in States : current[s] = None /\ history[s] = {}
  BY DEF Init
<1>4. FloorHolds
  BY <1>2 DEF Init, AuthorityInit, FloorHolds, InService, NoTombstone
<1>5. AuthorityMirrorsCurrent
  BY DEF Init, AuthorityInit, AuthorityMirrorsCurrent, ClaimOf
<1>6. HistoryComplete
  BY <1>2, <1>3 DEF HistoryComplete
<1> QED
  BY <1>1, <1>2, <1>3, <1>4, <1>5, <1>6
     DEF IInv, Sound, Coherent, NothingCovered, HistoryListsStored, CurrentListed, CurrentIsServable,
         ListedOutrankNobody, LeftBehind, InService

(* What the parts say of one record.                                       *)
LEMMA ListedFacts ==
  ASSUME Coherent, NEW s \in States, NEW id \in history[s]
  PROVE  /\ id \in RecordIds /\ Stored(id)
         /\ records[id] \in Record /\ records[id].state = s
         /\ records[id].gen \in Nat /\ records[id].gen # 0 /\ records[id].boot \in Boots
<1>1. id \in RecordIds /\ Stored(id) /\ records[id].state = s
  BY DEF Coherent, TypeOK, HistoryListsStored
<1>2. records[id] \in Record
  BY <1>1 DEF Coherent, TypeOK, Stored
<1> QED BY <1>1, <1>2 DEF Record

LEMMA CurrentFacts ==
  ASSUME Coherent, NEW s \in States, current[s] # None
  PROVE  /\ current[s] \in RecordIds /\ current[s] \in history[s] /\ Stored(current[s])
         /\ records[current[s]] \in Record /\ records[current[s]].state = s
         /\ records[current[s]].gen \in Nat /\ records[current[s]].gen # 0
         /\ records[current[s]].boot \in Boots
BY ListedFacts DEF Coherent, CurrentListed

LEMMA FloorFacts ==
  ASSUME Coherent, NEW s \in States
  PROVE  /\ tombstones[s] \in TombstoneRecord
         /\ tombstones[s].floor \in Int /\ tombstones[s].current \in BOOLEAN
         /\ tombstoneFloor[s] \in Int
BY DEF Coherent, TypeOK, AuthorityTypeOK, TombstoneRecord, NoFloor

LEMMA SoundFacts ==
  ASSUME Sound, NEW id \in RecordIds, InService(id)
  PROVE  LET s == records[id].state
         IN /\ records[id] \in Record /\ s \in States /\ records[id].gen \in Nat
            /\ id \in history[s]
            /\ current[s] # None /\ records[id].gen <= records[current[s]].gen
<1>1. records[id] \in Record
  BY DEF Sound, Coherent, TypeOK, InService, Stored
<1>2. records[id].state \in States /\ records[id].gen \in Nat
  BY <1>1 DEF Record
<1>3. id \in history[records[id].state]
  BY <1>2 DEF Sound, HistoryComplete, InService
<1> QED BY <1>1, <1>2, <1>3 DEF Sound, Coherent, NothingCovered, ListedOutrankNobody

LEMMA SoundIsHighest == Sound => CurrentIsHighest
BY SoundFacts DEF CurrentIsHighest

(* A mutation from the registry's side: the engine's own state is as it    *)
(* was, so only the types are at stake.                                    *)
LEMMA RegistryStepSound ==
  ASSUME UNCHANGED <<recordVars, tombstoneFloor>>, AuthorityTypeOK'
  PROVE  (Coherent => Coherent') /\ (Sound => Sound')
<1>1. Coherent => Coherent'
  BY DEF Coherent, TypeOK, HistoryListsStored, CurrentListed, CurrentIsServable, LeftByTombstone,
         ListedOutrankNobody, LeftBehind, IsTombstoned, InService, Stored, recordVars
<1>2. NothingCovered /\ HistoryComplete => NothingCovered' /\ HistoryComplete'
  BY DEF NothingCovered, HistoryComplete, IsTombstoned, InService, Stored, recordVars
<1> QED BY <1>1, <1>2 DEF Sound

LEMMA RegisterWorkerSound ==
  ASSUME Coherent, NEW w \in Workers, NEW b \in Boots, RegisterWorker(w, b)
  PROVE  Coherent' /\ (Sound => Sound')
<1>1. AuthorityTypeOK'
  BY DEF Coherent, TypeOK, AuthorityTypeOK, RegisterWorker, RegisterBoot
<1> QED BY <1>1, RegistryStepSound DEF RegisterWorker, RegisterBoot

LEMMA UnregisterWorkerSound ==
  ASSUME Coherent, NEW b \in Boots, UnregisterWorker(b)
  PROVE  Coherent' /\ (Sound => Sound')
<1>1. AuthorityTypeOK'
  BY DEF Coherent, TypeOK, AuthorityTypeOK, UnregisterWorker, UnregisterBoot
<1> QED BY <1>1, RegistryStepSound DEF UnregisterWorker, UnregisterBoot

LEMMA AdvanceEpochSound ==
  ASSUME Coherent, AdvanceEpoch
  PROVE  Coherent' /\ (Sound => Sound')
<1>1. AuthorityTypeOK'
  BY DEF Coherent, TypeOK, AuthorityTypeOK, AdvanceEpoch, NextEpoch
<1> QED BY <1>1, RegistryStepSound DEF AdvanceEpoch, NextEpoch

(* What an accepted publication does: the newcomer is stored, at most the  *)
(* current record of its state is superseded, and the claim moves to the   *)
(* newcomer exactly when it takes over.                                    *)
NewRecord(s, g, l, b) ==
  [state |-> s, gen |-> g, boot |-> b, lifecycle |-> l, historical |-> FALSE]
TakesOver(s, g) == current[s] = None \/ records[current[s]].gen < g

RegisterEffect(id, s, g, l, b) ==
  /\ NewRecord(s, g, l, b) \in Record /\ g \in Nat \ {0} /\ l \notin WithdrawnLifecycles
  /\ records[id] = None /\ current[s] # id
  /\ g > tombstoneFloor[s] /\ ~IsTombstoned(s, g)
  /\ records' \in [RecordIds -> Record \cup {None}]
  /\ records'[id] = NewRecord(s, g, l, b)
  /\ current[s] # None =>
       /\ current[s] \in RecordIds
       /\ records[current[s]] \in Record /\ records[current[s]].state = s
       /\ TakesOver(s, g) => records'[current[s]] = Retire(records[current[s]], "SUPERSEDED")
  /\ \A o \in RecordIds \ {id} : ~(TakesOver(s, g) /\ o = current[s]) => records'[o] = records[o]
  /\ history' = [history EXCEPT ![s] = @ \cup {id}]
  /\ TakesOver(s, g) =>
       /\ current' = [current EXCEPT ![s] = id]
       /\ currentAuthority' = [currentAuthority EXCEPT ![s] = [gen |-> g, boot |-> b]]
  /\ ~TakesOver(s, g) => UNCHANGED <<current, currentAuthority>>
  /\ UNCHANGED <<epoch, liveBoots, workerIncarnation, tombstoneFloor, tombstones, invalidations>>

LEMMA RegisterStateEffect ==
  ASSUME Coherent, NEW id \in RecordIds, NEW s \in States, NEW g \in Gens,
         NEW l \in PublishedLifecycles, NEW e \in Epochs, NEW b \in Boots,
         RegisterState(id, s, g, l, e, b)
  PROVE  RegisterEffect(id, s, g, l, b)
<1> DEFINE rec == NewRecord(s, g, l, b)
           old == current[s]
           stored == [records EXCEPT ![id] = rec]
<1>1. rec \in Record /\ g \in Nat \ {0} /\ l \notin WithdrawnLifecycles
  BY DEF RegisterState, Record, Gens, Lifecycles, NewRecord
<1>2. records[id] = None /\ old # id
  BY CurrentFacts DEF RegisterState, Stored
<1>3. g > tombstoneFloor[s] /\ ~IsTombstoned(s, g)
  BY <1>1, FloorFacts DEF RegisterState, ValidateStatePublication
<1>4. SetCurrent(id, rec) /\ rec.state = s /\ rec.gen = g
  BY DEF RegisterState, NewRecord
<1>5. stored \in [RecordIds -> Record \cup {None}] /\ stored[id] = rec
  BY <1>1 DEF Coherent, TypeOK
<1>6. ClaimOf(stored, id) = [gen |-> g, boot |-> b]
  BY <1>5 DEF ClaimOf, NewRecord
<1>7. Outranks(id, rec) <=> TakesOver(s, g)
  BY <1>2, <1>4 DEF TakesOver, Outranks
<1>8. /\ records' = IF TakesOver(s, g) /\ old # None
                     THEN [stored EXCEPT ![old] = Retire(records[old], "SUPERSEDED")]
                     ELSE stored
      /\ history' = [history EXCEPT ![s] = @ \cup {id}]
      /\ TakesOver(s, g) => /\ current' = [current EXCEPT ![s] = id]
                            /\ currentAuthority' =
                                 [currentAuthority EXCEPT ![s] = [gen |-> g, boot |-> b]]
      /\ ~TakesOver(s, g) => UNCHANGED <<current, currentAuthority>>
  BY <1>2, <1>4, <1>6, <1>7 DEF SetCurrent
<1>9. old # None => old \in RecordIds /\ records[old] \in Record /\ records[old].state = s
  BY CurrentFacts
<1>10. "SUPERSEDED" \in Lifecycles
  BY DEF Lifecycles, WithdrawnLifecycles
<1>11. old # None => Retire(records[old], "SUPERSEDED") \in Record
  BY <1>9, <1>10, RetireType
<1>12. records' \in [RecordIds -> Record \cup {None}]
  BY <1>5, <1>8, <1>9, <1>11
<1>13. /\ records'[id] = rec
       /\ TakesOver(s, g) /\ old # None => records'[old] = Retire(records[old], "SUPERSEDED")
       /\ \A o \in RecordIds \ {id} : ~(TakesOver(s, g) /\ o = old) => records'[o] = records[o]
  BY <1>2, <1>5, <1>8, <1>9, <1>12 DEF Coherent, TypeOK
<1> QED
  BY <1>1, <1>2, <1>3, <1>8, <1>9, <1>12, <1>13 DEF RegisterEffect, RegisterState

(* The same, record by record: what was stored keeps its identity, and     *)
(* what is in service afterwards was, unchanged, or is the newcomer.       *)
LEMMA RegisterKeeps ==
  ASSUME Coherent, NEW id \in RecordIds, NEW s \in States, NEW g, NEW l, NEW b,
         RegisterEffect(id, s, g, l, b)
  PROVE  /\ Stored(id)' /\ InService(id)' /\ ~Stored(id)
         /\ records'[id].state = s /\ records'[id].gen = g /\ records'[id].boot = b
         /\ ~records'[id].historical
         /\ \A o \in RecordIds \ {id} :
              /\ Stored(o)' <=> Stored(o)
              /\ Stored(o) => SameIdentity(records[o], records'[o])
              /\ InService(o)' => /\ InService(o) /\ records'[o] = records[o]
                                  /\ ~(TakesOver(s, g) /\ o = current[s])
<1>1. /\ NewRecord(s, g, l, b) # None
      /\ NewRecord(s, g, l, b).state = s /\ NewRecord(s, g, l, b).gen = g
      /\ NewRecord(s, g, l, b).boot = b /\ NewRecord(s, g, l, b).lifecycle = l
      /\ ~NewRecord(s, g, l, b).historical
  BY DEF RegisterEffect, NewRecord
<1>2. records'[id] = NewRecord(s, g, l, b) /\ records[id] = None /\ l \notin WithdrawnLifecycles
  BY DEF RegisterEffect
<1>3. ASSUME NEW o \in RecordIds \ {id}
      PROVE  /\ Stored(o)' <=> Stored(o)
             /\ Stored(o) => SameIdentity(records[o], records'[o])
             /\ InService(o)' => /\ InService(o) /\ records'[o] = records[o]
                                 /\ ~(TakesOver(s, g) /\ o = current[s])
  <2>1. CASE TakesOver(s, g) /\ o = current[s]
    <3>1. o # None
      BY CurrentFacts
    <3>2. records[o] \in Record /\ records'[o] = Retire(records[o], "SUPERSEDED")
      BY <2>1, <3>1 DEF RegisterEffect
    <3>3. "SUPERSEDED" \in WithdrawnLifecycles /\ "SUPERSEDED" \in Lifecycles
      BY DEF WithdrawnLifecycles, Lifecycles
    <3>4. /\ records'[o] \in Record /\ SameIdentity(records[o], records'[o])
          /\ records'[o].lifecycle \in WithdrawnLifecycles
      BY <3>2, <3>3, RetireType DEF SameIdentity
    <3> QED BY <3>2, <3>4 DEF Stored, InService
  <2>2. CASE ~(TakesOver(s, g) /\ o = current[s])
    <3>1. records'[o] = records[o]
      BY <2>2 DEF RegisterEffect
    <3> QED BY <2>2, <3>1 DEF Stored, InService, SameIdentity
  <2> QED BY <2>1, <2>2
<1> QED BY <1>1, <1>2, <1>3 DEF Stored, InService

LEMMA RegisterStateCoherent ==
  ASSUME Coherent, NEW id \in RecordIds, NEW s \in States, NEW g \in Gens,
         NEW l \in PublishedLifecycles, NEW e \in Epochs, NEW b \in Boots,
         RegisterState(id, s, g, l, e, b)
  PROVE  Coherent'
<1> DEFINE takesOver == TakesOver(s, g)
           old == current[s]
<1>1. RegisterEffect(id, s, g, l, b)
  BY RegisterStateEffect
<1>2. /\ g \in Nat \ {0} /\ g > tombstoneFloor[s] /\ ~IsTombstoned(s, g)
      /\ records' \in [RecordIds -> Record \cup {None}]
      /\ \A o \in RecordIds \ {id} : ~(takesOver /\ o = old) => records'[o] = records[o]
      /\ history' = [history EXCEPT ![s] = @ \cup {id}]
      /\ takesOver => /\ current' = [current EXCEPT ![s] = id]
                      /\ currentAuthority' = [currentAuthority EXCEPT ![s] = [gen |-> g, boot |-> b]]
      /\ ~takesOver => UNCHANGED <<current, currentAuthority>>
      /\ UNCHANGED <<epoch, liveBoots, workerIncarnation, tombstoneFloor, tombstones, invalidations>>
  BY <1>1 DEF RegisterEffect
<1>3. /\ Stored(id)' /\ InService(id)' /\ ~Stored(id)
      /\ records'[id].state = s /\ records'[id].gen = g /\ ~records'[id].historical
      /\ \A o \in RecordIds \ {id} :
           /\ Stored(o)' <=> Stored(o)
           /\ Stored(o) => SameIdentity(records[o], records'[o])
           /\ InService(o)' => InService(o) /\ records'[o] = records[o] /\ ~(takesOver /\ o = old)
  BY <1>1, RegisterKeeps
<1>4. takesOver <=> old = None \/ records[old].gen < g
  BY DEF TakesOver
<1> HIDE DEF takesOver
<1>5. TypeOK'
  <2>1. currentAuthority' \in [States -> AuthorityClaim \cup {None}]
    <3>1. CASE takesOver
      <4>1. [gen |-> g, boot |-> b] \in AuthorityClaim
        BY <1>2 DEF AuthorityClaim
      <4> QED BY <1>2, <3>1, <4>1 DEF Coherent, TypeOK, AuthorityTypeOK
    <3>2. CASE ~takesOver
      BY <1>2, <3>2 DEF Coherent, TypeOK, AuthorityTypeOK
    <3> QED BY <3>1, <3>2
  <2>2. current' \in [States -> RecordIds \cup {None}]
    BY <1>2 DEF Coherent, TypeOK
  <2>3. history' \in [States -> SUBSET RecordIds]
    BY <1>2 DEF Coherent, TypeOK
  <2> QED BY <1>2, <2>1, <2>2, <2>3 DEF Coherent, TypeOK, AuthorityTypeOK
<1>6. ASSUME NEW x \in States, NEW o \in history[x]
      PROVE  /\ o \in RecordIds \ {id} /\ Stored(o)' /\ SameIdentity(records[o], records'[o])
             /\ records'[o].state = x /\ records'[o].gen = records[o].gen /\ records[o].gen \in Nat
  <2>1. o \in RecordIds \ {id} /\ Stored(o) /\ records[o].state = x /\ records[o].gen \in Nat
    BY <1>3, ListedFacts
  <2> QED BY <1>3, <2>1 DEF SameIdentity
<1>7. \A x \in States : history'[x] = IF x = s THEN history[x] \cup {id} ELSE history[x]
  BY <1>2 DEF Coherent, TypeOK
<1>8. \A x \in States : current'[x] = IF x = s /\ takesOver THEN id ELSE current[x]
  BY <1>2 DEF Coherent, TypeOK
<1>9. ASSUME NEW x \in States, current[x] # None, ~(x = s /\ takesOver)
      PROVE  /\ current[x] \in history[x] /\ current[x] \in RecordIds
             /\ records'[current[x]] = records[current[x]]
  <2>1. current[x] \in history[x] /\ records[current[x]].state = x /\ Stored(current[x])
    BY <1>9, CurrentFacts
  <2>2. ~(takesOver /\ current[x] = old)
    BY <1>9, <2>1, CurrentFacts
  <2>3. current[x] \in RecordIds \ {id}
    BY <1>6, <2>1
  <2> QED BY <1>2, <2>1, <2>2, <2>3
<1>10. HistoryListsStored'
  <2> SUFFICES ASSUME NEW x \in States, NEW o \in history'[x]
               PROVE  Stored(o)' /\ records'[o].state = x
    BY DEF HistoryListsStored
  <2>1. o \in history[x] \/ (x = s /\ o = id)
    BY <1>7
  <2> QED BY <1>3, <1>6, <2>1 DEF Stored
<1>11. CurrentListed'
  <2> SUFFICES ASSUME NEW x \in States, current'[x] # None PROVE current'[x] \in history'[x]
    BY DEF CurrentListed
  <2> QED BY <1>7, <1>8, <1>9
<1>12. CurrentIsServable'
  <2> SUFFICES ASSUME NEW x \in States, current'[x] # None
               PROVE  /\ Stored(current[x])'
                      /\ records'[current'[x]].state = x
                      /\ ~IsTombstoned(x, records[current[x]].gen)'
                      /\ \/ InService(current[x])' /\ ~records'[current'[x]].historical
                         \/ LeftByTombstone(x)'
    BY DEF CurrentIsServable, IsTombstoned
  <2>1. CASE x = s /\ takesOver
    BY <1>2, <1>3, <1>8, <2>1 DEF IsTombstoned, Stored, InService
  <2>2. CASE ~(x = s /\ takesOver)
    <3>1. current'[x] = current[x] /\ current[x] # None
      BY <1>8, <2>2
    <3>2. records'[current[x]] = records[current[x]] /\ UNCHANGED tombstones
      BY <1>2, <1>9, <2>2, <3>1
    <3>3. /\ Stored(current[x]) /\ records[current[x]].state = x
          /\ ~IsTombstoned(x, records[current[x]].gen)
          /\ \/ InService(current[x]) /\ ~records[current[x]].historical
             \/ LeftByTombstone(x)
      BY <3>1 DEF Coherent, CurrentIsServable
    <3> QED BY <3>1, <3>2, <3>3 DEF Stored, InService, IsTombstoned, LeftByTombstone
  <2> QED BY <2>1, <2>2
<1>13. ListedOutrankNobody'
  <2> SUFFICES ASSUME NEW x \in States, NEW o \in history'[x], InService(o)',
                      ~IsTombstoned(x, records[o].gen)'
               PROVE  current'[x] # None /\ records'[o].gen <= records'[current'[x]].gen
    BY DEF ListedOutrankNobody, IsTombstoned
  <2>1. CASE o = id
    <3>1. x = s
      <4>1. o \notin history[x]
        BY <1>6, <2>1
      <4> QED BY <1>7, <4>1
    <3>2. CASE takesOver
      BY <1>2, <1>3, <1>8, <2>1, <3>1, <3>2 DEF Stored
    <3>3. CASE ~takesOver
      <4>1. current[s] # None /\ ~(records[old].gen < g)
        BY <1>4, <3>3
      <4>2. records[old].gen \in Nat /\ records'[old] = records[old]
        BY <1>9, <3>3, <4>1, CurrentFacts
      <4> QED BY <1>2, <1>3, <1>8, <2>1, <3>1, <3>3, <4>1, <4>2
    <3> QED BY <3>2, <3>3
  <2>2. CASE o # id
    <3>1. o \in history[x]
      BY <1>7, <2>2
    <3>2. InService(o) /\ records'[o] = records[o] /\ ~IsTombstoned(x, records[o].gen)
      BY <1>2, <1>3, <1>6, <3>1 DEF IsTombstoned
    <3>3. current[x] # None /\ records[o].gen <= records[current[x]].gen /\ records[o].gen \in Nat
      BY <3>1, <3>2, <1>6 DEF Coherent, ListedOutrankNobody
    <3>4. CASE x = s /\ takesOver
      <4>1. records[old].gen < g /\ records[old].gen \in Nat
        BY <1>4, <3>3, <3>4, CurrentFacts
      <4> QED BY <1>2, <1>3, <1>8, <3>2, <3>3, <3>4, <4>1 DEF Stored
    <3>5. CASE ~(x = s /\ takesOver)
      BY <1>8, <1>9, <3>2, <3>3, <3>5
    <3> QED BY <3>4, <3>5
  <2> QED BY <2>1, <2>2
<1>14. LeftBehind'
  <2> SUFFICES ASSUME NEW x \in States, current'[x] # None, ~InService(current[x])'
               PROVE  /\ tombstoneFloor[x] >= tombstones[x].floor
                      /\ \A o \in history'[x] : ~InService(o)'
    BY <1>2 DEF LeftBehind
  <2>1. ~(x = s /\ takesOver)
    BY <1>3, <1>8 DEF InService, Stored
  <2>2. current[x] # None /\ current'[x] = current[x] /\ ~InService(current[x])
    BY <1>8, <1>9, <2>1 DEF InService, Stored
  <2>3. /\ tombstoneFloor[x] >= tombstones[x].floor
        /\ \A o \in history[x] : ~InService(o)
        /\ LeftByTombstone(x)
    BY <2>2 DEF Coherent, LeftBehind, CurrentIsServable
  <2>4. x # s
    <3>1. SUFFICES ASSUME x = s PROVE FALSE
      OBVIOUS
    <3>2. ~(records[old].gen < g)
      BY <1>4, <2>1, <3>1
    <3>3. records[old].gen <= tombstones[s].floor /\ tombstoneFloor[s] >= tombstones[s].floor
      BY <2>3, <3>1 DEF LeftByTombstone
    <3>4. records[old].gen \in Nat
      BY <2>2, <3>1, CurrentFacts
    <3> QED BY <1>2, <3>2, <3>3, <3>4, FloorFacts
  <2> QED BY <1>3, <1>6, <1>7, <2>3, <2>4
<1> QED BY <1>5, <1>10, <1>11, <1>12, <1>13, <1>14 DEF Coherent

LEMMA RegisterStateSound ==
  ASSUME Sound, NEW id \in RecordIds, NEW s \in States, NEW g \in Gens,
         NEW l \in PublishedLifecycles, NEW e \in Epochs, NEW b \in Boots,
         RegisterState(id, s, g, l, e, b)
  PROVE  Sound'
<1>1. Coherent /\ Coherent' /\ RegisterEffect(id, s, g, l, b)
  BY RegisterStateCoherent, RegisterStateEffect DEF Sound
<1>2. /\ Stored(id)' /\ ~Stored(id)
      /\ records'[id].state = s /\ records'[id].gen = g
      /\ \A o \in RecordIds \ {id} :
           /\ Stored(o)' <=> Stored(o)
           /\ Stored(o) => SameIdentity(records[o], records'[o])
           /\ InService(o)' => InService(o) /\ records'[o] = records[o]
  BY <1>1, RegisterKeeps
<1>3. UNCHANGED tombstones /\ ~IsTombstoned(s, g) /\ history' = [history EXCEPT ![s] = @ \cup {id}]
  BY <1>1 DEF RegisterEffect
<1>4. NothingCovered'
  BY <1>2, <1>3 DEF Sound, NothingCovered, IsTombstoned
<1>5. HistoryComplete'
  <2> SUFFICES ASSUME NEW x \in States
               PROVE  history'[x] = {o \in RecordIds : Stored(o)' /\ records'[o].state = x}
    BY DEF HistoryComplete
  <2>1. history[x] = {o \in RecordIds : Stored(o) /\ records[o].state = x}
    BY DEF Sound, HistoryComplete
  <2>2. history'[x] = IF x = s THEN history[x] \cup {id} ELSE history[x]
    BY <1>1, <1>3 DEF Coherent, TypeOK
  <2> QED BY <1>2, <2>1, <2>2 DEF SameIdentity
<1> QED BY <1>1, <1>4, <1>5 DEF Sound

LEMMA RegisterStateIInv ==
  ASSUME IInv, NEW id \in RecordIds, NEW s \in States, NEW g \in Gens,
         NEW l \in PublishedLifecycles, NEW e \in Epochs, NEW b \in Boots,
         RegisterState(id, s, g, l, e, b)
  PROVE  AuthorityMirrorsCurrent' /\ FloorHolds'
<1> DEFINE old == current[s]
           takesOver == TakesOver(s, g)
<1>1. Sound /\ Coherent /\ RegisterEffect(id, s, g, l, b)
  BY RegisterStateEffect DEF IInv, Sound
<1>2. /\ records'[id] # None /\ records'[id].state = s /\ records'[id].gen = g
      /\ records'[id].boot = b /\ ~Stored(id)
      /\ \A o \in RecordIds \ {id} : InService(o)' => InService(o) /\ records'[o] = records[o]
  BY <1>1, RegisterKeeps DEF Stored
<1>3. /\ \A o \in RecordIds \ {id} : ~(takesOver /\ o = old) => records'[o] = records[o]
      /\ takesOver => /\ current' = [current EXCEPT ![s] = id]
                      /\ currentAuthority' = [currentAuthority EXCEPT ![s] = [gen |-> g, boot |-> b]]
      /\ ~takesOver => UNCHANGED <<current, currentAuthority>>
      /\ g > tombstoneFloor[s] /\ UNCHANGED <<tombstones, tombstoneFloor>>
  BY <1>1 DEF RegisterEffect
<1>4. FloorHolds'
  BY <1>2, <1>3 DEF IInv, FloorHolds
<1> HIDE DEF takesOver
<1>5. AuthorityMirrorsCurrent'
  <2> SUFFICES ASSUME NEW x \in States
               PROVE  currentAuthority'[x] = ClaimOf(records', current'[x])
    BY DEF AuthorityMirrorsCurrent
  <2>1. CASE x = s /\ takesOver
    BY <1>2, <1>3, <2>1 DEF ClaimOf, IInv, Sound, Coherent, TypeOK, AuthorityTypeOK
  <2>2. CASE ~(x = s /\ takesOver)
    <3>1. currentAuthority'[x] = ClaimOf(records, current[x]) /\ current'[x] = current[x]
      BY <1>3, <2>2 DEF IInv, Sound, Coherent, TypeOK, AuthorityTypeOK, AuthorityMirrorsCurrent
    <3>2. ASSUME current[x] # None
          PROVE  current[x] \in RecordIds \ {id} /\ ~(takesOver /\ current[x] = old)
      <4>1. current[x] \in RecordIds /\ Stored(current[x]) /\ records[current[x]].state = x
        BY <1>1, <3>2, CurrentFacts
      <4>2. old # None => records[old].state = s
        BY <1>1, CurrentFacts
      <4> QED BY <1>2, <2>2, <3>2, <4>1, <4>2
    <3> QED BY <1>3, <3>1, <3>2 DEF ClaimOf
  <2> QED BY <2>1, <2>2
<1> QED BY <1>4, <1>5

-----------------------------------------------------------------------------
(* What taking the covered generations of a state out of service does to   *)
(* the record set: stored records keep their identity, and exactly those   *)
(* that the history lists up to the bound are no longer in service.        *)
LEMMA RetireCoveredEffect ==
  ASSUME Coherent, NEW s \in States, NEW g \in Nat, NEW l \in WithdrawnLifecycles,
         records' = RetireCovered(s, g, l)
  PROVE  /\ records' \in [RecordIds -> Record \cup {None}]
         /\ \A o \in RecordIds : Stored(o)' <=> Stored(o)
         /\ \A o \in RecordIds : Stored(o) => SameIdentity(records[o], records'[o])
         /\ \A o \in RecordIds :
              InService(o)' <=> InService(o) /\ ~(o \in history[s] /\ records[o].gen <= g)
         /\ \A o \in RecordIds : o \in history[s] /\ records[o].gen <= g => records'[o].lifecycle = l
         /\ \A o \in RecordIds : ~(o \in history[s] /\ records[o].gen <= g) => records'[o] = records[o]
<1>1. l \in Lifecycles
  BY DEF Lifecycles
<1>2. records' \in [RecordIds -> Record \cup {None}]
  BY <1>1, RetireCoveredType, ListedFacts DEF Coherent
<1>3. ASSUME NEW o \in RecordIds
      PROVE  /\ Stored(o)' <=> Stored(o)
             /\ Stored(o) => SameIdentity(records[o], records'[o])
             /\ InService(o)' <=> InService(o) /\ ~(o \in history[s] /\ records[o].gen <= g)
             /\ o \in history[s] /\ records[o].gen <= g => records'[o].lifecycle = l
             /\ ~(o \in history[s] /\ records[o].gen <= g) => records'[o] = records[o]
  <2>1. o \in Covered(s, g, l) <=>
          o \in history[s] /\ records[o].gen <= g /\ records[o].lifecycle # l
    BY DEF Covered
  <2>2. records'[o] = IF o \in Covered(s, g, l) THEN Retire(records[o], l) ELSE records[o]
    BY DEF RetireCovered
  <2>3. o \in history[s] => records[o] \in Record
    BY ListedFacts
  <2>4. CASE o \in Covered(s, g, l)
    <3>1. /\ records[o] \in Record
          /\ records'[o] \in Record
          /\ records'[o].state = records[o].state
          /\ records'[o].gen = records[o].gen
          /\ records'[o].boot = records[o].boot
          /\ records'[o].lifecycle = l
      BY <1>1, <2>1, <2>2, <2>3, <2>4, RetireType
    <3> QED BY <2>1, <2>4, <3>1 DEF SameIdentity, Stored, InService
  <2>5. CASE o \notin Covered(s, g, l)
    <3>1. records'[o] = records[o]
      BY <2>2, <2>5
    <3>2. o \in history[s] /\ records[o].gen <= g => Stored(o) /\ records[o].lifecycle = l
      BY <2>1, <2>5, ListedFacts
    <3> QED BY <2>1, <3>1, <3>2 DEF SameIdentity, Stored, InService
  <2> QED BY <2>4, <2>5
<1> QED BY <1>2, <1>3

(* What invalidate and tombstone have in common.  The covered generations  *)
(* of s leave service.  Its current record is dropped, or is above the     *)
(* bound, or is left by a tombstone whose flag is unset.                   *)
WithdrawalEffect(s, g, l) ==
  /\ records' = RetireCovered(s, g, l) /\ UNCHANGED history
  /\ AuthorityTypeOK'
  /\ tombstones' \in [States -> TombstoneRecord]
  /\ invalidations' \in Seq([state: States, bound: Nat])
  /\ current' \in [States -> RecordIds \cup {None}]
  /\ \A x \in States \ {s} :
       tombstones'[x] = tombstones[x] /\ tombstoneFloor'[x] = tombstoneFloor[x] /\ current'[x] = current[x]
  /\ \/ tombstones'[s] = tombstones[s] /\ tombstoneFloor'[s] = tombstoneFloor[s]
     \/ tombstones[s].floor < g /\ tombstones'[s].floor = g /\ tombstoneFloor'[s] = g
  /\ \/ current'[s] = None /\ (current[s] # None => records[current[s]].gen <= g)
     \/ current'[s] = current[s] /\ (current[s] # None => records[current[s]].gen > g)
     \/ /\ current'[s] = current[s] /\ l = "TOMBSTONED"
        /\ tombstones'[s].floor = g /\ tombstoneFloor'[s] = g /\ ~tombstones'[s].current

LEMMA WithdrawalCoherent ==
  ASSUME Coherent, NEW s \in States, NEW g \in Nat, NEW l \in WithdrawnLifecycles,
         WithdrawalEffect(s, g, l)
  PROVE  Coherent'
<1>1. /\ records' \in [RecordIds -> Record \cup {None}]
      /\ \A o \in RecordIds : Stored(o)' <=> Stored(o)
      /\ \A o \in RecordIds : Stored(o) => SameIdentity(records[o], records'[o])
      /\ \A o \in RecordIds :
           InService(o)' <=> InService(o) /\ ~(o \in history[s] /\ records[o].gen <= g)
      /\ \A o \in RecordIds : o \in history[s] /\ records[o].gen <= g => records'[o].lifecycle = l
      /\ \A o \in RecordIds : ~(o \in history[s] /\ records[o].gen <= g) => records'[o] = records[o]
  BY RetireCoveredEffect DEF WithdrawalEffect
<1>2. TypeOK'
  BY <1>1 DEF Coherent, TypeOK, WithdrawalEffect
<1>3. ASSUME NEW x \in States, NEW o \in history[x]
      PROVE  /\ o \in RecordIds /\ Stored(o)' /\ records[o].gen \in Nat /\ records[o].gen # 0
             /\ records'[o].state = x /\ records'[o].gen = records[o].gen
             /\ InService(o)' <=> InService(o) /\ ~(x = s /\ records[o].gen <= g)
             /\ ~(x = s /\ records[o].gen <= g) => records'[o] = records[o]
             /\ x = s /\ records[o].gen <= g => records'[o].lifecycle = l
  <2>1. o \in RecordIds /\ Stored(o) /\ records[o].state = x /\ records[o].gen \in Nat /\ records[o].gen # 0
    BY ListedFacts
  <2>2. o \in history[s] <=> x = s
    BY <2>1, ListedFacts
  <2> QED BY <1>1, <2>1, <2>2 DEF SameIdentity
<1>4. UNCHANGED history /\ \A x \in States : current'[x] # None => current'[x] = current[x]
  BY DEF WithdrawalEffect
<1>5. HistoryListsStored'
  BY <1>3, <1>4 DEF HistoryListsStored
<1>6. CurrentListed'
  BY <1>4, CurrentFacts DEF CurrentListed
<1>7. ASSUME NEW x \in States, x # s
      PROVE  /\ tombstones'[x] = tombstones[x] /\ tombstoneFloor'[x] = tombstoneFloor[x]
             /\ current'[x] = current[x]
             /\ \A o \in history[x] : records'[o] = records[o] /\ (InService(o)' <=> InService(o))
  BY <1>3, <1>7 DEF WithdrawalEffect
<1>8. /\ tombstones[s].floor \in Int /\ tombstones'[s].floor \in Int /\ tombstoneFloor'[s] \in Int
      /\ tombstoneFloor[s] \in Int
      /\ tombstones[s].current \in BOOLEAN /\ tombstones'[s].current \in BOOLEAN
  <2>1. tombstones'[s] \in TombstoneRecord
    BY DEF WithdrawalEffect
  <2> QED BY <1>2, <2>1, FloorFacts DEF TypeOK, AuthorityTypeOK, TombstoneRecord, NoFloor
<1>9. ASSUME NEW o \in history[s], records[o].gen > g, ~IsTombstoned(s, records[o].gen)'
      PROVE  ~IsTombstoned(s, records[o].gen)
  <2>1. CASE tombstones'[s] = tombstones[s]
    <3>1. records'[o].gen = records[o].gen
      BY <1>3
    <3> QED BY <1>9, <2>1, <3>1 DEF IsTombstoned
  <2>2. CASE tombstones[s].floor < g
    <3>1. records[o].gen \in Nat
      BY <1>3
    <3> QED BY <1>8, <1>9, <2>2, <3>1 DEF IsTombstoned, Covers
  <2> QED BY <2>1, <2>2 DEF WithdrawalEffect
<1>10. ASSUME NEW x \in States, current'[x] # None
       PROVE  /\ Stored(current[x])'
              /\ records'[current'[x]].state = x
              /\ ~IsTombstoned(x, records[current[x]].gen)'
              /\ \/ InService(current[x])' /\ ~records'[current'[x]].historical
                 \/ LeftByTombstone(x)'
  <2>1. /\ current'[x] = current[x] /\ current[x] \in history[x]
        /\ ~IsTombstoned(x, records[current[x]].gen)
        /\ \/ InService(current[x]) /\ ~records[current[x]].historical
           \/ LeftByTombstone(x)
    BY <1>4, <1>10, CurrentFacts DEF Coherent, CurrentIsServable
  <2>2. CASE x # s
    <3>1. records'[current[x]] = records[current[x]] /\ (InService(current[x])' <=> InService(current[x]))
      BY <1>7, <2>1, <2>2
    <3>2. tombstones'[x] = tombstones[x]
      BY <1>7, <2>2
    <3> QED BY <1>3, <2>1, <3>1, <3>2 DEF IsTombstoned, LeftByTombstone, InService, Stored
  <2>3. CASE x = s /\ records[current[s]].gen > g
    <3>1. /\ records'[current[s]] = records[current[s]] /\ records[current[s]].gen \in Nat
          /\ InService(current[s])' <=> InService(current[s])
      BY <1>3, <2>1, <2>3
    <3>2. CASE tombstones'[s] = tombstones[s]
      BY <1>3, <2>1, <2>3, <3>1, <3>2 DEF IsTombstoned, LeftByTombstone, InService, Stored
    <3>3. CASE tombstones[s].floor < g /\ tombstones'[s].floor = g
      <4>1. ~LeftByTombstone(s)
        BY <1>8, <2>3, <3>1, <3>3 DEF LeftByTombstone
      <4>2. ~IsTombstoned(s, records[current[s]].gen)'
        BY <1>8, <2>1, <2>3, <3>1, <3>3 DEF IsTombstoned, Covers
      <4> QED BY <1>3, <2>1, <2>3, <3>1, <4>1, <4>2 DEF InService, Stored
    <3> QED BY <3>2, <3>3 DEF WithdrawalEffect
  <2>4. CASE x = s /\ ~(records[current[s]].gen > g)
    <3>1. /\ l = "TOMBSTONED" /\ tombstones'[s].floor = g /\ ~tombstones'[s].current
      BY <1>10, <2>1, <2>4 DEF WithdrawalEffect
    <3>2. records[current[s]].gen \in Nat /\ records[current[s]].gen <= g
      BY <1>3, <2>1, <2>4
    <3>3. /\ records'[current[s]].lifecycle = "TOMBSTONED"
          /\ records'[current[s]].gen = records[current[s]].gen
          /\ records'[current[s]].state = s /\ Stored(current[s])'
      BY <1>3, <2>1, <2>4, <3>1, <3>2
    <3>4. LeftByTombstone(s)'
      BY <2>1, <2>4, <3>1, <3>2, <3>3 DEF LeftByTombstone
    <3>5. ~IsTombstoned(s, records[current[s]].gen)'
      BY <3>1 DEF IsTombstoned, Covers
    <3> QED BY <2>1, <2>4, <3>3, <3>4, <3>5 DEF Stored
  <2> QED BY <2>2, <2>3, <2>4
<1>11. CurrentIsServable'
  BY <1>10 DEF CurrentIsServable
<1>12. ASSUME NEW o \in history[s], InService(o)', ~IsTombstoned(s, records[o].gen)'
       PROVE  /\ current[s] # None /\ records[o].gen <= records[current[s]].gen
              /\ records[current[s]].gen > g /\ records[current[s]].gen \in Nat
  <2>1. InService(o) /\ records[o].gen > g /\ records[o].gen \in Nat
    BY <1>3, <1>12
  <2>2. ~IsTombstoned(s, records[o].gen)
    BY <1>9, <1>12, <2>1
  <2>3. current[s] # None /\ records[o].gen <= records[current[s]].gen
    BY <2>1, <2>2 DEF Coherent, ListedOutrankNobody
  <2>4. records[current[s]].gen \in Nat
    BY <2>3, CurrentFacts
  <2> QED BY <2>1, <2>3, <2>4
<1>13. ListedOutrankNobody'
  <2> SUFFICES ASSUME NEW x \in States, NEW o \in history[x], InService(o)',
                      ~IsTombstoned(x, records[o].gen)'
               PROVE  current'[x] # None /\ records'[o].gen <= records'[current'[x]].gen
    BY <1>4 DEF ListedOutrankNobody
  <2>1. CASE x = s
    <3>1. current'[s] = current[s] /\ current[s] \in history[s]
      BY <1>12, <2>1, CurrentFacts DEF WithdrawalEffect
    <3> QED BY <1>3, <1>12, <2>1, <3>1
  <2>2. CASE x # s
    <3>1. InService(o) /\ ~IsTombstoned(x, records[o].gen)
      BY <1>7, <2>2 DEF IsTombstoned
    <3>2. current[x] # None /\ records[o].gen <= records[current[x]].gen
      BY <3>1 DEF Coherent, ListedOutrankNobody
    <3>3. current[x] \in history[x]
      BY <3>2, CurrentFacts
    <3> QED BY <1>3, <1>7, <2>2, <3>2, <3>3
  <2> QED BY <2>1, <2>2
<1>14. LeftBehind'
  <2> SUFFICES ASSUME NEW x \in States, current'[x] # None, ~InService(current[x])'
               PROVE  /\ tombstoneFloor'[x] >= tombstones'[x].floor
                      /\ \A o \in history[x] : ~InService(o)'
    BY <1>4 DEF LeftBehind
  <2>1. current'[x] = current[x] /\ current[x] # None /\ current[x] \in history[x]
    BY <1>4, CurrentFacts
  <2>2. CASE x # s
    BY <1>7, <2>1, <2>2 DEF Coherent, LeftBehind, InService, Stored
  <2>3. CASE x = s /\ records[current[s]].gen > g
    <3>1. ~InService(current[s])
      BY <1>3, <2>1, <2>3 DEF InService, Stored
    <3>2. tombstoneFloor[s] >= tombstones[s].floor /\ \A o \in history[s] : ~InService(o)
      BY <2>1, <2>3, <3>1 DEF Coherent, LeftBehind
    <3>3. tombstoneFloor'[s] >= tombstones'[s].floor
      BY <1>8, <3>2 DEF WithdrawalEffect
    <3> QED BY <1>3, <2>3, <3>2, <3>3
  <2>4. CASE x = s /\ ~(records[current[s]].gen > g)
    <3>1. tombstoneFloor'[s] = g /\ tombstones'[s].floor = g /\ ~tombstones'[s].current
      BY <2>1, <2>4 DEF WithdrawalEffect
    <3>2. ASSUME NEW o \in history[s] PROVE ~InService(o)'
      <4>1. ~IsTombstoned(s, records[o].gen)'
        BY <3>1 DEF IsTombstoned, Covers
      <4> QED BY <1>12, <2>4, <4>1
    <3> QED BY <1>8, <2>4, <3>1, <3>2
  <2> QED BY <2>2, <2>3, <2>4
<1> QED BY <1>2, <1>5, <1>6, <1>11, <1>13, <1>14 DEF Coherent

LEMMA WithdrawalSound ==
  ASSUME Sound, NEW s \in States, NEW g \in Nat, NEW l \in WithdrawnLifecycles,
         WithdrawalEffect(s, g, l)
  PROVE  Sound'
<1>1. Coherent /\ Coherent'
  BY WithdrawalCoherent DEF Sound
<1>2. /\ \A o \in RecordIds : Stored(o)' <=> Stored(o)
      /\ \A o \in RecordIds : Stored(o) => SameIdentity(records[o], records'[o])
      /\ \A o \in RecordIds :
           InService(o)' <=> InService(o) /\ ~(o \in history[s] /\ records[o].gen <= g)
  BY <1>1, RetireCoveredEffect DEF WithdrawalEffect
<1>3. NothingCovered'
  <2> SUFFICES ASSUME NEW o \in RecordIds, InService(o)'
               PROVE  ~IsTombstoned(records[o].state, records[o].gen)'
    BY DEF NothingCovered
  <2> DEFINE x == records[o].state
  <2>1. /\ InService(o) /\ ~(o \in history[s] /\ records[o].gen <= g)
        /\ records'[o].state = x /\ records'[o].gen = records[o].gen
    BY <1>2 DEF InService, SameIdentity
  <2>2. x \in States /\ records[o].gen \in Nat /\ o \in history[x]
    BY <2>1, SoundFacts
  <2>3. ~IsTombstoned(x, records[o].gen)
    BY <2>1 DEF Sound, NothingCovered
  <2>4. CASE tombstones'[x] = tombstones[x]
    BY <2>1, <2>3, <2>4 DEF IsTombstoned
  <2>5. CASE x = s /\ tombstones'[s].floor = g
    BY <2>1, <2>2, <2>5 DEF IsTombstoned, Covers
  <2> QED BY <2>2, <2>4, <2>5 DEF WithdrawalEffect
<1>4. HistoryComplete'
  <2> SUFFICES ASSUME NEW x \in States
               PROVE  history'[x] = {o \in RecordIds : Stored(o)' /\ records'[o].state = x}
    BY DEF HistoryComplete
  <2>1. history[x] = {o \in RecordIds : Stored(o) /\ records[o].state = x}
    BY DEF Sound, HistoryComplete
  <2>2. UNCHANGED history
    BY DEF WithdrawalEffect
  <2> QED BY <1>2, <2>1, <2>2 DEF SameIdentity
<1> QED BY <1>1, <1>3, <1>4 DEF Sound

(* The registry follows: it drops the claims that the engine drops.        *)
LEMMA WithdrawalIInv ==
  ASSUME IInv, Sound', NEW s \in States, NEW g \in Nat, NEW l \in WithdrawnLifecycles,
         WithdrawalEffect(s, g, l),
         \A x \in States : tombstoneFloor'[x] = tombstones'[x].floor,
         \A x \in States :
           \/ current'[x] = None /\ currentAuthority'[x] = None
           \/ current'[x] = current[x] /\ currentAuthority'[x] = currentAuthority[x]
  PROVE  IInv'
<1>1. Coherent /\ Coherent'
  BY DEF IInv, Sound
<1>2. /\ \A o \in RecordIds : Stored(o) => SameIdentity(records[o], records'[o])
      /\ \A o \in RecordIds :
           InService(o)' <=> InService(o) /\ ~(o \in history[s] /\ records[o].gen <= g)
  BY <1>1, RetireCoveredEffect DEF WithdrawalEffect
<1>3. AuthorityMirrorsCurrent'
  <2> SUFFICES ASSUME NEW x \in States
               PROVE  currentAuthority'[x] = ClaimOf(records', current'[x])
    BY DEF AuthorityMirrorsCurrent
  <2>1. currentAuthority[x] = ClaimOf(records, current[x])
    BY DEF IInv, AuthorityMirrorsCurrent
  <2>2. CASE current'[x] = None
    BY <2>1, <2>2 DEF ClaimOf
  <2>3. CASE current'[x] # None
    <3>1. current'[x] = current[x] /\ currentAuthority'[x] = currentAuthority[x]
      BY <2>3
    <3>2. SameIdentity(records[current[x]], records'[current[x]])
      BY <1>1, <1>2, <2>3, <3>1, CurrentFacts
    <3> QED BY <2>1, <2>3, <3>1, <3>2 DEF ClaimOf, SameIdentity
  <2> QED BY <2>2, <2>3
<1>4. FloorHolds'
  <2> SUFFICES ASSUME NEW o \in RecordIds, InService(o)'
               PROVE  records'[o].gen > tombstones'[records'[o].state].floor
    BY DEF FloorHolds
  <2> DEFINE x == records[o].state
  <2>1. /\ InService(o) /\ ~(o \in history[s] /\ records[o].gen <= g)
        /\ records'[o].state = x /\ records'[o].gen = records[o].gen
    BY <1>2 DEF InService, SameIdentity
  <2>2. x \in States /\ records[o].gen \in Nat /\ o \in history[x]
    BY <2>1, SoundFacts DEF IInv
  <2>3. records[o].gen > tombstones[x].floor
    BY <2>1 DEF IInv, FloorHolds
  <2> QED BY <2>1, <2>2, <2>3 DEF WithdrawalEffect
<1> QED BY <1>3, <1>4 DEF IInv

(* invalidate never promotes: what is listed of s in service has at most   *)
(* the generation of its current record, hence lies within the bound.      *)
LEMMA InvalidateErases ==
  ASSUME Coherent, NEW s \in States, NEW bound \in Gens, NEW e \in Epochs, NEW b \in Boots,
         Invalidate(s, bound, e, b)
  PROVE  /\ current' = [current EXCEPT ![s] = None]
         /\ currentAuthority' \in {currentAuthority, [currentAuthority EXCEPT ![s] = None]}
         /\ currentAuthority' = currentAuthority => current[s] = None \/ currentAuthority[s] = None
<1>1. bound \in Nat /\ "INVALIDATED" \in WithdrawnLifecycles
  BY DEF Gens, WithdrawnLifecycles
<1>2. records' = RetireCovered(s, bound, "INVALIDATED")
  BY DEF Invalidate
<1>3. ASSUME NEW o \in history[s]
      PROVE  /\ o \in RecordIds /\ Stored(o)' /\ records'[o].gen = records[o].gen
             /\ records[o].gen \in Nat
             /\ InService(o)' => InService(o) /\ records[o].gen > bound
  <2>1. o \in RecordIds /\ Stored(o) /\ records[o].gen \in Nat
    BY ListedFacts
  <2>2. /\ Stored(o)' <=> Stored(o)
        /\ Stored(o) => SameIdentity(records[o], records'[o])
        /\ InService(o)' <=> InService(o) /\ ~(o \in history[s] /\ records[o].gen <= bound)
    BY <1>1, <1>2, <2>1, RetireCoveredEffect
  <2> QED BY <1>1, <2>1, <2>2 DEF SameIdentity
<1>4. Promotable(records', s, bound) = {}
  <2> SUFFICES ASSUME NEW o \in history[s], records'[o].lifecycle \in PromotableLifecycles,
                      ~IsTombstoned(s, records'[o].gen)
               PROVE  FALSE
    BY DEF Promotable
  <2>1. InService(o) /\ records[o].gen > bound /\ ~IsTombstoned(s, records[o].gen)
    BY <1>3 DEF InService, PromotableLifecycles, WithdrawnLifecycles
  <2>2. current[s] # None /\ records[o].gen <= records[current[s]].gen
    BY <2>1 DEF Coherent, ListedOutrankNobody
  <2>3. records[current[s]].gen <= bound /\ records[current[s]].gen \in Nat
    BY <2>2, CurrentFacts DEF Invalidate
  <2> QED BY <1>1, <1>3, <2>1, <2>2, <2>3
<1>5. Best(records', Promotable(records', s, bound)) = {}
  BY <1>4 DEF Best
<1>6. CASE Covered(s, bound, "INVALIDATED") = {} /\ current[s] = None
  <2>1. UNCHANGED <<current, currentAuthority>>
    BY <1>6 DEF Invalidate
  <2> QED BY <1>6, <2>1 DEF Coherent, TypeOK
<1>7. CASE ~(Covered(s, bound, "INVALIDATED") = {} /\ current[s] = None)
  <2>1. /\ current' = [current EXCEPT ![s] = None]
        /\ currentAuthority' = [currentAuthority EXCEPT ![s] = None]
    BY <1>5, <1>7 DEF Invalidate, ClaimOf
  <2> QED BY <2>1 DEF Coherent, TypeOK, AuthorityTypeOK
<1> QED BY <1>6, <1>7

LEMMA InvalidateEffect ==
  ASSUME Coherent, NEW s \in States, NEW bound \in Gens, NEW e \in Epochs, NEW b \in Boots,
         Invalidate(s, bound, e, b)
  PROVE  bound \in Nat /\ "INVALIDATED" \in WithdrawnLifecycles /\ WithdrawalEffect(s, bound, "INVALIDATED")
<1>1. bound \in Nat /\ "INVALIDATED" \in WithdrawnLifecycles
  BY DEF Gens, WithdrawnLifecycles
<1>2. /\ records' = RetireCovered(s, bound, "INVALIDATED")
      /\ UNCHANGED <<history, epoch, liveBoots, workerIncarnation, tombstones, tombstoneFloor>>
      /\ invalidations' = Append(invalidations, [state |-> s, bound |-> bound])
      /\ current[s] # None => records[current[s]].gen <= bound
  BY DEF Invalidate
<1>3. /\ current' = [current EXCEPT ![s] = None]
      /\ currentAuthority' \in {currentAuthority, [currentAuthority EXCEPT ![s] = None]}
  BY InvalidateErases
<1>4. invalidations' \in Seq([state: States, bound: Nat])
  BY <1>1, <1>2 DEF Coherent, TypeOK
<1>5. current' \in [States -> RecordIds \cup {None}] /\ tombstones' \in [States -> TombstoneRecord]
  BY <1>2, <1>3 DEF Coherent, TypeOK
<1>6. AuthorityTypeOK'
  BY <1>2, <1>3 DEF Coherent, TypeOK, AuthorityTypeOK
<1>7. current'[s] = None /\ \A x \in States \ {s} : current'[x] = current[x]
  BY <1>3 DEF Coherent, TypeOK
<1> QED BY <1>1, <1>2, <1>4, <1>5, <1>6, <1>7 DEF WithdrawalEffect

(* While the registry mirrors the engine its claim goes too.               *)
LEMMA InvalidateFrees ==
  ASSUME IInv, NEW s \in States, NEW bound \in Gens, NEW e \in Epochs, NEW b \in Boots,
         Invalidate(s, bound, e, b)
  PROVE  /\ current' = [current EXCEPT ![s] = None]
         /\ currentAuthority' = [currentAuthority EXCEPT ![s] = None]
<1>1. current[s] = None => currentAuthority[s] = None
  BY DEF IInv, AuthorityMirrorsCurrent, ClaimOf
<1> QED BY <1>1, InvalidateErases DEF IInv, Sound, Coherent, TypeOK, AuthorityTypeOK

LEMMA InvalidateIInv ==
  ASSUME IInv, NEW s \in States, NEW bound \in Gens, NEW e \in Epochs, NEW b \in Boots,
         Invalidate(s, bound, e, b)
  PROVE  IInv'
<1>1. /\ bound \in Nat /\ "INVALIDATED" \in WithdrawnLifecycles
      /\ WithdrawalEffect(s, bound, "INVALIDATED") /\ Sound'
  BY InvalidateEffect, WithdrawalSound DEF IInv, Sound
<1>2. /\ current' = [current EXCEPT ![s] = None]
      /\ currentAuthority' = [currentAuthority EXCEPT ![s] = None]
  BY InvalidateFrees
<1>3. \A x \in States : tombstoneFloor'[x] = tombstones'[x].floor
  BY DEF Invalidate, IInv, FloorHolds
<1>4. \A x \in States :
        \/ current'[x] = None /\ currentAuthority'[x] = None
        \/ current'[x] = current[x] /\ currentAuthority'[x] = currentAuthority[x]
  BY <1>2 DEF IInv, Sound, Coherent, TypeOK, AuthorityTypeOK
<1> QED BY <1>1, <1>3, <1>4, WithdrawalIInv

LEMMA TombstoneEffect ==
  ASSUME Coherent, NEW s \in States, NEW floor \in Gens, NEW flag \in TombstoneFlags,
         NEW e \in Epochs, NEW b \in Boots, Tombstone(s, floor, flag, e, b)
  PROVE  /\ floor \in Nat /\ "TOMBSTONED" \in WithdrawnLifecycles
         /\ WithdrawalEffect(s, floor, "TOMBSTONED")
         /\ tombstones' = [tombstones EXCEPT ![s] = [floor |-> floor, current |-> flag]]
         /\ tombstoneFloor' = [tombstoneFloor EXCEPT ![s] = floor]
         /\ \/ /\ current[s] # None /\ records[current[s]].gen <= floor
               /\ current' = [current EXCEPT ![s] = None]
               /\ currentAuthority' = [currentAuthority EXCEPT ![s] = None]
            \/ UNCHANGED <<current, currentAuthority>>
<1>1. floor \in Nat /\ "TOMBSTONED" \in WithdrawnLifecycles
  BY DEF Gens, WithdrawnLifecycles
<1>2. /\ records' = RetireCovered(s, floor, "TOMBSTONED")
      /\ UNCHANGED <<history, epoch, liveBoots, workerIncarnation, invalidations>>
      /\ tombstones' = [tombstones EXCEPT ![s] = [floor |-> floor, current |-> flag]]
      /\ tombstoneFloor' = [tombstoneFloor EXCEPT ![s] = floor]
      /\ tombstones[s].floor < floor
  BY DEF Tombstone
<1>3. [floor |-> floor, current |-> flag] \in TombstoneRecord
  BY <1>1 DEF TombstoneRecord
<1>4. /\ tombstones' \in [States -> TombstoneRecord]
      /\ tombstones'[s] = [floor |-> floor, current |-> flag]
      /\ \A x \in States \ {s} : tombstones'[x] = tombstones[x]
  BY <1>2, <1>3 DEF Coherent, TypeOK
<1>5. /\ tombstoneFloor' \in [States -> Nat \cup {NoFloor}]
      /\ tombstoneFloor'[s] = floor
      /\ \A x \in States \ {s} : tombstoneFloor'[x] = tombstoneFloor[x]
  BY <1>1, <1>2 DEF Coherent, TypeOK, AuthorityTypeOK
<1>6. current[s] # None => records[current[s]].gen \in Nat /\ records[current[s]].gen # 0
  BY CurrentFacts
<1>7. invalidations' \in Seq([state: States, bound: Nat])
  BY <1>2 DEF Coherent, TypeOK
<1>8. CASE current[s] # None /\ flag /\ records[current[s]].gen <= floor
  <2>1. /\ current' = [current EXCEPT ![s] = None]
        /\ currentAuthority' = [currentAuthority EXCEPT ![s] = None]
    BY <1>4, <1>6, <1>8 DEF Tombstone, Covers
  <2>2. /\ current' \in [States -> RecordIds \cup {None}]
        /\ current'[s] = None /\ \A x \in States \ {s} : current'[x] = current[x]
    BY <2>1 DEF Coherent, TypeOK
  <2>3. AuthorityTypeOK'
    BY <1>2, <1>5, <2>1 DEF Coherent, TypeOK, AuthorityTypeOK
  <2>4. WithdrawalEffect(s, floor, "TOMBSTONED")
    BY <1>2, <1>4, <1>5, <1>7, <1>8, <2>2, <2>3 DEF WithdrawalEffect
  <2> QED BY <1>1, <1>2, <1>8, <2>1, <2>4
<1>9. CASE ~(current[s] # None /\ flag /\ records[current[s]].gen <= floor)
  <2>1. UNCHANGED <<current, currentAuthority>>
    BY <1>4, <1>9 DEF Tombstone, Covers
  <2>2. current' \in [States -> RecordIds \cup {None}]
    BY <2>1 DEF Coherent, TypeOK
  <2>3. AuthorityTypeOK'
    BY <1>2, <1>5, <2>1 DEF Coherent, TypeOK, AuthorityTypeOK
  <2>4. (current[s] # None => records[current[s]].gen > floor) \/ ~flag
    BY <1>1, <1>6, <1>9
  <2>5. WithdrawalEffect(s, floor, "TOMBSTONED")
    BY <1>2, <1>4, <1>5, <1>7, <2>1, <2>2, <2>3, <2>4 DEF WithdrawalEffect
  <2> QED BY <1>1, <1>2, <2>1, <2>5
<1> QED BY <1>8, <1>9

LEMMA TombstoneIInv ==
  ASSUME IInv, NEW s \in States, NEW floor \in Gens, NEW flag \in TombstoneFlags,
         NEW e \in Epochs, NEW b \in Boots, Tombstone(s, floor, flag, e, b)
  PROVE  IInv'
<1>1. /\ floor \in Nat /\ "TOMBSTONED" \in WithdrawnLifecycles
      /\ WithdrawalEffect(s, floor, "TOMBSTONED")
      /\ tombstones' = [tombstones EXCEPT ![s] = [floor |-> floor, current |-> flag]]
      /\ tombstoneFloor' = [tombstoneFloor EXCEPT ![s] = floor]
      /\ \/ /\ current' = [current EXCEPT ![s] = None]
            /\ currentAuthority' = [currentAuthority EXCEPT ![s] = None]
         \/ UNCHANGED <<current, currentAuthority>>
  BY TombstoneEffect DEF IInv, Sound
<1>2. Sound'
  BY <1>1, WithdrawalSound DEF IInv
<1>3. \A x \in States : tombstoneFloor'[x] = tombstones'[x].floor
  BY <1>1 DEF IInv, Sound, Coherent, TypeOK, AuthorityTypeOK, FloorHolds
<1>4. \A x \in States :
        \/ current'[x] = None /\ currentAuthority'[x] = None
        \/ current'[x] = current[x] /\ currentAuthority'[x] = currentAuthority[x]
  BY <1>1 DEF IInv, Sound, Coherent, TypeOK, AuthorityTypeOK
<1> QED BY <1>1, <1>2, <1>3, <1>4, WithdrawalIInv

-----------------------------------------------------------------------------
LEMMA NextSound ==
  ASSUME Coherent, [Next]_vars
  PROVE  Coherent' /\ (Sound => Sound')
<1>1. ASSUME NEW w \in Workers, NEW b \in Boots, RegisterWorker(w, b)
      PROVE  Coherent' /\ (Sound => Sound')
  BY <1>1, RegisterWorkerSound
<1>2. ASSUME NEW b \in Boots, UnregisterWorker(b) PROVE Coherent' /\ (Sound => Sound')
  BY <1>2, UnregisterWorkerSound
<1>3. CASE AdvanceEpoch
  BY <1>3, AdvanceEpochSound
<1>4. ASSUME NEW s \in States, NEW g \in Gens, NEW e \in Epochs, NEW b \in Boots,
             NEW id \in RecordIds, NEW l \in PublishedLifecycles,
             RegisterState(id, s, g, l, e, b)
      PROVE  Coherent' /\ (Sound => Sound')
  BY <1>4, RegisterStateCoherent, RegisterStateSound
<1>5. ASSUME NEW s \in States, NEW g \in Gens, NEW e \in Epochs, NEW b \in Boots,
             Invalidate(s, g, e, b)
      PROVE  Coherent' /\ (Sound => Sound')
  <2>1. g \in Nat /\ "INVALIDATED" \in WithdrawnLifecycles /\ WithdrawalEffect(s, g, "INVALIDATED")
    BY <1>5, InvalidateEffect
  <2> QED BY <2>1, WithdrawalCoherent, WithdrawalSound
<1>6. ASSUME NEW s \in States, NEW g \in Gens, NEW e \in Epochs, NEW b \in Boots,
             NEW flag \in TombstoneFlags, Tombstone(s, g, flag, e, b)
      PROVE  Coherent' /\ (Sound => Sound')
  <2>1. g \in Nat /\ "TOMBSTONED" \in WithdrawnLifecycles /\ WithdrawalEffect(s, g, "TOMBSTONED")
    BY <1>6, TombstoneEffect
  <2> QED BY <2>1, WithdrawalCoherent, WithdrawalSound
<1>7. CASE UNCHANGED vars
  <2>1. UNCHANGED <<recordVars, tombstoneFloor>> /\ AuthorityTypeOK'
    BY <1>7 DEF vars, authorityVars, recordVars, Coherent, TypeOK, AuthorityTypeOK
  <2> QED BY <2>1, RegistryStepSound
<1> QED BY <1>1, <1>2, <1>3, <1>4, <1>5, <1>6, <1>7 DEF Next

(* Steps that touch neither the record set nor the claims leave the        *)
(* invariant as it was; there are three that do.                           *)
LEMMA StepCases ==
  ASSUME [Next]_vars
  PROVE  \/ UNCHANGED <<recordVars, tombstoneFloor, currentAuthority>>
         \/ \E s \in States, g \in Gens, e \in Epochs, b \in Boots :
              \/ \E id \in RecordIds, l \in PublishedLifecycles : RegisterState(id, s, g, l, e, b)
              \/ Invalidate(s, g, e, b)
              \/ \E flag \in TombstoneFlags : Tombstone(s, g, flag, e, b)
BY DEF Next, vars, authorityVars, recordVars, RegisterWorker, RegisterBoot,
       UnregisterWorker, UnregisterBoot, AdvanceEpoch, NextEpoch

LEMMA NextIInv == IInv /\ [Next]_vars => IInv'
<1> SUFFICES ASSUME IInv, [Next]_vars PROVE IInv'
  OBVIOUS
<1>1. Sound'
  BY NextSound DEF IInv, Sound
<1>2. CASE UNCHANGED <<recordVars, tombstoneFloor, currentAuthority>>
  BY <1>1, <1>2 DEF recordVars, IInv, AuthorityMirrorsCurrent, ClaimOf, FloorHolds, InService, Stored
<1>3. ASSUME NEW s \in States, NEW g \in Gens, NEW e \in Epochs, NEW b \in Boots,
             NEW id \in RecordIds, NEW l \in PublishedLifecycles,
             RegisterState(id, s, g, l, e, b)
      PROVE  IInv'
  BY <1>1, <1>3, RegisterStateIInv DEF IInv
<1>4. ASSUME NEW s \in States, NEW g \in Gens, NEW e \in Epochs, NEW b \in Boots,
             Invalidate(s, g, e, b)
      PROVE  IInv'
  BY <1>4, InvalidateIInv
<1>5. ASSUME NEW s \in States, NEW g \in Gens, NEW e \in Epochs, NEW b \in Boots,
             NEW flag \in TombstoneFlags, Tombstone(s, g, flag, e, b)
      PROVE  IInv'
  BY <1>5, TombstoneIInv
<1> QED BY <1>2, <1>3, <1>4, <1>5, StepCases

LEMMA InductiveInvariant == Spec => []IInv
BY InitIInv, NextIInv, PTL DEF Spec

-----------------------------------------------------------------------------
(* Steps from a state of the invariant.                                    *)
LEMMA IdentityStep ==
  ASSUME Coherent, [Next]_vars, NEW o \in RecordIds, Stored(o)
  PROVE  SameIdentity(records[o], records'[o]) /\ (~InService(o) => ~InService(o)')
<1>1. CASE UNCHANGED <<recordVars, tombstoneFloor, currentAuthority>>
  BY <1>1 DEF recordVars, SameIdentity, Stored, InService
<1>2. ASSUME NEW s \in States, NEW g \in Gens, NEW e \in Epochs, NEW b \in Boots,
             NEW id \in RecordIds, NEW l \in PublishedLifecycles,
             RegisterState(id, s, g, l, e, b)
      PROVE  SameIdentity(records[o], records'[o]) /\ (~InService(o) => ~InService(o)')
  <2>1. RegisterEffect(id, s, g, l, b)
    BY <1>2, RegisterStateEffect
  <2> QED BY <2>1, RegisterKeeps
<1>3. ASSUME NEW s \in States, NEW g \in Nat, NEW l \in WithdrawnLifecycles,
             WithdrawalEffect(s, g, l)
      PROVE  SameIdentity(records[o], records'[o]) /\ (~InService(o) => ~InService(o)')
  BY <1>3, RetireCoveredEffect DEF WithdrawalEffect
<1>4. ASSUME NEW s \in States, NEW g \in Gens, NEW e \in Epochs, NEW b \in Boots,
             Invalidate(s, g, e, b)
      PROVE  SameIdentity(records[o], records'[o]) /\ (~InService(o) => ~InService(o)')
  BY <1>3, <1>4, InvalidateEffect
<1>5. ASSUME NEW s \in States, NEW g \in Gens, NEW e \in Epochs, NEW b \in Boots,
             NEW flag \in TombstoneFlags, Tombstone(s, g, flag, e, b)
      PROVE  SameIdentity(records[o], records'[o]) /\ (~InService(o) => ~InService(o)')
  BY <1>3, <1>5, TombstoneEffect
<1> QED BY <1>1, <1>2, <1>4, <1>5, StepCases

LEMMA CurrentStep ==
  ASSUME Coherent, [Next]_vars, NEW x \in States, current'[x] \notin {None, current[x]}
  PROVE  ~Stored(current'[x])
<1>1. CASE UNCHANGED <<recordVars, tombstoneFloor, currentAuthority>>
  BY <1>1 DEF recordVars
<1>2. ASSUME NEW s \in States, NEW g \in Gens, NEW e \in Epochs, NEW b \in Boots,
             NEW id \in RecordIds, NEW l \in PublishedLifecycles,
             RegisterState(id, s, g, l, e, b)
      PROVE  ~Stored(current'[x])
  <2>1. RegisterEffect(id, s, g, l, b)
    BY <1>2, RegisterStateEffect
  <2>2. current'[x] = id /\ records[id] = None
    BY <2>1 DEF RegisterEffect, Coherent, TypeOK
  <2> QED BY <2>2 DEF Stored
<1>3. ASSUME NEW s \in States, NEW g \in Gens, NEW e \in Epochs, NEW b \in Boots,
             Invalidate(s, g, e, b)
      PROVE  FALSE
  BY <1>3, InvalidateErases DEF Coherent, TypeOK
<1>4. ASSUME NEW s \in States, NEW g \in Gens, NEW e \in Epochs, NEW b \in Boots,
             NEW flag \in TombstoneFlags, Tombstone(s, g, flag, e, b)
      PROVE  FALSE
  BY <1>4, TombstoneEffect DEF Coherent, TypeOK
<1> QED BY <1>1, <1>2, <1>3, <1>4, StepCases

LEMMA HistoryStep ==
  ASSUME Coherent, [Next]_vars, NEW o \in RecordIds, Stored(o)
  PROVE  /\ SameIdentity(records[o], records'[o])
         /\ ~InService(o) =>
              /\ ~InService(o)'
              /\ \A s \in States : current'[s] = o => current[s] = o
BY IdentityStep, CurrentStep

LEMMA AbstractStep ==
  ASSUME IInv, [Next]_vars
  PROVE  [Abstract!Next]_Abstract!absVars
<1> USE DEF Abstract!absVars
<1>1. CASE UNCHANGED <<recordVars, tombstoneFloor, currentAuthority>>
  BY <1>1
<1>2. ASSUME NEW s \in States, NEW g \in Gens, NEW e \in Epochs, NEW b \in Boots,
             NEW id \in RecordIds, NEW l \in PublishedLifecycles,
             RegisterState(id, s, g, l, e, b)
      PROVE  [Abstract!Next]_Abstract!absVars
  <2>1. RegisterEffect(id, s, g, l, b)
    BY <1>2, RegisterStateEffect DEF IInv, Sound
  <2>2. CASE TakesOver(s, g)
    <3>1. g > tombstoneFloor[s]
      BY <2>1 DEF RegisterEffect
    <3>2. currentAuthority[s] # None => g > currentAuthority[s].gen
      <4>1. currentAuthority[s] = ClaimOf(records, current[s])
        BY DEF IInv, AuthorityMirrorsCurrent
      <4>2. current[s] # None => records[current[s]].gen \in Nat /\ records[current[s]].gen < g
        BY <2>1, <2>2 DEF RegisterEffect, TakesOver, Record
      <4> QED BY <4>1, <4>2 DEF ClaimOf, Gens
    <3>3. /\ currentAuthority' = [currentAuthority EXCEPT ![s] = [gen |-> g, boot |-> b]]
          /\ UNCHANGED tombstoneFloor
      BY <2>1, <2>2 DEF RegisterEffect
    <3>4. Abstract!Publish(s, g, b)
      BY <3>1, <3>2, <3>3 DEF Abstract!Publish
    <3> QED BY <3>4 DEF Abstract!Next
  <2>3. CASE ~TakesOver(s, g)
    BY <2>1, <2>3 DEF RegisterEffect
  <2> QED BY <2>2, <2>3
<1>3. ASSUME NEW s \in States, NEW g \in Gens, NEW e \in Epochs, NEW b \in Boots,
             Invalidate(s, g, e, b)
      PROVE  [Abstract!Next]_Abstract!absVars
  <2>1. /\ currentAuthority' = [currentAuthority EXCEPT ![s] = None]
        /\ UNCHANGED tombstoneFloor
    BY <1>3, InvalidateFrees DEF Invalidate
  <2>2. CASE currentAuthority[s] = None
    BY <2>1, <2>2 DEF IInv, Sound, Coherent, TypeOK, AuthorityTypeOK
  <2>3. CASE currentAuthority[s] # None
    <3>1. Abstract!Withdraw(s)
      BY <2>1, <2>3 DEF Abstract!Withdraw
    <3> QED BY <3>1 DEF Abstract!Next
  <2> QED BY <2>2, <2>3
<1>4. ASSUME NEW s \in States, NEW g \in Gens, NEW e \in Epochs, NEW b \in Boots,
             NEW flag \in TombstoneFlags, Tombstone(s, g, flag, e, b)
      PROVE  [Abstract!Next]_Abstract!absVars
  <2>1. g > tombstoneFloor[s] /\ tombstoneFloor' = [tombstoneFloor EXCEPT ![s] = g]
    <3>1. tombstones[s].floor < g /\ tombstones[s].floor \in Int /\ g \in Int
      BY <1>4, FloorFacts DEF Tombstone, IInv, Sound, Gens
    <3>2. tombstoneFloor[s] = tombstones[s].floor
      BY DEF IInv, FloorHolds
    <3> QED BY <1>4, <3>1, <3>2 DEF Tombstone
  <2>2. \/ /\ current[s] # None /\ records[current[s]].gen <= g
           /\ currentAuthority' = [currentAuthority EXCEPT ![s] = None]
        \/ UNCHANGED currentAuthority
    BY <1>4, TombstoneEffect DEF IInv, Sound
  <2>3. current[s] # None =>
          currentAuthority[s] # None /\ currentAuthority[s].gen = records[current[s]].gen
    <3>1. currentAuthority[s] = ClaimOf(records, current[s])
      BY DEF IInv, AuthorityMirrorsCurrent
    <3>2. current[s] # None => records[current[s]].gen \in Nat /\ records[current[s]].boot \in Boots
      BY CurrentFacts DEF IInv, Sound
    <3> QED BY <3>1, <3>2 DEF ClaimOf, AuthorityClaim
  <2>4. Abstract!Fence(s, g)
    BY <2>1, <2>2, <2>3 DEF Abstract!Fence
  <2> QED BY <2>4 DEF Abstract!Next
<1> QED BY <1>1, <1>2, <1>3, <1>4, StepCases

-----------------------------------------------------------------------------
(* The results.                                                            *)

(* Every variable keeps its type.                                          *)
THEOREM TypeCorrect == Spec => []TypeOK
BY InductiveInvariant, PTL DEF IInv, Sound, Coherent

(* The registry's claim on a state and the engine's current record never   *)
(* disagree, however publications, invalidations, tombstones and restarts  *)
(* interleave.                                                             *)
THEOREM AuthorityAgrees == Spec => []AuthorityMirrorsCurrent
BY InductiveInvariant, PTL DEF IInv, Sound, Coherent

(* What is handed out as current is a stored record of that state which no *)
(* tombstone in force covers; it is in service and not historical, or was  *)
(* left current by a tombstone whose flag the requester had not set.       *)
THEOREM CurrentServable == Spec => []CurrentIsServable
BY InductiveInvariant, PTL DEF IInv, Sound, Coherent

(* No record in service outranks its state's current record.               *)
THEOREM HighestIsCurrent == Spec => []CurrentIsHighest
BY InductiveInvariant, SoundIsHighest, PTL DEF IInv

(* The registry tests publications against the floor of the latest         *)
(* tombstone, and nothing at or below it is in service.                    *)
THEOREM TombstonesHold == Spec => []FloorHolds
BY InductiveInvariant, PTL DEF IInv, Sound, Coherent

(* The history that invalidate and tombstone walk misses no record.        *)
THEOREM HistoryIsComplete == Spec => []HistoryComplete
BY InductiveInvariant, PTL DEF IInv, Sound, Coherent

(* Records are never dropped or rewritten, and withdrawal is for good.     *)
THEOREM HistoryIsKept == Spec => HistoryNotRewritten
<1>1. IInv /\ [Next]_vars =>
        [\A id \in RecordIds : Stored(id) =>
           /\ SameIdentity(records[id], records'[id])
           /\ ~InService(id) =>
                /\ ~InService(id)'
                /\ \A s \in States : current'[s] = id => current[s] = id]_vars
  BY HistoryStep DEF IInv, Sound
<1> QED BY <1>1, InductiveInvariant, PTL DEF Spec, HistoryNotRewritten

(* invalidate's search for a next-highest generation never finds one: a    *)
(* record becomes current only in the step that publishes it.              *)
THEOREM NothingIsPromoted == Spec => OnlyFreshBecomesCurrent
<1>1. IInv /\ [Next]_vars =>
        [\A s \in States :
           current'[s] \notin {None, current[s]} => ~Stored(current'[s])]_vars
  BY CurrentStep DEF IInv, Sound
<1> QED BY <1>1, InductiveInvariant, PTL DEF Spec, OnlyFreshBecomesCurrent

(* The engine implements the abstract index.                               *)
THEOREM EngineImplementsAbstract == Spec => ImplementsAbstractIndex
<1>1. Init => Abstract!Init
  BY DEF Init, AuthorityInit, Abstract!Init, NoFloor
<1>2. IInv /\ [Next]_vars => [Abstract!Next]_Abstract!absVars
  BY AbstractStep
<1> QED BY <1>1, <1>2, InductiveInvariant, PTL DEF Spec, ImplementsAbstractIndex, Abstract!Spec

=============================================================================
