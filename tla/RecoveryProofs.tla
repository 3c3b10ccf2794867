--------------------------- MODULE RecoveryProofs ---------------------------
(***************************************************************************)
(* Proofs about Persistence: what crashes, recoveries and LOAD requests    *)
(* preserve, for every set of states, boots, workers and record ids, finite*)
(* or not, and for every outcome of a write.                               *)
(***************************************************************************)
EXTENDS Persistence, EngineProofs, FiniteSetTheorems

USE AuthorityAssumption, EngineAssumption, PersistenceAssumption

-----------------------------------------------------------------------------
(* What recompute_current looks for exists: no request carries a           *)
(* generation above MaxGen, and a non-empty set of generations has a       *)
(* highest one (the rest of the interval above it is the smallest).        *)
Bounded(recs) == \A id \in RecordIds : recs[id] # None => recs[id].gen \in Gens

LEMMA HighestExists ==
  ASSUME NEW T, T \subseteq Gens, T # {}
  PROVE  \E m \in T : \A n \in T : n <= m
<1> DEFINE Above(g) == (g + 1)..MaxGen
           Rests == {Above(g) : g \in T}
           R == StrictSubsetOrdering(Gens)
<1>1. IsFiniteSet(Gens)
  BY FS_Interval DEF Gens
<1>2. IsWellFoundedOn(R, SUBSET Gens)
  BY <1>1, FS_StrictSubsetOrderingWellFounded, FS_FiniteSubsetsOfFinite
<1>3. Rests \subseteq SUBSET Gens /\ Rests # {}
  <2>1. ASSUME NEW g \in T PROVE Above(g) \subseteq Gens
    <3>1. g \in Nat /\ MaxGen \in Nat
      BY DEF Gens
    <3> QED BY <3>1 DEF Gens
  <2>2. PICK g \in T : TRUE
    OBVIOUS
  <2>3. Above(g) \in Rests
    OBVIOUS
  <2> HIDE DEF Above
  <2> QED BY <2>1, <2>3
<1>4. PICK rest \in Rests : \A other \in Rests : <<other, rest>> \notin R
  <2> HIDE DEF R, Rests
  <2> QED BY <1>2, <1>3, WFMin
<1>5. PICK m \in T : rest = Above(m)
  OBVIOUS
<1>6. ASSUME NEW n \in T, ~(n <= m) PROVE FALSE
  <2>1. m \in Nat /\ n \in Nat /\ m <= MaxGen /\ n <= MaxGen /\ m < n
    BY <1>6 DEF Gens
  <2>2. Above(n) \subseteq Above(m)
    BY <2>1
  <2>3. n \in Above(m) /\ n \notin Above(n)
    BY <2>1
  <2>4. Above(n) \in SUBSET Gens /\ Above(m) \in SUBSET Gens /\ Above(n) \in Rests
    <3>1. Above(n) \in Rests /\ Above(m) \in Rests
      OBVIOUS
    <3> HIDE DEF Above, Rests
    <3> QED BY <1>3, <3>1
  <2> HIDE DEF Above, Rests
  <2>5. <<Above(n), Above(m)>> \in (SUBSET Gens) \X (SUBSET Gens)
    BY <2>4
  <2>6. <<Above(n), Above(m)>> \in R
    BY <2>2, <2>3, <2>5 DEF StrictSubsetOrdering
  <2> QED BY <1>4, <1>5, <2>4, <2>6
<1> QED BY <1>6

LEMMA BoundedStep ==
  ASSUME Coherent, Bounded(records), [Next]_vars
  PROVE  Bounded(records)'
<1> SUFFICES ASSUME NEW o \in RecordIds, Stored(o)' PROVE records'[o].gen \in Gens
  BY DEF Bounded, Stored
<1>1. CASE Stored(o)
  BY <1>1, IdentityStep DEF Bounded, Stored, SameIdentity
<1>2. CASE ~Stored(o)
  <2>1. CASE UNCHANGED recordVars
    BY <1>2, <2>1 DEF Stored, recordVars
  <2>2. ASSUME NEW s \in States, NEW g \in Gens, NEW e \in Epochs, NEW b \in Boots,
               NEW id \in RecordIds, NEW l \in PublishedLifecycles,
               RegisterState(id, s, g, l, e, b)
        PROVE  records'[o].gen \in Gens
    <3>1. RegisterEffect(id, s, g, l, b)
      BY <2>2, RegisterStateEffect
    <3> QED BY <1>2, <3>1, RegisterKeeps
  <2>3. ASSUME NEW s \in States, NEW g \in Gens, NEW e \in Epochs, NEW b \in Boots,
               Invalidate(s, g, e, b)
        PROVE  FALSE
    <3>1. WithdrawalEffect(s, g, "INVALIDATED") /\ g \in Nat /\ "INVALIDATED" \in WithdrawnLifecycles
      BY <2>3, InvalidateEffect
    <3> QED BY <1>2, <3>1, RetireCoveredEffect DEF WithdrawalEffect
  <2>4. ASSUME NEW s \in States, NEW g \in Gens, NEW e \in Epochs, NEW b \in Boots,
               NEW flag \in TombstoneFlags, Tombstone(s, g, flag, e, b)
        PROVE  FALSE
    <3>1. WithdrawalEffect(s, g, "TOMBSTONED") /\ g \in Nat /\ "TOMBSTONED" \in WithdrawnLifecycles
      BY <2>4, TombstoneEffect
    <3> QED BY <1>2, <3>1, RetireCoveredEffect DEF WithdrawalEffect
  <2> QED BY <2>1, <2>2, <2>3, <2>4, StepCases
<1> QED BY <1>1, <1>2

-----------------------------------------------------------------------------
(* The file.                                                               *)
ImageType(image) ==
  /\ image.records \in [RecordIds -> Record \cup {None}]
  /\ Bounded(image.records)
  /\ image.invalidations \in Seq([state: States, bound: Nat])
  /\ image.tombstones \in [States -> TombstoneRecord]
  /\ image.epoch \in Nat \ {0}
  /\ image.served \in [States -> RecordIds \cup {None}]
  /\ image.halfLoaded \in BOOLEAN

(* The part of Sound that a file can hold.                                 *)
Listed(image, id) ==
  image.records[id] # None /\ image.records[id].lifecycle \notin WithdrawnLifecycles
ImageSound(image) ==
  /\ \A s \in States : image.served[s] # None =>
       /\ image.records[image.served[s]] # None
       /\ image.records[image.served[s]].state = s
       /\ ~Listed(image, image.served[s]) =>
            \A id \in RecordIds : ~(Listed(image, id) /\ image.records[id].state = s)
  /\ \A id \in RecordIds : Listed(image, id) =>
       LET s == image.records[id].state
       IN /\ image.served[s] # None
          /\ image.records[id].gen <= image.records[image.served[s]].gen
          /\ ~Covers(image.tombstones[s], image.records[id].gen)

LEMMA ImageLemma ==
  ASSUME Coherent, Bounded(records), halfLoaded \in BOOLEAN, NEW image \in Images
  PROVE  /\ ImageType(image) /\ image.kind = "image" /\ image.halfLoaded = halfLoaded
         /\ image.tombstones = tombstones /\ image.epoch = epoch
         /\ Sound => ImageSound(image)
         /\ \A id \in RecordIds :
              /\ image.records[id] # None <=> Stored(id)
              /\ Stored(id) => /\ image.records[id].state = records[id].state
                               /\ image.records[id].gen = records[id].gen
                               /\ image.records[id].boot = records[id].boot
                               /\ image.records[id].lifecycle = records[id].lifecycle
<1>0. PICK outgrown : image = Image(outgrown)
  BY DEF Images
<1>1. ASSUME NEW id \in RecordIds, Stored(id)
      PROVE  /\ records[id] \in Record
             /\ [records[id] EXCEPT !.historical = FALSE] \in Record
             /\ [records[id] EXCEPT !.historical = FALSE].state = records[id].state
             /\ [records[id] EXCEPT !.historical = FALSE].gen = records[id].gen
             /\ [records[id] EXCEPT !.historical = FALSE].boot = records[id].boot
             /\ [records[id] EXCEPT !.historical = FALSE].lifecycle = records[id].lifecycle
  <2>1. records[id] \in Record
    BY <1>1 DEF Coherent, TypeOK, Stored
  <2> QED BY <2>1 DEF Record
<1>2. /\ image.records = [id \in RecordIds |->
           IF Stored(id) THEN [records[id] EXCEPT !.historical = FALSE] ELSE None]
      /\ image.invalidations = invalidations /\ image.tombstones = tombstones
      /\ image.epoch = epoch /\ image.served = current
      /\ image.halfLoaded = halfLoaded /\ image.kind = "image"
  BY <1>0 DEF Image
<1>3. image.records \in [RecordIds -> Record \cup {None}]
  BY <1>1, <1>2
<1>4. ASSUME NEW id \in RecordIds
      PROVE  /\ image.records[id] # None <=> Stored(id)
             /\ Stored(id) => /\ image.records[id].state = records[id].state
                              /\ image.records[id].gen = records[id].gen
                              /\ image.records[id].boot = records[id].boot
                              /\ image.records[id].lifecycle = records[id].lifecycle
  BY <1>1, <1>2
<1>5. Bounded(image.records)
  BY <1>4 DEF Bounded, Stored
<1>6. ImageType(image)
  BY <1>2, <1>3, <1>5 DEF ImageType, Coherent, TypeOK, AuthorityTypeOK
<1>7. ASSUME Sound PROVE ImageSound(image)
  <2>1. ASSUME NEW id \in RecordIds
        PROVE  Listed(image, id) <=> InService(id)
    BY <1>4 DEF Listed, InService
  <2>2. ASSUME NEW s \in States, current[s] # None
        PROVE  /\ image.records[current[s]] # None
               /\ image.records[current[s]].state = s
               /\ ~Listed(image, current[s]) =>
                    \A id \in RecordIds : ~(Listed(image, id) /\ image.records[id].state = s)
    <3>1. /\ current[s] \in RecordIds /\ Stored(current[s])
          /\ records[current[s]].state = s
      BY <1>7, <2>2, CurrentFacts DEF Sound
    <3>2. ~InService(current[s]) => \A id \in history[s] : ~InService(id)
      BY <1>7, <2>2 DEF Sound, Coherent, LeftBehind
    <3>3. \A id \in RecordIds : InService(id) /\ image.records[id].state = s => id \in history[s]
      BY <1>4, <1>7 DEF Sound, HistoryComplete, InService
    <3> QED BY <1>4, <2>1, <3>1, <3>2, <3>3
  <2>3. ASSUME NEW id \in RecordIds, InService(id)
        PROVE  LET s == image.records[id].state
               IN /\ current[s] # None
                  /\ image.records[id].gen <= image.records[current[s]].gen
                  /\ ~Covers(tombstones[s], image.records[id].gen)
    <3> DEFINE s == records[id].state
    <3>1. image.records[id].state = s /\ image.records[id].gen = records[id].gen
      BY <1>4, <2>3 DEF InService
    <3>2. s \in States /\ current[s] # None /\ records[id].gen <= records[current[s]].gen
      BY <1>7, <2>3, SoundFacts
    <3>3. ~Covers(tombstones[s], records[id].gen)
      BY <1>7, <2>3 DEF Sound, NothingCovered, IsTombstoned
    <3>4. image.records[current[s]].gen = records[current[s]].gen
      <4>1. current[s] \in RecordIds /\ Stored(current[s])
        BY <1>7, <3>2, CurrentFacts DEF Sound
      <4> QED BY <1>4, <4>1
    <3> HIDE DEF s
    <3> QED BY <3>1, <3>2, <3>3, <3>4
  <2> QED BY <1>2, <2>1, <2>2, <2>3 DEF ImageSound
<1> QED BY <1>2, <1>4, <1>6, <1>7

(* recompute_current finds again what was current and in service: the      *)
(* records it chooses among are those in service, the highest of them was  *)
(* current, and no other has its generation.                               *)
LEMMA RecomputedLemma ==
  ASSUME NEW image, ImageType(image), ImageSound(image), Refused(image) = {}
  PROVE  Recomputed(image) = ServedInService(image)
<1> SUFFICES ASSUME NEW s \in States
             PROVE  (LET ids == Best(image.records, Eligible(image, s))
                     IN IF ids = {} THEN None ELSE CHOOSE id \in ids : TRUE)
                      = ServedInService(image)[s]
  BY DEF Recomputed, ServedInService
<1> DEFINE ids == Best(image.records, Eligible(image, s))
           c == image.served[s]
<1>1. ASSUME NEW id
      PROVE  id \in Eligible(image, s) <=>
               id \in RecordIds /\ Listed(image, id) /\ image.records[id].state = s
  BY DEF Eligible, Listed, ImageSound
<1>2. CASE c = None \/ ~Listed(image, c)
  <2>1. ASSUME NEW id \in RecordIds, Listed(image, id), image.records[id].state = s PROVE FALSE
    <3>1. c # None
      BY <2>1 DEF ImageSound
    <3>2. ~Listed(image, c)
      BY <1>2, <3>1
    <3> QED BY <2>1, <3>1, <3>2 DEF ImageSound
  <2>2. ids = {}
    <3>1. Eligible(image, s) = {}
      BY <1>1, <2>1
    <3> QED BY <3>1 DEF Best
  <2>3. ServedInService(image)[s] = None
    BY <1>2 DEF ServedInService, ImageSound, Listed
  <2> QED BY <2>2, <2>3
<1>3. CASE c # None /\ Listed(image, c)
  <2>1. c \in RecordIds /\ c \in Eligible(image, s) /\ ServedInService(image)[s] = c
    BY <1>1, <1>3 DEF ImageSound, ImageType, ServedInService, Listed
  <2>2. c \in ids
    BY <1>1, <1>3, <2>1 DEF Best, ImageSound
  <2>3. ASSUME NEW id \in ids PROVE id = c
    <3>1. /\ id \in RecordIds /\ Listed(image, id) /\ Listed(image, c)
          /\ image.records[id].state = s /\ image.records[c].state = s
          /\ image.records[id].gen <= image.records[c].gen
          /\ image.records[c].gen <= image.records[id].gen
      BY <1>1, <2>1, <2>2 DEF Best
    <3>2. image.records[id].gen = image.records[c].gen
      BY <2>1, <3>1 DEF Listed, ImageType, Record
    <3>3. ~(id < c) /\ ~(c < id)
      BY <2>1, <3>1, <3>2 DEF Refused, Repeated, Repeats, Listed
    <3>4. id \in Nat /\ c \in Nat
      BY <2>1, <3>1
    <3> HIDE DEF c
    <3> QED BY <3>3, <3>4
  <2> QED BY <2>1, <2>2, <2>3
<1> QED BY <1>2, <1>3

-----------------------------------------------------------------------------
(* What SavedStateHolds says of the file.                                  *)
Kept(image) ==
  /\ \A id \in RecordIds : image.records[id] # None =>
       /\ SameIdentity(image.records[id], records[id])
       /\ image.records[id].lifecycle \in WithdrawnLifecycles => ~InService(id)
  /\ \A s \in States :
       \/ tombstones[s] = image.tombstones[s]
       \/ tombstones[s].floor > image.tombstones[s].floor
  /\ image.epoch <= epoch

(* Whatever the image, recovery makes current the highest of the records   *)
(* that may be, so the engine it leaves is coherent; it is sound if the    *)
(* image is.                                                               *)
LEMMA RecoverLemma ==
  ASSUME Coherent, NEW image, ImageType(image), Recover(image)
  PROVE  /\ Coherent' /\ Bounded(records)'
         /\ halfLoaded' = image.halfLoaded
         /\ ImageSound(image) => Sound'
         /\ Kept(image)'
<1> DEFINE c == Recomputed(image)
           back(id) == [image.records[id] EXCEPT !.historical = c[image.records[id].state] # id]
<1>1. /\ records' = [id \in RecordIds |-> IF image.records[id] = None THEN None ELSE back(id)]
      /\ current' = c
      /\ history' = [s \in States |->
           {id \in RecordIds : image.records[id] # None /\ image.records[id].state = s}]
      /\ invalidations' = image.invalidations
      /\ halfLoaded' = image.halfLoaded
      /\ tombstones' = image.tombstones
      /\ epoch' = image.epoch
      /\ liveBoots' = [b \in Boots |-> None]
      /\ workerIncarnation' = [w \in Workers |-> None]
      /\ UNCHANGED <<tombstoneFloor, currentAuthority>>
  BY DEF Recover, RecoverRecords, ClearLiveWorkers
<1>2. ASSUME NEW s \in States
      PROVE  /\ c[s] # None => c[s] \in Eligible(image, s)
             /\ \A id \in Eligible(image, s) :
                  c[s] # None /\ image.records[id].gen <= image.records[c[s]].gen
  <2> DEFINE E == Eligible(image, s)
             ids == Best(image.records, E)
             gens == {image.records[id].gen : id \in E}
  <2>1. c[s] = IF ids = {} THEN None ELSE CHOOSE id \in ids : TRUE
    BY DEF Recomputed
  <2>2. ids \subseteq E /\ \A id \in ids, o \in E : image.records[o].gen <= image.records[id].gen
    BY DEF Best
  <2>3. E \subseteq RecordIds /\ \A id \in E : image.records[id].gen \in Gens
    BY DEF Eligible, ImageType, Bounded
  <2>4. ASSUME E # {} PROVE ids # {}
    <3>1. gens \subseteq Gens /\ gens # {}
      BY <2>3, <2>4
    <3>2. PICK m \in gens : \A n \in gens : n <= m
      <4> HIDE DEF gens
      <4> QED BY <3>1, HighestExists
    <3>3. PICK id \in E : m = image.records[id].gen
      BY <3>2
    <3>4. id \in ids
      BY <3>2, <3>3 DEF Best
    <3> QED BY <3>4
  <2>5. None \notin RecordIds
    OBVIOUS
  <2> HIDE DEF E, ids, c
  <2>6. CASE E = {}
    BY <2>1, <2>2, <2>6 DEF E
  <2>7. CASE E # {}
    <3>1. c[s] \in ids
      BY <2>1, <2>4, <2>7
    <3> QED BY <2>2, <2>3, <2>5, <3>1 DEF E
  <2> QED BY <2>6, <2>7
<1>3. c \in [States -> RecordIds \cup {None}]
  <2>1. c = [s \in States |-> c[s]]
    BY DEF Recomputed
  <2>2. ASSUME NEW s \in States PROVE c[s] \in RecordIds \cup {None}
    BY <1>2 DEF Eligible
  <2> HIDE DEF c
  <2> QED BY <2>1, <2>2
<1> HIDE DEF c
<1>4. ASSUME NEW id \in RecordIds, image.records[id] # None
      PROVE  /\ records'[id] \in Record
             /\ records'[id].state = image.records[id].state
             /\ records'[id].gen = image.records[id].gen
             /\ records'[id].boot = image.records[id].boot
             /\ records'[id].lifecycle = image.records[id].lifecycle
             /\ records'[id].historical = (c[image.records[id].state] # id)
  <2>1. image.records[id] \in Record /\ records'[id] = back(id)
    BY <1>1, <1>4 DEF ImageType
  <2> QED BY <2>1 DEF Record
<1>5. ASSUME NEW id \in RecordIds
      PROVE  /\ Stored(id)' <=> image.records[id] # None
             /\ InService(id)' <=> Listed(image, id)
  <2>1. Stored(id)' <=> image.records[id] # None
    <3>1. CASE image.records[id] = None
      BY <1>1, <3>1 DEF Stored
    <3>2. CASE image.records[id] # None
      <4>1. records'[id] \in Record
        BY <1>4, <3>2
      <4> QED BY <3>2, <4>1 DEF Stored
    <3> QED BY <3>1, <3>2
  <2> QED BY <1>4, <2>1 DEF InService, Listed
<1>6. TypeOK'
  <2>1. records' \in [RecordIds -> Record \cup {None}]
    <3>1. \A id \in RecordIds : records'[id] \in Record \cup {None}
      BY <1>1, <1>4
    <3> QED BY <1>1, <3>1
  <2>2. AuthorityTypeOK'
    BY <1>1 DEF Coherent, TypeOK, AuthorityTypeOK, ImageType
  <2> QED BY <1>1, <1>3, <2>1, <2>2 DEF TypeOK, ImageType
<1>7. HistoryComplete'
  BY <1>1, <1>4, <1>5 DEF HistoryComplete
<1>8. HistoryListsStored'
  BY <1>1, <1>4, <1>5 DEF HistoryListsStored
<1>9. ASSUME NEW s \in States, c[s] # None
      PROVE  /\ c[s] \in history'[s] /\ InService(c[s])' /\ ~records'[c[s]].historical
             /\ records'[c[s]].state = s /\ ~Covers(tombstones'[s], records'[c[s]].gen)
             /\ Stored(c[s])'
  <2>1. /\ c[s] \in RecordIds /\ image.records[c[s]] # None /\ image.records[c[s]].state = s
        /\ Listed(image, c[s]) /\ ~Covers(image.tombstones[s], image.records[c[s]].gen)
    BY <1>2, <1>9 DEF Eligible, Listed
  <2>2. c[s] \in history'[s]
    BY <1>1, <2>1
  <2>3. InService(c[s])' /\ Stored(c[s])'
    BY <1>5, <2>1
  <2>4. ~records'[c[s]].historical /\ records'[c[s]].state = s
    BY <1>4, <2>1
  <2>5. ~Covers(tombstones'[s], records'[c[s]].gen)
    BY <1>1, <1>4, <2>1
  <2> QED BY <2>1, <2>2, <2>3, <2>4, <2>5
<1>10. ASSUME NEW s \in States, NEW id \in history'[s],
              InService(id)', ~Covers(tombstones'[s], records'[id].gen)
       PROVE  c[s] # None /\ records'[id].gen <= records'[c[s]].gen
  <2>1. id \in RecordIds /\ image.records[id] # None /\ image.records[id].state = s
    BY <1>1
  <2>2. id \in Eligible(image, s)
    BY <1>1, <1>4, <1>5, <1>10, <2>1 DEF Eligible, Listed
  <2>3. c[s] # None /\ image.records[id].gen <= image.records[c[s]].gen
    BY <1>2, <2>2
  <2>4. c[s] \in RecordIds /\ image.records[c[s]] # None
    BY <1>2, <2>3 DEF Eligible
  <2> QED BY <1>4, <2>1, <2>3, <2>4
<1>11. Coherent'
  <2>1. CurrentListed'
    BY <1>1, <1>9 DEF CurrentListed
  <2>2. CurrentIsServable'
    BY <1>1, <1>9 DEF CurrentIsServable, IsTombstoned, Stored, InService
  <2>3. ListedOutrankNobody'
    BY <1>1, <1>10 DEF ListedOutrankNobody, IsTombstoned, InService, Stored
  <2>4. LeftBehind'
    BY <1>1, <1>9 DEF LeftBehind, InService, Stored
  <2> QED BY <1>6, <1>8, <2>1, <2>2, <2>3, <2>4 DEF Coherent
<1>12. Bounded(records)'
  BY <1>4, <1>5 DEF Bounded, Stored, ImageType
<1>13. ASSUME ImageSound(image) PROVE Sound'
  <2>1. ASSUME NEW id \in RecordIds, InService(id)'
        PROVE  ~Covers(tombstones'[records'[id].state], records'[id].gen)
    BY <1>1, <1>4, <1>5, <1>13, <2>1 DEF ImageSound, Listed
  <2>2. NothingCovered'
    BY <2>1 DEF NothingCovered, IsTombstoned, InService, Stored
  <2> QED BY <1>7, <1>11, <2>2 DEF Sound
<1>14. Kept(image)'
  <2>1. ASSUME NEW id \in RecordIds, image.records[id] # None
        PROVE  /\ SameIdentity(image.records[id], records'[id])
               /\ image.records[id].lifecycle \in WithdrawnLifecycles => ~InService(id)'
    BY <1>4, <1>5, <2>1 DEF SameIdentity, Listed
  <2>2. image.epoch <= epoch'
    BY <1>1 DEF ImageType
  <2> QED BY <1>1, <2>1, <2>2 DEF Kept
<1> QED BY <1>1, <1>11, <1>12, <1>13, <1>14

(* A load that throws half way leaves records, and nothing that names them.*)
LEMMA RecoverHalfLemma ==
  ASSUME Coherent, NEW image, ImageType(image), RecoverHalf(image)
  PROVE  Coherent' /\ Bounded(records)' /\ halfLoaded' = TRUE
<1>1. /\ records' \in [RecordIds -> Record \cup {None}]
      /\ \A id \in RecordIds : records'[id] \in {None, image.records[id]}
  BY DEF RecoverHalf, ImageType
<1>2. /\ current' = [s \in States |-> None]
      /\ history' = [s \in States |-> {}]
      /\ invalidations' = <<>>
      /\ tombstones' = [s \in States |-> NoTombstone]
      /\ halfLoaded' = TRUE
      /\ UNCHANGED authorityVars
  BY DEF RecoverHalf
<1>3. TypeOK'
  BY <1>1, <1>2
     DEF Coherent, TypeOK, AuthorityTypeOK, authorityVars, NoTombstone, TombstoneRecord
<1>4. Bounded(records)'
  BY <1>1 DEF Bounded, ImageType
<1> QED
  BY <1>2, <1>3, <1>4
     DEF Coherent, HistoryListsStored, CurrentListed, CurrentIsServable, ListedOutrankNobody, LeftBehind

-----------------------------------------------------------------------------
(* The inductive invariant of the process and its file: any engine is      *)
(* coherent, one without a failed load in its past is sound, and so is     *)
(* what it writes.                                                         *)
PersistInv ==
  /\ Coherent
  /\ Bounded(records)
  /\ process \in {"down", "up"}
  /\ halfLoaded \in BOOLEAN
  /\ disk.kind \in {"absent", "short", "image"}
  /\ disk.kind = "image" => ImageType(disk) /\ (~disk.halfLoaded => ImageSound(disk))
  /\ ~halfLoaded => Sound
  /\ process = "up" /\ ~halfLoaded /\ disk.kind = "image" => Kept(disk)

LEMMA InitSound == Init => Sound /\ Coherent /\ Bounded(records)
BY InitIInv DEF IInv, Sound, Init, Bounded

LEMMA PersistInitInv == PersistInit => PersistInv
<1> SUFFICES ASSUME PersistInit PROVE PersistInv
  OBVIOUS
<1>1. Sound /\ Coherent /\ Bounded(records)
  BY InitSound DEF PersistInit
<1>2. process = "down" /\ halfLoaded = FALSE /\ disk.kind = "absent"
  BY DEF PersistInit, NoFile
<1> QED BY <1>1, <1>2 DEF PersistInv

LEMMA LoadLemma ==
  ASSUME PersistInv, Load, UNCHANGED disk
  PROVE  /\ Coherent' /\ Bounded(records)' /\ halfLoaded' \in BOOLEAN
         /\ ~halfLoaded' => Sound'
         /\ ~halfLoaded' /\ disk.kind = "image" => Kept(disk)'
<1>1. CASE disk.kind # "image" /\ UNCHANGED <<vars, halfLoaded>>
  <2>1. Coherent' /\ Bounded(records)' /\ (Sound => Sound')
    BY <1>1, NextSound, BoundedStep DEF PersistInv
  <2> QED BY <1>1, <2>1 DEF PersistInv
<1>2. CASE disk.kind = "image" /\ Recover(disk)
  <2>1. /\ Coherent' /\ Bounded(records)' /\ halfLoaded' = disk.halfLoaded /\ Kept(disk)'
        /\ ImageSound(disk) => Sound'
    BY <1>2, RecoverLemma DEF PersistInv, Kept
  <2> QED BY <1>2, <2>1 DEF PersistInv, ImageType
<1>3. CASE disk.kind = "image" /\ RecoverHalf(disk)
  BY <1>3, RecoverHalfLemma DEF PersistInv
<1> QED BY <1>1, <1>2, <1>3 DEF Load

(* The engine's own steps only raise floors and epoch.                     *)
LEMMA TombstonesRise ==
  ASSUME Coherent, [Next]_vars
  PROVE  /\ \A s \in States : tombstones'[s] = tombstones[s] \/ tombstones'[s].floor > tombstones[s].floor
         /\ epoch <= epoch'
<1>1. epoch \in Int
  BY DEF Coherent, TypeOK, AuthorityTypeOK
<1>2. CASE UNCHANGED <<tombstones, epoch>>
  BY <1>1, <1>2
<1>3. CASE AdvanceEpoch
  BY <1>1, <1>3 DEF AdvanceEpoch, NextEpoch, recordVars
<1>4. ASSUME NEW s \in States, NEW g \in Gens, NEW flag \in TombstoneFlags,
             NEW e \in Epochs, NEW b \in Boots, Tombstone(s, g, flag, e, b)
      PROVE  /\ \A x \in States : \/ tombstones'[x] = tombstones[x]
                                  \/ tombstones'[x].floor > tombstones[x].floor
             /\ epoch <= epoch'
  <2>1. /\ tombstones[s].floor < g
        /\ tombstones' = [tombstones EXCEPT ![s] = [floor |-> g, current |-> flag]]
        /\ epoch' = epoch
    BY <1>4 DEF Tombstone
  <2>2. tombstones[s].floor \in Int /\ g \in Int
    BY FloorFacts DEF Gens
  <2> QED BY <1>1, <2>1, <2>2 DEF Coherent, TypeOK
<1>5. \/ UNCHANGED <<tombstones, epoch>>
      \/ AdvanceEpoch
      \/ \E s \in States, g \in Gens, flag \in TombstoneFlags, e \in Epochs, b \in Boots :
           Tombstone(s, g, flag, e, b)
  <2>1. CASE UNCHANGED vars
    BY <2>1 DEF vars, authorityVars, recordVars
  <2>2. ASSUME \/ \E w \in Workers, b \in Boots : RegisterWorker(w, b)
               \/ \E b \in Boots : UnregisterWorker(b)
        PROVE  UNCHANGED <<tombstones, epoch>>
    BY <2>2 DEF RegisterWorker, RegisterBoot, UnregisterWorker, UnregisterBoot, recordVars
  <2>3. ASSUME NEW s \in States, NEW g \in Gens, NEW e \in Epochs, NEW b \in Boots,
               \/ \E id \in RecordIds, l \in PublishedLifecycles : RegisterState(id, s, g, l, e, b)
               \/ Invalidate(s, g, e, b)
        PROVE  UNCHANGED <<tombstones, epoch>>
    BY <2>3 DEF RegisterState, Invalidate
  <2> QED BY <2>1, <2>2, <2>3 DEF Next
<1> QED BY <1>2, <1>3, <1>4, <1>5

(* What a step of the engine keeps of what the file says.                  *)
LEMMA KeptStep ==
  ASSUME Coherent, [Next]_vars, Coherent', UNCHANGED disk, ImageType(disk), Kept(disk)
  PROVE  Kept(disk)'
<1>1. ASSUME NEW id \in RecordIds, disk.records[id] # None
      PROVE  /\ SameIdentity(disk.records[id], records'[id])
             /\ disk.records[id].lifecycle \in WithdrawnLifecycles => ~InService(id)'
  <2>1. SameIdentity(disk.records[id], records[id]) /\ Stored(id)
    BY <1>1 DEF Kept, SameIdentity, Stored
  <2>2. SameIdentity(records[id], records'[id]) /\ (~InService(id) => ~InService(id)')
    BY <2>1, HistoryStep
  <2> QED BY <1>1, <2>1, <2>2 DEF Kept, SameIdentity
<1>2. ASSUME NEW s \in States
      PROVE  \/ tombstones'[s] = disk.tombstones[s]
             \/ tombstones'[s].floor > disk.tombstones[s].floor
  <2>1. /\ disk.tombstones[s].floor \in Int /\ tombstones[s].floor \in Int
        /\ tombstones'[s].floor \in Int
    BY DEF Coherent, TypeOK, TombstoneRecord, NoFloor, ImageType
  <2>2. tombstones'[s] = tombstones[s] \/ tombstones'[s].floor > tombstones[s].floor
    BY TombstonesRise
  <2>3. tombstones[s] = disk.tombstones[s] \/ tombstones[s].floor > disk.tombstones[s].floor
    BY DEF Kept
  <2> QED BY <2>1, <2>2, <2>3
<1>3. disk.epoch <= epoch'
  <2>1. disk.epoch \in Int /\ epoch \in Int /\ epoch' \in Int
    BY DEF Coherent, TypeOK, AuthorityTypeOK, ImageType
  <2> QED BY <2>1, TombstonesRise DEF Kept
<1> QED BY <1>1, <1>2, <1>3 DEF Kept

LEMMA PersistNextInv == PersistInv /\ [PersistNext]_persistVars => PersistInv'
<1> SUFFICES ASSUME PersistInv, [PersistNext]_persistVars PROVE PersistInv'
  OBVIOUS
<1>1. CASE Startup \/ LoadRequest
  <2>1. Load /\ UNCHANGED disk /\ process' = "up"
    BY <1>1 DEF Startup, LoadRequest
  <2> QED BY <2>1, LoadLemma DEF PersistInv
<1>2. CASE Crash
  <2>1. Init'
    BY <1>2 DEF Crash, Init, AuthorityInit
  <2>2. Sound' /\ Coherent' /\ Bounded(records)'
    BY <2>1, PTL, InitSound
  <2> QED BY <1>2, <2>2 DEF Crash, PersistInv
<1>3. CASE Save
  <2>1. UNCHANGED <<vars, process, halfLoaded>> /\ process = "up"
    BY <1>3 DEF Save
  <2>2. Coherent' /\ Bounded(records)' /\ (Sound => Sound')
    BY <2>1, NextSound, BoundedStep DEF PersistInv
  <2>3. CASE disk' \in {ShortFile, NoFile}
    BY <2>1, <2>2, <2>3 DEF PersistInv, ShortFile, NoFile
  <2>4. CASE disk' \in Images
    <3>1. ImageType(disk') /\ disk'.kind = "image" /\ disk'.halfLoaded = halfLoaded
      BY <2>4, ImageLemma DEF PersistInv
    <3>2. ~halfLoaded => ImageSound(disk')
      BY <2>4, ImageLemma DEF PersistInv
    <3>3. ASSUME NEW id \in RecordIds, disk'.records[id] # None
          PROVE  /\ SameIdentity(disk'.records[id], records'[id])
                 /\ disk'.records[id].lifecycle \in WithdrawnLifecycles => ~InService(id)'
      <4>1. /\ Stored(id)
            /\ disk'.records[id].state = records[id].state
            /\ disk'.records[id].gen = records[id].gen
            /\ disk'.records[id].boot = records[id].boot
            /\ disk'.records[id].lifecycle = records[id].lifecycle
        BY <2>4, <3>3, ImageLemma DEF PersistInv
      <4>2. records' = records
        BY <2>1 DEF vars, recordVars
      <4> QED BY <4>1, <4>2 DEF SameIdentity, InService, Stored
    <3>4. /\ disk'.tombstones = tombstones'
          /\ disk'.epoch <= epoch'
      <4>1. disk'.tombstones = tombstones' /\ disk'.epoch = epoch' /\ epoch' \in Int
        BY <2>1, <2>4, ImageLemma
           DEF PersistInv, Coherent, TypeOK, AuthorityTypeOK, vars, authorityVars, recordVars
      <4> QED BY <4>1
    <3>5. Kept(disk)'
      BY <2>4, <3>3, <3>4 DEF Kept
    <3> QED BY <2>1, <2>2, <2>4, <3>1, <3>2, <3>5 DEF PersistInv
  <2> QED BY <1>3, <2>3, <2>4 DEF Save
<1>4. CASE Serve
  BY <1>4, NextSound, BoundedStep, KeptStep DEF Serve, PersistInv
<1>5. CASE UNCHANGED persistVars
  BY <1>5, NextSound, BoundedStep, KeptStep DEF persistVars, PersistInv
<1> QED BY <1>1, <1>2, <1>3, <1>4, <1>5 DEF PersistNext

LEMMA PersistInductive == PersistSpec => []PersistInv
BY PersistInitInv, PersistNextInv, PTL DEF PersistSpec

-----------------------------------------------------------------------------
(* The results.                                                            *)

(* Every variable keeps its type, also in an engine that a failed load     *)
(* left half filled.                                                       *)
THEOREM PersistTypeCorrect == PersistSpec => []PersistTypeOK
<1>1. PersistInv => PersistTypeOK
  BY DEF PersistInv, PersistTypeOK, Coherent
<1> QED BY <1>1, PersistInductive, PTL

(* The engine serves soundly, whatever was lost in crashes and however     *)
(* often it was recovered; after a load that failed half way still as far  *)
(* as its histories go.                                                    *)
THEOREM RecoverySound == PersistSpec => []RecoveredServiceSound
<1>1. PersistInv => RecoveredServiceSound
  BY SoundIsHighest DEF PersistInv, RecoveredServiceSound, Coherent, Sound, NothingCovered
<1> QED BY <1>1, PersistInductive, PTL

(* What load computes from an image is what was current and in service     *)
(* when save wrote it.                                                     *)
THEOREM CurrentIsRecovered == PersistSpec => []RecoveryRestoresCurrent
<1>1. PersistInv => RecoveryRestoresCurrent
  BY RecomputedLemma DEF PersistInv, RecoveryRestoresCurrent
<1> QED BY <1>1, PersistInductive, PTL

(* Nothing that was saved is lost or taken back while the file stands.     *)
THEOREM SavedIsKept == PersistSpec => []SavedStateHolds
<1>1. PersistInv => SavedStateHolds
  BY DEF PersistInv, SavedStateHolds, Kept
<1> QED BY <1>1, PersistInductive, PTL

=============================================================================
