------------------------- MODULE CoordinatorProofs -------------------------
(***************************************************************************)
(* Proofs about the connection loop of Coordinator, for any number of      *)
(* worker processes and requests: it drives engine and file as Persistence *)
(* allows, no authority outlives its connection, nobody waits unheard, and *)
(* a coordinator that is told to terminate leaves behind what it served.   *)
(***************************************************************************)
EXTENDS Coordinator, RecoveryProofs

(* What the connections and the live boots always are.                     *)
LinkType ==
  /\ liveBoots \in [Boots -> Workers \cup {None}]
  /\ worker \in [Procs -> {"new", "idle", "waiting", "ended"}]
  /\ request \in [Procs -> Requests \cup {None}]
  /\ backlog \in Seq(Procs)
  /\ served \in Procs \cup {None}
  /\ connBoot \in Boots \cup {None}

LoopInv == LinkType /\ OnlyServedIsLive /\ WaitersAreHeard

LEMMA LoopInit == CoordInit => LoopInv /\ TerminateLeavesAll
<1> SUFFICES ASSUME CoordInit PROVE LoopInv /\ TerminateLeavesAll
  OBVIOUS
<1> USE DEF CoordInit
<1>1. LinkType
  BY DEF LinkType, PersistInit, Init, AuthorityInit
<1>2. OnlyServedIsLive
  BY DEF OnlyServedIsLive, IsLive, PersistInit, Init, AuthorityInit
<1>3. WaitersAreHeard
  BY DEF WaitersAreHeard
<1>4. TerminateLeavesAll
  BY CoordinatorAssumption DEF TerminateLeavesAll, Answers
<1> QED
  BY <1>1, <1>2, <1>3, <1>4 DEF LoopInv

-----------------------------------------------------------------------------
(* What the steps do to the live boots.                                    *)
LEMMA UseEngineLive == UseEngine => UNCHANGED liveBoots
<1> SUFFICES ASSUME UseEngine PROVE UNCHANGED liveBoots
  OBVIOUS
<1>1. CASE UNCHANGED vars
  BY <1>1 DEF vars, authorityVars
<1>2. ASSUME NEW s \in States, NEW g \in Gens, NEW e \in Epochs, NEW b \in Boots,
             NEW id \in RecordIds, NEW l \in PublishedLifecycles, RegisterState(id, s, g, l, e, b)
      PROVE  UNCHANGED liveBoots
  BY <1>2 DEF RegisterState
<1>3. ASSUME NEW s \in States, NEW g \in Gens, NEW e \in Epochs, NEW b \in Boots,
             \/ Invalidate(s, g, e, b)
             \/ \E flag \in TombstoneFlags : Tombstone(s, g, flag, e, b)
      PROVE  UNCHANGED liveBoots
  BY <1>3 DEF Invalidate, Tombstone
<1> QED
  BY <1>1, <1>2, <1>3 DEF UseEngine

LEMMA LoadLive ==
  Load => \/ UNCHANGED liveBoots
          \/ liveBoots' = [b \in Boots |-> None]
BY DEF Load, Recover, RecoverHalf, ClearLiveWorkers, vars, authorityVars

(* A step of a worker leaves engine and file alone, and so do steps that   *)
(* only accept or answer.                                                  *)
LEMMA QuietSteps ==
  \/ \E p \in Procs : Connect(p) \/ Working(p) \/ Die(p)
  \/ Accept \/ Answer
  => UNCHANGED <<persistVars, connBoot>>
BY DEF Connect, Working, Send, Finish, LoseConnection, Die, Accept, Answer, linkVars

LEMMA StopEffect ==
  Stop => /\ liveBoots' = [b \in Boots |-> None]
          /\ request' = [p \in Procs |-> None]
          /\ backlog' = <<>> /\ served' = None /\ connBoot' = None /\ answering' = None
BY DEF Stop, Crash

LEMMA LinkTypeStep == LinkType /\ [CoordNext]_coordVars => LinkType'
<1> SUFFICES ASSUME LinkType, [CoordNext]_coordVars PROVE LinkType'
  OBVIOUS
<1> USE DEF LinkType
<1>1. CASE UNCHANGED coordVars
  BY <1>1 DEF coordVars, persistVars, vars, authorityVars, workerVars, linkVars
<1>2. ASSUME NEW p \in Procs, Connect(p) \/ Working(p) \/ Die(p) PROVE LinkType'
  <2>1. liveBoots' = liveBoots /\ connBoot' = connBoot
    BY <1>2, QuietSteps DEF persistVars, vars, authorityVars
  <2>2. CASE Connect(p)
    <3>1. UNCHANGED <<request, served>>
      BY <2>2 DEF Connect
    <3>2. backlog' = backlog \/ backlog' = Append(backlog, p)
      BY <2>2 DEF Connect
    <3>3. backlog' \in Seq(Procs)
      BY <3>2
    <3>4. worker' \in [Procs -> {"new", "idle", "waiting", "ended"}]
      BY <2>2 DEF Connect
    <3> QED BY <2>1, <3>1, <3>3, <3>4
  <2>3. CASE Send(p)
    BY <2>1, <2>3 DEF Send, Requests
  <2>4. CASE Finish(p) \/ LoseConnection(p)
    BY <2>1, <2>4 DEF Finish, LoseConnection, linkVars
  <2>5. CASE Die(p)
    BY <2>1, <2>5 DEF Die
  <2> QED
    BY <1>2, <2>2, <2>3, <2>4, <2>5 DEF Working
<1>3. CASE Accept
  <2>1. liveBoots' = liveBoots /\ connBoot' = connBoot
    BY <1>3, QuietSteps DEF persistVars, vars, authorityVars
  <2> QED
    BY <1>3, <2>1 DEF Accept, workerVars
<1>4. CASE Hello
  <2>1. served \in Procs /\ served.worker \in Workers /\ served.boot \in Boots
    BY <1>4, CoordinatorAssumption DEF Hello, Receive, Process
  <2> QED
    BY <1>4, <2>1 DEF Hello, Receive, RegisterWorker, RegisterBoot, workerVars
<1>5. CASE UseEngine
  BY <1>5, UseEngineLive DEF UseEngine, Receive, workerVars
<1>6. CASE SaveFile \/ Terminate \/ TerminateFails
  BY <1>6 DEF SaveFile, Terminate, TerminateFails, Receive, SaveReturns, SaveThrows, Save, persistVars, vars, authorityVars,
              workerVars
<1>7. CASE LoadFile
  BY <1>7, LoadLive DEF LoadFile, LoadRequest, Receive, workerVars
<1>8. CASE Answer
  <2>1. liveBoots' = liveBoots /\ connBoot' = connBoot
    BY <1>8, QuietSteps DEF persistVars, vars, authorityVars
  <2> QED
    BY <1>8, <2>1 DEF Answer, Delivered
<1>9. CASE AnswerAndExit \/ AnswerFails \/ Killed
  <2>1. Stop /\ (UNCHANGED worker \/ Delivered)
    BY <1>9 DEF AnswerAndExit, AnswerFails, Killed, workerVars
  <2>2. worker' \in [Procs -> {"new", "idle", "waiting", "ended"}]
    BY <2>1 DEF Delivered
  <2> QED
    BY <2>1, <2>2, StopEffect
<1>10. CASE HangUp
  BY <1>10 DEF HangUp, UnregisterWorker, UnregisterBoot, vars, authorityVars, workerVars
<1>11. CASE Start
  BY <1>11, LoadLive DEF Start, Startup, workerVars, linkVars
<1> QED
  BY <1>1, <1>2, <1>3, <1>4, <1>5, <1>6, <1>7, <1>8, <1>9, <1>10, <1>11
     DEF CoordNext, Serving, Handle

-----------------------------------------------------------------------------
(* No boot but that of the served connection is live.                      *)
LEMMA OnlyServedStep == LinkType /\ OnlyServedIsLive /\ [CoordNext]_coordVars => OnlyServedIsLive'
<1> SUFFICES ASSUME LinkType, OnlyServedIsLive, [CoordNext]_coordVars PROVE OnlyServedIsLive'
  OBVIOUS
<1> USE DEF OnlyServedIsLive, IsLive
<1>1. CASE UNCHANGED coordVars
  BY <1>1 DEF coordVars, persistVars, vars, authorityVars, linkVars
<1>2. ASSUME NEW p \in Procs, Connect(p) \/ Working(p) \/ Die(p) PROVE OnlyServedIsLive'
  <2>1. liveBoots' = liveBoots /\ connBoot' = connBoot
    BY <1>2, QuietSteps DEF persistVars, vars, authorityVars
  <2>2. served' = served
    BY <1>2 DEF Connect, Working, Send, Finish, LoseConnection, Die, linkVars
  <2> QED
    BY <2>1, <2>2
<1>3. CASE Accept
  <2>1. liveBoots' = liveBoots
    BY <1>3, QuietSteps DEF persistVars, vars, authorityVars
  <2> QED
    BY <1>3, <2>1 DEF Accept
<1>4. CASE Hello
  <2>1. served \in Procs /\ served' = served /\ connBoot' = served.boot
    BY <1>4, CoordinatorAssumption DEF Hello, Receive, LinkType
  <2>2. liveBoots' = [liveBoots EXCEPT ![served.boot] = served.worker]
    BY <1>4 DEF Hello, RegisterWorker, RegisterBoot
  <2>3. \A b \in Boots : IsLive(b)' => b = served.boot
    BY <2>2 DEF LinkType
  <2> QED
    BY <2>1, <2>3, CoordinatorAssumption
<1>5. CASE UseEngine
  BY <1>5, UseEngineLive DEF UseEngine, Receive
<1>6. CASE SaveFile \/ Terminate \/ TerminateFails
  BY <1>6 DEF SaveFile, Terminate, TerminateFails, Receive, SaveReturns, SaveThrows, Save, persistVars, vars, authorityVars
<1>7. CASE LoadFile
  BY <1>7, LoadLive DEF LoadFile, LoadRequest, Receive
<1>8. CASE Answer
  BY <1>8, QuietSteps DEF Answer, persistVars, vars, authorityVars
<1>9. CASE AnswerAndExit \/ AnswerFails \/ Killed
  BY <1>9, StopEffect DEF AnswerAndExit, AnswerFails, Killed
<1>10. CASE HangUp
  <2>1. CASE connBoot = None
    <3>1. \A b \in Boots : ~IsLive(b)
      BY <2>1, AuthorityAssumption
    <3> QED
      BY <1>10, <2>1, <3>1 DEF HangUp, vars, authorityVars
  <2>2. CASE connBoot # None
    <3>1. liveBoots' = [liveBoots EXCEPT ![connBoot] = None]
      BY <1>10, <2>2 DEF HangUp, UnregisterWorker, UnregisterBoot
    <3>2. \A b \in Boots : ~IsLive(b)'
      BY <3>1 DEF LinkType
    <3> QED
      BY <3>2
  <2> QED
    BY <2>1, <2>2
<1>11. CASE Start
  BY <1>11, LoadLive DEF Start, Startup, linkVars
<1> QED
  BY <1>1, <1>2, <1>3, <1>4, <1>5, <1>6, <1>7, <1>8, <1>9, <1>10, <1>11
     DEF CoordNext, Serving, Handle

-----------------------------------------------------------------------------
(* No waiting worker is forgotten.                                         *)
LEMMA WaitersStep == LinkType /\ WaitersAreHeard /\ [CoordNext]_coordVars => WaitersAreHeard'
<1> SUFFICES ASSUME LinkType, WaitersAreHeard, [CoordNext]_coordVars,
                    NEW p \in Procs, worker'[p] = "waiting", Linked(p)'
             PROVE  request'[p] # None \/ (p = served' /\ answering' # None)
  BY DEF WaitersAreHeard
<1> USE DEF LinkType
<1>w. worker[p] = "waiting" /\ Linked(p) => request[p] # None \/ (p = served /\ answering # None)
  BY DEF WaitersAreHeard
<1>1. CASE UNCHANGED coordVars
  BY <1>1, <1>w DEF coordVars, workerVars, linkVars, Linked
<1>2. ASSUME NEW q \in Procs, Connect(q) \/ Working(q) \/ Die(q)
      PROVE  request'[p] # None \/ (p = served' /\ answering' # None)
  <2>1. CASE Connect(q)
    <3>1. p # q /\ worker[p] = "waiting"
      BY <1>2, <2>1 DEF Connect
    <3>2. Linked(p)
      BY <2>1, <3>1, SMTT(30) DEF Connect, Linked
    <3> QED
      BY <2>1, <3>1, <3>2, <1>w DEF Connect
  <2>2. CASE Send(q)
    <3>1. CASE p = q
      BY <2>2, <3>1, CoordinatorAssumption DEF Send, Requests
    <3>2. CASE p # q
      BY <2>2, <3>2, <1>w DEF Send, Linked
    <3> QED
      BY <3>1, <3>2
  <2>3. CASE Finish(q) \/ LoseConnection(q)
    BY <2>3, <1>w DEF Finish, LoseConnection, linkVars, Linked
  <2>4. CASE Die(q)
    BY <2>4, <1>w DEF Die, Linked
  <2> QED
    BY <1>2, <2>1, <2>2, <2>3, <2>4 DEF Working
<1>3. CASE Accept
  <2>1. Linked(p)
    BY <1>3 DEF Accept, Linked
  <2> QED
    BY <1>3, <2>1, <1>w, CoordinatorAssumption DEF Accept, workerVars
<1>4. CASE Handle
  <2>1. UNCHANGED <<worker, backlog, served>> /\ answering' \in Answers /\ answering = None
    BY <1>4 DEF Handle, Hello, UseEngine, SaveFile, LoadFile, Terminate, TerminateFails, Receive,
                workerVars, Answers
  <2>2. request' = [request EXCEPT ![served] = None]
    BY <1>4 DEF Handle, Hello, UseEngine, SaveFile, LoadFile, Terminate, TerminateFails, Receive
  <2> QED
    BY <2>1, <2>2, <1>w, CoordinatorAssumption DEF Linked
<1>5. CASE Answer
  <2>1. worker[p] = "waiting" /\ Linked(p) /\ p # served
    BY <1>5 DEF Answer, Delivered, Linked
  <2> QED
    BY <1>5, <2>1, <1>w DEF Answer
<1>6. CASE AnswerAndExit \/ AnswerFails \/ Killed
  <2>1. served' = None /\ backlog' = <<>>
    BY <1>6, StopEffect DEF AnswerAndExit, AnswerFails, Killed
  <2>2. p # served' /\ Len(backlog') = 0
    BY <2>1, CoordinatorAssumption
  <2>3. ~Linked(p)'
    BY <2>2 DEF Linked
  <2> QED
    BY <2>3
<1>7. CASE HangUp
  <2>0. worker' = worker /\ backlog' = backlog /\ served' = None /\ answering = None
    BY <1>7 DEF HangUp, workerVars
  <2>1. worker[p] = "waiting" /\ Linked(p)
    <3>1. p # served'
      BY <2>0, CoordinatorAssumption
    <3>2. \E i \in 1..Len(backlog) : backlog[i] = p
      BY <2>0, <3>1 DEF Linked
    <3> QED
      BY <2>0, <3>2 DEF Linked
  <2> QED
    BY <1>7, <2>0, <2>1, <1>w DEF HangUp
<1>8. CASE Start
  BY <1>8, <1>w DEF Start, workerVars, linkVars, Linked
<1> QED
  BY <1>1, <1>2, <1>3, <1>4, <1>5, <1>6, <1>7, <1>8 DEF CoordNext, Serving

LEMMA LoopInductive == CoordSpec => []LoopInv
<1>1. LoopInv /\ [CoordNext]_coordVars => LoopInv'
  BY LinkTypeStep, OnlyServedStep, WaitersStep DEF LoopInv
<1> QED
  BY <1>1, LoopInit, PTL DEF CoordSpec

-----------------------------------------------------------------------------
(* Only Send counts requests, only a handler says what is answered.        *)
LEMMA CountStep ==
  /\ asked \in [Procs -> 0..MaxRequests] /\ answering \in Answers \cup {None}
  /\ [CoordNext]_coordVars
  => /\ asked' \in [Procs -> 0..MaxRequests]
     /\ answering' \in Answers \cup {None}
<1> SUFFICES ASSUME asked \in [Procs -> 0..MaxRequests], answering \in Answers \cup {None},
                    [CoordNext]_coordVars
             PROVE  /\ asked' \in [Procs -> 0..MaxRequests]
                    /\ answering' \in Answers \cup {None}
  OBVIOUS
<1>1. CASE UNCHANGED coordVars
  BY <1>1 DEF coordVars, workerVars, linkVars
<1>2. ASSUME NEW p \in Procs, Connect(p) \/ Working(p) \/ Die(p)
      PROVE  /\ asked' \in [Procs -> 0..MaxRequests]
             /\ answering' \in Answers \cup {None}
  <2>1. CASE Send(p)
    BY <2>1, CoordinatorAssumption DEF Send
  <2>2. CASE ~Send(p)
    BY <1>2, <2>2 DEF Connect, Working, Finish, LoseConnection, Die, linkVars
  <2> QED
    BY <2>1, <2>2
<1>3. CASE Handle
  <2>1. answering' \in Answers
    BY <1>3 DEF Handle, Hello, UseEngine, SaveFile, LoadFile, Terminate, TerminateFails, Receive,
                Answers
  <2>2. asked' = asked
    BY <1>3 DEF Handle, Hello, UseEngine, SaveFile, LoadFile, Terminate, TerminateFails, Receive,
                workerVars
  <2> QED
    BY <2>1, <2>2
<1>4. CASE Accept \/ HangUp \/ Answer
  BY <1>4 DEF Accept, HangUp, Answer, workerVars
<1>5. CASE AnswerAndExit \/ AnswerFails \/ Killed \/ Start
  BY <1>5, StopEffect DEF AnswerAndExit, AnswerFails, Killed, Start, workerVars, linkVars
<1> QED
  BY <1>1, <1>2, <1>3, <1>4, <1>5 DEF CoordNext, Serving

-----------------------------------------------------------------------------
(* An answer is sent by a process that is up.                              *)
AnswersWhileUp == answering # None => process = "up"

LEMMA UpStep == AnswersWhileUp /\ [CoordNext]_coordVars => AnswersWhileUp'
<1> SUFFICES ASSUME AnswersWhileUp, [CoordNext]_coordVars PROVE AnswersWhileUp'
  OBVIOUS
<1> USE DEF AnswersWhileUp
<1>1. CASE UNCHANGED coordVars
  BY <1>1 DEF coordVars, persistVars, linkVars
<1>2. ASSUME NEW q \in Procs, Connect(q) \/ Working(q) \/ Die(q) PROVE AnswersWhileUp'
  <2>1. UNCHANGED answering
    BY <1>2 DEF Connect, Working, Send, Finish, LoseConnection, Die, linkVars
  <2> QED
    BY <1>2, <2>1, QuietSteps DEF persistVars
<1>3. CASE Accept
  BY <1>3, QuietSteps DEF Accept, persistVars
<1>4. CASE Handle
  BY <1>4 DEF Handle, Hello, UseEngine, SaveFile, LoadFile, Terminate, TerminateFails, Receive,
              SaveReturns, SaveThrows, Save, LoadRequest, persistVars
<1>5. CASE Answer \/ HangUp
  BY <1>5 DEF Answer, HangUp
<1>6. CASE AnswerAndExit \/ AnswerFails \/ Killed
  BY <1>6, StopEffect DEF AnswerAndExit, AnswerFails, Killed
<1>7. CASE Start
  BY <1>7 DEF Start, Startup
<1> QED
  BY <1>1, <1>2, <1>3, <1>4, <1>5, <1>6, <1>7 DEF CoordNext, Serving

(* Between the save of TERMINATE and the exit nothing changes.             *)
LEMMA TerminateStep ==
  AnswersWhileUp /\ TerminateLeavesAll /\ [CoordNext]_coordVars => TerminateLeavesAll'
<1> SUFFICES ASSUME AnswersWhileUp, TerminateLeavesAll, [CoordNext]_coordVars,
                    answering' = "LAST", disk'.kind # "short"
             PROVE  disk' \in Images'
  BY DEF TerminateLeavesAll
<1>i. UNCHANGED <<vars, halfLoaded>> => Images' = Images
  BY DEF Images, Image, Stored, vars, authorityVars, recordVars
<1>a. ASSUME UNCHANGED <<persistVars, answering>> PROVE disk' \in Images'
  BY <1>a, <1>i DEF persistVars, TerminateLeavesAll
<1>1. CASE UNCHANGED coordVars
  BY <1>1, <1>a DEF coordVars, linkVars
<1>2. ASSUME NEW q \in Procs, Connect(q) \/ Working(q) \/ Die(q) PROVE disk' \in Images'
  <2>1. UNCHANGED answering
    BY <1>2 DEF Connect, Working, Send, Finish, LoseConnection, Die, linkVars
  <2> QED
    BY <1>2, <2>1, <1>a, QuietSteps
<1>3. CASE Accept
  BY <1>3, <1>a, QuietSteps DEF Accept
<1>4. CASE Terminate
  BY <1>4, <1>i DEF Terminate, SaveReturns, Save, ShortFile, NoFile
<1>5. CASE Hello \/ UseEngine \/ SaveFile \/ LoadFile \/ TerminateFails
  BY <1>5 DEF Hello, UseEngine, SaveFile, LoadFile, TerminateFails, Receive
<1>6. CASE Answer
  BY <1>6, CoordinatorAssumption DEF Answer, Answers
<1>7. CASE AnswerAndExit \/ AnswerFails \/ Killed
  BY <1>7, StopEffect, CoordinatorAssumption DEF AnswerAndExit, AnswerFails, Killed, Answers
<1>8. CASE HangUp
  BY <1>8, CoordinatorAssumption DEF HangUp, Answers
<1>9. CASE Start
  BY <1>9, CoordinatorAssumption DEF Start, Startup, linkVars, AnswersWhileUp, Answers
<1> QED
  BY <1>1, <1>2, <1>3, <1>4, <1>5, <1>6, <1>7, <1>8, <1>9 DEF CoordNext, Serving, Handle

-----------------------------------------------------------------------------
(* Every step of the loop is one step of Persistence, or none.             *)
LEMMA CoordStepIsPersistStep == LinkType /\ [CoordNext]_coordVars => [PersistNext]_persistVars
<1> SUFFICES ASSUME LinkType, [CoordNext]_coordVars PROVE [PersistNext]_persistVars
  OBVIOUS
<1>1. CASE UNCHANGED coordVars
  BY <1>1 DEF coordVars
<1>2. CASE (\E p \in Procs : Connect(p) \/ Working(p) \/ Die(p)) \/ Accept \/ Answer
  BY <1>2, QuietSteps
<1>3. CASE Hello
  <2>1. served.worker \in Workers /\ served.boot \in Boots
    BY <1>3, CoordinatorAssumption DEF Hello, Receive, LinkType, Process
  <2>2. Next
    BY <1>3, <2>1 DEF Hello, Next
  <2> QED
    BY <1>3, <2>2 DEF Hello, Receive, PersistNext, Serve
<1>4. CASE UseEngine
  <2>1. CASE UNCHANGED vars
    BY <1>4, <2>1 DEF UseEngine, persistVars
  <2>2. CASE ~UNCHANGED vars
    <3>1. Next
      BY <1>4, <2>2 DEF UseEngine, Next
    <3> QED
      BY <1>4, <3>1 DEF UseEngine, Receive, PersistNext, Serve
  <2> QED
    BY <2>1, <2>2
<1>5. CASE SaveFile \/ LoadFile \/ Terminate \/ TerminateFails
  BY <1>5 DEF SaveFile, LoadFile, Terminate, TerminateFails, SaveReturns, SaveThrows, PersistNext
<1>6. CASE AnswerAndExit \/ AnswerFails \/ Killed
  BY <1>6 DEF AnswerAndExit, AnswerFails, Killed, Stop, PersistNext
<1>7. CASE HangUp
  <2>1. CASE connBoot = None
    BY <1>7, <2>1 DEF HangUp, persistVars
  <2>2. CASE connBoot # None
    <3>1. Next
      BY <1>7, <2>2 DEF HangUp, LinkType, Next
    <3> QED
      BY <1>7, <3>1 DEF HangUp, PersistNext, Serve
  <2> QED
    BY <2>1, <2>2
<1>8. CASE Start
  BY <1>8 DEF Start, PersistNext
<1> QED
  BY <1>1, <1>2, <1>3, <1>4, <1>5, <1>6, <1>7, <1>8 DEF CoordNext, Serving, Handle

-----------------------------------------------------------------------------
(* The loop drives the engine and the file as Persistence allows: its      *)
(* invariants hold of a coordinator with connections.                      *)
THEOREM LoopRunsPersistence == CoordSpec => PersistSpec
<1>1. CoordInit => PersistInit
  BY DEF CoordInit
<1>2. LoopInv /\ [CoordNext]_coordVars => [PersistNext]_persistVars
  BY CoordStepIsPersistStep DEF LoopInv
<1> QED
  BY <1>1, <1>2, LoopInductive, PTL DEF CoordSpec, PersistSpec

(* What is proved of the process and its file therefore holds of the       *)
(* coordinator: it never serves a withdrawn record or hides a newer one,   *)
(* and nothing it saved is lost, whoever connects and whatever dies.       *)
THEOREM CoordinatorServesSoundly ==
  CoordSpec => [](RecoveredServiceSound /\ RecoveryRestoresCurrent)
BY LoopRunsPersistence, RecoverySound, CurrentIsRecovered, PTL

(* What the coordinator saved is in force whenever it serves.              *)
THEOREM CoordinatorKeepsSaved == CoordSpec => []SavedStateHolds
BY LoopRunsPersistence, SavedIsKept, PTL

(* Every variable of the loop keeps its type.                              *)
THEOREM CoordTypeCorrect == CoordSpec => []CoordTypeOK
<1> DEFINE CountType == asked \in [Procs -> 0..MaxRequests] /\ answering \in Answers \cup {None}
<1>1. CoordInit => CountType
  BY CoordinatorAssumption DEF CoordInit
<1>2. CountType /\ [CoordNext]_coordVars => CountType'
  BY CountStep
<1>3. PersistTypeOK /\ LoopInv /\ CountType => CoordTypeOK
  BY DEF CoordTypeOK, LoopInv, LinkType
<1> QED
  BY <1>1, <1>2, <1>3, LoopRunsPersistence, PersistTypeCorrect, LoopInductive, PTL DEF CoordSpec

(* A boot is live only while its process is being served.                  *)
THEOREM AuthorityEndsWithConnection == CoordSpec => []OnlyServedIsLive
BY LoopInductive, PTL DEF LoopInv

(* Whoever waits has its request on the way or being answered.             *)
THEOREM NobodyWaitsUnheard == CoordSpec => []WaitersAreHeard
BY LoopInductive, PTL DEF LoopInv

(* A coordinator told to terminate leaves in its file what it served.      *)
THEOREM NothingLostAtTermination == CoordSpec => []TerminateLeavesAll
<1>1. CoordInit => AnswersWhileUp
  BY DEF CoordInit, AnswersWhileUp
<1> QED
  BY <1>1, LoopInit, UpStep, TerminateStep, PTL DEF CoordSpec

=============================================================================
