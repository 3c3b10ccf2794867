---------------------------- MODULE Coordinator ----------------------------
(***************************************************************************)
(* The coordinator's connection loop (src/coordinator_main.cpp) and the    *)
(* worker processes that talk to it (src/worker_main.cpp) over framed TCP  *)
(* (include/stateindex/tcp.hpp).                                           *)
(*                                                                         *)
(* The coordinator serves one connection at a time, to its end; the others *)
(* wait in the listen queue.  A worker says HELLO, then sends the requests *)
(* of its script one by one, each after the answer to the one before.  A   *)
(* process may die at any point.  What its last request was worth then is  *)
(* open: the connection may still deliver it, or drop it.                  *)
(*                                                                         *)
(* The engine and the file are those of Persistence, and every request is  *)
(* handled by one of their actions.  Which record, generation or location  *)
(* a request is about is chosen when it is handled: workers may send any,  *)
(* and in any order, also a LOAD, and a HELLO said again on the same       *)
(* connection, which worker_main.cpp never sends.                          *)
(***************************************************************************)
EXTENDS Persistence

CONSTANTS
  Procs,        \* worker processes, each started once
  MaxRequests   \* bound: requests of a worker's script, with its HELLO

VARIABLES
  worker,      \* process -> "new", "idle", "waiting" for an answer, "ended"
  asked,       \* process -> how many requests it has sent
  request,     \* process -> its request that is on the way, or None
  backlog,     \* connections that wait to be accepted
  served,      \* conn: the process whose connection is served, or None
  connBoot,    \* conn_boot of that connection, None while has_boot is false
  answering    \* the answer that is to be sent next, or None

workerVars == <<worker, asked>>
linkVars == <<request, backlog, served, connBoot, answering>>
coordVars == <<persistVars, workerVars, linkVars>>

(* What a worker asks, and what it is answered: the last answer is that to *)
(* TERMINATE.                                                              *)
Requests == {"HELLO", "ENGINE", "SAVE", "LOAD", "TERMINATE"}
Answers == {"RESULT", "ERROR", "LAST"}

(* A process is started with a worker id and a boot id; nr tells apart     *)
(* processes that are started with the same two.                           *)
Process == [worker: Workers, boot: Boots, nr: Nat]

ASSUME CoordinatorAssumption ==
  /\ Procs \subseteq Process
  /\ None \notin Procs
  /\ None \notin Requests \cup Answers
  /\ MaxRequests \in Nat

CoordInit ==
  /\ PersistInit
  /\ worker = [p \in Procs |-> "new"]
  /\ asked = [p \in Procs |-> 0]
  /\ request = [p \in Procs |-> None]
  /\ backlog = <<>>
  /\ served = None
  /\ connBoot = None
  /\ answering = None

-----------------------------------------------------------------------------
(* The workers.                                                            *)

(* The coordinator has the other end of p's connection.                    *)
Linked(p) == p = served \/ \E i \in 1..Len(backlog) : backlog[i] = p

(* tcp_connect, which fails when nobody listens.                           *)
Connect(p) ==
  /\ worker[p] = "new"
  /\ IF process = "up"
       THEN worker' = [worker EXCEPT ![p] = "idle"] /\ backlog' = Append(backlog, p)
       ELSE worker' = [worker EXCEPT ![p] = "ended"] /\ UNCHANGED backlog
  /\ UNCHANGED <<persistVars, asked, request, served, connBoot, answering>>

Send(p) ==
  /\ worker[p] = "idle"
  /\ Linked(p)
  /\ asked[p] < MaxRequests
  /\ worker' = [worker EXCEPT ![p] = "waiting"]
  /\ asked' = [asked EXCEPT ![p] = @ + 1]
  /\ \E kind \in (IF asked[p] = 0 THEN {"HELLO"} ELSE Requests) :
       request' = [request EXCEPT ![p] = kind]
  /\ UNCHANGED <<persistVars, backlog, served, connBoot, answering>>

(* The script is at its end: the worker closes its connection.             *)
Finish(p) ==
  /\ worker[p] = "idle"
  /\ asked[p] > 0
  /\ worker' = [worker EXCEPT ![p] = "ended"]
  /\ UNCHANGED <<persistVars, asked, linkVars>>

(* The coordinator is gone: send or receive throws, the worker ends.       *)
LoseConnection(p) ==
  /\ worker[p] \in {"idle", "waiting"}
  /\ ~Linked(p)
  /\ worker' = [worker EXCEPT ![p] = "ended"]
  /\ UNCHANGED <<persistVars, asked, linkVars>>

Die(p) ==
  /\ worker[p] \in {"idle", "waiting"}
  /\ worker' = [worker EXCEPT ![p] = "ended"]
  /\ request' \in {request, [request EXCEPT ![p] = None]}
  /\ UNCHANGED <<persistVars, asked, backlog, served, connBoot, answering>>

-----------------------------------------------------------------------------
(* The coordinator: accept, then receive and handle until recv fails.      *)
Accept ==
  /\ process = "up"
  /\ served = None
  /\ backlog # <<>>
  /\ served' = Head(backlog)
  /\ backlog' = Tail(backlog)
  /\ UNCHANGED <<persistVars, workerVars, request, connBoot, answering>>

(* The next request on the served connection, and the answer it gets.      *)
Receive(kind, answer) ==
  /\ process = "up"
  /\ served # None
  /\ answering = None
  /\ request[served] = kind
  /\ request' = [request EXCEPT ![served] = None]
  /\ answering' = answer
  /\ UNCHANGED <<workerVars, backlog, served>>

HelloSwapped ==                                                              \* mutant
  /\ Receive("HELLO", "RESULT")
  /\ RegisterWorker(served.worker, served.boot)
  /\ connBoot' = served.worker
  /\ UNCHANGED <<process, disk, halfLoaded>>
Hello ==
  /\ Receive("HELLO", "RESULT")
  /\ RegisterWorker(served.worker, served.boot)
  /\ connBoot' = served.boot
  /\ UNCHANGED <<process, disk, halfLoaded>>

(* REGISTER_STATE, INVALIDATE and TOMBSTONE; a mutation that is refused,   *)
(* one of a location, and QUERY change nothing here.  A payload that does  *)
(* not parse throws.                                                       *)
UseEngine ==
  /\ \/ Receive("ENGINE", "RESULT")
     \/ Receive("ENGINE", "ERROR") /\ UNCHANGED vars
  /\ \/ \E s \in States, g \in Gens, e \in Epochs, b \in Boots :
          \/ \E id \in RecordIds, l \in PublishedLifecycles : RegisterState(id, s, g, l, e, b)
          \/ Invalidate(s, g, e, b)
          \/ \E flag \in TombstoneFlags : Tombstone(s, g, flag, e, b)
     \/ UNCHANGED vars
  /\ UNCHANGED <<process, disk, halfLoaded, connBoot>>

(* SAVE, to the coordinator's file, to another or, when that cannot be     *)
(* opened or replaced, to none.                                            *)
SaveFile ==
  /\ \/ Receive("SAVE", "RESULT") /\ (SaveReturns \/ UNCHANGED persistVars)
     \/ Receive("SAVE", "ERROR") /\ (SaveThrows \/ UNCHANGED persistVars)
  /\ UNCHANGED connBoot

LoadFile ==
  /\ Receive("LOAD", IF disk.kind = "image" /\ Refused(disk) = {} THEN "RESULT" ELSE "ERROR")
  /\ LoadRequest
  /\ UNCHANGED connBoot

(* TERMINATE.  When the file cannot be opened for writing or replaced,     *)
(* save throws and the error is answered instead: the loop goes on.        *)
TerminateUnsaved == Receive("TERMINATE", "LAST") /\ UNCHANGED <<persistVars, connBoot>>  \* mutant
Terminate == Receive("TERMINATE", "LAST") /\ SaveReturns /\ UNCHANGED connBoot
TerminateFails ==
  /\ Receive("TERMINATE", "ERROR")
  /\ SaveThrows \/ UNCHANGED persistVars
  /\ UNCHANGED connBoot

(* The coordinator's process ends, and every connection with it.           *)
Stop ==
  /\ Crash
  /\ request' = [p \in Procs |-> None]
  /\ backlog' = <<>>
  /\ served' = None
  /\ connBoot' = None
  /\ answering' = None

(* The worker that waits on the served connection reads its answer; one    *)
(* that is gone does not.                                                  *)
Delivered ==
  worker' = IF worker[served] = "waiting" THEN [worker EXCEPT ![served] = "idle"] ELSE worker

(* send_frame.  The answer to TERMINATE is the last thing it sends.        *)
AnswerNotFailures ==                                                         \* mutant
  /\ answering \notin {None, "LAST"}
  /\ answering' = None
  /\ IF answering = "ERROR" THEN UNCHANGED worker ELSE Delivered
  /\ UNCHANGED <<persistVars, asked, request, backlog, served, connBoot>>
Answer ==
  /\ answering \notin {None, "LAST"}
  /\ answering' = None
  /\ Delivered
  /\ UNCHANGED <<persistVars, asked, request, backlog, served, connBoot>>
AnswerAndExit == answering = "LAST" /\ Delivered /\ Stop /\ UNCHANGED asked

(* The worker is gone and send_frame throws; the handler of the exception  *)
(* sends once more, outside of any handler but main's.                     *)
AnswerFails ==
  /\ answering # None
  /\ worker[served] = "ended"
  /\ Stop
  /\ UNCHANGED workerVars

(* recv fails: the worker is gone and has left nothing to be read.         *)
HangUpKeepsBoot ==                                                           \* mutant
  /\ process = "up"
  /\ served # None
  /\ answering = None
  /\ worker[served] = "ended" /\ request[served] = None
  /\ served' = None
  /\ connBoot' = None
  /\ UNCHANGED <<persistVars, workerVars, request, backlog, answering>>
HangUpStays ==                                                               \* mutant
  /\ process = "up"
  /\ served # None
  /\ answering = None
  /\ worker[served] = "ended" /\ request[served] = None
  /\ connBoot' = None
  /\ IF connBoot = None THEN UNCHANGED vars ELSE UnregisterWorker(connBoot)
  /\ UNCHANGED <<process, disk, halfLoaded, workerVars, request, backlog, served, answering>>
HangUp ==
  /\ process = "up"
  /\ served # None
  /\ answering = None
  /\ worker[served] = "ended" /\ request[served] = None
  /\ served' = None
  /\ connBoot' = None
  /\ IF connBoot = None THEN UNCHANGED vars ELSE UnregisterWorker(connBoot)
  /\ UNCHANGED <<process, disk, halfLoaded, workerVars, request, backlog, answering>>

(* The coordinator is killed, or started again: nobody has to.             *)
Killed == Stop /\ UNCHANGED workerVars
Start == Startup /\ UNCHANGED <<workerVars, linkVars>>

-----------------------------------------------------------------------------
Handle == Hello \/ UseEngine \/ SaveFile \/ LoadFile \/ Terminate \/ TerminateFails
Serving == Accept \/ Handle \/ Answer \/ AnswerAndExit \/ AnswerFails \/ HangUp
Working(p) == Send(p) \/ Finish(p) \/ LoseConnection(p)

CoordNext ==
  \/ Serving
  \/ Killed
  \/ Start
  \/ \E p \in Procs : Connect(p) \/ Working(p) \/ Die(p)

(* A coordinator that has something to do does it, and a worker goes on    *)
(* with its script, which is a finite file.  That a worker is started,     *)
(* that anybody dies, and that the coordinator is started, is left open.   *)
CoordSpec ==
  /\ CoordInit
  /\ [][CoordNext]_coordVars
  /\ WF_coordVars(Serving)
  /\ \A p \in Procs : WF_coordVars(Working(p))

-----------------------------------------------------------------------------
(* Every variable has its type.                                            *)
CoordTypeOK ==
  /\ PersistTypeOK
  /\ worker \in [Procs -> {"new", "idle", "waiting", "ended"}]
  /\ asked \in [Procs -> 0..MaxRequests]
  /\ request \in [Procs -> Requests \cup {None}]
  /\ backlog \in Seq(Procs)
  /\ served \in Procs \cup {None}
  /\ connBoot \in Boots \cup {None}
  /\ answering \in Answers \cup {None}

(* coordinator_main.cpp:51 "its incarnation is no longer live": authority  *)
(* to mutate does not outlive the connection it came with.  The only boot  *)
(* that is live is that of the process being served, whatever ended the    *)
(* connections before, and requests in the name of any other are refused.  *)
OnlyServedIsLive ==
  \A b \in Boots : IsLive(b) => served # None /\ connBoot = b /\ served.boot = b

(* Nobody waits for an answer that will not come: the request of a worker  *)
(* that waits is on its way, or is being answered, or its connection is    *)
(* gone, which it will notice.                                             *)
WaitersAreHeard ==
  \A p \in Procs : worker[p] = "waiting" /\ Linked(p) =>
    request[p] # None \/ (p = served /\ answering # None)

(* What the coordinator served when it was told to terminate is what it    *)
(* leaves in its file, as far as the write went through.                   *)
TerminateLeavesAll == answering = "LAST" /\ disk.kind # "short" => disk \in Images

(* Whatever the other processes do, and whether or not the coordinator     *)
(* survives, a worker that has started comes to an end: nobody is starved  *)
(* in the queue, and nobody waits on somebody who waits.                   *)
EveryWorkerEnds == \A p \in Procs : worker[p] # "new" ~> worker[p] = "ended"

=============================================================================
