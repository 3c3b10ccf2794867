----------------------------- MODULE Exchange ------------------------------
(***************************************************************************)
(* What a connection promises the two programs that use it, with no bytes, *)
(* no buffers and no wire: the worker asks when its last request has been  *)
(* answered, the coordinator answers the request it took last, and what a  *)
(* side takes is the one frame that the other has begun and it has not yet *)
(* taken.  An answer that failed half way may be followed by an error; the *)
(* worker then takes neither.  Either side may give up, and gives up once. *)
(***************************************************************************)
EXTENDS Integers, Sequences

CONSTANT Lengths   \* payload lengths

VARIABLES
  begun,   \* side -> frames it has begun to send
  taken,   \* side -> frames it has received
  over     \* sides that have given the connection up

exchangeVars == <<begun, taken, over>>

Parties == {"worker", "coordinator"}
Peer(side) == IF side = "worker" THEN "coordinator" ELSE "worker"

Standing == over = {}

Init ==
  /\ begun = [side \in Parties |-> <<>>]
  /\ taken = [side \in Parties |-> <<>>]
  /\ over = {}

Begin(side, kind, nr) ==
  /\ Standing
  /\ \E len \in Lengths :
       begun' = [begun EXCEPT ![side] = Append(@, [kind |-> kind, nr |-> nr, len |-> len])]
  /\ UNCHANGED <<taken, over>>

(* The worker asks for the next time.  It has taken an answer to all it    *)
(* asked, the coordinator has taken every request.                         *)
Ask ==
  /\ Len(taken["worker"]) = Len(begun["worker"])
  /\ Len(taken["coordinator"]) = Len(begun["worker"])
  /\ Begin("worker", "request", Len(begun["worker"]) + 1)

(* The coordinator begins an answer to the request it took last.           *)
Answer ==
  /\ Len(taken["coordinator"]) = Len(taken["worker"]) + 1
  /\ Len(begun["coordinator"]) = Len(taken["worker"])
  /\ \E kind \in {"result", "error"} : Begin("coordinator", kind, Len(taken["coordinator"]))

(* It has begun a result and begins an error to the same request: it says  *)
(* two things, of which the worker will hear none.                         *)
AnswerTwice ==
  /\ Len(taken["coordinator"]) = Len(taken["worker"]) + 1
  /\ Len(begun["coordinator"]) = Len(taken["worker"]) + 1
  /\ begun["coordinator"][Len(begun["coordinator"])].kind = "result"
  /\ Begin("coordinator", "error", Len(taken["coordinator"]))

(* A side takes what the other began, if that is one frame.                *)
Take(side) ==
  /\ side \notin over
  /\ Len(begun[Peer(side)]) = Len(taken[side]) + 1
  /\ taken' = [taken EXCEPT ![side] = Append(@, begun[Peer(side)][Len(taken[side]) + 1])]
  /\ UNCHANGED <<begun, over>>

GiveUp(side) ==
  /\ side \notin over
  /\ over' = over \cup {side}
  /\ UNCHANGED <<begun, taken>>

Next == Ask \/ Answer \/ AnswerTwice \/ \E side \in Parties : Take(side) \/ GiveUp(side)

Spec == Init /\ [][Next]_exchangeVars

=============================================================================
