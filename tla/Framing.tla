------------------------------ MODULE Framing ------------------------------
(***************************************************************************)
(* One connection between a worker and the coordinator, byte by byte:      *)
(* send_all, recv_exact, recv_frame and send_frame                         *)
(* (include/stateindex/tcp.hpp), encode_frame and decode_frame             *)
(* (include/stateindex/protocol.hpp), and what the loops of                *)
(* src/worker_main.cpp and src/coordinator_main.cpp do when one throws.    *)
(*                                                                         *)
(* send and recv move any part of what they are asked to, a connection     *)
(* holds a bounded number of bytes each way, either process may die at any *)
(* moment, and a send may fail on a connection that stands.  Coordinator   *)
(* takes from here that a request arrives whole, or not at all.            *)
(*                                                                         *)
(* A byte is the frame it was encoded from and its place there.            *)
(***************************************************************************)
EXTENDS Integers, SequencesExt

CONSTANTS
  HeaderBytes,   \* kProtocolHeaderSize
  FrameLimit,    \* kMaxFrameBytes, of the payload
  Lengths,       \* payload lengths, also of frames beyond the limit
  BufferBytes,   \* bytes that a connection holds one way
  MaxRequests,   \* bound: requests of the worker
  SendMayFail    \* a send may fail on a connection that stands

VARIABLES
  phase,       \* side -> "idle", "handling", "sending", "receiving", "ended"
  unsent,      \* side -> bytes that send_all has not handed over
  wire,        \* side -> bytes on their way from it
  partly,      \* side -> bytes that recv_frame has read of a frame
  announced,   \* side -> payload length in the header it has read, or NoLength
  started,     \* history: side -> frames of which it has sent a byte
  delivered,   \* side -> frames that recv_frame returned to it
  failed       \* history: a send has failed on a connection that stood

streamVars == <<unsent, wire, partly, announced>>
framingVars == <<phase, streamVars, started, delivered, failed>>

ASSUME FramingAssumption ==
  /\ HeaderBytes \in Nat \ {0}
  /\ FrameLimit \in Nat
  /\ Lengths \subseteq Nat
  /\ BufferBytes \in Nat \ {0}
  /\ MaxRequests \in Nat
  /\ SendMayFail \in BOOLEAN

Sides == {"worker", "coordinator"}
Other(side) == IF side = "worker" THEN "coordinator" ELSE "worker"
NoLength == -1

(* The nr-th request of the worker, or an answer to it.                    *)
Frame == [kind: {"request", "result", "error"}, nr: 1..MaxRequests, len: Lengths]

(* encode_frame; nothing checks that a receiver will accept the length.    *)
Encoded(f) == [i \in 1..(HeaderBytes + f.len) |-> <<f, i>>]

(* decode_frame of as many bytes as the header announces: magic, version   *)
(* and checksum are right only if they are the bytes of one frame.         *)
DecodesUnchecked(bytes) == bytes[1][2] = 1                                   \* mutant
Decodes(bytes) == bytes = Encoded(bytes[1][1])

(* The length read from a header.  Bytes of two frames may say anything.   *)
HeaderLengths(bytes) ==
  IF bytes = SubSeq(Encoded(bytes[1][1]), 1, HeaderBytes) THEN {bytes[1][1].len} ELSE Lengths

FramingInit ==
  /\ phase = [side \in Sides |-> IF side = "worker" THEN "idle" ELSE "receiving"]
  /\ unsent = [side \in Sides |-> <<>>]
  /\ wire = [side \in Sides |-> <<>>]
  /\ partly = [side \in Sides |-> <<>>]
  /\ announced = [side \in Sides |-> NoLength]
  /\ started = [side \in Sides |-> <<>>]
  /\ delivered = [side \in Sides |-> <<>>]
  /\ failed = FALSE

-----------------------------------------------------------------------------
(* A side gives the connection up.  What the other has sent is lost, and   *)
(* of what it sent itself any part may still arrive.                       *)
End(side) ==
  /\ phase' = [phase EXCEPT ![side] = "ended"]
  /\ \E n \in 0..Len(wire[side]) :
       wire' = [wire EXCEPT ![Other(side)] = <<>>, ![side] = SubSeq(@, 1, n)]
  /\ UNCHANGED <<unsent, partly, announced>>

Die(side) ==
  /\ phase[side] # "ended"
  /\ End(side)
  /\ UNCHANGED <<started, delivered, failed>>

(* send_frame: the bytes are ready for send_all.                           *)
SendFrame(side, f) ==
  /\ phase' = [phase EXCEPT ![side] = "sending"]
  /\ unsent' = [unsent EXCEPT ![side] = Encoded(f)]
  /\ UNCHANGED <<wire, partly, announced, started, delivered>>

Ask ==
  /\ phase["worker"] = "idle"
  /\ Len(started["worker"]) < MaxRequests
  /\ \E len \in Lengths :
       SendFrame("worker", [kind |-> "request", nr |-> Len(started["worker"]) + 1, len |-> len])
  /\ UNCHANGED failed

AnswerAgain ==                                                               \* mutant
  /\ phase["coordinator"] \in {"handling", "receiving"}
  /\ delivered["coordinator"] # <<>>
  /\ \E len \in Lengths, kind \in {"result", "error"} :
       SendFrame("coordinator",
                 [kind |-> kind, nr |-> Last(delivered["coordinator"]).nr, len |-> len])
  /\ UNCHANGED failed
Answer ==
  /\ phase["coordinator"] = "handling"
  /\ \E len \in Lengths, kind \in {"result", "error"} :
       SendFrame("coordinator",
                 [kind |-> kind, nr |-> Last(delivered["coordinator"]).nr, len |-> len])
  /\ UNCHANGED failed

(* One send of send_all.  After its last both sides receive: the worker an *)
(* answer, the coordinator the next request.                               *)
SendBytes(side) ==
  /\ phase[side] = "sending"
  /\ phase[Other(side)] # "ended"
  /\ \E n \in 1..Len(unsent[side]) :
       /\ Len(wire[side]) + n <= BufferBytes
       /\ wire' = [wire EXCEPT ![side] = @ \o SubSeq(unsent[side], 1, n)]
       /\ unsent' = [unsent EXCEPT ![side] = SubSeq(@, n + 1, Len(@))]
  /\ phase' = IF unsent'[side] = <<>> THEN [phase EXCEPT ![side] = "receiving"] ELSE phase
  /\ started' = IF unsent[side][1][2] = 1
                  THEN [started EXCEPT ![side] = Append(@, unsent[side][1][1])] ELSE started
  /\ UNCHANGED <<partly, announced, delivered, failed>>

(* The other side is gone and nobody has noticed: the bytes vanish.        *)
SendVanishes(side) ==
  /\ phase[side] = "sending"
  /\ phase[Other(side)] = "ended"
  /\ unsent' = [unsent EXCEPT ![side] = <<>>]
  /\ phase' = [phase EXCEPT ![side] = "receiving"]
  /\ UNCHANGED <<wire, partly, announced, started, delivered, failed>>

SendFailsAgain(side) ==                                                      \* mutant
  /\ phase[side] = "sending"
  /\ phase[Other(side)] = "ended" \/ SendMayFail
  /\ LET f == unsent[side][1][1] IN
       \/ /\ f.kind # "request"
          /\ \E len \in Lengths : SendFrame(side, [f EXCEPT !.kind = "error", !.len = len])
       \/ f.kind = "request" /\ End(side) /\ UNCHANGED <<started, delivered>>
  /\ failed' = (failed \/ phase[Other(side)] # "ended")
(* send_all throws.  The coordinator answers a request it fails to answer  *)
(* with an error, on the same connection; everything else ends there.      *)
SendFails(side) ==
  /\ phase[side] = "sending"
  /\ phase[Other(side)] = "ended" \/ SendMayFail
  /\ LET f == unsent[side][1][1] IN
       \/ /\ f.kind = "result"
          /\ \E len \in Lengths : SendFrame(side, [f EXCEPT !.kind = "error", !.len = len])
       \/ f.kind # "result" /\ End(side) /\ UNCHANGED <<started, delivered>>
  /\ failed' = (failed \/ phase[Other(side)] # "ended")

-----------------------------------------------------------------------------
(* Bytes that recv_exact still asks for.                                   *)
WantedTooMany(side) ==                                                       \* mutant
  IF announced[side] = NoLength THEN HeaderBytes - Len(partly[side])
  ELSE HeaderBytes + announced[side] + 1 - Len(partly[side])
Wanted(side) ==
  IF announced[side] = NoLength THEN HeaderBytes - Len(partly[side])
  ELSE HeaderBytes + announced[side] - Len(partly[side])

RecvBytesPeeks(side) ==                                                      \* mutant
  /\ phase[side] = "receiving"
  /\ \E n \in 1..Wanted(side) :
       /\ n <= Len(wire[Other(side)])
       /\ partly' = [partly EXCEPT ![side] = @ \o SubSeq(wire[Other(side)], 1, n)]
  /\ UNCHANGED <<phase, unsent, wire, announced, started, delivered, failed>>
(* One recv of recv_exact.                                                 *)
RecvBytes(side) ==
  /\ phase[side] = "receiving"
  /\ \E n \in 1..Wanted(side) :
       /\ n <= Len(wire[Other(side)])
       /\ partly' = [partly EXCEPT ![side] = @ \o SubSeq(wire[Other(side)], 1, n)]
       /\ wire' = [wire EXCEPT ![Other(side)] = SubSeq(@, n + 1, Len(@))]
  /\ UNCHANGED <<phase, unsent, announced, started, delivered, failed>>

(* recv returns 0: recv_exact throws, and the connection is given up.      *)
RecvEnds(side) ==
  /\ phase[side] = "receiving"
  /\ Wanted(side) > 0
  /\ phase[Other(side)] = "ended"
  /\ wire[Other(side)] = <<>>
  /\ End(side)
  /\ UNCHANGED <<started, delivered, failed>>

(* The header is there.  Of its fields only the length is looked at.       *)
ReadHeaderUnlimited(side) ==                                                 \* mutant
  /\ phase[side] = "receiving"
  /\ announced[side] = NoLength
  /\ Wanted(side) = 0
  /\ \E len \in HeaderLengths(partly[side]) : announced' = [announced EXCEPT ![side] = len]
  /\ UNCHANGED <<phase, unsent, wire, partly, started, delivered, failed>>
ReadHeader(side) ==
  /\ phase[side] = "receiving"
  /\ announced[side] = NoLength
  /\ Wanted(side) = 0
  /\ \E len \in HeaderLengths(partly[side]) :
       \/ /\ len <= FrameLimit
          /\ announced' = [announced EXCEPT ![side] = len]
          /\ UNCHANGED <<phase, unsent, wire, partly>>
       \/ len > FrameLimit /\ End(side)
  /\ UNCHANGED <<started, delivered, failed>>

(* The frame is there.  One that does not decode ends the connection.      *)
Deliver(side) ==
  /\ phase[side] = "receiving"
  /\ announced[side] # NoLength
  /\ Wanted(side) = 0
  /\ \/ /\ Decodes(partly[side])
        /\ delivered' = [delivered EXCEPT ![side] = Append(@, partly[side][1][1])]
        /\ phase' = [phase EXCEPT ![side] = IF side = "worker" THEN "idle" ELSE "handling"]
        /\ partly' = [partly EXCEPT ![side] = <<>>]
        /\ announced' = [announced EXCEPT ![side] = NoLength]
        /\ UNCHANGED <<unsent, wire>>
     \/ ~Decodes(partly[side]) /\ End(side) /\ UNCHANGED delivered
  /\ UNCHANGED <<started, failed>>

Step(side) ==
  \/ SendBytes(side) \/ SendVanishes(side)
  \/ RecvBytes(side) \/ RecvEnds(side) \/ ReadHeader(side) \/ Deliver(side)

FramingNext ==
  \/ Ask
  \/ Answer
  \/ \E side \in Sides : Step(side) \/ SendFails(side) \/ Die(side)

(* Processes that do not die go on, and the network moves bytes.  Whether  *)
(* the worker has another request is up to its script.                     *)
FramingSpec ==
  /\ FramingInit
  /\ [][FramingNext]_framingVars
  /\ WF_framingVars(Answer)
  /\ \A side \in Sides : WF_framingVars(Step(side))

-----------------------------------------------------------------------------
(* However the bytes are cut up, and also when a send fails halfway and    *)
(* the error that follows is spliced into the frame before it: what        *)
(* recv_frame returns to one side is what the other began to send, frame   *)
(* for frame, from the first on.                                           *)
DeliveredIsSent ==
  \A side \in Sides : IsPrefix(delivered[Other(side)], started[side])

(* The worker takes the k-th answer for the answer to its k-th request,    *)
(* and so it is.                                                           *)
AnswersInTurn ==
  \A k \in 1..Len(delivered["worker"]) :
    delivered["worker"][k].nr = k /\ delivered["worker"][k].kind # "request"

(* No header, also none made of two frames, makes a side allocate or read  *)
(* beyond the limit.                                                       *)
ReadsAreBounded ==
  \A side \in Sides : Len(partly[side]) <= HeaderBytes + FrameLimit /\ announced[side] <= FrameLimit

(* The connection is a dialogue of whole frames.  One request is on its    *)
(* way at a time, the coordinator answers none but the one it took last,   *)
(* gives no second answer but the error that follows a result it could not *)
(* send, and nobody takes anything unless it is the one frame the other    *)
(* side has begun since.                                                   *)
Link == INSTANCE Exchange WITH
  begun <- started,
  taken <- delivered,
  over <- {side \in Sides : phase[side] = "ended"}

ImplementsExchange == Link!Spec

(* What a side could do next: hand over a byte, take one, look at what it  *)
(* has read, or find that the other is gone.                               *)
CanMove(side) ==
  \/ /\ phase[side] = "sending"
     /\ phase[Other(side)] = "ended" \/ Len(wire[side]) < BufferBytes
  \/ phase[side] = "receiving" /\ Wanted(side) = 0
  \/ /\ phase[side] = "receiving" /\ Wanted(side) > 0
     /\ phase[Other(side)] = "ended" \/ wire[Other(side)] # <<>>

(* However long the frames and however little the connection holds, the    *)
(* two sides never wait for each other: unless a send failed, the worker   *)
(* is free to ask, the coordinator has a request to answer, a byte can be  *)
(* moved, or it is over on both sides.                                     *)
NeverBothWait ==
  \/ failed
  \/ phase["worker"] = "idle"
  \/ phase["coordinator"] = "handling"
  \/ \A side \in Sides : phase[side] = "ended"
  \/ \E side \in Sides : CanMove(side)

(* What is left to do before somebody asks or answers again: a byte to     *)
(* hand over is also one to read, and a side that receives has a header to *)
(* look at and a frame to return.                                          *)
WorkOf(side) ==
  Len(wire[side]) +
    (IF phase[side] = "sending" THEN 4 * Len(unsent[side])
     ELSE IF phase[side] # "receiving" THEN 0
     ELSE IF announced[side] = NoLength THEN 2 ELSE 1)
Work == WorkOf("worker") + WorkOf("coordinator")

(* No portion is sent or read twice and no header looked at again: each    *)
(* step of send_all and recv_frame leaves less to do, so that without a    *)
(* new request, answer or failure they come to an end.                     *)
WorkRunsOut ==
  [][\A side \in Sides : Step(side) => Work' < Work]_framingVars

(* With one request on its way at a time, and frames larger than what the  *)
(* connection holds, the two sides never both wait: unless a send failed,  *)
(* every request is answered or the connection ends.                       *)
RequestsEnd ==
  (phase["worker"] \in {"sending", "receiving"}) ~> (phase["worker"] \in {"idle", "ended"} \/ failed)

=============================================================================
