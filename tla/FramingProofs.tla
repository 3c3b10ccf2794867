--------------------------- MODULE FramingProofs ---------------------------
(***************************************************************************)
(* Proofs about Framing for every header length, limit, set of payload     *)
(* lengths, buffer and number of requests.                                 *)
(*                                                                         *)
(* The argument is about what is still coming to a side: the bytes it has  *)
(* read of a frame, those on the wire and those the sender still holds. If *)
(* there are any, the first of them is the first of some frame, and if a   *)
(* whole frame comes first, it is all that comes. A frame spliced into     *)
(* another never completes it, because its own first byte stands where the *)
(* next of the other should be.                                            *)
(***************************************************************************)
EXTENDS Framing, SequenceTheorems, TLAPS

-----------------------------------------------------------------------------
(* Facts about sequences of bytes.                                         *)

Byte == Frame \X (Nat \ {0})
Size(f) == HeaderBytes + f.len

(* A whole frame comes first in T.                                         *)
Whole(T) ==
  /\ T # <<>>
  /\ Len(T) >= Size(T[1][1])
  /\ \A i \in 1..Size(T[1][1]) : T[i] = <<T[1][1], i>>

(* a is where b begins.                                                    *)
Begins(a, b) == Len(a) <= Len(b) /\ \A i \in 1..Len(a) : a[i] = b[i]

(* T starts with the first byte of a frame, and has no second frame after  *)
(* a whole one.                                                            *)
OneFrame(T) ==
  /\ T # <<>> => T[1][2] = 1
  /\ Whole(T) => Len(T) = Size(T[1][1])

(* u is the end of an encoded frame, or all of it.                         *)
Parts(u) ==
  /\ \A i \in 1..Len(u) : u[i][1] = u[1][1]
  /\ \A i \in 2..Len(u) : u[i][2] # 1

LEMMA ByteParts ==
  ASSUME NEW b \in Byte
  PROVE  b[1] \in Frame /\ b[2] \in Nat \ {0} /\ b = <<b[1], b[2]>>
BY DEF Byte

LEMMA SizeIsPositive ==
  ASSUME NEW f \in Frame
  PROVE  Size(f) \in Nat \ {0} /\ f.len \in Nat
<1>1. f.len \in Lengths
  BY DEF Frame
<1>2. f.len \in Nat
  BY <1>1, FramingAssumption
<1> QED
  BY <1>2, FramingAssumption DEF Size

LEMMA SizeOfFirst ==
  ASSUME NEW T \in Seq(Byte), T # <<>>
  PROVE  T[1] \in Byte /\ T[1][1] \in Frame /\ Size(T[1][1]) \in Nat \ {0} /\ Len(T) \in Nat \ {0}
<1>1. Len(T) \in Nat \ {0}
  BY EmptySeq
<1>2. T[1] \in Byte
  BY <1>1, ElementOfSeq
<1> QED
  BY <1>1, <1>2, ByteParts, SizeIsPositive

(* What encode_frame makes.                                                *)
LEMMA EncodedBytes ==
  ASSUME NEW f \in Frame
  PROVE  /\ Encoded(f) \in Seq(Byte)
         /\ Encoded(f) # <<>>
         /\ Len(Encoded(f)) = Size(f)
         /\ \A i \in 1..Size(f) : Encoded(f)[i] = <<f, i>>
         /\ Whole(Encoded(f)) /\ OneFrame(Encoded(f)) /\ Parts(Encoded(f))
<1>1. Size(f) \in Nat \ {0}
  BY SizeIsPositive
<1>2. Encoded(f) = [i \in 1..Size(f) |-> <<f, i>>]
  BY DEF Encoded, Size
<1>3. \A i \in 1..Size(f) : <<f, i>> \in Byte
  BY <1>1 DEF Byte
<1>4. Encoded(f) \in Seq(Byte) /\ Len(Encoded(f)) = Size(f)
  <2>1. Encoded(f) \in [1..Size(f) -> Byte]
    BY <1>2, <1>3
  <2> QED
    BY <1>1, <2>1, SeqDef, LenProperties
<1>5. \A i \in 1..Size(f) : Encoded(f)[i] = <<f, i>>
  BY <1>2
<1>6. Encoded(f) # <<>>
  BY <1>1, <1>4, EmptySeq
<1>7. Encoded(f)[1][1] = f /\ Encoded(f)[1][2] = 1
  BY <1>1, <1>5
<1>8. Whole(Encoded(f)) /\ OneFrame(Encoded(f))
  BY <1>1, <1>4, <1>5, <1>6, <1>7 DEF Whole, OneFrame
<1>9. Parts(Encoded(f))
  <2>1. \A i \in 1..Size(f) : Encoded(f)[i][1] = f /\ Encoded(f)[i][2] = i
    BY <1>5
  <2> QED
    BY <1>1, <1>4, <2>1 DEF Parts
<1> QED
  BY <1>4, <1>5, <1>6, <1>8, <1>9

LEMMA JoinedThree ==
  ASSUME NEW x \in Seq(Byte), NEW y \in Seq(Byte), NEW z \in Seq(Byte)
  PROVE  (x \o y) \o z = x \o (y \o z)
BY ConcatAssociative, SMTT(30)

(* What one send or recv takes off the front of y and puts behind x.       *)
LEMMA CutAndJoin ==
  ASSUME NEW x \in Seq(Byte), NEW y \in Seq(Byte), NEW n \in 0..Len(y)
  PROVE  /\ SubSeq(y, 1, n) \in Seq(Byte) /\ Len(SubSeq(y, 1, n)) = n
         /\ SubSeq(y, n + 1, Len(y)) \in Seq(Byte) /\ Len(SubSeq(y, n + 1, Len(y))) = Len(y) - n
         /\ \A i \in 1..(Len(y) - n) : SubSeq(y, n + 1, Len(y))[i] = y[n + i]
         /\ (x \o SubSeq(y, 1, n)) \o SubSeq(y, n + 1, Len(y)) = x \o y
<1>1. Len(y) \in Nat /\ \A i \in 1..Len(y) : y[i] \in Byte
  BY LenProperties, ElementOfSeq
<1>2. SubSeq(y, 1, n) \in Seq(Byte) /\ Len(SubSeq(y, 1, n)) = n
  BY <1>1, SubSeqProperties
<1>3. /\ SubSeq(y, n + 1, Len(y)) \in Seq(Byte) /\ Len(SubSeq(y, n + 1, Len(y))) = Len(y) - n
      /\ \A i \in 1..(Len(y) - n) : SubSeq(y, n + 1, Len(y))[i] = y[n + i]
  BY <1>1, SubSeqProperties
<1>4. SubSeq(y, 1, n) \o SubSeq(y, n + 1, Len(y)) = y
  <2>1. 1 \in 1..(Len(y) + 1) /\ n \in (1 - 1)..Len(y) /\ Len(y) \in n..Len(y)
    BY <1>1
  <2>2. SubSeq(y, 1, n) \o SubSeq(y, n + 1, Len(y)) = SubSeq(y, 1, Len(y))
    BY <2>1, ConcatAdjacentSubSeq
  <2> QED
    BY <2>2, SubSeqFull
<1>6. (x \o SubSeq(y, 1, n)) \o SubSeq(y, n + 1, Len(y)) = x \o (SubSeq(y, 1, n) \o SubSeq(y, n + 1, Len(y)))
  BY <1>2, <1>3, JoinedThree
<1> QED
  BY <1>2, <1>3, <1>4, <1>6

LEMMA CutIsPrefix ==
  ASSUME NEW x \in Seq(Byte), NEW y \in Seq(Byte), NEW z \in Seq(Byte), NEW n \in 0..Len(y)
  PROVE  /\ x \o SubSeq(y, 1, n) \in Seq(Byte)
         /\ Begins(x \o SubSeq(y, 1, n), x \o y)
         /\ Begins(x \o SubSeq(y, 1, n), (x \o y) \o z)
<1>1. SubSeq(y, 1, n) \in Seq(Byte) /\ SubSeq(y, n + 1, Len(y)) \in Seq(Byte)
  BY CutAndJoin
<1>2. x \o SubSeq(y, 1, n) \in Seq(Byte) /\ x \o y \in Seq(Byte)
  BY <1>1, ConcatProperties
<1>3. ASSUME NEW a \in Seq(Byte), NEW b \in Seq(Byte)
      PROVE  Begins(a, a \o b)
  BY ConcatProperties, LenProperties DEF Begins
<1>4. Begins(x \o SubSeq(y, 1, n), x \o y)
  BY <1>1, <1>2, <1>3, CutAndJoin
<1>5. Begins(x \o y, (x \o y) \o z)
  BY <1>2, <1>3
<1>6. Len(x \o y) \in Nat /\ Len(x \o SubSeq(y, 1, n)) \in Nat /\ Len((x \o y) \o z) \in Nat
  BY <1>2, ConcatProperties, LenProperties
<1> QED
  BY <1>2, <1>4, <1>5, <1>6 DEF Begins

(* What is left when the end of a stream is lost.                          *)
LEMMA PrefixOfOneFrame ==
  ASSUME NEW a \in Seq(Byte), NEW b \in Seq(Byte), Begins(a, b), OneFrame(b)
  PROVE  /\ OneFrame(a)
         /\ Whole(a) => Whole(b) /\ a = b
         /\ a # <<>> => b # <<>> /\ a[1] = b[1]
<1>1. Len(a) \in Nat /\ Len(b) \in Nat
  BY LenProperties
<1>2. ASSUME a # <<>> PROVE b # <<>> /\ a[1] = b[1] /\ b[1][2] = 1
  <2>1. Len(a) \in Nat \ {0}
    BY <1>2, EmptySeq
  <2>2. Len(b) # 0
    BY <1>1, <2>1 DEF Begins
  <2>3. b # <<>>
    BY <2>2, EmptySeq
  <2> QED
    BY <2>1, <2>3 DEF Begins, OneFrame
<1>3. ASSUME Whole(a) PROVE Whole(b) /\ a = b /\ Len(a) = Size(a[1][1])
  <2>1. a # <<>> /\ b # <<>> /\ a[1] = b[1]
    BY <1>2, <1>3 DEF Whole
  <2>2. Size(a[1][1]) \in Nat \ {0}
    BY <2>1, SizeOfFirst
  <2>3. Whole(b)
    BY <1>1, <1>3, <2>1, <2>2 DEF Whole, Begins
  <2>4. Len(b) = Size(b[1][1])
    BY <2>3 DEF OneFrame
  <2>5. Len(a) = Len(b)
    BY <1>1, <1>3, <2>1, <2>2, <2>4 DEF Whole, Begins
  <2>6. a = b
    BY <2>5, SeqEqual DEF Begins
  <2> QED
    BY <2>1, <2>3, <2>4, <2>5, <2>6
<1> QED
  BY <1>2, <1>3 DEF OneFrame

(* A new frame v after the part x of an unfinished one does not complete   *)
(* it.                                                                     *)
LEMMA SplicedIsNotWhole ==
  ASSUME NEW x \in Seq(Byte), x # <<>>, NEW u \in Seq(Byte), u # <<>>,
         OneFrame(x \o u), NEW v \in Seq(Byte), v # <<>>, v[1][2] = 1
  PROVE  ~Whole(x \o v) /\ OneFrame(x \o v) /\ (x \o v)[1] = x[1] /\ x \o v # <<>>
<1>1. Len(x) \in Nat \ {0} /\ Len(u) \in Nat \ {0} /\ Len(v) \in Nat \ {0}
  BY EmptySeq
<1>2. /\ x \o u \in Seq(Byte) /\ Len(x \o u) = Len(x) + Len(u)
      /\ \A i \in 1..Len(x) : (x \o u)[i] = x[i]
  BY <1>1, ConcatProperties
<1>3. /\ x \o v \in Seq(Byte) /\ Len(x \o v) = Len(x) + Len(v)
      /\ \A i \in 1..Len(x) : (x \o v)[i] = x[i]
      /\ (x \o v)[Len(x) + 1] = v[1]
  BY <1>1, ConcatProperties
<1>4. x \o u # <<>> /\ x \o v # <<>>
  BY <1>1, <1>2, <1>3, EmptySeq
<1>5. (x \o u)[1] = x[1] /\ (x \o v)[1] = x[1]
  BY <1>1, <1>2, <1>3
<1>6. Size(x[1][1]) \in Nat \ {0}
  BY SizeOfFirst
<1>7. ASSUME Whole(x \o v) PROVE FALSE
  <2>1. CASE Len(x) >= Size(x[1][1])
    <3>1. \A i \in 1..Size(x[1][1]) : (x \o u)[i] = <<x[1][1], i>>
      BY <1>1, <1>2, <1>3, <1>5, <1>6, <1>7, <2>1 DEF Whole
    <3>2. Whole(x \o u)
      BY <1>1, <1>2, <1>4, <1>5, <1>6, <2>1, <3>1 DEF Whole
    <3>3. Len(x \o u) = Size(x[1][1])
      BY <1>5, <3>2 DEF OneFrame
    <3> QED
      BY <1>1, <1>2, <1>6, <2>1, <3>3
  <2>2. CASE ~(Len(x) >= Size(x[1][1]))
    <3>1. Len(x) + 1 \in 1..Size(x[1][1])
      BY <1>1, <1>6, <2>2
    <3>2. (x \o v)[Len(x) + 1] = <<x[1][1], Len(x) + 1>>
      BY <1>5, <1>7, <3>1 DEF Whole
    <3>3. v[1][2] = Len(x) + 1
      BY <1>3, <3>2
    <3> QED
      BY <1>1, <3>3
  <2> QED BY <2>1, <2>2
<1>8. (x \o v)[1][2] = 1
  BY <1>4, <1>5 DEF OneFrame
<1> QED
  BY <1>4, <1>5, <1>7, <1>8 DEF OneFrame

-----------------------------------------------------------------------------
(* Types.                                                                  *)

FramingType ==
  /\ phase \in [Sides -> {"idle", "handling", "sending", "receiving", "ended"}]
  /\ phase["worker"] # "handling" /\ phase["coordinator"] # "idle"
  /\ unsent \in [Sides -> Seq(Byte)]
  /\ wire \in [Sides -> Seq(Byte)]
  /\ partly \in [Sides -> Seq(Byte)]
  /\ announced \in [Sides -> Nat \cup {NoLength}]
  /\ started \in [Sides -> Seq(Frame)]
  /\ delivered \in [Sides -> Seq(Frame)]
  /\ failed \in BOOLEAN
  /\ \A side \in Sides : phase[side] = "sending" => unsent[side] # <<>>
  /\ phase["coordinator"] = "handling" => delivered["coordinator"] # <<>>

LEMMA SidesAre ==
  /\ "worker" \in Sides /\ "coordinator" \in Sides
  /\ Other("worker") = "coordinator" /\ Other("coordinator") = "worker"
  /\ \A side \in Sides : /\ Other(side) \in Sides /\ Other(side) # side /\ Other(Other(side)) = side
                         /\ side = "worker" \/ side = "coordinator"
BY DEF Sides, Other

LEMMA OneOfTwo ==
  ASSUME NEW side \in Sides, NEW s \in Sides
  PROVE  s = side \/ s = Other(side)
BY DEF Sides, Other

LEMMA EndTypes ==
  ASSUME FramingType, NEW side \in Sides, End(side)
  PROVE  /\ phase' \in [Sides -> {"idle", "handling", "sending", "receiving", "ended"}]
         /\ phase'["worker"] # "handling" /\ phase'["coordinator"] # "idle"
         /\ wire' \in [Sides -> Seq(Byte)]
         /\ \A s \in Sides : phase'[s] = "sending" => unsent[s] # <<>>
         /\ phase'["coordinator"] = "handling" => delivered["coordinator"] # <<>>
<1>1. PICK n \in 0..Len(wire[side]) :
        wire' = [wire EXCEPT ![Other(side)] = <<>>, ![side] = SubSeq(@, 1, n)]
  BY DEF End
<1>2. wire[side] \in Seq(Byte) /\ Other(side) \in Sides /\ Other(side) # side
  BY SidesAre DEF FramingType
<1>3. SubSeq(wire[side], 1, n) \in Seq(Byte)
  BY <1>1, <1>2, CutAndJoin
<1>4. <<>> \in Seq(Byte)
  BY EmptySeq
<1>5. wire' \in [Sides -> Seq(Byte)]
  BY <1>1, <1>2, <1>3, <1>4 DEF FramingType
<1>6. phase' = [phase EXCEPT ![side] = "ended"]
  BY DEF End
<1> QED
  BY <1>5, <1>6, SidesAre DEF FramingType

LEMMA SendFrameTypes ==
  ASSUME FramingType, NEW side \in Sides, NEW f \in Frame, SendFrame(side, f), failed' \in BOOLEAN
  PROVE  FramingType'
<1>1. Encoded(f) \in Seq(Byte) /\ Encoded(f) # <<>>
  BY EncodedBytes
<1> QED
  BY <1>1, SidesAre DEF FramingType, SendFrame

(* A frame that is to be decoded has bytes.                                *)
LEMMA SomethingIsRead ==
  ASSUME FramingType, NEW side \in Sides, Deliver(side)
  PROVE  partly[side] # <<>>
<1>1. partly[side] = <<>> => Len(partly[side]) = 0
  BY EmptySeq
<1>2. announced[side] \in Nat
  BY DEF Deliver, FramingType
<1> QED
  BY <1>1, <1>2, FramingAssumption DEF Deliver, Wanted

LEMMA FramingTypeStep == FramingType /\ [FramingNext]_framingVars => FramingType'
<1> SUFFICES ASSUME FramingType, [FramingNext]_framingVars PROVE FramingType'
  OBVIOUS
<1>1. CASE UNCHANGED framingVars
  BY <1>1 DEF framingVars, streamVars, FramingType
<1>2. CASE Ask
  <2>1. PICK len \in Lengths :
          SendFrame("worker", [kind |-> "request", nr |-> Len(started["worker"]) + 1, len |-> len])
    BY <1>2 DEF Ask
  <2>2. Len(started["worker"]) \in Nat
    BY SidesAre, LenProperties DEF FramingType
  <2>3. [kind |-> "request", nr |-> Len(started["worker"]) + 1, len |-> len] \in Frame
    BY <1>2, <2>2, FramingAssumption DEF Ask, Frame
  <2>4. failed' \in BOOLEAN
    BY <1>2 DEF Ask, FramingType
  <2> QED
    BY <2>1, <2>3, <2>4, SendFrameTypes, SidesAre
<1>3. CASE Answer
  <2>1. PICK len \in Lengths, kind \in {"result", "error"} :
          SendFrame("coordinator", [kind |-> kind, nr |-> Last(delivered["coordinator"]).nr, len |-> len])
    BY <1>3 DEF Answer
  <2>2. Last(delivered["coordinator"]) \in Frame
    <3>1. delivered["coordinator"] \in Seq(Frame) /\ delivered["coordinator"] # <<>>
      BY <1>3, SidesAre DEF FramingType, Answer
    <3>2. Len(delivered["coordinator"]) \in Nat \ {0}
      BY <3>1, EmptySeq
    <3> QED
      BY <3>1, <3>2, ElementOfSeq DEF Last
  <2>3. [kind |-> kind, nr |-> Last(delivered["coordinator"]).nr, len |-> len] \in Frame
    BY <2>2 DEF Frame
  <2>4. failed' \in BOOLEAN
    BY <1>3 DEF Answer, FramingType
  <2> QED
    BY <2>1, <2>3, <2>4, SendFrameTypes, SidesAre
<1>4. ASSUME NEW side \in Sides, SendBytes(side) PROVE FramingType'
  <2>1. PICK n \in 1..Len(unsent[side]) :
          /\ wire' = [wire EXCEPT ![side] = @ \o SubSeq(unsent[side], 1, n)]
          /\ unsent' = [unsent EXCEPT ![side] = SubSeq(@, n + 1, Len(@))]
    BY <1>4 DEF SendBytes
  <2>2. unsent[side] \in Seq(Byte) /\ wire[side] \in Seq(Byte) /\ unsent[side] # <<>>
    BY <1>4 DEF FramingType, SendBytes
  <2>3. n \in 0..Len(unsent[side])
    BY <2>2, LenProperties
  <2>4. SubSeq(unsent[side], 1, n) \in Seq(Byte) /\ SubSeq(unsent[side], n + 1, Len(unsent[side])) \in Seq(Byte)
    BY <2>2, <2>3, CutAndJoin
  <2>5. wire[side] \o SubSeq(unsent[side], 1, n) \in Seq(Byte)
    BY <2>2, <2>4, ConcatProperties
  <2>6. wire' \in [Sides -> Seq(Byte)] /\ unsent' \in [Sides -> Seq(Byte)]
    BY <2>1, <2>4, <2>5 DEF FramingType
  <2>7. started' \in [Sides -> Seq(Frame)]
    <3>1. unsent[side][1][1] \in Frame
      BY <2>2, SizeOfFirst
    <3>2. started[side] \in Seq(Frame)
      BY DEF FramingType
    <3>3. Append(started[side], unsent[side][1][1]) \in Seq(Frame)
      BY <3>1, <3>2, AppendProperties
    <3> QED
      BY <1>4, <3>3 DEF SendBytes, FramingType
  <2>8. phase' = IF unsent'[side] = <<>> THEN [phase EXCEPT ![side] = "receiving"] ELSE phase
    BY <1>4 DEF SendBytes
  <2>9. UNCHANGED <<partly, announced, delivered, failed>>
    BY <1>4 DEF SendBytes
  <2>10. \A s \in Sides : phase'[s] = "sending" => unsent'[s] # <<>>
    BY <2>1, <2>8 DEF FramingType
  <2>11. /\ phase' \in [Sides -> {"idle", "handling", "sending", "receiving", "ended"}]
         /\ phase'["worker"] # "handling" /\ phase'["coordinator"] # "idle"
         /\ phase'["coordinator"] = "handling" => phase["coordinator"] = "handling"
    BY <2>8, SidesAre DEF FramingType
  <2> QED
    BY <2>6, <2>7, <2>9, <2>10, <2>11 DEF FramingType
<1>5. ASSUME NEW side \in Sides, SendVanishes(side) PROVE FramingType'
  <2>1. <<>> \in Seq(Byte)
    BY EmptySeq
  <2> QED
    BY <1>5, <2>1, SidesAre DEF SendVanishes, FramingType
<1>6. ASSUME NEW side \in Sides, SendFails(side) PROVE FramingType'
  <2>1. unsent[side][1][1] \in Frame
    BY <1>6, SizeOfFirst DEF SendFails, FramingType
  <2>2. failed' \in BOOLEAN
    BY <1>6 DEF SendFails, FramingType
  <2>3. CASE \E len \in Lengths :
               SendFrame(side, [unsent[side][1][1] EXCEPT !.kind = "error", !.len = len])
    <3>1. PICK len \in Lengths :
            SendFrame(side, [unsent[side][1][1] EXCEPT !.kind = "error", !.len = len])
      BY <2>3
    <3>2. [unsent[side][1][1] EXCEPT !.kind = "error", !.len = len] \in Frame
      BY <2>1 DEF Frame
    <3> QED
      BY <2>2, <3>1, <3>2, SendFrameTypes
  <2>4. CASE End(side) /\ UNCHANGED <<started, delivered>>
    <3>1. UNCHANGED <<unsent, partly, announced>>
      BY <2>4 DEF End
    <3> QED
      BY <2>2, <2>4, <3>1, EndTypes DEF FramingType
  <2> QED
    BY <1>6, <2>3, <2>4 DEF SendFails
<1>7. ASSUME NEW side \in Sides, RecvBytes(side) PROVE FramingType'
  <2>1. PICK n \in 1..Wanted(side) :
          /\ n <= Len(wire[Other(side)])
          /\ partly' = [partly EXCEPT ![side] = @ \o SubSeq(wire[Other(side)], 1, n)]
          /\ wire' = [wire EXCEPT ![Other(side)] = SubSeq(@, n + 1, Len(@))]
    BY <1>7 DEF RecvBytes
  <2>2. wire[Other(side)] \in Seq(Byte) /\ partly[side] \in Seq(Byte) /\ Other(side) \in Sides
    BY SidesAre DEF FramingType
  <2>3. n \in 0..Len(wire[Other(side)])
    BY <2>1, <2>2, LenProperties
  <2>4. /\ SubSeq(wire[Other(side)], 1, n) \in Seq(Byte)
        /\ SubSeq(wire[Other(side)], n + 1, Len(wire[Other(side)])) \in Seq(Byte)
    BY <2>2, <2>3, CutAndJoin
  <2>5. partly[side] \o SubSeq(wire[Other(side)], 1, n) \in Seq(Byte)
    BY <2>2, <2>4, ConcatProperties
  <2>6. wire' \in [Sides -> Seq(Byte)] /\ partly' \in [Sides -> Seq(Byte)]
    BY <2>1, <2>2, <2>4, <2>5 DEF FramingType
  <2> QED
    BY <1>7, <2>6 DEF RecvBytes, FramingType
<1>8. ASSUME NEW side \in Sides, RecvEnds(side) \/ Die(side) PROVE FramingType'
  BY <1>8, EndTypes DEF RecvEnds, Die, End, FramingType
<1>9. ASSUME NEW side \in Sides, ReadHeader(side) PROVE FramingType'
  <2>1. PICK len \in HeaderLengths(partly[side]) :
          \/ /\ announced' = [announced EXCEPT ![side] = len]
             /\ UNCHANGED <<phase, unsent, wire, partly>>
          \/ End(side)
    BY <1>9 DEF ReadHeader
  <2>2. UNCHANGED <<started, delivered, failed>>
    BY <1>9 DEF ReadHeader
  <2>3. partly[side] # <<>>
    <3>1. partly[side] = <<>> => Len(partly[side]) = 0
      BY EmptySeq
    <3> QED
      BY <1>9, <3>1, FramingAssumption DEF ReadHeader, Wanted
  <2>4. partly[side][1][1] \in Frame
    BY <2>3, SizeOfFirst DEF FramingType
  <2>5. len \in Nat
    <3>1. len \in Lengths
      BY <2>1, <2>4 DEF HeaderLengths, Frame
    <3> QED
      BY <3>1, FramingAssumption
  <2>6. CASE announced' = [announced EXCEPT ![side] = len] /\ UNCHANGED <<phase, unsent, wire, partly>>
    BY <2>2, <2>5, <2>6 DEF FramingType
  <2>7. CASE End(side)
    BY <2>2, <2>7, EndTypes DEF End, FramingType
  <2> QED
    BY <2>1, <2>6, <2>7
<1>10. ASSUME NEW side \in Sides, Deliver(side) PROVE FramingType'
  <2>1. partly[side] # <<>>
    BY <1>10, SomethingIsRead
  <2>2. partly[side][1][1] \in Frame /\ delivered[side] \in Seq(Frame)
    BY <2>1, SizeOfFirst DEF FramingType
  <2>3. /\ Append(delivered[side], partly[side][1][1]) \in Seq(Frame)
        /\ Append(delivered[side], partly[side][1][1]) # <<>>
    BY <2>2, AppendProperties
  <2>4. UNCHANGED <<started, failed>>
    BY <1>10 DEF Deliver
  <2>5. CASE /\ delivered' = [delivered EXCEPT ![side] = Append(@, partly[side][1][1])]
             /\ phase' = [phase EXCEPT ![side] = IF side = "worker" THEN "idle" ELSE "handling"]
             /\ partly' = [partly EXCEPT ![side] = <<>>]
             /\ announced' = [announced EXCEPT ![side] = NoLength]
             /\ UNCHANGED <<unsent, wire>>
    <3>1. <<>> \in Seq(Byte)
      BY EmptySeq
    <3>2. partly' \in [Sides -> Seq(Byte)] /\ delivered' \in [Sides -> Seq(Frame)]
      BY <2>3, <2>5, <3>1 DEF FramingType
    <3>3. /\ phase' \in [Sides -> {"idle", "handling", "sending", "receiving", "ended"}]
          /\ phase'["worker"] # "handling" /\ phase'["coordinator"] # "idle"
          /\ \A s \in Sides : phase'[s] = "sending" => unsent'[s] # <<>>
      BY <2>5, SidesAre DEF FramingType
    <3>4. phase'["coordinator"] = "handling" => delivered'["coordinator"] # <<>>
      BY <2>3, <2>5, SidesAre DEF FramingType
    <3> QED
      BY <2>4, <2>5, <3>2, <3>3, <3>4 DEF FramingType
  <2>6. CASE End(side) /\ UNCHANGED delivered
    BY <2>4, <2>6, EndTypes DEF End, FramingType
  <2> QED
    BY <1>10, <2>5, <2>6 DEF Deliver
<1>11. ASSUME NEW side \in Sides, Step(side) \/ SendFails(side) \/ Die(side) PROVE FramingType'
  BY <1>4, <1>5, <1>6, <1>7, <1>8, <1>9, <1>10, <1>11 DEF Step
<1> QED
  BY <1>1, <1>2, <1>3, <1>11 DEF FramingNext

LEMMA FramingInitType == FramingInit => FramingType
<1>1. <<>> \in Seq(Byte) /\ <<>> \in Seq(Frame)
  BY EmptySeq
<1>2. ASSUME FramingInit
      PROVE  /\ phase \in [Sides -> {"idle", "handling", "sending", "receiving", "ended"}]
             /\ phase["worker"] = "idle" /\ phase["coordinator"] = "receiving"
             /\ \A side \in Sides : phase[side] # "sending"
  BY <1>2, SidesAre DEF FramingInit
<1>3. ASSUME FramingInit
      PROVE  /\ unsent \in [Sides -> Seq(Byte)] /\ wire \in [Sides -> Seq(Byte)]
             /\ partly \in [Sides -> Seq(Byte)] /\ announced \in [Sides -> Nat \cup {NoLength}]
             /\ started \in [Sides -> Seq(Frame)] /\ delivered \in [Sides -> Seq(Frame)]
             /\ failed \in BOOLEAN
  BY <1>1, <1>3 DEF FramingInit
<1> QED
  BY <1>2, <1>3 DEF FramingType

-----------------------------------------------------------------------------
(* The streams: bytes that the sender has handed over and the receiver has *)
(* not yet taken as a frame, bytes it still has to hand over, and both.    *)

Inflight == [s \in Sides |-> partly[Other(s)] \o wire[s]]
Outgoing == [s \in Sides |-> IF phase[s] = "sending" THEN unsent[s] ELSE <<>>]
Coming == [s \in Sides |-> Inflight[s] \o Outgoing[s]]

LEMMA JoinedBytes ==
  ASSUME NEW x \in Seq(Byte), NEW u \in Seq(Byte)
  PROVE  /\ x \o u \in Seq(Byte)
         /\ (x \o u = <<>>) <=> (x = <<>> /\ u = <<>>)
         /\ x # <<>> => (x \o u)[1] = x[1]
         /\ x = <<>> => x \o u = u
         /\ u = <<>> => x \o u = x
<1>1. /\ x \o u \in Seq(Byte) /\ Len(x \o u) = Len(x) + Len(u)
      /\ \A i \in 1..Len(x) + Len(u) : (x \o u)[i] = IF i <= Len(x) THEN x[i] ELSE u[i - Len(x)]
  BY ConcatProperties
<1>2. Len(x) \in Nat /\ Len(u) \in Nat
  BY LenProperties
<1>3. (x = <<>> <=> Len(x) = 0) /\ (u = <<>> <=> Len(u) = 0) /\ (x \o u = <<>> <=> Len(x \o u) = 0)
  BY <1>1, EmptySeq
<1>4. x # <<>> => (x \o u)[1] = x[1]
  BY <1>1, <1>2, <1>3
<1>5. (x = <<>> => x \o u = u) /\ (u = <<>> => x \o u = x)
  BY ConcatEmptySeq
<1> QED
  BY <1>1, <1>2, <1>3, <1>4, <1>5

LEMMA StreamTypes ==
  ASSUME FramingType, NEW s \in Sides
  PROVE  /\ Inflight[s] \in Seq(Byte) /\ Outgoing[s] \in Seq(Byte) /\ Coming[s] \in Seq(Byte)
         /\ Coming[s] = Inflight[s] \o Outgoing[s]
         /\ (Coming[s] = <<>>) <=> (Inflight[s] = <<>> /\ Outgoing[s] = <<>>)
         /\ Inflight[s] # <<>> => Coming[s][1] = Inflight[s][1]
         /\ Inflight[s] = <<>> => Coming[s] = Outgoing[s]
         /\ phase[s] = "sending" => Outgoing[s] = unsent[s] /\ unsent[s] # <<>>
         /\ phase[s] # "sending" => Outgoing[s] = <<>> /\ Coming[s] = Inflight[s]
<1>1. /\ Inflight[s] = partly[Other(s)] \o wire[s]
      /\ Outgoing[s] = IF phase[s] = "sending" THEN unsent[s] ELSE <<>>
      /\ Coming[s] = Inflight[s] \o Outgoing[s]
  BY DEF Inflight, Outgoing, Coming
<1>2. partly[Other(s)] \in Seq(Byte) /\ wire[s] \in Seq(Byte) /\ unsent[s] \in Seq(Byte)
  BY SidesAre DEF FramingType
<1>3. Inflight[s] \in Seq(Byte)
  BY <1>1, <1>2, ConcatProperties
<1>4. <<>> \in Seq(Byte)
  BY EmptySeq
<1>5. Outgoing[s] \in Seq(Byte)
  BY <1>1, <1>2, <1>4
<1>6. phase[s] = "sending" => unsent[s] # <<>>
  BY DEF FramingType
<1>7. Coming[s] = Inflight[s] \o Outgoing[s]
  BY <1>1
<1>8. Coming[s] \in Seq(Byte)
  BY <1>3, <1>5, <1>7, JoinedBytes
<1>9. (Coming[s] = <<>>) <=> (Inflight[s] = <<>> /\ Outgoing[s] = <<>>)
  BY <1>3, <1>5, <1>7, JoinedBytes
<1>10. Inflight[s] # <<>> => Coming[s][1] = Inflight[s][1]
  <2>1. ASSUME NEW x \in Seq(Byte), NEW u \in Seq(Byte), x # <<>>
        PROVE  (x \o u)[1] = x[1]
    BY <2>1, JoinedBytes
  <2>2. Inflight[s] # <<>> => (Inflight[s] \o Outgoing[s])[1] = Inflight[s][1]
    BY <1>3, <1>5, <2>1
  <2> QED
    BY <1>7, <2>2
<1>11. Inflight[s] = <<>> => Coming[s] = Outgoing[s]
  BY <1>3, <1>5, <1>7, JoinedBytes
<1>12. Outgoing[s] = <<>> => Coming[s] = Inflight[s]
  BY <1>3, <1>5, <1>7, JoinedBytes
<1> QED
  BY <1>1, <1>3, <1>5, <1>6, <1>8, <1>9, <1>10, <1>11, <1>12

(* What each action does to the streams.                                   *)
LEMMA SendFrameEffect ==
  ASSUME FramingType, NEW side \in Sides, NEW f \in Frame, SendFrame(side, f)
  PROVE  /\ Inflight' = Inflight
         /\ Coming'[side] = Inflight[side] \o Encoded(f)
         /\ Coming'[Other(side)] = Coming[Other(side)]
         /\ phase'[side] = "sending" /\ phase'[Other(side)] = phase[Other(side)]
         /\ unsent'[side] = Encoded(f) /\ unsent'[Other(side)] = unsent[Other(side)]
<1>1. Inflight' = Inflight
  BY DEF SendFrame, Inflight
<1>2. /\ phase'[side] = "sending" /\ phase'[Other(side)] = phase[Other(side)]
      /\ unsent'[side] = Encoded(f) /\ unsent'[Other(side)] = unsent[Other(side)]
  BY SidesAre DEF SendFrame, FramingType
<1>3. \A s \in Sides : Coming'[s] = Inflight'[s] \o (IF phase'[s] = "sending" THEN unsent'[s] ELSE <<>>)
  BY DEF Coming, Outgoing
<1>4. \A s \in Sides : Coming[s] = Inflight[s] \o (IF phase[s] = "sending" THEN unsent[s] ELSE <<>>)
  BY DEF Coming, Outgoing
<1>5. Coming'[side] = Inflight[side] \o Encoded(f)
  BY <1>1, <1>2, <1>3
<1>6. Coming'[Other(side)] = Coming[Other(side)]
  <2>1. Other(side) \in Sides
    BY SidesAre
  <2>2. Coming'[Other(side)] =
          Inflight'[Other(side)] \o (IF phase'[Other(side)] = "sending" THEN unsent'[Other(side)] ELSE <<>>)
    BY <1>3, <2>1
  <2>3. Coming[Other(side)] =
          Inflight[Other(side)] \o (IF phase[Other(side)] = "sending" THEN unsent[Other(side)] ELSE <<>>)
    BY <1>4, <2>1
  <2> QED
    BY <1>1, <1>2, <2>2, <2>3, Zenon
<1> QED
  BY <1>1, <1>2, <1>5, <1>6

LEMMA EndEffect ==
  ASSUME FramingType, NEW side \in Sides, End(side)
  PROVE  /\ Inflight'[side] \in Seq(Byte) /\ Coming'[side] = Inflight'[side]
         /\ Begins(Inflight'[side], Inflight[side]) /\ Begins(Coming'[side], Coming[side])
         /\ phase'[side] = "ended" /\ phase'[Other(side)] = phase[Other(side)]
         /\ unsent' = unsent
<1>1. PICK n \in 0..Len(wire[side]) :
        wire' = [wire EXCEPT ![Other(side)] = <<>>, ![side] = SubSeq(@, 1, n)]
  BY DEF End
<1>2. wire[side] \in Seq(Byte) /\ partly[Other(side)] \in Seq(Byte) /\ Outgoing[side] \in Seq(Byte)
  BY SidesAre, StreamTypes DEF FramingType
<1>3. wire'[side] = SubSeq(wire[side], 1, n) /\ partly' = partly /\ unsent' = unsent
  BY <1>1, SidesAre DEF End, FramingType
<1>4. phase'[side] = "ended" /\ phase'[Other(side)] = phase[Other(side)]
  BY SidesAre DEF End, FramingType
<1>5. Inflight'[side] = partly[Other(side)] \o SubSeq(wire[side], 1, n)
  BY <1>3 DEF Inflight
<1>6. Inflight[side] = partly[Other(side)] \o wire[side] /\ Coming[side] = Inflight[side] \o Outgoing[side]
  BY DEF Inflight, Coming
<1>7. /\ Inflight'[side] \in Seq(Byte)
      /\ Begins(Inflight'[side], Inflight[side]) /\ Begins(Inflight'[side], Coming[side])
  BY <1>1, <1>2, <1>5, <1>6, CutIsPrefix
<1>8. Coming'[side] = Inflight'[side] \o <<>>
  BY <1>4 DEF Coming, Outgoing
<1>9. Coming'[side] = Inflight'[side]
  BY <1>7, <1>8, ConcatEmptySeq
<1> QED
  BY <1>3, <1>4, <1>7, <1>9

LEMMA SendBytesEffect ==
  ASSUME FramingType, NEW side \in Sides, SendBytes(side)
  PROVE  /\ Inflight'[side] # <<>>
         /\ Coming'[side] = Coming[side]
         /\ Inflight'[Other(side)] = Inflight[Other(side)] /\ Coming'[Other(side)] = Coming[Other(side)]
         /\ phase'[side] = "sending" => unsent'[side] # <<>> /\ phase[side] = "sending"
         /\ phase'[side] \in {"sending", "receiving"} /\ phase'[Other(side)] = phase[Other(side)]
         /\ unsent'[Other(side)] = unsent[Other(side)]
         /\ \E n \in 1..Len(unsent[side]) :
              /\ Len(unsent'[side]) = Len(unsent[side]) - n
              /\ \A i \in 1..Len(unsent'[side]) : unsent'[side][i] = unsent[side][n + i]
<1>1. PICK n \in 1..Len(unsent[side]) :
        /\ wire' = [wire EXCEPT ![side] = @ \o SubSeq(unsent[side], 1, n)]
        /\ unsent' = [unsent EXCEPT ![side] = SubSeq(@, n + 1, Len(@))]
  BY DEF SendBytes
<1> DEFINE first == SubSeq(unsent[side], 1, n)
           rest == SubSeq(unsent[side], n + 1, Len(unsent[side]))
<1>2. /\ unsent[side] \in Seq(Byte) /\ wire[side] \in Seq(Byte) /\ partly[Other(side)] \in Seq(Byte)
      /\ Inflight[side] \in Seq(Byte) /\ Len(unsent[side]) \in Nat /\ n \in 0..Len(unsent[side])
  <2>1. unsent[side] \in Seq(Byte) /\ wire[side] \in Seq(Byte) /\ partly[Other(side)] \in Seq(Byte)
    BY SidesAre DEF FramingType
  <2>2. Inflight[side] \in Seq(Byte)
    BY StreamTypes
  <2>3. Len(unsent[side]) \in Nat
    BY <2>1, LenProperties
  <2> QED
    BY <1>1, <2>1, <2>2, <2>3
<1>3. /\ first \in Seq(Byte) /\ Len(first) = n /\ rest \in Seq(Byte) /\ Len(rest) = Len(unsent[side]) - n
      /\ \A i \in 1..(Len(unsent[side]) - n) : rest[i] = unsent[side][n + i]
      /\ (Inflight[side] \o first) \o rest = Inflight[side] \o unsent[side]
  <2>1. first \in Seq(Byte) /\ Len(first) = n /\ rest \in Seq(Byte) /\ Len(rest) = Len(unsent[side]) - n
    BY <1>2, CutAndJoin
  <2>2. \A i \in 1..(Len(unsent[side]) - n) : rest[i] = unsent[side][n + i]
    BY <1>2, CutAndJoin
  <2>3. (Inflight[side] \o first) \o rest = Inflight[side] \o unsent[side]
    BY <1>2, CutAndJoin
  <2> QED
    BY <2>1, <2>2, <2>3
<1>4. /\ wire'[side] = wire[side] \o first /\ wire'[Other(side)] = wire[Other(side)]
      /\ unsent'[side] = rest /\ unsent'[Other(side)] = unsent[Other(side)]
      /\ partly' = partly
  BY <1>1, SidesAre DEF SendBytes, FramingType
<1>5. /\ phase[side] = "sending" /\ phase'[Other(side)] = phase[Other(side)]
      /\ phase'[side] = IF rest = <<>> THEN "receiving" ELSE "sending"
  BY <1>4, SidesAre DEF SendBytes, FramingType
<1> HIDE DEF first, rest
<1>6. Inflight'[side] = Inflight[side] \o first
  <2>1. Inflight'[side] = partly[Other(side)] \o (wire[side] \o first)
    BY <1>4 DEF Inflight
  <2>2. Inflight[side] = partly[Other(side)] \o wire[side]
    BY DEF Inflight
  <2>4. partly[Other(side)] \o (wire[side] \o first) = (partly[Other(side)] \o wire[side]) \o first
    BY <1>2, <1>3, JoinedThree
  <2> QED
    BY <2>1, <2>2, <2>4
<1>7. Coming'[side] = (Inflight[side] \o first) \o rest
  BY <1>4, <1>5, <1>6 DEF Coming, Outgoing
<1>8. Coming'[side] = Coming[side]
  BY <1>3, <1>5, <1>7 DEF Coming, Outgoing
<1>9. Inflight'[side] # <<>>
  <2>1. first # <<>>
    BY <1>1, <1>3, EmptySeq
  <2> QED
    BY <1>2, <1>3, <1>6, <2>1, JoinedBytes
<1>10. Inflight'[Other(side)] = Inflight[Other(side)]
  BY <1>4, SidesAre DEF Inflight
<1>11. Coming'[Other(side)] = Coming[Other(side)]
  BY <1>4, <1>5, <1>10, SidesAre DEF Coming, Outgoing
<1> QED
  BY <1>1, <1>3, <1>4, <1>5, <1>8, <1>9, <1>10, <1>11

LEMMA SendVanishesEffect ==
  ASSUME FramingType, NEW side \in Sides, SendVanishes(side)
  PROVE  /\ Inflight' = Inflight
         /\ Coming'[Other(side)] = Coming[Other(side)]
         /\ phase[side] = "sending" /\ phase'[side] = "receiving"
         /\ phase[Other(side)] = "ended" /\ phase'[Other(side)] = "ended"
         /\ UNCHANGED <<started, delivered>>
<1>1. Inflight' = Inflight
  BY DEF SendVanishes, Inflight
<1>2. /\ phase[side] = "sending" /\ phase'[side] = "receiving"
      /\ phase[Other(side)] = "ended" /\ phase'[Other(side)] = "ended"
  BY SidesAre DEF SendVanishes, FramingType
<1>3. Coming'[Other(side)] = Coming[Other(side)]
  BY <1>1, <1>2, SidesAre DEF Coming, Outgoing
<1> QED
  BY <1>1, <1>2, <1>3 DEF SendVanishes

LEMMA RecvBytesEffect ==
  ASSUME FramingType, NEW side \in Sides, RecvBytes(side)
  PROVE  /\ Inflight' = Inflight /\ Coming' = Coming
         /\ UNCHANGED <<phase, unsent, started, delivered>>
         /\ Len(partly'[side]) <= Len(partly[side]) + Wanted(side)
         /\ partly'[Other(side)] = partly[Other(side)]
<1>1. PICK n \in 1..Wanted(side) :
        /\ n <= Len(wire[Other(side)])
        /\ partly' = [partly EXCEPT ![side] = @ \o SubSeq(wire[Other(side)], 1, n)]
        /\ wire' = [wire EXCEPT ![Other(side)] = SubSeq(@, n + 1, Len(@))]
  BY DEF RecvBytes
<1> DEFINE first == SubSeq(wire[Other(side)], 1, n)
           rest == SubSeq(wire[Other(side)], n + 1, Len(wire[Other(side)]))
<1>2. wire[Other(side)] \in Seq(Byte) /\ partly[side] \in Seq(Byte) /\ Other(side) \in Sides
  BY SidesAre DEF FramingType
<1>3. n \in 0..Len(wire[Other(side)])
  BY <1>1, <1>2, LenProperties
<1>4. /\ first \in Seq(Byte) /\ Len(first) = n
      /\ (partly[side] \o first) \o rest = partly[side] \o wire[Other(side)]
  BY <1>2, <1>3, CutAndJoin
<1>5. /\ partly'[side] = partly[side] \o first /\ partly'[Other(side)] = partly[Other(side)]
      /\ wire'[Other(side)] = rest /\ wire'[side] = wire[side]
  BY <1>1, <1>2, SidesAre DEF FramingType
<1> HIDE DEF first, rest
<1>6. Inflight' = Inflight
  <2>1. \A s \in Sides : partly'[Other(s)] \o wire'[s] = partly[Other(s)] \o wire[s]
    BY <1>4, <1>5, SidesAre
  <2> QED
    BY <2>1 DEF Inflight
<1>7. UNCHANGED <<phase, unsent, started, delivered>>
  BY DEF RecvBytes
<1>8. Coming' = Coming
  BY <1>6, <1>7 DEF Coming, Outgoing
<1>9. Len(partly'[side]) = Len(partly[side]) + n
  BY <1>2, <1>4, <1>5, ConcatProperties
<1>10. Len(partly[side]) \in Nat /\ n <= Wanted(side) /\ n \in Nat /\ Wanted(side) \in Int
  <2>1. Len(partly[side]) \in Nat
    BY <1>2, LenProperties
  <2>2. announced[side] \in Int
    BY DEF FramingType, NoLength
  <2> QED
    BY <1>1, <2>1, <2>2, FramingAssumption DEF Wanted
<1> QED
  BY <1>5, <1>6, <1>7, <1>8, <1>9, <1>10

-----------------------------------------------------------------------------
(* The inductive invariant.                                                *)

Kinds(side) == IF side = "worker" THEN {"request"} ELSE {"result", "error"}

(* What is coming to a receiver that lives, T, of which x is in flight.    *)
(* Bytes in flight are of the next frame it has not yet taken; if they can *)
(* make a whole frame, then of the only one; and only a receiving side has *)
(* any coming.                                                             *)
Way(x, T, sender, receiver, sent, got) ==
  receiver # "ended" =>
    /\ OneFrame(T)
    /\ x # <<>> => /\ Len(got) < Len(sent) /\ sent[Len(got) + 1] = T[1][1]
                   /\ Whole(T) => Len(sent) = Len(got) + 1
    /\ x = <<>> /\ sender # "ended" => Len(sent) = Len(got)
    /\ receiver # "receiving" => T = <<>>

WayInv ==
  \A s \in Sides :
    Way(Inflight[s], Coming[s], phase[s], phase[Other(s)], started[s], delivered[Other(s)])

(* One side speaks at a time, and the answers taken are one behind the     *)
(* requests taken while the coordinator handles or answers one.            *)
TurnInv ==
  phase["worker"] # "ended" /\ phase["coordinator"] # "ended" =>
    /\ Coming["worker"] = <<>> \/ Coming["coordinator"] = <<>>
    /\ phase["worker"] = "idle" => Coming["worker"] = <<>> /\ phase["coordinator"] # "handling"
    /\ phase["coordinator"] = "handling" => Coming["coordinator"] = <<>>
    /\ Len(delivered["coordinator"]) = Len(delivered["worker"]) +
         (IF phase["coordinator"] = "handling" \/ Coming["coordinator"] # <<>> THEN 1 ELSE 0)

(* What send_all holds is the rest of one frame of the right kind and      *)
(* number.                                                                 *)
SendInv ==
  \A s \in Sides : phase[s] = "sending" =>
    /\ Parts(unsent[s])
    /\ unsent[s][1][1].kind \in Kinds(s)
    /\ s = "worker" /\ unsent[s][1][2] = 1 => unsent[s][1][1].nr = Len(started[s]) + 1
    /\ s = "coordinator" => unsent[s][1][1].nr = Len(delivered[s])

(* An error behind bytes of an unfinished frame: that frame is the result  *)
(* that was begun for the same request.                                    *)
SpliceInv ==
  phase["coordinator"] = "sending" /\ phase["worker"] # "ended" /\ Inflight["coordinator"] # <<>> =>
    /\ unsent["coordinator"][1][1].kind = "result" => unsent["coordinator"][1][2] # 1
    /\ unsent["coordinator"][1][1].kind = "result" \/ unsent["coordinator"][1][2] = 1 =>
         /\ Len(started["coordinator"]) = Len(delivered["worker"]) + 1
         /\ started["coordinator"][Len(started["coordinator"])].kind = "result"

(* The worker never begins a request behind another.                       *)
AskInv ==
  phase["worker"] = "sending" /\ phase["coordinator"] # "ended" /\ Inflight["worker"] # <<>> =>
    unsent["worker"][1][2] # 1

(* What is coming to the worker is an answer to its last request.          *)
AnswerInv ==
  phase["worker"] # "ended" /\ Coming["coordinator"] # <<>> =>
    /\ Coming["coordinator"][1][1].nr = Len(delivered["worker"]) + 1
    /\ Coming["coordinator"][1][1].kind # "request"

RequestsNumbered == \A i \in 1..Len(started["worker"]) : started["worker"][i].nr = i

Taken == \A s \in Sides : Begins(delivered[Other(s)], started[s])

ReadInv ==
  \A side \in Sides :
    /\ announced[side] <= FrameLimit
    /\ Len(partly[side]) <= HeaderBytes + (IF announced[side] = NoLength THEN 0 ELSE announced[side])

Histories == RequestsNumbered /\ Taken /\ AnswersInTurn

Streams == WayInv /\ TurnInv /\ SendInv /\ AskInv /\ SpliceInv /\ AnswerInv

FramingInv == FramingType /\ ReadInv /\ Histories /\ Streams

LEMMA AppendedFrame ==
  ASSUME NEW q \in Seq(Frame), NEW f \in Frame
  PROVE  /\ Append(q, f) \in Seq(Frame)
         /\ Len(q) \in Nat /\ Len(Append(q, f)) = Len(q) + 1
         /\ \A i \in 1..Len(q) : Append(q, f)[i] = q[i]
         /\ Append(q, f)[Len(q) + 1] = f
BY AppendProperties, LenProperties

LEMMA NothingIsWhole == OneFrame(<<>>) /\ ~Whole(<<>>)
BY DEF OneFrame, Whole

(* How each action keeps what the invariant says of streams and histories. *)
(* Steps that leave streams and histories alone:                           *)
LEMMA SilentKeeps ==
  ASSUME Streams, Histories, Inflight' = Inflight, Coming' = Coming,
         UNCHANGED <<phase, unsent, started, delivered>>
  PROVE  Streams' /\ Histories'
<1>1. Histories'
  BY DEF Histories, RequestsNumbered, Taken, AnswersInTurn
<1>2. WayInv'
  BY DEF Streams, WayInv
<1>3. TurnInv' /\ AnswerInv'
  BY DEF Streams, TurnInv, AnswerInv
<1>4. SendInv' /\ AskInv' /\ SpliceInv'
  BY DEF Streams, SendInv, AskInv, SpliceInv
<1> QED
  BY <1>1, <1>2, <1>3, <1>4 DEF Streams

(* A side gives up: the end of what it sent may be lost.                   *)
LEMMA EndKeeps ==
  ASSUME FramingType, Streams, Histories, NEW side \in Sides, End(side),
         UNCHANGED <<started, delivered>>
  PROVE  Streams' /\ Histories'
<1>1. Histories'
  BY DEF Histories, RequestsNumbered, Taken, AnswersInTurn
<1>2. /\ Inflight'[side] \in Seq(Byte) /\ Coming'[side] = Inflight'[side]
      /\ Begins(Inflight'[side], Inflight[side]) /\ Begins(Coming'[side], Coming[side])
      /\ phase'[side] = "ended" /\ phase'[Other(side)] = phase[Other(side)]
      /\ unsent' = unsent
  BY EndEffect
<1>3. Inflight[side] \in Seq(Byte) /\ Coming[side] \in Seq(Byte)
  BY StreamTypes
<1>4. Coming'[side] # <<>> => Coming[side] # <<>> /\ Coming'[side][1] = Coming[side][1] /\ Inflight[side] # <<>>
  <2>1. ASSUME NEW a \in Seq(Byte), NEW b \in Seq(Byte), Begins(a, b), a # <<>>
        PROVE  b # <<>> /\ a[1] = b[1]
    <3>1. Len(a) \in Nat \ {0} /\ Len(b) \in Nat
      BY <2>1, EmptySeq, LenProperties
    <3>2. Len(b) # 0 /\ a[1] = b[1]
      BY <2>1, <3>1 DEF Begins
    <3> QED
      BY <3>2, EmptySeq
  <2> QED
    BY <1>2, <1>3, <2>1
<1>5. WayInv'
  <2>1. Way(Inflight'[side], Coming'[side], phase'[side], phase'[Other(side)],
            started'[side], delivered'[Other(side)])
    <3>1. Way(Inflight[side], Coming[side], phase[side], phase[Other(side)],
              started[side], delivered[Other(side)])
      BY DEF Streams, WayInv
    <3>2. CASE phase[Other(side)] = "ended"
      BY <1>2, <3>2 DEF Way
    <3>3. CASE phase[Other(side)] # "ended"
      <4>1. OneFrame(Coming[side])
        BY <3>1, <3>3 DEF Way
      <4>2. OneFrame(Coming'[side]) /\ (Whole(Coming'[side]) => Whole(Coming[side]))
        BY <1>2, <1>3, <4>1, PrefixOfOneFrame
      <4> QED
        BY <1>2, <1>4, <3>1, <3>3, <4>2 DEF Way
    <3> QED BY <3>2, <3>3
  <2>2. ASSUME NEW s \in Sides, s # side
        PROVE  Way(Inflight'[s], Coming'[s], phase'[s], phase'[Other(s)], started'[s], delivered'[Other(s)])
    <3>1. Other(s) = side
      BY <2>2, OneOfTwo, SidesAre
    <3> QED
      BY <1>2, <3>1 DEF Way
  <2> QED
    BY <2>1, <2>2 DEF WayInv
<1>6. TurnInv' /\ AskInv'
  BY <1>2, SidesAre DEF TurnInv, AskInv
<1>7. SendInv'
  <2> SUFFICES ASSUME NEW s \in Sides, phase'[s] = "sending"
               PROVE  phase[s] = "sending"
    BY <1>2 DEF SendInv, Streams
  <2> QED
    BY <1>2, OneOfTwo
<1>8. SpliceInv'
  BY <1>2, SidesAre DEF SpliceInv
<1>9. AnswerInv'
  <2>1. CASE side = "worker"
    BY <1>2, <2>1 DEF AnswerInv
  <2>2. CASE side = "coordinator"
    BY <1>2, <1>4, <2>2, SidesAre DEF AnswerInv, Streams
  <2> QED
    BY <2>1, <2>2, SidesAre
<1> QED
  BY <1>1, <1>5, <1>6, <1>7, <1>8, <1>9 DEF Streams

(* A request is encoded.                                                   *)
LEMMA AskKeeps ==
  ASSUME FramingType, Streams, Histories, Ask
  PROVE  Streams' /\ Histories'
<1> DEFINE w == "worker"
           c == "coordinator"
<1>1. PICK len \in Lengths :
        SendFrame(w, [kind |-> "request", nr |-> Len(started[w]) + 1, len |-> len])
  BY DEF Ask
<1> DEFINE f == [kind |-> "request", nr |-> Len(started[w]) + 1, len |-> len]
<1>2. f \in Frame
  <2>1. Len(started[w]) \in Nat
    BY SidesAre, LenProperties DEF FramingType
  <2> QED
    BY <2>1, FramingAssumption DEF Ask, Frame
<1>3. f.kind = "request" /\ f.nr = Len(started[w]) + 1
  OBVIOUS
<1>4. phase[w] = "idle" /\ UNCHANGED <<started, delivered>>
  BY <1>1 DEF Ask, SendFrame
<1>5. /\ Inflight' = Inflight
      /\ Coming'[w] = Inflight[w] \o Encoded(f)
      /\ Coming'[c] = Coming[c]
      /\ phase'[w] = "sending" /\ phase'[c] = phase[c]
      /\ unsent'[w] = Encoded(f) /\ unsent'[c] = unsent[c]
  BY <1>1, <1>2, SendFrameEffect, SidesAre
<1> HIDE DEF f
<1>6. Histories'
  BY <1>4 DEF Histories, RequestsNumbered, Taken, AnswersInTurn
<1>7. Way(Inflight[w], Coming[w], phase[w], phase[c], started[w], delivered[c])
  BY SidesAre DEF Streams, WayInv
<1>8. Way(Inflight[c], Coming[c], phase[c], phase[w], started[c], delivered[w])
  BY SidesAre DEF Streams, WayInv
<1>9. Coming[c] = <<>>
  BY <1>4, <1>8 DEF Way
<1>10. phase[c] # "ended" => Coming[w] = <<>> /\ Inflight[w] = <<>> /\ phase[c] = "receiving"
  <2> SUFFICES ASSUME phase[c] # "ended"
               PROVE  Coming[w] = <<>> /\ Inflight[w] = <<>> /\ phase[c] = "receiving"
    OBVIOUS
  <2>1. Coming[w] = <<>> /\ phase[c] # "handling"
    BY <1>4 DEF Streams, TurnInv
  <2>2. phase[c] # "sending"
    BY <1>9, StreamTypes, SidesAre
  <2>3. phase[c] # "idle" /\ phase[c] \in {"idle", "handling", "sending", "receiving", "ended"}
    BY SidesAre DEF FramingType
  <2> QED
    BY <2>1, <2>2, <2>3, StreamTypes, SidesAre
<1>11. /\ Encoded(f) \in Seq(Byte) /\ Encoded(f) # <<>> /\ OneFrame(Encoded(f)) /\ Parts(Encoded(f))
       /\ Encoded(f)[1][1] = f
  BY <1>2, EncodedBytes, SizeIsPositive
<1>12. phase[c] # "ended" => Coming'[w] = Encoded(f)
  BY <1>5, <1>10, <1>11, ConcatEmptySeq
<1>13. WayInv'
  <2>1. Way(Inflight'[w], Coming'[w], phase'[w], phase'[c], started'[w], delivered'[c])
    BY <1>4, <1>5, <1>7, <1>10, <1>11, <1>12 DEF Way
  <2>2. Way(Inflight'[c], Coming'[c], phase'[c], phase'[w], started'[c], delivered'[w])
    BY <1>4, <1>5, <1>8, <1>9 DEF Way
  <2>3. ASSUME NEW s \in Sides
        PROVE  Way(Inflight'[s], Coming'[s], phase'[s], phase'[Other(s)], started'[s], delivered'[Other(s)])
    BY <2>1, <2>2, SidesAre
  <2> QED
    BY <2>3 DEF WayInv
<1>14. TurnInv'
  BY <1>4, <1>5, <1>9, <1>10 DEF Streams, TurnInv
<1>15. SendInv'
  <2>1. Len(started'[w]) = Len(started[w])
    BY <1>4
  <2>2. Kinds(w) = {"request"}
    BY DEF Kinds
  <2>3. ASSUME NEW s \in Sides, phase'[s] = "sending"
        PROVE  /\ Parts(unsent'[s])
               /\ unsent'[s][1][1].kind \in Kinds(s)
               /\ s = "worker" /\ unsent'[s][1][2] = 1 => unsent'[s][1][1].nr = Len(started'[s]) + 1
               /\ s = "coordinator" => unsent'[s][1][1].nr = Len(delivered'[s])
    <3>1. CASE s = w
      BY <1>3, <1>5, <1>11, <2>1, <2>2, <3>1
    <3>2. CASE s = c
      BY <1>4, <1>5, <2>3, <3>2 DEF Streams, SendInv
    <3> QED BY <3>1, <3>2, SidesAre
  <2> QED
    BY <2>3 DEF SendInv
<1>16. SpliceInv' /\ AnswerInv'
  BY <1>4, <1>5, <1>9 DEF Streams, SpliceInv, AnswerInv
<1>17. AskInv'
  BY <1>5, <1>10 DEF AskInv
<1> QED
  BY <1>6, <1>13, <1>14, <1>15, <1>16, <1>17 DEF Streams

(* An answer is encoded.                                                   *)
LEMMA AnswerKeeps ==
  ASSUME FramingType, Streams, Histories, Answer
  PROVE  Streams' /\ Histories'
<1> DEFINE w == "worker"
           c == "coordinator"
<1>1. PICK len \in Lengths, kind \in {"result", "error"} :
        SendFrame(c, [kind |-> kind, nr |-> Last(delivered[c]).nr, len |-> len])
  BY DEF Answer
<1> DEFINE f == [kind |-> kind, nr |-> Last(delivered[c]).nr, len |-> len]
<1>2. /\ delivered[c] \in Seq(Frame) /\ Len(delivered[c]) \in Nat \ {0} /\ Last(delivered[c]) \in Frame
      /\ Last(delivered[c]) = delivered[c][Len(delivered[c])]
  <2>1. delivered[c] \in Seq(Frame) /\ delivered[c] # <<>>
    BY SidesAre DEF FramingType, Answer
  <2>2. Len(delivered[c]) \in Nat \ {0}
    BY <2>1, EmptySeq
  <2> QED
    BY <2>1, <2>2, ElementOfSeq DEF Last
<1>3. f \in Frame
  BY <1>2 DEF Frame
<1>4. Last(delivered[c]).nr = Len(delivered[c])
  <2>1. Begins(delivered[c], started[w])
    BY SidesAre DEF Histories, Taken
  <2>2. Len(started[w]) \in Nat
    BY SidesAre, LenProperties DEF FramingType
  <2>3. started[w][Len(delivered[c])].nr = Len(delivered[c])
    BY <1>2, <2>1, <2>2 DEF Begins, Histories, RequestsNumbered
  <2> QED
    BY <1>2, <2>1, <2>3 DEF Begins
<1>5. f.kind \in {"result", "error"} /\ f.nr = Len(delivered[c])
  BY <1>4
<1>6. phase[c] = "handling" /\ UNCHANGED <<started, delivered>>
  BY <1>1 DEF Answer, SendFrame
<1>7. /\ Inflight' = Inflight
      /\ Coming'[c] = Inflight[c] \o Encoded(f)
      /\ Coming'[w] = Coming[w]
      /\ phase'[c] = "sending" /\ phase'[w] = phase[w]
      /\ unsent'[c] = Encoded(f) /\ unsent'[w] = unsent[w]
  BY <1>1, <1>3, SendFrameEffect, SidesAre
<1> HIDE DEF f
<1>8. Histories'
  BY <1>6 DEF Histories, RequestsNumbered, Taken, AnswersInTurn
<1>9. Way(Inflight[w], Coming[w], phase[w], phase[c], started[w], delivered[c])
  BY SidesAre DEF Streams, WayInv
<1>10. Way(Inflight[c], Coming[c], phase[c], phase[w], started[c], delivered[w])
  BY SidesAre DEF Streams, WayInv
<1>11. Coming[w] = <<>>
  BY <1>6, <1>9 DEF Way
<1>12. ASSUME phase[w] # "ended"
       PROVE  /\ Coming[c] = <<>> /\ Inflight[c] = <<>> /\ phase[w] = "receiving"
              /\ Len(delivered[c]) = Len(delivered[w]) + 1
  <2>1. Coming[c] = <<>> /\ phase[w] # "idle" /\ Len(delivered[c]) = Len(delivered[w]) + 1
    BY <1>6, <1>12 DEF Streams, TurnInv
  <2>2. phase[w] # "sending"
    BY <1>11, StreamTypes, SidesAre
  <2>3. phase[w] # "handling" /\ phase[w] \in {"idle", "handling", "sending", "receiving", "ended"}
    BY SidesAre DEF FramingType
  <2> QED
    BY <1>12, <2>1, <2>2, <2>3, StreamTypes, SidesAre
<1>13. /\ Encoded(f) \in Seq(Byte) /\ Encoded(f) # <<>> /\ OneFrame(Encoded(f)) /\ Parts(Encoded(f))
       /\ Encoded(f)[1][1] = f
  BY <1>3, EncodedBytes, SizeIsPositive
<1>14. phase[w] # "ended" => Coming'[c] = Encoded(f)
  BY <1>7, <1>12, <1>13, ConcatEmptySeq
<1>15. WayInv'
  <2>1. Way(Inflight'[c], Coming'[c], phase'[c], phase'[w], started'[c], delivered'[w])
    BY <1>6, <1>7, <1>10, <1>12, <1>13, <1>14 DEF Way
  <2>2. Way(Inflight'[w], Coming'[w], phase'[w], phase'[c], started'[w], delivered'[c])
    BY <1>6, <1>7, <1>9, <1>11 DEF Way
  <2>3. ASSUME NEW s \in Sides
        PROVE  Way(Inflight'[s], Coming'[s], phase'[s], phase'[Other(s)], started'[s], delivered'[Other(s)])
    BY <2>1, <2>2, SidesAre
  <2> QED
    BY <2>3 DEF WayInv
<1>16. TurnInv'
  BY <1>6, <1>7, <1>11, <1>12, <1>13, <1>14 DEF TurnInv
<1>17. SendInv'
  <2>1. Kinds(c) = {"result", "error"}
    BY DEF Kinds
  <2>2. ASSUME NEW s \in Sides, phase'[s] = "sending"
        PROVE  /\ Parts(unsent'[s])
               /\ unsent'[s][1][1].kind \in Kinds(s)
               /\ s = "worker" /\ unsent'[s][1][2] = 1 => unsent'[s][1][1].nr = Len(started'[s]) + 1
               /\ s = "coordinator" => unsent'[s][1][1].nr = Len(delivered'[s])
    <3>1. CASE s = c
      BY <1>5, <1>6, <1>7, <1>13, <2>1, <3>1
    <3>2. CASE s = w
      BY <1>6, <1>7, <2>2, <3>2 DEF Streams, SendInv
    <3> QED BY <3>1, <3>2, SidesAre
  <2> QED
    BY <2>2 DEF SendInv
<1>18. SpliceInv'
  BY <1>7, <1>12 DEF SpliceInv
<1>19. AnswerInv'
  BY <1>5, <1>6, <1>7, <1>12, <1>13, <1>14 DEF AnswerInv
<1>20. AskInv'
  BY <1>6, <1>7 DEF Streams, AskInv
<1> QED
  BY <1>8, <1>15, <1>16, <1>17, <1>18, <1>19, <1>20 DEF Streams

(* A result that cannot be sent is replaced by an error.                   *)
LEMMA ErrorKeeps ==
  ASSUME FramingType, Streams, Histories, NEW side \in Sides, phase[side] = "sending",
         unsent[side][1][1].kind = "result", NEW len \in Lengths,
         SendFrame(side, [unsent[side][1][1] EXCEPT !.kind = "error", !.len = len])
  PROVE  Streams' /\ Histories'
<1> DEFINE w == "worker"
           c == "coordinator"
           e == [unsent[side][1][1] EXCEPT !.kind = "error", !.len = len]
<1>1. side = c
  <2>1. unsent[side][1][1].kind \in Kinds(side)
    BY DEF Streams, SendInv
  <2> QED
    BY <2>1, SidesAre DEF Kinds
<1>2. unsent[c] \in Seq(Byte) /\ unsent[c] # <<>> /\ unsent[c][1][1] \in Frame
  BY <1>1, SizeOfFirst, SidesAre DEF FramingType
<1>3. e \in Frame /\ e.kind = "error" /\ e.nr = unsent[c][1][1].nr
  BY <1>1, <1>2 DEF Frame
<1>4. phase[c] = "sending" /\ unsent[c][1][1].kind = "result" /\ UNCHANGED <<started, delivered>>
  BY <1>1 DEF SendFrame
<1>5. /\ Inflight' = Inflight
      /\ Coming'[c] = Inflight[c] \o Encoded(e)
      /\ Coming'[w] = Coming[w]
      /\ phase'[c] = "sending" /\ phase'[w] = phase[w]
      /\ unsent'[c] = Encoded(e) /\ unsent'[w] = unsent[w]
  <2>1. /\ Inflight' = Inflight
        /\ Coming'[side] = Inflight[side] \o Encoded(e)
        /\ Coming'[Other(side)] = Coming[Other(side)]
        /\ phase'[side] = "sending" /\ phase'[Other(side)] = phase[Other(side)]
        /\ unsent'[side] = Encoded(e) /\ unsent'[Other(side)] = unsent[Other(side)]
    BY <1>3, SendFrameEffect
  <2> HIDE DEF e
  <2> QED
    BY <1>1, <2>1, SidesAre
<1> HIDE DEF e
<1>6. Histories'
  BY <1>4 DEF Histories, RequestsNumbered, Taken, AnswersInTurn
<1>7. Way(Inflight[w], Coming[w], phase[w], phase[c], started[w], delivered[c])
  BY SidesAre DEF Streams, WayInv
<1>8. Way(Inflight[c], Coming[c], phase[c], phase[w], started[c], delivered[w])
  BY SidesAre DEF Streams, WayInv
<1>9. /\ Encoded(e) \in Seq(Byte) /\ Encoded(e) # <<>> /\ OneFrame(Encoded(e)) /\ Parts(Encoded(e))
      /\ Encoded(e)[1][1] = e /\ Encoded(e)[1][2] = 1
  BY <1>3, EncodedBytes, SizeIsPositive
<1>10. /\ Inflight[c] \in Seq(Byte) /\ Coming[c] = Inflight[c] \o unsent[c] /\ Coming[c] # <<>>
       /\ Inflight[c] = <<>> => Coming[c] = unsent[c]
       /\ Inflight[c] # <<>> => Coming[c][1] = Inflight[c][1]
  <2> HIDE DEF c
  <2>1. c \in Sides
    BY SidesAre DEF c
  <2>2. Inflight[c] \in Seq(Byte) /\ Coming[c] = Inflight[c] \o Outgoing[c]
    BY <2>1, StreamTypes
  <2>3. Outgoing[c] = unsent[c]
    BY <1>4, <2>1, StreamTypes
  <2>4. (Inflight[c] = <<>> => Coming[c] = Outgoing[c]) /\ (Inflight[c] # <<>> => Coming[c][1] = Inflight[c][1])
    BY <2>1, StreamTypes
  <2>5. Coming[c] # <<>>
    BY <1>2, <2>1, <2>3, StreamTypes
  <2> QED
    BY <2>2, <2>3, <2>4, <2>5
<1>11. Inflight[c] = <<>> => Coming'[c] = Encoded(e)
  BY <1>5, <1>9, ConcatEmptySeq
<1>12. ASSUME phase[w] # "ended", Inflight[c] # <<>>
       PROVE  ~Whole(Coming'[c]) /\ OneFrame(Coming'[c]) /\ Coming'[c][1] = Coming[c][1]
  <2>1. OneFrame(Inflight[c] \o unsent[c])
    BY <1>8, <1>10, <1>12 DEF Way
  <2>2. /\ ~Whole(Inflight[c] \o Encoded(e)) /\ OneFrame(Inflight[c] \o Encoded(e))
        /\ (Inflight[c] \o Encoded(e))[1] = Inflight[c][1]
    BY <1>2, <1>9, <1>10, <1>12, <2>1, SplicedIsNotWhole
  <2> QED
    BY <1>5, <1>10, <1>12, <2>2
<1>13. Coming'[c] # <<>>
  BY <1>5, <1>9, <1>10, JoinedBytes
<1>14. WayInv'
  <2>1. Way(Inflight'[c], Coming'[c], phase'[c], phase'[w], started'[c], delivered'[w])
    <3>1. CASE phase[w] = "ended"
      BY <1>5, <3>1 DEF Way
    <3>2. CASE phase[w] # "ended" /\ Inflight[c] = <<>>
      BY <1>4, <1>5, <1>8, <1>9, <1>10, <1>11, <3>2 DEF Way
    <3>3. CASE phase[w] # "ended" /\ Inflight[c] # <<>>
      BY <1>4, <1>5, <1>8, <1>10, <1>12, <3>3 DEF Way
    <3> QED BY <3>1, <3>2, <3>3
  <2>2. Way(Inflight'[w], Coming'[w], phase'[w], phase'[c], started'[w], delivered'[c])
    BY <1>4, <1>5, <1>7 DEF Way
  <2>3. ASSUME NEW s \in Sides
        PROVE  Way(Inflight'[s], Coming'[s], phase'[s], phase'[Other(s)], started'[s], delivered'[Other(s)])
    BY <2>1, <2>2, SidesAre
  <2> QED
    BY <2>3 DEF WayInv
<1>15. TurnInv'
  BY <1>4, <1>5, <1>10, <1>13 DEF Streams, TurnInv
<1>16. SendInv'
  <2>1. Kinds(c) = {"result", "error"}
    BY DEF Kinds
  <2>2. unsent[c][1][1].nr = Len(delivered[c])
    BY <1>4, SidesAre DEF Streams, SendInv
  <2>3. ASSUME NEW s \in Sides, phase'[s] = "sending"
        PROVE  /\ Parts(unsent'[s])
               /\ unsent'[s][1][1].kind \in Kinds(s)
               /\ s = "worker" /\ unsent'[s][1][2] = 1 => unsent'[s][1][1].nr = Len(started'[s]) + 1
               /\ s = "coordinator" => unsent'[s][1][1].nr = Len(delivered'[s])
    <3>1. CASE s = c
      BY <1>3, <1>4, <1>5, <1>9, <2>1, <2>2, <3>1
    <3>2. CASE s = w
      BY <1>4, <1>5, <2>3, <3>2 DEF Streams, SendInv
    <3> QED BY <3>1, <3>2, SidesAre
  <2> QED
    BY <2>3 DEF SendInv
<1>17. SpliceInv'
  BY <1>3, <1>4, <1>5, <1>9 DEF Streams, SpliceInv
<1>18. AnswerInv'
  <2>1. ASSUME phase[w] # "ended"
        PROVE  /\ Coming[c][1][1].nr = Len(delivered[w]) + 1
               /\ Coming[c][1][1].kind # "request"
    BY <1>10, <2>1 DEF Streams, AnswerInv
  <2>2. CASE Inflight[c] = <<>>
    BY <1>3, <1>4, <1>5, <1>9, <1>10, <1>11, <2>1, <2>2 DEF AnswerInv
  <2>3. CASE Inflight[c] # <<>>
    BY <1>4, <1>5, <1>12, <2>1, <2>3 DEF AnswerInv
  <2> QED BY <2>2, <2>3
<1>19. AskInv'
  BY <1>4, <1>5 DEF Streams, AskInv
<1> QED
  BY <1>6, <1>14, <1>15, <1>16, <1>17, <1>18, <1>19 DEF Streams

(* A side sends to one that is gone.                                       *)
LEMMA SendVanishesKeeps ==
  ASSUME FramingType, Streams, Histories, NEW side \in Sides, SendVanishes(side)
  PROVE  Streams' /\ Histories'
<1>1. /\ Inflight' = Inflight
      /\ Coming'[Other(side)] = Coming[Other(side)]
      /\ phase[side] = "sending" /\ phase'[side] = "receiving"
      /\ phase[Other(side)] = "ended" /\ phase'[Other(side)] = "ended"
      /\ UNCHANGED <<started, delivered>>
  BY SendVanishesEffect
<1>2. Histories'
  BY <1>1 DEF Histories, RequestsNumbered, Taken, AnswersInTurn
<1>3. WayInv'
  <2>1. Way(Inflight'[side], Coming'[side], phase'[side], phase'[Other(side)],
            started'[side], delivered'[Other(side)])
    BY <1>1 DEF Way
  <2>2. Way(Inflight[Other(side)], Coming[Other(side)], phase[Other(side)], phase[side],
            started[Other(side)], delivered[side])
    BY SidesAre DEF Streams, WayInv
  <2>3. Way(Inflight'[Other(side)], Coming'[Other(side)], phase'[Other(side)], phase'[side],
            started'[Other(side)], delivered'[side])
    BY <1>1, <2>2 DEF Way
  <2>4. ASSUME NEW s \in Sides
        PROVE  Way(Inflight'[s], Coming'[s], phase'[s], phase'[Other(s)], started'[s], delivered'[Other(s)])
    BY <2>1, <2>3, OneOfTwo, SidesAre
  <2> QED
    BY <2>4 DEF WayInv
<1>4. TurnInv'
  BY <1>1, SidesAre DEF TurnInv
<1>5. SendInv' /\ AskInv' /\ SpliceInv'
  <2>1. \A s \in Sides : phase'[s] # "sending"
    BY <1>1, OneOfTwo
  <2> QED
    BY <2>1, SidesAre DEF SendInv, AskInv, SpliceInv
<1>6. AnswerInv'
  <2>1. CASE side = "worker"
    BY <1>1, <2>1, SidesAre DEF Streams, AnswerInv
  <2>2. CASE side = "coordinator"
    BY <1>1, <2>2, SidesAre DEF AnswerInv
  <2> QED
    BY <2>1, <2>2, SidesAre
<1> QED
  BY <1>2, <1>3, <1>4, <1>5, <1>6 DEF Streams

LEMMA RestOfParts ==
  ASSUME NEW u \in Seq(Byte), NEW v \in Seq(Byte), Parts(u), NEW n \in 1..Len(u), v # <<>>,
         Len(v) = Len(u) - n, \A i \in 1..Len(v) : v[i] = u[n + i]
  PROVE  Parts(v) /\ v[1][1] = u[1][1] /\ v[1][2] # 1
<1>1. Len(u) \in Nat /\ Len(v) \in Nat \ {0}
  BY EmptySeq, LenProperties
<1>2. ASSUME NEW i \in 1..Len(v) PROVE v[i][1] = u[1][1] /\ v[i][2] # 1
  <2>1. n + i \in 2..Len(u) /\ n + i \in 1..Len(u)
    BY <1>1
  <2>2. v[i] = u[n + i]
    OBVIOUS
  <2> QED
    BY <2>1, <2>2 DEF Parts
<1> QED
  BY <1>1, <1>2 DEF Parts

(* One send of send_all.                                                   *)
LEMMA SendBytesKeeps ==
  ASSUME FramingType, FramingType', Streams, Histories, NEW side \in Sides, SendBytes(side)
  PROVE  Streams' /\ Histories'
<1> DEFINE r == Other(side)
           u == unsent[side]
<1>1. /\ Inflight'[side] # <<>>
      /\ Coming'[side] = Coming[side]
      /\ Inflight'[r] = Inflight[r] /\ Coming'[r] = Coming[r]
      /\ phase'[side] = "sending" => unsent'[side] # <<>> /\ phase[side] = "sending"
      /\ phase'[side] \in {"sending", "receiving"} /\ phase'[r] = phase[r]
      /\ unsent'[r] = unsent[r]
  BY SendBytesEffect
<1>2. phase[side] = "sending" /\ phase[r] # "ended" /\ delivered' = delivered
  BY DEF SendBytes
<1>3. /\ u \in Seq(Byte) /\ u # <<>> /\ u[1][1] \in Frame
      /\ Inflight[side] \in Seq(Byte) /\ Coming[side] = Inflight[side] \o u /\ Coming[side] # <<>>
      /\ Inflight[side] = <<>> => Coming[side] = u
  BY <1>2, SizeOfFirst, StreamTypes DEF FramingType
<1>4. /\ started'[side] = IF u[1][2] = 1 THEN Append(started[side], u[1][1]) ELSE started[side]
      /\ started'[r] = started[r]
  BY SidesAre DEF SendBytes, FramingType
<1>5. started[side] \in Seq(Frame) /\ Len(delivered[r]) \in Nat /\ r \in Sides /\ Other(r) = side /\ r # side
  BY SidesAre, LenProperties DEF FramingType
<1>6. /\ Len(started[side]) \in Nat
      /\ u[1][2] = 1 => /\ Len(started'[side]) = Len(started[side]) + 1
                        /\ \A i \in 1..Len(started[side]) : started'[side][i] = started[side][i]
                        /\ started'[side][Len(started[side]) + 1] = u[1][1]
      /\ u[1][2] # 1 => started'[side] = started[side]
  BY <1>3, <1>4, <1>5, AppendedFrame
<1>7. Way(Inflight[side], Coming[side], phase[side], phase[r], started[side], delivered[r])
  BY DEF Streams, WayInv
<1>8. Way(Inflight[r], Coming[r], phase[r], phase[side], started[r], delivered[side])
  BY <1>5 DEF Streams, WayInv
<1>9. OneFrame(Coming[side]) /\ phase[r] = "receiving"
  BY <1>2, <1>3, <1>7 DEF Way
<1>10. Inflight[side] = <<>> => u[1][2] = 1
  BY <1>3, <1>9 DEF OneFrame
<1>11. Inflight[side] # <<>> /\ u[1][2] = 1 => ~Whole(Coming[side])
  BY <1>3, <1>9, SplicedIsNotWhole
<1>12. Inflight[side] = <<>> => Len(started[side]) = Len(delivered[r])
  BY <1>2, <1>7 DEF Way
<1>13. Inflight[side] # <<>> => /\ Len(delivered[r]) < Len(started[side])
                                /\ started[side][Len(delivered[r]) + 1] = Coming[side][1][1]
                                /\ Whole(Coming[side]) => Len(started[side]) = Len(delivered[r]) + 1
  BY <1>2, <1>7 DEF Way
<1> HIDE DEF r, u
<1>14. Way(Inflight'[side], Coming'[side], phase'[side], phase'[r], started'[side], delivered'[r])
  <2>1. CASE Inflight[side] = <<>>
    <3>1. Len(started'[side]) = Len(delivered[r]) + 1 /\ started'[side][Len(delivered[r]) + 1] = u[1][1]
      BY <1>6, <1>10, <1>12, <2>1
    <3>2. Coming[side][1][1] = u[1][1]
      BY <1>3, <2>1
    <3> QED
      BY <1>1, <1>2, <1>5, <1>9, <3>1, <3>2 DEF Way
  <2>2. CASE Inflight[side] # <<>> /\ u[1][2] = 1
    <3>1. Len(started'[side]) = Len(started[side]) + 1
          /\ \A i \in 1..Len(started[side]) : started'[side][i] = started[side][i]
      BY <1>6, <2>2
    <3>2. Len(delivered[r]) + 1 \in 1..Len(started[side]) /\ Len(delivered[r]) < Len(started[side]) + 1
      BY <1>5, <1>6, <1>13, <2>2
    <3>3. started'[side][Len(delivered[r]) + 1] = Coming[side][1][1] /\ Len(delivered[r]) < Len(started'[side])
      BY <1>13, <2>2, <3>1, <3>2
    <3> QED
      BY <1>1, <1>2, <1>9, <1>11, <2>2, <3>3 DEF Way
  <2>3. CASE Inflight[side] # <<>> /\ u[1][2] # 1
    BY <1>1, <1>2, <1>6, <1>9, <1>13, <2>3 DEF Way
  <2> QED BY <2>1, <2>2, <2>3
<1>15. Way(Inflight'[r], Coming'[r], phase'[r], phase'[side], started'[r], delivered'[side])
  BY <1>1, <1>2, <1>4, <1>8 DEF Way
<1>16. WayInv'
  <2>1. ASSUME NEW s \in Sides
        PROVE  Way(Inflight'[s], Coming'[s], phase'[s], phase'[Other(s)], started'[s], delivered'[Other(s)])
    BY <1>5, <1>14, <1>15, OneOfTwo DEF r
  <2> QED
    BY <2>1 DEF WayInv
<1>17. TurnInv'
  <2>1. \A s \in Sides : Coming'[s] = Coming[s]
    BY <1>1, OneOfTwo DEF r
  <2>2. \A s \in Sides : phase'[s] = phase[s] \/ s = side
    BY <1>1, OneOfTwo DEF r
  <2>3. ASSUME NEW s \in Sides
        PROVE  /\ phase'[s] = "ended" <=> phase[s] = "ended"
               /\ phase'[s] = "idle" <=> phase[s] = "idle"
               /\ phase'[s] = "handling" <=> phase[s] = "handling"
    BY <1>1, <1>2, <2>2
  <2>4. /\ phase["worker"] # "ended" /\ phase["coordinator"] # "ended"
        /\ phase'["worker"] = "idle" <=> phase["worker"] = "idle"
        /\ phase'["coordinator"] = "handling" <=> phase["coordinator"] = "handling"
    BY <1>2, <2>3, OneOfTwo, SidesAre DEF r
  <2>5. Coming'["worker"] = Coming["worker"] /\ Coming'["coordinator"] = Coming["coordinator"]
    BY <2>1, SidesAre
  <2> QED
    BY <1>2, <2>4, <2>5 DEF Streams, TurnInv
<1>18. ASSUME phase'[side] = "sending"
       PROVE  Parts(unsent'[side]) /\ unsent'[side][1][1] = u[1][1] /\ unsent'[side][1][2] # 1
  <2>1. unsent'[side] # <<>> /\ unsent'[side] \in Seq(Byte)
    BY <1>1, <1>18 DEF FramingType
  <2>2. PICK n \in 1..Len(u) :
          /\ Len(unsent'[side]) = Len(u) - n
          /\ \A i \in 1..Len(unsent'[side]) : unsent'[side][i] = u[n + i]
    BY SendBytesEffect DEF u
  <2>3. Parts(u)
    BY <1>2 DEF Streams, SendInv, u
  <2> QED
    BY <1>3, <2>1, <2>2, <2>3, RestOfParts
<1>19. SendInv'
  <2>1. ASSUME NEW s \in Sides, phase'[s] = "sending"
        PROVE  /\ Parts(unsent'[s])
               /\ unsent'[s][1][1].kind \in Kinds(s)
               /\ s = "worker" /\ unsent'[s][1][2] = 1 => unsent'[s][1][1].nr = Len(started'[s]) + 1
               /\ s = "coordinator" => unsent'[s][1][1].nr = Len(delivered'[s])
    <3>1. CASE s = side
      BY <1>2, <1>18, <2>1, <3>1 DEF Streams, SendInv, u
    <3>2. CASE s = r
      BY <1>1, <1>2, <1>4, <1>5, <2>1, <3>2 DEF Streams, SendInv
    <3> QED BY <3>1, <3>2, OneOfTwo DEF r
  <2> QED
    BY <2>1 DEF SendInv
<1>20. SpliceInv'
  <2>1. CASE side = "worker"
    <3>1. r = "coordinator" /\ phase[r] = "receiving"
      BY <1>9, <2>1, SidesAre DEF r
    <3> QED
      BY <1>1, <3>1 DEF SpliceInv
  <2>2. CASE side = "coordinator"
    <3>1. r = "worker"
      BY <2>2, SidesAre DEF r
    <3>2. SUFFICES ASSUME phase'[side] = "sending"
                   PROVE  /\ unsent'[side][1][2] # 1
                          /\ unsent'[side][1][1].kind = "result" =>
                               /\ Len(started'[side]) = Len(delivered[r]) + 1
                               /\ started'[side][Len(started'[side])].kind = "result"
      BY <1>2, <2>2, <3>1 DEF SpliceInv
    <3>3. unsent'[side][1][1] = u[1][1] /\ unsent'[side][1][2] # 1
      BY <1>18, <3>2
    <3>4. ASSUME u[1][1].kind = "result"
          PROVE  Len(started'[side]) = Len(delivered[r]) + 1 /\ started'[side][Len(started'[side])].kind = "result"
      <4>1. CASE Inflight[side] = <<>>
        BY <1>5, <1>6, <1>10, <1>12, <3>4, <4>1
      <4>2. CASE Inflight[side] # <<>>
        BY <1>2, <1>6, <2>2, <3>1, <3>4, <4>2 DEF Streams, SpliceInv, u
      <4> QED BY <4>1, <4>2
    <3> QED
      BY <3>3, <3>4
  <2> QED BY <2>1, <2>2, SidesAre
<1>21. AskInv'
  <2>1. CASE side = "worker"
    BY <1>18, <2>1 DEF AskInv
  <2>2. CASE side = "coordinator"
    BY <1>1, <1>2, <2>2, SidesAre DEF Streams, AskInv, r
  <2> QED BY <2>1, <2>2, SidesAre
<1>22. AnswerInv'
  <2>1. \A s \in Sides : Coming'[s] = Coming[s] /\ (phase'[s] = "ended" <=> phase[s] = "ended")
    BY <1>1, <1>2, OneOfTwo DEF r
  <2> QED
    BY <1>2, <2>1, SidesAre DEF Streams, AnswerInv
<1>23. Histories'
  <2>1. RequestsNumbered'
    <3>1. CASE side = "worker"
      <4>1. u[1][2] = 1 => u[1][1].nr = Len(started[side]) + 1
        BY <1>2, <3>1 DEF Streams, SendInv, u
      <4>2. \A i \in 1..Len(started[side]) : started[side][i].nr = i
        BY <3>1 DEF Histories, RequestsNumbered
      <4>3. \A i \in 1..Len(started'[side]) : started'[side][i].nr = i
        BY <1>6, <4>1, <4>2
      <4> QED
        BY <3>1, <4>3 DEF RequestsNumbered
    <3>2. CASE side = "coordinator"
      BY <1>4, <3>2, SidesAre DEF Histories, RequestsNumbered, r
    <3> QED BY <3>1, <3>2, SidesAre
  <2>2. Taken'
    <3>1. Begins(delivered[r], started[side]) /\ Begins(delivered[side], started[r])
      BY <1>5 DEF Histories, Taken, r
    <3>2. Begins(delivered'[r], started'[side])
      BY <1>2, <1>5, <1>6, <3>1 DEF Begins
    <3>3. Begins(delivered'[side], started'[r])
      BY <1>2, <1>4, <3>1
    <3>4. ASSUME NEW s \in Sides PROVE Begins(delivered'[Other(s)], started'[s])
      BY <1>5, <3>2, <3>3, OneOfTwo DEF r
    <3> QED
      BY <3>4 DEF Taken
  <2>3. AnswersInTurn'
    BY <1>2 DEF Histories, AnswersInTurn
  <2> QED
    BY <2>1, <2>2, <2>3 DEF Histories
<1> QED
  BY <1>16, <1>17, <1>19, <1>20, <1>21, <1>22, <1>23 DEF Streams

LEMMA WholeIsAll ==
  ASSUME NEW x \in Seq(Byte), NEW y \in Seq(Byte), NEW z \in Seq(Byte),
         Whole(x), OneFrame((x \o y) \o z)
  PROVE  x = (x \o y) \o z /\ y = <<>> /\ z = <<>>
<1>1. /\ x \o y \in Seq(Byte) /\ Len(x \o y) = Len(x) + Len(y)
      /\ \A i \in 1..Len(x) : (x \o y)[i] = x[i]
      /\ Len(x) \in Nat /\ Len(y) \in Nat /\ Len(z) \in Nat
  BY ConcatProperties, LenProperties
<1>2. /\ (x \o y) \o z \in Seq(Byte) /\ Len((x \o y) \o z) = Len(x) + Len(y) + Len(z)
      /\ \A i \in 1..Len(x) : ((x \o y) \o z)[i] = x[i]
  BY <1>1, ConcatProperties
<1>3. Begins(x, (x \o y) \o z)
  BY <1>1, <1>2 DEF Begins
<1>4. x = (x \o y) \o z
  BY <1>2, <1>3, PrefixOfOneFrame
<1>5. Len(y) = 0 /\ Len(z) = 0
  BY <1>1, <1>2, <1>4
<1> QED
  BY <1>4, <1>5, EmptySeq

(* recv_frame returns a frame.                                             *)
Delivers(side) ==
  /\ delivered' = [delivered EXCEPT ![side] = Append(@, partly[side][1][1])]
  /\ phase' = [phase EXCEPT ![side] = IF side = "worker" THEN "idle" ELSE "handling"]
  /\ partly' = [partly EXCEPT ![side] = <<>>]
  /\ announced' = [announced EXCEPT ![side] = NoLength]
  /\ UNCHANGED <<unsent, wire, started>>

LEMMA DeliverEffect ==
  ASSUME FramingType, Streams, NEW side \in Sides, phase[side] = "receiving",
         partly[side] # <<>>, Decodes(partly[side]), Delivers(side)
  PROVE  /\ Inflight[Other(side)] # <<>> /\ Coming[Other(side)] = partly[side] /\ Whole(Coming[Other(side)])
         /\ Inflight'[Other(side)] = <<>> /\ Coming'[Other(side)] = <<>>
         /\ phase[Other(side)] # "sending"
         /\ Inflight'[side] = Inflight[side] /\ Coming'[side] = Coming[side]
<1> DEFINE s == Other(side)
<1>1. /\ s \in Sides /\ Other(s) = side /\ s # side
      /\ partly[side] \in Seq(Byte) /\ wire[s] \in Seq(Byte) /\ Outgoing[s] \in Seq(Byte)
  BY SidesAre, StreamTypes DEF FramingType
<1>2. Whole(partly[side])
  <2>1. partly[side][1][1] \in Frame /\ partly[side] = Encoded(partly[side][1][1])
    BY <1>1, SizeOfFirst DEF Decodes
  <2> QED
    BY <2>1, EncodedBytes
<1>3. /\ Inflight[s] = partly[side] \o wire[s]
      /\ Coming[s] = (partly[side] \o wire[s]) \o Outgoing[s]
  BY <1>1 DEF Inflight, Coming
<1>4. OneFrame(Coming[s])
  <2>1. Way(Inflight[s], Coming[s], phase[s], phase[side], started[s], delivered[side])
    BY <1>1 DEF Streams, WayInv
  <2> QED
    BY <2>1 DEF Way
<1>5. Coming[s] = partly[side] /\ wire[s] = <<>> /\ Outgoing[s] = <<>>
  <2> HIDE DEF s
  <2>1. OneFrame((partly[side] \o wire[s]) \o Outgoing[s])
    BY <1>3, <1>4
  <2>2. /\ partly[side] = (partly[side] \o wire[s]) \o Outgoing[s]
        /\ wire[s] = <<>> /\ Outgoing[s] = <<>>
    BY <1>1, <1>2, <2>1, WholeIsAll
  <2> QED
    BY <1>3, <2>2
<1>6. Inflight[s] # <<>>
  BY <1>1, <1>3, JoinedBytes
<1>7. phase[s] # "sending"
  BY <1>1, <1>5, StreamTypes
<1>8. /\ partly'[side] = <<>> /\ partly'[s] = partly[s] /\ wire' = wire /\ unsent' = unsent
      /\ phase'[s] = phase[s] /\ phase'[side] # "sending"
  BY <1>1 DEF Delivers, FramingType
<1>9. Inflight'[s] = <<>>
  <2>1. Inflight'[s] = partly'[side] \o wire'[s]
    BY <1>1 DEF Inflight
  <2>2. Inflight'[s] = <<>> \o <<>>
    BY <1>5, <1>8, <2>1
  <2> QED
    BY <2>2, <1>1, <1>5, ConcatEmptySeq
<1>10. Coming'[s] = <<>>
  <2>1. Coming'[s] = Inflight'[s] \o <<>>
    BY <1>1, <1>7, <1>8 DEF Coming, Outgoing
  <2> QED
    BY <2>1, <1>1, <1>5, <1>9, ConcatEmptySeq
<1>11. Inflight'[side] = Inflight[side]
  BY <1>1, <1>8 DEF Inflight
<1>12. Coming'[side] = Coming[side]
  BY <1>8, <1>11 DEF Coming, Outgoing
<1> QED
  BY <1>2, <1>5, <1>6, <1>7, <1>9, <1>10, <1>11, <1>12

LEMMA DeliverKeeps ==
  ASSUME FramingType, Streams, Histories, NEW side \in Sides, phase[side] = "receiving",
         partly[side] # <<>>, Decodes(partly[side]), Delivers(side)
  PROVE  Streams' /\ Histories'
<1> DEFINE p == Other(side)
           f == partly[side][1][1]
<1>1. /\ Inflight[p] # <<>> /\ Coming[p] = partly[side] /\ Whole(Coming[p])
      /\ Inflight'[p] = <<>> /\ Coming'[p] = <<>>
      /\ phase[p] # "sending"
      /\ Inflight'[side] = Inflight[side] /\ Coming'[side] = Coming[side]
  BY DeliverEffect
<1>2. /\ p \in Sides /\ Other(p) = side /\ p # side
      /\ \A x \in Sides : x = side \/ x = p
  BY OneOfTwo, SidesAre
<1>3. /\ f \in Frame /\ delivered[side] \in Seq(Frame) /\ started[p] \in Seq(Frame)
      /\ Len(delivered[side]) \in Nat /\ Len(started[p]) \in Nat /\ Len(delivered[p]) \in Nat
  BY <1>2, SizeOfFirst, LenProperties DEF FramingType
<1>4. /\ delivered'[side] = Append(delivered[side], f) /\ delivered'[p] = delivered[p]
      /\ phase'[side] = (IF side = "worker" THEN "idle" ELSE "handling") /\ phase'[p] = phase[p]
      /\ started' = started /\ unsent' = unsent
  BY <1>2 DEF Delivers, FramingType
<1>5. /\ Len(delivered'[side]) = Len(delivered[side]) + 1
      /\ \A i \in 1..Len(delivered[side]) : delivered'[side][i] = delivered[side][i]
      /\ delivered'[side][Len(delivered[side]) + 1] = f
  BY <1>3, <1>4, AppendedFrame
<1>6. Way(Inflight[p], Coming[p], phase[p], phase[side], started[p], delivered[side])
  BY <1>2 DEF Streams, WayInv
<1>7. Way(Inflight[side], Coming[side], phase[side], phase[p], started[side], delivered[p])
  BY DEF Streams, WayInv
<1>8. Len(started[p]) = Len(delivered[side]) + 1 /\ started[p][Len(delivered[side]) + 1] = f
  BY <1>1, <1>6 DEF Way
<1> HIDE DEF p, f
<1>9. WayInv'
  <2>1. Way(Inflight'[p], Coming'[p], phase'[p], phase'[side], started'[p], delivered'[side])
    BY <1>1, <1>4, <1>5, <1>8, NothingIsWhole DEF Way
  <2>2. Way(Inflight'[side], Coming'[side], phase'[side], phase'[p], started'[side], delivered'[p])
    BY <1>1, <1>4, <1>7 DEF Way
  <2>3. ASSUME NEW x \in Sides
        PROVE  Way(Inflight'[x], Coming'[x], phase'[x], phase'[Other(x)], started'[x], delivered'[Other(x)])
    BY <1>2, <2>1, <2>2, OneOfTwo DEF p
  <2> QED
    BY <2>3 DEF WayInv
<1>10. Coming[p] # <<>>
  BY <1>1 DEF Whole
<1>11. TurnInv'
  <2>1. CASE side = "worker"
    <3>1. p = "coordinator"
      BY <2>1, SidesAre DEF p
    <3>2. SUFFICES ASSUME phase["coordinator"] # "ended"
                   PROVE  TurnInv'
      BY <1>4, <3>1 DEF TurnInv
    <3>3. /\ Coming["worker"] = <<>> /\ phase["coordinator"] # "handling"
          /\ Len(delivered["coordinator"]) = Len(delivered["worker"]) + 1
      BY <1>10, <2>1, <3>1, <3>2 DEF Streams, TurnInv
    <3>4. /\ Coming'["worker"] = <<>> /\ Coming'["coordinator"] = <<>> /\ phase'["coordinator"] # "handling"
          /\ Len(delivered'["coordinator"]) = Len(delivered'["worker"]) + 0
      BY <1>1, <1>3, <1>4, <1>5, <2>1, <3>1, <3>3
    <3> QED
      BY <3>4 DEF TurnInv
  <2>2. CASE side = "coordinator"
    <3>1. p = "worker"
      BY <2>2, SidesAre DEF p
    <3>2. SUFFICES ASSUME phase["worker"] # "ended"
                   PROVE  TurnInv'
      BY <1>4, <3>1 DEF TurnInv
    <3>3. /\ Coming["coordinator"] = <<>> /\ phase["worker"] # "idle"
          /\ Len(delivered["coordinator"]) = Len(delivered["worker"]) + 0
      BY <1>10, <2>2, <3>1, <3>2 DEF Streams, TurnInv
    <3>4. /\ Coming'["worker"] = <<>> /\ Coming'["coordinator"] = <<>>
          /\ phase'["coordinator"] = "handling" /\ phase'["worker"] # "idle"
          /\ Len(delivered'["coordinator"]) = Len(delivered'["worker"]) + 1
      BY <1>1, <1>3, <1>4, <1>5, <2>2, <3>1, <3>3
    <3> QED
      BY <3>4 DEF TurnInv
  <2> QED BY <2>1, <2>2, SidesAre
<1>12. SendInv' /\ AskInv' /\ SpliceInv'
  <2>1. \A x \in Sides : phase'[x] # "sending"
    BY <1>1, <1>2, <1>4
  <2> QED
    BY <2>1, SidesAre DEF SendInv, AskInv, SpliceInv
<1>13. AnswerInv'
  <2>1. CASE side = "worker"
    <3>1. Coming'["coordinator"] = <<>>
      BY <1>1, <2>1, SidesAre DEF p
    <3> QED
      BY <3>1 DEF AnswerInv
  <2>2. CASE side = "coordinator"
    <3>1. p = "worker" /\ Coming'["coordinator"] = Coming["coordinator"]
      BY <1>1, <2>2, SidesAre DEF p
    <3>2. phase'["worker"] = phase["worker"] /\ delivered'["worker"] = delivered["worker"]
      BY <1>4, <3>1
    <3> QED
      BY <3>1, <3>2 DEF Streams, AnswerInv
  <2> QED BY <2>1, <2>2, SidesAre
<1>14. Histories'
  <2>1. RequestsNumbered'
    BY <1>4 DEF Histories, RequestsNumbered
  <2>2. Taken'
    <3>1. Begins(delivered[side], started[p]) /\ Begins(delivered[p], started[side])
      BY <1>2 DEF Histories, Taken, p
    <3>2. Begins(delivered'[side], started'[p])
      BY <1>3, <1>4, <1>5, <1>8, <3>1 DEF Begins
    <3>3. Begins(delivered'[p], started'[side])
      BY <1>4, <3>1
    <3>4. ASSUME NEW x \in Sides PROVE Begins(delivered'[Other(x)], started'[x])
      BY <1>2, <3>2, <3>3, OneOfTwo DEF p
    <3> QED
      BY <3>4 DEF Taken
  <2>3. AnswersInTurn'
    <3>1. CASE side = "worker"
      <4>1. p = "coordinator"
        BY <3>1, SidesAre DEF p
      <4>2. f.nr = Len(delivered[side]) + 1 /\ f.kind # "request"
        BY <1>1, <1>10, <3>1, <4>1 DEF Streams, AnswerInv, f
      <4>3. \A k \in 1..Len(delivered[side]) :
              delivered[side][k].nr = k /\ delivered[side][k].kind # "request"
        BY <3>1 DEF Histories, AnswersInTurn
      <4>4. ASSUME NEW k \in 1..Len(delivered'[side])
            PROVE  delivered'[side][k].nr = k /\ delivered'[side][k].kind # "request"
        <5>1. CASE k \in 1..Len(delivered[side])
          BY <1>5, <4>3, <5>1
        <5>2. CASE k = Len(delivered[side]) + 1
          BY <1>5, <4>2, <5>2
        <5> QED
          BY <1>3, <1>5, <5>1, <5>2
      <4> QED
        BY <3>1, <4>4 DEF AnswersInTurn
    <3>2. CASE side = "coordinator"
      BY <1>4, <3>2, SidesAre DEF Histories, AnswersInTurn, p
    <3> QED BY <3>1, <3>2, SidesAre
  <2> QED
    BY <2>1, <2>2, <2>3 DEF Histories
<1> QED
  BY <1>9, <1>11, <1>12, <1>13, <1>14 DEF Streams

-----------------------------------------------------------------------------
(* The steps put together.                                                 *)

LEMMA FramingInitInv == FramingInit => FramingInv
<1> SUFFICES ASSUME FramingInit PROVE FramingInv
  OBVIOUS
<1>1. FramingType
  BY FramingInitType
<1>2. Len(<<>>) = 0 /\ <<>> \o <<>> = <<>>
  <2>1. <<>> \in Seq(Byte)
    BY EmptySeq
  <2> QED
    BY <2>1, EmptySeq, ConcatEmptySeq
<1>3. \A s \in Sides : /\ partly[s] = <<>> /\ wire[s] = <<>> /\ started[s] = <<>> /\ delivered[s] = <<>>
                      /\ announced[s] = NoLength /\ phase[s] = (IF s = "worker" THEN "idle" ELSE "receiving")
  BY DEF FramingInit
<1>4. ASSUME NEW s \in Sides
      PROVE  Inflight[s] = <<>> /\ Coming[s] = <<>>
  <2>1. Inflight[s] = <<>> \o <<>> /\ Outgoing[s] = <<>>
    BY <1>3, SidesAre DEF Inflight, Outgoing
  <2>2. Coming[s] = Inflight[s] \o Outgoing[s]
    BY DEF Coming
  <2> QED
    BY <1>2, <2>1, <2>2
<1>5. WayInv
  <2>1. ASSUME NEW s \in Sides
        PROVE  Way(Inflight[s], Coming[s], phase[s], phase[Other(s)], started[s], delivered[Other(s)])
    BY <1>3, <1>4, SidesAre, NothingIsWhole DEF Way
  <2> QED
    BY <2>1 DEF WayInv
<1>6. TurnInv
  <2>1. /\ Coming["worker"] = <<>> /\ Coming["coordinator"] = <<>> /\ phase["coordinator"] = "receiving"
        /\ Len(delivered["worker"]) = 0 /\ Len(delivered["coordinator"]) = 0
    BY <1>2, <1>3, <1>4, SidesAre
  <2> QED
    BY <2>1 DEF TurnInv
<1>9. SendInv /\ AskInv /\ SpliceInv /\ AnswerInv
  <2>1. Coming["coordinator"] = <<>> /\ \A s \in Sides : phase[s] # "sending"
    BY <1>3, <1>4, SidesAre
  <2> QED
    BY <2>1, SidesAre DEF SendInv, AskInv, SpliceInv, AnswerInv
<1>7. Histories
  BY <1>2, <1>3, SidesAre DEF Histories, RequestsNumbered, Taken, AnswersInTurn, Begins
<1>8. ReadInv
  BY <1>2, <1>3, FramingAssumption DEF ReadInv, NoLength
<1> QED
  BY <1>1, <1>5, <1>6, <1>7, <1>8, <1>9 DEF FramingInv, Streams

(* No header and no portion makes a side hold more than the limit.         *)
LEMMA ReadStep == FramingType /\ ReadInv /\ [FramingNext]_framingVars => ReadInv'
<1> SUFFICES ASSUME FramingType, ReadInv, [FramingNext]_framingVars PROVE ReadInv'
  OBVIOUS
<1>1. ASSUME UNCHANGED <<partly, announced>> PROVE ReadInv'
  BY <1>1 DEF ReadInv
<1>2. CASE UNCHANGED framingVars
  BY <1>1, <1>2 DEF framingVars, streamVars
<1>3. CASE Ask \/ Answer
  BY <1>1, <1>3 DEF Ask, Answer, SendFrame
<1>4. ASSUME NEW side \in Sides, SendBytes(side) \/ SendVanishes(side) \/ SendFails(side) PROVE ReadInv'
  BY <1>1, <1>4 DEF SendBytes, SendVanishes, SendFails, SendFrame, End
<1>5. ASSUME NEW side \in Sides, RecvEnds(side) \/ Die(side) PROVE ReadInv'
  BY <1>1, <1>5 DEF RecvEnds, Die, End
<1>6. ASSUME NEW side \in Sides, RecvBytes(side) PROVE ReadInv'
  <2>1. /\ Len(partly'[side]) <= Len(partly[side]) + Wanted(side)
        /\ partly'[Other(side)] = partly[Other(side)] /\ announced' = announced
    BY <1>6, RecvBytesEffect DEF RecvBytes
  <2>2. Len(partly'[side]) \in Nat /\ Len(partly[side]) \in Nat /\ announced[side] \in Nat \cup {-1}
    <3>1. FramingType'
      BY FramingTypeStep
    <3> QED
      BY <3>1, LenProperties DEF FramingType, NoLength
  <2>3. /\ announced'[side] <= FrameLimit
        /\ Len(partly'[side]) <= HeaderBytes + (IF announced'[side] = NoLength THEN 0 ELSE announced'[side])
    BY <2>1, <2>2, FramingAssumption DEF Wanted, ReadInv, NoLength
  <2>4. ASSUME NEW s \in Sides
        PROVE  /\ announced'[s] <= FrameLimit
               /\ Len(partly'[s]) <= HeaderBytes + (IF announced'[s] = NoLength THEN 0 ELSE announced'[s])
    <3>1. CASE s = side
      BY <2>3, <3>1
    <3>2. CASE s = Other(side)
      BY <2>1, <3>2 DEF ReadInv
    <3> QED BY <3>1, <3>2, OneOfTwo
  <2> QED
    BY <2>4 DEF ReadInv
<1>7. ASSUME NEW side \in Sides, ReadHeader(side) PROVE ReadInv'
  <2>1. PICK len \in HeaderLengths(partly[side]) :
          \/ /\ len <= FrameLimit
             /\ announced' = [announced EXCEPT ![side] = len]
             /\ UNCHANGED <<phase, unsent, wire, partly>>
          \/ End(side)
    BY <1>7 DEF ReadHeader
  <2>2. CASE End(side)
    BY <1>1, <2>2 DEF End
  <2>3. CASE len <= FrameLimit /\ announced' = [announced EXCEPT ![side] = len] /\ UNCHANGED partly
    <3>1. announced'[side] \in Nat \cup {-1} /\ Len(partly[side]) \in Nat
      <4>1. FramingType'
        BY FramingTypeStep
      <4> QED
        BY <4>1, LenProperties DEF FramingType, NoLength
    <3>2. announced'[side] = len /\ \A s \in Sides : s # side => announced'[s] = announced[s]
      BY <2>3 DEF FramingType
    <3>3. Len(partly[side]) <= HeaderBytes
      <4>1. announced[side] = NoLength
        BY <1>7 DEF ReadHeader
      <4>2. Len(partly[side]) <= HeaderBytes + 0
        BY <4>1 DEF ReadInv
      <4> QED
        BY <4>2, FramingAssumption
    <3>4. ASSUME NEW s \in Sides
          PROVE  /\ announced'[s] <= FrameLimit
                 /\ Len(partly'[s]) <= HeaderBytes + (IF announced'[s] = NoLength THEN 0 ELSE announced'[s])
      <4>1. CASE s = side
        BY <2>3, <3>1, <3>2, <3>3, <4>1, FramingAssumption DEF NoLength
      <4>2. CASE s # side
        BY <2>3, <3>2, <4>2 DEF ReadInv
      <4> QED BY <4>1, <4>2
    <3> QED
      BY <3>4 DEF ReadInv
  <2> QED
    BY <2>1, <2>2, <2>3
<1>8. ASSUME NEW side \in Sides, Deliver(side) PROVE ReadInv'
  <2>1. CASE End(side)
    BY <1>1, <2>1 DEF End
  <2>2. CASE partly' = [partly EXCEPT ![side] = <<>>] /\ announced' = [announced EXCEPT ![side] = NoLength]
    <3>1. Len(<<>>) = 0 /\ -1 <= FrameLimit /\ 0 <= HeaderBytes
      BY EmptySeq, FramingAssumption
    <3>2. ASSUME NEW s \in Sides
          PROVE  /\ announced'[s] <= FrameLimit
                 /\ Len(partly'[s]) <= HeaderBytes + (IF announced'[s] = NoLength THEN 0 ELSE announced'[s])
      <4>1. CASE s = side
        <5>1. partly'[s] = <<>> /\ announced'[s] = NoLength
          BY <2>2, <4>1 DEF FramingType
        <5> QED
          BY <3>1, <5>1, FramingAssumption DEF NoLength
      <4>2. CASE s # side
        <5>1. partly'[s] = partly[s] /\ announced'[s] = announced[s]
          BY <2>2, <4>2 DEF FramingType
        <5> QED
          BY <5>1 DEF ReadInv
      <4> QED BY <4>1, <4>2
    <3> QED
      BY <3>2 DEF ReadInv
  <2> QED
    BY <1>8, <2>1, <2>2 DEF Deliver
<1> QED
  BY <1>2, <1>3, <1>4, <1>5, <1>6, <1>7, <1>8 DEF FramingNext, Step

LEMMA StreamStep ==
  FramingType /\ Streams /\ Histories /\ [FramingNext]_framingVars => Streams' /\ Histories'
<1> SUFFICES ASSUME FramingType, Streams, Histories, [FramingNext]_framingVars
             PROVE  Streams' /\ Histories'
  OBVIOUS
<1>1. CASE UNCHANGED framingVars
  <2>1. Inflight' = Inflight /\ Coming' = Coming /\ UNCHANGED <<phase, unsent, started, delivered>>
    BY <1>1 DEF framingVars, streamVars, Inflight, Outgoing, Coming
  <2> QED
    BY <2>1, SilentKeeps
<1>2. CASE Ask \/ Answer
  BY <1>2, AskKeeps, AnswerKeeps
<1>3. ASSUME NEW side \in Sides, SendBytes(side) PROVE Streams' /\ Histories'
  BY <1>3, FramingTypeStep, SendBytesKeeps
<1>4. ASSUME NEW side \in Sides, SendVanishes(side) PROVE Streams' /\ Histories'
  BY <1>4, SendVanishesKeeps
<1>5. ASSUME NEW side \in Sides, SendFails(side) PROVE Streams' /\ Histories'
  <2>1. CASE \E len \in Lengths :
               /\ unsent[side][1][1].kind = "result"
               /\ SendFrame(side, [unsent[side][1][1] EXCEPT !.kind = "error", !.len = len])
    BY <1>5, <2>1, ErrorKeeps DEF SendFails
  <2>2. CASE End(side) /\ UNCHANGED <<started, delivered>>
    BY <2>2, EndKeeps
  <2> QED
    BY <1>5, <2>1, <2>2 DEF SendFails
<1>6. ASSUME NEW side \in Sides, RecvEnds(side) \/ Die(side) PROVE Streams' /\ Histories'
  BY <1>6, EndKeeps DEF RecvEnds, Die
<1>7. ASSUME NEW side \in Sides, RecvBytes(side) PROVE Streams' /\ Histories'
  BY <1>7, RecvBytesEffect, SilentKeeps
<1>8. ASSUME NEW side \in Sides, ReadHeader(side) PROVE Streams' /\ Histories'
  <2>1. UNCHANGED <<started, delivered>>
    BY <1>8 DEF ReadHeader
  <2>2. CASE End(side)
    BY <2>1, <2>2, EndKeeps
  <2>3. CASE UNCHANGED <<phase, unsent, wire, partly>>
    <3>1. Inflight' = Inflight /\ Coming' = Coming
      BY <2>3 DEF Inflight, Outgoing, Coming
    <3> QED
      BY <2>1, <2>3, <3>1, SilentKeeps
  <2> QED
    BY <1>8, <2>2, <2>3 DEF ReadHeader
<1>9. ASSUME NEW side \in Sides, Deliver(side) PROVE Streams' /\ Histories'
  <2>1. UNCHANGED started /\ phase[side] = "receiving"
    BY <1>9 DEF Deliver
  <2>2. CASE Decodes(partly[side])
    <3>1. partly[side] # <<>>
      BY <1>9, SomethingIsRead
    <3>2. Delivers(side)
      BY <1>9, <2>2 DEF Deliver, Delivers
    <3> QED
      BY <2>1, <2>2, <3>1, <3>2, DeliverKeeps
  <2>3. CASE End(side) /\ UNCHANGED delivered
    BY <2>1, <2>3, EndKeeps
  <2> QED
    BY <1>9, <2>2, <2>3 DEF Deliver
<1> QED
  BY <1>1, <1>2, <1>3, <1>4, <1>5, <1>6, <1>7, <1>8, <1>9 DEF FramingNext, Step

(* What the invariant says of types, reads, streams and histories holds    *)
(* whatever portions, failures and deaths there are.                       *)
THEOREM FramingInductive == FramingSpec => []FramingInv
<1>1. FramingInit => FramingInv
  BY FramingInitInv
<1>2. FramingInv /\ [FramingNext]_framingVars => FramingInv'
  BY FramingTypeStep, ReadStep, StreamStep DEF FramingInv
<1> QED
  BY <1>1, <1>2, PTL DEF FramingSpec

LEMMA BeginsIsPrefix ==
  ASSUME NEW a \in Seq(Frame), NEW b \in Seq(Frame), Begins(a, b)
  PROVE  IsPrefix(a, b)
<1>1. Len(a) \in Nat /\ Len(b) \in Nat /\ Len(a) <= Len(b)
  BY LenProperties DEF Begins
<1>2. SubSeq(b, 1, Len(a)) \in Seq(Frame) /\ Len(SubSeq(b, 1, Len(a))) = Len(a)
      /\ \A i \in 1..Len(a) : SubSeq(b, 1, Len(a))[i] = b[i]
  <2>1. \A i \in 1..Len(a) : b[i] \in Frame
    BY <1>1, ElementOfSeq
  <2> QED
    BY <1>1, <2>1, SubSeqProperties
<1>3. SubSeq(b, 1, Len(a)) = a
  BY <1>2, SeqEqual DEF Begins
<1> QED
  BY <1>1, <1>3, SubSeqFull DEF IsPrefix

(* What recv_frame returns to one side is what the other began to send,    *)
(* frame for frame, also after a splice.                                   *)
THEOREM FramesArriveAsSent == FramingSpec => []DeliveredIsSent
<1>1. FramingInv => DeliveredIsSent
  <2> SUFFICES ASSUME FramingInv, NEW side \in Sides
               PROVE  IsPrefix(delivered[Other(side)], started[side])
    BY DEF DeliveredIsSent
  <2> QED
    BY BeginsIsPrefix, SidesAre DEF FramingInv, FramingType, Histories, Taken
<1> QED
  BY <1>1, FramingInductive, PTL

(* The k-th answer that the worker takes is one to its k-th request.       *)
THEOREM AnswersComeInTurn == FramingSpec => []AnswersInTurn
<1>1. FramingInv => AnswersInTurn
  BY DEF FramingInv, Histories
<1> QED
  BY <1>1, FramingInductive, PTL

(* Whatever a header says, no side reads or allocates beyond the limit.    *)
THEOREM ReadsStayBounded == FramingSpec => []ReadsAreBounded
<1>1. FramingInv => ReadsAreBounded
  <2> SUFFICES ASSUME FramingInv, NEW side \in Sides
               PROVE  Len(partly[side]) <= HeaderBytes + FrameLimit /\ announced[side] <= FrameLimit
    BY DEF ReadsAreBounded
  <2>1. announced[side] \in Nat \cup {-1} /\ Len(partly[side]) \in Nat
    BY LenProperties DEF FramingInv, FramingType, NoLength
  <2> QED
    BY <2>1, FramingAssumption DEF FramingInv, ReadInv, NoLength
<1> QED
  BY <1>1, FramingInductive, PTL

-----------------------------------------------------------------------------
(* Framing implements Exchange: the byte with which a frame begins is Ask, *)
(* Answer or AnswerTwice, recv_frame is Take, and the rest stutters.       *)

Over == {side \in Sides : phase[side] = "ended"}

LEMMA PeerIsOther == Link!Parties = Sides /\ \A side \in Sides : Link!Peer(side) = Other(side)
BY DEF Link!Parties, Link!Peer, Sides, Other

LEMMA BeginStep ==
  ASSUME FramingInv, NEW side \in Sides, SendBytes(side), unsent[side][1][2] = 1
  PROVE  Link!Ask \/ Link!Answer \/ Link!AnswerTwice
<1> DEFINE w == "worker"
           c == "coordinator"
           f == unsent[side][1][1]
<1>1. phase[side] = "sending" /\ phase[Other(side)] # "ended" /\ delivered' = delivered
  BY DEF SendBytes
<1>2. unsent[side] \in Seq(Byte) /\ unsent[side] # <<>> /\ f \in Frame
  BY <1>1, SizeOfFirst DEF FramingInv, FramingType
<1>3. f.len \in Lengths /\ f = [kind |-> f.kind, nr |-> f.nr, len |-> f.len]
  BY <1>2 DEF Frame
<1>4. started' = [started EXCEPT ![side] = Append(@, [kind |-> f.kind, nr |-> f.nr, len |-> f.len])]
  BY <1>3 DEF SendBytes
<1>5. phase[w] # "ended" /\ phase[c] # "ended"
  BY <1>1, SidesAre
<1>6. phase'[w] # "ended" /\ phase'[c] # "ended"
  <2>1. phase'[side] \in {"sending", "receiving"} /\ phase'[Other(side)] = phase[Other(side)]
    BY SendBytesEffect DEF FramingInv
  <2> QED
    BY <1>1, <2>1, SidesAre
<1>7. Over = {} /\ Over' = {}
  BY <1>5, <1>6 DEF Over, Sides
<1>8. Link!Begin(side, f.kind, f.nr)
  BY <1>1, <1>3, <1>4, <1>7 DEF Link!Begin, Link!Standing, Over
<1>9. Coming[side] # <<>>
  BY <1>1, <1>2, StreamTypes DEF FramingInv
<1>10. /\ Len(started[w]) \in Nat /\ Len(started[c]) \in Nat
       /\ Len(delivered[w]) \in Nat /\ Len(delivered[c]) \in Nat
  BY SidesAre, LenProperties DEF FramingInv, FramingType
<1>11. Way(Inflight[side], Coming[side], phase[side], phase[Other(side)], started[side], delivered[Other(side)])
  BY DEF FramingInv, Streams, WayInv
<1>12. Inflight[side] = <<>> => Len(started[side]) = Len(delivered[Other(side)])
  BY <1>1, <1>11 DEF Way
<1>13. phase[Other(side)] = "receiving"
  BY <1>1, <1>9, <1>11 DEF Way
<1> HIDE DEF f
<1>14. CASE side = w
  <2>1. f.kind = "request" /\ f.nr = Len(started[w]) + 1
    BY <1>1, <1>14 DEF FramingInv, Streams, SendInv, Kinds, f
  <2>2. Inflight[w] = <<>>
    BY <1>1, <1>5, <1>14 DEF FramingInv, Streams, AskInv
  <2>3. Len(started[w]) = Len(delivered[c])
    BY <1>12, <1>14, <2>2, SidesAre
  <2>4. Coming[c] = <<>> /\ phase[c] # "handling"
    BY <1>5, <1>9, <1>13, <1>14, SidesAre DEF FramingInv, Streams, TurnInv
  <2>5. Len(delivered[c]) = Len(delivered[w]) + 0
    BY <1>5, <2>4 DEF FramingInv, Streams, TurnInv
  <2>6. Len(delivered[w]) = Len(started[w])
    BY <1>10, <2>3, <2>5
  <2> QED
    BY <1>8, <1>14, <2>1, <2>3, <2>6 DEF Link!Ask
<1>15. CASE side = c
  <2>1. f.kind \in {"result", "error"} /\ f.nr = Len(delivered[c])
    BY <1>1, <1>15 DEF FramingInv, Streams, SendInv, Kinds, f
  <2>2. Len(delivered[c]) = Len(delivered[w]) + 1
    BY <1>5, <1>9, <1>15 DEF FramingInv, Streams, TurnInv
  <2>3. CASE Inflight[c] = <<>>
    <3>1. Len(started[c]) = Len(delivered[w])
      BY <1>12, <1>15, <2>3, SidesAre
    <3> QED
      BY <1>8, <1>15, <2>1, <2>2, <3>1 DEF Link!Answer
  <2>4. CASE Inflight[c] # <<>>
    <3>1. /\ Len(started[c]) = Len(delivered[w]) + 1 /\ started[c][Len(started[c])].kind = "result"
          /\ f.kind # "result"
      BY <1>1, <1>5, <1>15, <2>4 DEF FramingInv, Streams, SpliceInv, f
    <3>2. Link!Begin(c, "error", Len(delivered[c]))
      BY <1>8, <1>15, <2>1, <3>1
    <3> QED
      BY <2>2, <3>1, <3>2 DEF Link!AnswerTwice
  <2> QED BY <2>3, <2>4
<1> QED BY <1>14, <1>15, SidesAre

LEMMA TakeStep ==
  ASSUME FramingInv, NEW side \in Sides, phase[side] = "receiving",
         partly[side] # <<>>, Decodes(partly[side]), Delivers(side)
  PROVE  Link!Take(side)
<1> DEFINE p == Other(side)
<1>1. Inflight[p] # <<>> /\ Coming[p] = partly[side] /\ Whole(Coming[p])
  BY DeliverEffect DEF FramingInv
<1>2. Way(Inflight[p], Coming[p], phase[p], phase[side], started[p], delivered[side])
  BY SidesAre DEF FramingInv, Streams, WayInv
<1>3. Len(started[p]) = Len(delivered[side]) + 1 /\ started[p][Len(delivered[side]) + 1] = partly[side][1][1]
  BY <1>1, <1>2 DEF Way
<1>4. delivered' = [delivered EXCEPT ![side] = Append(@, started[p][Len(delivered[side]) + 1])]
  BY <1>3 DEF Delivers
<1>5. side \notin Over /\ Over' = Over
  BY DEF Over, Delivers, FramingInv, FramingType
<1>6. started' = started
  BY DEF Delivers
<1>7. Link!Peer(side) = p
  BY PeerIsOther
<1> QED
  BY <1>3, <1>4, <1>5, <1>6, <1>7 DEF Link!Take, Over

LEMMA GiveUpStep ==
  ASSUME FramingInv, NEW side \in Sides, phase[side] # "ended", End(side),
         UNCHANGED <<started, delivered>>
  PROVE  Link!GiveUp(side)
<1>1. \A s \in Sides : phase'[s] = "ended" <=> s = side \/ phase[s] = "ended"
  BY DEF End, FramingInv, FramingType
<1>2. side \notin Over /\ Over' = Over \cup {side}
  BY <1>1 DEF Over
<1> QED
  BY <1>2 DEF Link!GiveUp, Over

LEMMA ExchangeStep ==
  ASSUME FramingInv, [FramingNext]_framingVars
  PROVE  [Link!Next]_Link!exchangeVars
<1>1. ASSUME UNCHANGED <<started, delivered>>, Over' = Over
      PROVE  UNCHANGED Link!exchangeVars
  BY <1>1 DEF Link!exchangeVars, Over
<1>2. ASSUME NEW side \in Sides, phase[side] # "ended", End(side), UNCHANGED <<started, delivered>>
      PROVE  Link!Next
  BY <1>2, GiveUpStep, PeerIsOther DEF Link!Next
<1>3. ASSUME NEW side \in Sides, NEW f, SendFrame(side, f), phase[side] # "ended"
      PROVE  UNCHANGED Link!exchangeVars
  BY <1>1, <1>3 DEF SendFrame, Over, FramingInv, FramingType
<1>4. CASE UNCHANGED framingVars
  BY <1>1, <1>4 DEF framingVars, Over
<1>5. CASE Ask \/ Answer
  BY <1>3, <1>5, SidesAre DEF Ask, Answer
<1>6. ASSUME NEW side \in Sides, SendBytes(side) PROVE [Link!Next]_Link!exchangeVars
  <2>1. CASE unsent[side][1][2] = 1
    BY <1>6, <2>1, BeginStep DEF Link!Next
  <2>2. CASE unsent[side][1][2] # 1
    <3>1. UNCHANGED <<started, delivered>>
      BY <1>6, <2>2 DEF SendBytes
    <3>2. Over' = Over
      BY <1>6 DEF SendBytes, Over, FramingInv, FramingType
    <3> QED
      BY <1>1, <3>1, <3>2
  <2> QED BY <2>1, <2>2
<1>7. ASSUME NEW side \in Sides, SendVanishes(side) PROVE [Link!Next]_Link!exchangeVars
  BY <1>1, <1>7 DEF SendVanishes, Over, FramingInv, FramingType
<1>8. ASSUME NEW side \in Sides, SendFails(side) PROVE [Link!Next]_Link!exchangeVars
  BY <1>2, <1>3, <1>8 DEF SendFails
<1>9. ASSUME NEW side \in Sides, RecvBytes(side) PROVE [Link!Next]_Link!exchangeVars
  BY <1>1, <1>9 DEF RecvBytes, Over
<1>10. ASSUME NEW side \in Sides, RecvEnds(side) \/ Die(side) PROVE [Link!Next]_Link!exchangeVars
  BY <1>2, <1>10 DEF RecvEnds, Die
<1>11. ASSUME NEW side \in Sides, ReadHeader(side) PROVE [Link!Next]_Link!exchangeVars
  BY <1>1, <1>2, <1>11 DEF ReadHeader, Over
<1>12. ASSUME NEW side \in Sides, Deliver(side) PROVE [Link!Next]_Link!exchangeVars
  <2>1. phase[side] = "receiving" /\ UNCHANGED started
    BY <1>12 DEF Deliver
  <2>2. CASE Decodes(partly[side])
    <3>1. partly[side] # <<>>
      BY <1>12, SomethingIsRead DEF FramingInv
    <3>2. Delivers(side)
      BY <1>12, <2>2 DEF Deliver, Delivers
    <3> QED
      BY <2>1, <2>2, <3>1, <3>2, TakeStep, PeerIsOther DEF Link!Next
  <2>3. CASE End(side) /\ UNCHANGED delivered
    BY <1>2, <2>1, <2>3
  <2> QED
    BY <1>12, <2>2, <2>3 DEF Deliver
<1> QED
  BY <1>4, <1>5, <1>6, <1>7, <1>8, <1>9, <1>10, <1>11, <1>12 DEF FramingNext, Step

(* The connection, byte by byte, is a dialogue of whole frames: every step *)
(* maps to one of Exchange or to none.                                     *)
THEOREM FramingImplementsExchange == FramingSpec => ImplementsExchange
<1>1. FramingInit => Link!Init
  BY DEF FramingInit, Link!Init, Link!Parties, Sides
<1>2. FramingInv /\ [FramingNext]_framingVars => [Link!Next]_Link!exchangeVars
  BY ExchangeStep
<1> QED
  BY <1>1, <1>2, FramingInductive, PTL DEF FramingSpec, ImplementsExchange, Link!Spec

-----------------------------------------------------------------------------
(* Neither side waits for the other.  As long as both live and no send has *)
(* failed, what is coming to a side is exactly one frame, the length it    *)
(* has read is that of this frame, and somebody has something to say.      *)

BothStand == phase["worker"] # "ended" /\ phase["coordinator"] # "ended"

WholeInv == \A s \in Sides : Coming[s] # <<>> => Whole(Coming[s])

HeadInv ==
  \A r \in Sides : announced[r] # NoLength =>
    partly[r] # <<>> /\ announced[r] = partly[r][1][1].len

TalkInv ==
  phase["worker"] # "idle" /\ phase["coordinator"] # "handling" =>
    Coming["worker"] # <<>> \/ Coming["coordinator"] # <<>>

MovingInv == BothStand /\ ~failed => WholeInv /\ HeadInv /\ TalkInv

LEMMA PartlyBegins ==
  ASSUME FramingType, NEW side \in Sides
  PROVE  /\ Begins(partly[side], Coming[Other(side)])
         /\ partly[side] # <<>> => /\ Coming[Other(side)] # <<>>
                                  /\ Coming[Other(side)][1] = partly[side][1]
         /\ wire[Other(side)] = <<>> /\ phase[Other(side)] # "sending" => Coming[Other(side)] = partly[side]
<1> DEFINE s == Other(side)
<1>1. s \in Sides /\ Other(s) = side
  BY SidesAre
<1>2. partly[side] \in Seq(Byte) /\ wire[s] \in Seq(Byte)
  BY <1>1 DEF FramingType
<1>3. Inflight[s] = partly[side] \o wire[s]
  BY <1>1 DEF Inflight
<1>4. /\ Inflight[s] \in Seq(Byte) /\ Outgoing[s] \in Seq(Byte) /\ Coming[s] \in Seq(Byte)
      /\ Coming[s] = Inflight[s] \o Outgoing[s]
      /\ phase[s] # "sending" => Coming[s] = Inflight[s]
  BY <1>1, StreamTypes
<1> HIDE DEF s
<1>5. ASSUME NEW a \in Seq(Byte), NEW b \in Seq(Byte)
      PROVE  Begins(a, a \o b) /\ Len(a) \in Nat /\ Len(a \o b) \in Nat
  BY ConcatProperties, LenProperties DEF Begins
<1>6. Begins(partly[side], Inflight[s]) /\ Len(partly[side]) \in Nat /\ Len(Inflight[s]) \in Nat
  BY <1>2, <1>3, <1>5
<1>7. Begins(Inflight[s], Coming[s]) /\ Len(Coming[s]) \in Nat
  BY <1>4, <1>5
<1>8. Begins(partly[side], Coming[s])
  BY <1>6, <1>7 DEF Begins
<1>9. partly[side] # <<>> => Coming[s] # <<>> /\ Coming[s][1] = partly[side][1]
  <2> SUFFICES ASSUME partly[side] # <<>>
               PROVE  Coming[s] # <<>> /\ Coming[s][1] = partly[side][1]
    OBVIOUS
  <2>1. Len(partly[side]) # 0
    BY <1>2, EmptySeq
  <2>2. Len(Coming[s]) # 0 /\ Coming[s][1] = partly[side][1]
    BY <1>6, <1>7, <1>8, <2>1 DEF Begins
  <2> QED
    BY <1>4, <2>2, EmptySeq
<1>10. wire[s] = <<>> /\ phase[s] # "sending" => Coming[s] = partly[side]
  BY <1>2, <1>3, <1>4, ConcatEmptySeq
<1> QED
  BY <1>8, <1>9, <1>10 DEF s

(* The header of a frame that comes whole announces its length.            *)
LEMMA HeaderSaysLength ==
  ASSUME FramingType, NEW side \in Sides, ReadHeader(side), Whole(Coming[Other(side)])
  PROVE  partly[side] # <<>> /\ HeaderLengths(partly[side]) = {partly[side][1][1].len}
<1> DEFINE T == Coming[Other(side)]
           f == partly[side][1][1]
<1>1. partly[side] \in Seq(Byte) /\ Len(partly[side]) = HeaderBytes
  <2>1. partly[side] \in Seq(Byte) /\ Len(partly[side]) \in Nat
    BY LenProperties DEF FramingType
  <2>2. HeaderBytes - Len(partly[side]) = 0
    BY DEF ReadHeader, Wanted
  <2> QED
    BY <2>1, <2>2, FramingAssumption
<1>2. partly[side] # <<>>
  BY <1>1, EmptySeq, FramingAssumption
<1>3. f \in Frame
  BY <1>1, <1>2, SizeOfFirst
<1>4. f.len \in Nat /\ Size(f) = HeaderBytes + f.len /\ HeaderBytes \in Nat \ {0}
  BY <1>3, SizeIsPositive, FramingAssumption DEF Size
<1>5. T[1][1] = f /\ Begins(partly[side], T)
  BY <1>2, PartlyBegins
<1>6. \A i \in 1..HeaderBytes : partly[side][i] = <<f, i>>
  BY <1>1, <1>4, <1>5 DEF Whole, Begins
<1>7. /\ Encoded(f) \in Seq(Byte) /\ Len(Encoded(f)) = Size(f)
      /\ \A i \in 1..Size(f) : Encoded(f)[i] = <<f, i>>
  BY <1>3, EncodedBytes
<1> HIDE DEF f
<1>8. HeaderBytes \in 0..Len(Encoded(f))
  BY <1>4, <1>7
<1>9. /\ SubSeq(Encoded(f), 1, HeaderBytes) \in Seq(Byte)
      /\ Len(SubSeq(Encoded(f), 1, HeaderBytes)) = HeaderBytes
      /\ \A i \in 1..HeaderBytes : SubSeq(Encoded(f), 1, HeaderBytes)[i] = Encoded(f)[i]
  <2>1. \A i \in 1..HeaderBytes : Encoded(f)[i] \in Byte
    BY <1>4, <1>7, ElementOfSeq
  <2> QED
    BY <1>4, <2>1, SubSeqProperties
<1>10. partly[side] = SubSeq(Encoded(f), 1, HeaderBytes)
  <2>1. ASSUME NEW i \in 1..HeaderBytes
        PROVE  partly[side][i] = SubSeq(Encoded(f), 1, HeaderBytes)[i]
    <3>1. i \in 1..Size(f)
      BY <1>4
    <3> QED
      BY <1>6, <1>7, <1>9, <3>1
  <2>2. ASSUME NEW a \in Seq(Byte), NEW b \in Seq(Byte), Len(a) = Len(b), \A i \in 1..Len(a) : a[i] = b[i]
        PROVE  a = b
    BY <2>2, SeqEqual
  <2> QED
    BY <1>1, <1>9, <2>1, <2>2
<1> QED
  BY <1>2, <1>10 DEF HeaderLengths, f

LEMMA StandBefore ==
  ASSUME FramingType, [FramingNext]_framingVars, BothStand', ~failed'
  PROVE  BothStand /\ ~failed
<1>1. CASE UNCHANGED framingVars
  BY <1>1 DEF framingVars, BothStand
<1>2. ASSUME NEW side \in Sides, NEW f, SendFrame(side, f), phase[side] # "ended"
      PROVE  BothStand
  <2>1. phase' = [phase EXCEPT ![side] = "sending"]
    BY <1>2 DEF SendFrame
  <2>2. ASSUME NEW s \in Sides PROVE phase[s] # "ended"
    BY <1>2, <2>1, SidesAre DEF BothStand, FramingType
  <2> QED
    BY <2>2, SidesAre DEF BothStand
<1>3. ASSUME NEW side \in Sides, End(side) PROVE FALSE
  BY <1>3, SidesAre DEF End, BothStand, FramingType
<1>4. CASE Ask \/ Answer
  <2>1. failed' = failed
    BY <1>4 DEF Ask, Answer
  <2>2. CASE Ask
    <3>1. phase["worker"] # "ended"
      BY <2>2 DEF Ask
    <3>2. PICK f : SendFrame("worker", f)
      BY <2>2 DEF Ask
    <3> QED
      BY <1>2, <2>1, <3>1, <3>2, SidesAre
  <2>3. CASE Answer
    <3>1. phase["coordinator"] # "ended"
      BY <2>3 DEF Answer
    <3>2. PICK f : SendFrame("coordinator", f)
      BY <2>3 DEF Answer
    <3> QED
      BY <1>2, <2>1, <3>1, <3>2, SidesAre
  <2> QED
    BY <1>4, <2>2, <2>3
<1>5. ASSUME NEW side \in Sides, SendBytes(side) \/ SendVanishes(side)
      PROVE  BothStand /\ ~failed
  BY <1>5, SidesAre DEF SendBytes, SendVanishes, BothStand, FramingType
<1>6. ASSUME NEW side \in Sides, SendFails(side) PROVE BothStand /\ ~failed
  BY <1>2, <1>3, <1>6 DEF SendFails
<1>7. ASSUME NEW side \in Sides, RecvBytes(side) PROVE BothStand /\ ~failed
  BY <1>7 DEF RecvBytes, BothStand
<1>8. ASSUME NEW side \in Sides, RecvEnds(side) \/ Die(side) PROVE BothStand /\ ~failed
  BY <1>3, <1>8 DEF RecvEnds, Die
<1>9. ASSUME NEW side \in Sides, ReadHeader(side) PROVE BothStand /\ ~failed
  BY <1>3, <1>9 DEF ReadHeader, BothStand
<1>10. ASSUME NEW side \in Sides, Deliver(side) PROVE BothStand /\ ~failed
  <2>1. phase[side] = "receiving" /\ failed' = failed
    BY <1>10 DEF Deliver
  <2>2. phase' = [phase EXCEPT ![side] = IF side = "worker" THEN "idle" ELSE "handling"]
    BY <1>3, <1>10 DEF Deliver
  <2> QED
    BY <2>1, <2>2, SidesAre DEF BothStand, FramingType
<1> QED
  BY <1>1, <1>4, <1>5, <1>6, <1>7, <1>8, <1>9, <1>10 DEF FramingNext, Step

LEMMA MovingStep ==
  ASSUME FramingInv, MovingInv, [FramingNext]_framingVars
  PROVE  MovingInv'
<1> SUFFICES ASSUME BothStand', ~failed'
             PROVE  WholeInv' /\ HeadInv' /\ TalkInv'
  BY DEF MovingInv
<1>1. FramingType /\ BothStand /\ ~failed /\ WholeInv /\ HeadInv /\ TalkInv
  BY StandBefore DEF FramingInv, MovingInv
<1>2. ASSUME Coming' = Coming, UNCHANGED phase PROVE WholeInv' /\ TalkInv'
  BY <1>1, <1>2 DEF WholeInv, TalkInv
<1>3. ASSUME UNCHANGED <<partly, announced>> PROVE HeadInv'
  BY <1>1, <1>3 DEF HeadInv
<1>4. ASSUME NEW side \in Sides, End(side) PROVE FALSE
  BY <1>1, <1>4, SidesAre DEF End, BothStand, FramingType
<1>5. ASSUME NEW side \in Sides, NEW f \in Frame, SendFrame(side, f), Coming[side] = <<>>
      PROVE  WholeInv' /\ HeadInv' /\ TalkInv'
  <2>1. /\ Coming'[side] = Inflight[side] \o Encoded(f)
        /\ Coming'[Other(side)] = Coming[Other(side)]
    BY <1>1, <1>5, SendFrameEffect
  <2>2. Inflight[side] = <<>>
    BY <1>1, <1>5, StreamTypes
  <2>3. Encoded(f) \in Seq(Byte) /\ Encoded(f) # <<>> /\ Whole(Encoded(f))
    BY <1>5, EncodedBytes
  <2>4. Coming'[side] = Encoded(f)
    BY <2>1, <2>2, <2>3, ConcatEmptySeq
  <2>5. WholeInv'
    <3>1. ASSUME NEW s \in Sides, Coming'[s] # <<>> PROVE Whole(Coming'[s])
      <4>1. CASE s = side
        BY <2>3, <2>4, <4>1
      <4>2. CASE s = Other(side)
        BY <1>1, <2>1, <3>1, <4>2 DEF WholeInv
      <4> QED BY <4>1, <4>2, OneOfTwo
    <3> QED
      BY <3>1 DEF WholeInv
  <2>6. TalkInv'
    BY <2>3, <2>4, SidesAre DEF TalkInv
  <2>7. HeadInv'
    BY <1>3, <1>5 DEF SendFrame
  <2> QED
    BY <2>5, <2>6, <2>7
<1>6. CASE UNCHANGED framingVars
  <2>1. Coming' = Coming /\ UNCHANGED <<phase, partly, announced>>
    BY <1>6 DEF framingVars, streamVars, Inflight, Outgoing, Coming
  <2> QED
    BY <1>2, <1>3, <2>1
<1>7. CASE Ask
  <2>1. PICK len \in Lengths :
          SendFrame("worker", [kind |-> "request", nr |-> Len(started["worker"]) + 1, len |-> len])
    BY <1>7 DEF Ask
  <2>2. Len(started["worker"]) \in Nat
    BY <1>1, SidesAre, LenProperties DEF FramingType
  <2>3. [kind |-> "request", nr |-> Len(started["worker"]) + 1, len |-> len] \in Frame
    BY <1>7, <2>2, FramingAssumption DEF Ask, Frame
  <2>4. Coming["worker"] = <<>>
    BY <1>1, <1>7 DEF Ask, BothStand, FramingInv, Streams, TurnInv
  <2> QED
    BY <1>5, <2>1, <2>3, <2>4, SidesAre
<1>8. CASE Answer
  <2>1. PICK len \in Lengths, kind \in {"result", "error"} :
          SendFrame("coordinator", [kind |-> kind, nr |-> Last(delivered["coordinator"]).nr, len |-> len])
    BY <1>8 DEF Answer
  <2>2. Last(delivered["coordinator"]) \in Frame
    <3>1. delivered["coordinator"] \in Seq(Frame) /\ delivered["coordinator"] # <<>>
      BY <1>1, <1>8, SidesAre DEF FramingType, Answer
    <3>2. Len(delivered["coordinator"]) \in Nat \ {0}
      BY <3>1, EmptySeq
    <3> QED
      BY <3>1, <3>2, ElementOfSeq DEF Last
  <2>3. [kind |-> kind, nr |-> Last(delivered["coordinator"]).nr, len |-> len] \in Frame
    BY <2>2 DEF Frame
  <2>4. Coming["coordinator"] = <<>>
    BY <1>1, <1>8 DEF Answer, BothStand, FramingInv, Streams, TurnInv
  <2> QED
    BY <1>5, <2>1, <2>3, <2>4, SidesAre
<1>9. ASSUME NEW side \in Sides, SendBytes(side) PROVE WholeInv' /\ HeadInv' /\ TalkInv'
  <2>1. /\ Coming'[side] = Coming[side] /\ Coming'[Other(side)] = Coming[Other(side)]
        /\ phase'[side] \in {"sending", "receiving"} /\ phase'[Other(side)] = phase[Other(side)]
        /\ phase[side] = "sending" /\ UNCHANGED <<partly, announced>>
    BY <1>1, <1>9, SendBytesEffect DEF SendBytes
  <2>2. \A s \in Sides : /\ Coming'[s] = Coming[s]
                         /\ (phase'[s] = "idle" <=> phase[s] = "idle")
                         /\ (phase'[s] = "handling" <=> phase[s] = "handling")
    BY <2>1, OneOfTwo
  <2>3. WholeInv'
    BY <1>1, <2>2 DEF WholeInv
  <2>4. TalkInv'
    BY <1>1, <2>2, SidesAre DEF TalkInv
  <2> QED
    BY <1>3, <2>1, <2>3, <2>4
<1>10. ASSUME NEW side \in Sides, SendVanishes(side) \/ SendFails(side) PROVE FALSE
  <2>1. phase[Other(side)] # "ended"
    BY <1>1, SidesAre DEF BothStand
  <2> QED
    BY <1>10, <2>1 DEF SendVanishes, SendFails
<1>11. ASSUME NEW side \in Sides, RecvEnds(side) \/ Die(side) PROVE FALSE
  BY <1>4, <1>11 DEF RecvEnds, Die
<1>12. ASSUME NEW side \in Sides, RecvBytes(side) PROVE WholeInv' /\ HeadInv' /\ TalkInv'
  <2>1. Coming' = Coming /\ UNCHANGED phase /\ partly'[Other(side)] = partly[Other(side)] /\ UNCHANGED announced
    BY <1>1, <1>12, RecvBytesEffect DEF RecvBytes
  <2>2. PICK n \in 1..Wanted(side) :
          /\ n <= Len(wire[Other(side)])
          /\ partly' = [partly EXCEPT ![side] = @ \o SubSeq(wire[Other(side)], 1, n)]
    BY <1>12 DEF RecvBytes
  <2>3. partly[side] \in Seq(Byte) /\ wire[Other(side)] \in Seq(Byte)
    BY <1>1, SidesAre DEF FramingType
  <2>4. n \in 0..Len(wire[Other(side)])
    BY <2>2, <2>3, LenProperties
  <2>5. SubSeq(wire[Other(side)], 1, n) \in Seq(Byte)
    BY <2>3, <2>4, CutAndJoin
  <2>6. partly'[side] = partly[side] \o SubSeq(wire[Other(side)], 1, n)
    BY <1>1, <2>2 DEF FramingType
  <2>7. partly[side] # <<>> => partly'[side] # <<>> /\ partly'[side][1] = partly[side][1]
    BY <2>3, <2>5, <2>6, JoinedBytes
  <2>8. HeadInv'
    <3>1. ASSUME NEW r \in Sides, announced'[r] # NoLength
          PROVE  partly'[r] # <<>> /\ announced'[r] = partly'[r][1][1].len
      <4>1. partly[r] # <<>> /\ announced[r] = partly[r][1][1].len
        BY <1>1, <2>1, <3>1 DEF HeadInv
      <4>2. CASE r = side
        BY <2>1, <2>7, <4>1, <4>2
      <4>3. CASE r = Other(side)
        BY <2>1, <4>1, <4>3
      <4> QED BY <4>2, <4>3, OneOfTwo
    <3> QED
      BY <3>1 DEF HeadInv
  <2> QED
    BY <1>2, <2>1, <2>8
<1>13. ASSUME NEW side \in Sides, ReadHeader(side) PROVE WholeInv' /\ HeadInv' /\ TalkInv'
  <2>1. PICK len \in HeaderLengths(partly[side]) :
          /\ announced' = [announced EXCEPT ![side] = len]
          /\ UNCHANGED <<phase, unsent, wire, partly>>
    BY <1>4, <1>13 DEF ReadHeader
  <2>2. Coming' = Coming
    BY <2>1 DEF Inflight, Outgoing, Coming
  <2>3. partly[side] # <<>>
    <3>1. partly[side] = <<>> => Len(partly[side]) = 0
      BY EmptySeq
    <3> QED
      BY <1>13, <3>1, FramingAssumption DEF ReadHeader, Wanted
  <2>4. Whole(Coming[Other(side)])
    BY <1>1, <2>3, PartlyBegins, SidesAre DEF WholeInv
  <2>5. len = partly[side][1][1].len
    BY <1>1, <1>13, <2>1, <2>4, HeaderSaysLength
  <2>6. HeadInv'
    <3>1. ASSUME NEW r \in Sides, announced'[r] # NoLength
          PROVE  partly'[r] # <<>> /\ announced'[r] = partly'[r][1][1].len
      <4>1. CASE r = side
        BY <1>1, <2>1, <2>3, <2>5, <4>1 DEF FramingType
      <4>2. CASE r # side
        <5>1. announced'[r] = announced[r]
          BY <1>1, <2>1, <4>2 DEF FramingType
        <5> QED
          BY <1>1, <2>1, <3>1, <5>1 DEF HeadInv
      <4> QED BY <4>1, <4>2
    <3> QED
      BY <3>1 DEF HeadInv
  <2> QED
    BY <1>2, <2>1, <2>2, <2>6
<1>14. ASSUME NEW side \in Sides, Deliver(side) PROVE WholeInv' /\ HeadInv' /\ TalkInv'
  <2>1. Decodes(partly[side]) /\ Delivers(side) /\ phase[side] = "receiving" /\ partly[side] # <<>>
    <3>1. partly[side] # <<>>
      BY <1>1, <1>14, SomethingIsRead
    <3> QED
      BY <1>4, <1>14, <3>1 DEF Deliver, Delivers
  <2>2. /\ Coming'[Other(side)] = <<>>
        /\ Coming'[side] = Coming[side]
    BY <2>1, DeliverEffect DEF FramingInv
  <2>3. WholeInv'
    <3>1. ASSUME NEW s \in Sides, Coming'[s] # <<>> PROVE Whole(Coming'[s])
      <4>1. s = side
        BY <2>2, <3>1, OneOfTwo
      <4> QED
        BY <1>1, <2>2, <3>1, <4>1 DEF WholeInv
    <3> QED
      BY <3>1 DEF WholeInv
  <2>4. TalkInv'
    <3>1. phase'[side] = IF side = "worker" THEN "idle" ELSE "handling"
      BY <1>1, <2>1 DEF Delivers, FramingType
    <3> QED
      BY <3>1, SidesAre DEF TalkInv
  <2>5. HeadInv'
    <3>1. ASSUME NEW r \in Sides, announced'[r] # NoLength
          PROVE  partly'[r] # <<>> /\ announced'[r] = partly'[r][1][1].len
      <4>1. r # side
        BY <1>1, <2>1, <3>1 DEF Delivers, FramingType
      <4>2. announced'[r] = announced[r] /\ partly'[r] = partly[r]
        BY <1>1, <2>1, <4>1 DEF Delivers, FramingType
      <4> QED
        BY <1>1, <3>1, <4>2 DEF HeadInv
    <3> QED
      BY <3>1 DEF HeadInv
  <2> QED
    BY <2>3, <2>4, <2>5
<1> QED
  BY <1>6, <1>7, <1>8, <1>9, <1>10, <1>11, <1>12, <1>13, <1>14 DEF FramingNext, Step

LEMMA MovingInit == FramingInit => MovingInv
<1> SUFFICES ASSUME FramingInit PROVE MovingInv
  OBVIOUS
<1>1. FramingType
  BY FramingInitType
<1>2. ASSUME NEW s \in Sides PROVE Coming[s] = <<>>
  <2>1. /\ partly[Other(s)] = <<>> /\ wire[s] = <<>> /\ phase[s] # "sending"
    BY SidesAre DEF FramingInit
  <2> QED
    BY <1>1, <2>1, PartlyBegins, SidesAre
<1>3. WholeInv
  BY <1>2 DEF WholeInv
<1>4. HeadInv /\ TalkInv
  BY SidesAre DEF FramingInit, HeadInv, TalkInv
<1> QED
  BY <1>3, <1>4 DEF MovingInv

(* A sender that finds the wire full has a receiver that finds bytes; when *)
(* both receive, one of them finds bytes or has its frame complete.        *)
LEMMA SomeoneMoves ==
  ASSUME FramingInv, MovingInv
  PROVE  NeverBothWait
<1> SUFFICES ASSUME ~failed, phase["worker"] # "idle", phase["coordinator"] # "handling",
                    NEW live \in Sides, phase[live] # "ended"
             PROVE  \E side \in Sides : CanMove(side)
  BY DEF NeverBothWait
<1>1. FramingType /\ ReadInv /\ WayInv
  BY DEF FramingInv, Streams
<1>2. ASSUME NEW side \in Sides
      PROVE  /\ Wanted(side) \in Nat
             /\ phase[side] \in {"sending", "receiving", "ended"}
             /\ Len(wire[side]) \in Nat
             /\ wire[side] = <<>> => Len(wire[side]) = 0
  <2>1. announced[side] \in Nat \cup {-1} /\ Len(partly[side]) \in Nat /\ Len(wire[side]) \in Nat
    BY <1>1, LenProperties DEF FramingType, NoLength
  <2>2. Wanted(side) \in Nat
    BY <1>1, <2>1, FramingAssumption DEF Wanted, ReadInv, NoLength
  <2>3. phase[side] \in {"sending", "receiving", "ended"}
    BY <1>1, SidesAre DEF FramingType
  <2>4. wire[side] = <<>> => Len(wire[side]) = 0
    BY EmptySeq
  <2> QED
    BY <2>1, <2>2, <2>3, <2>4
<1>3. ASSUME NEW side \in Sides, phase[side] # "ended", phase[Other(side)] = "ended"
      PROVE  CanMove(side)
  BY <1>2, <1>3 DEF CanMove
<1>4. ASSUME NEW side \in Sides, phase[side] = "receiving", wire[Other(side)] # <<>>
      PROVE  CanMove(side)
  BY <1>2, <1>4 DEF CanMove
<1>5. ASSUME BothStand, NEW side \in Sides, phase[side] = "sending"
      PROVE  \E s \in Sides : CanMove(s)
  <2>1. CASE Len(wire[side]) < BufferBytes
    BY <1>5, <2>1 DEF CanMove
  <2>2. CASE ~(Len(wire[side]) < BufferBytes)
    <3>1. wire[side] # <<>>
      BY <1>2, <2>2, FramingAssumption
    <3>2. Coming[side] # <<>>
      BY <1>1, <1>5, StreamTypes
    <3>3. Way(Inflight[side], Coming[side], phase[side], phase[Other(side)], started[side], delivered[Other(side)])
      BY <1>1 DEF WayInv
    <3>4. phase[Other(side)] = "receiving"
      BY <1>5, <3>2, <3>3, SidesAre DEF Way, BothStand
    <3> QED
      BY <1>4, <3>1, <3>4, SidesAre
  <2> QED BY <2>1, <2>2
<1>6. ASSUME BothStand, NEW s \in Sides, Coming[s] # <<>>, phase[s] = "receiving", phase[Other(s)] = "receiving"
      PROVE  CanMove(Other(s))
  <2> DEFINE r == Other(s)
  <2>1. r \in Sides /\ Other(r) = s
    BY SidesAre
  <2>2. CASE wire[s] # <<>>
    BY <1>4, <1>6, <2>1, <2>2
  <2>3. CASE wire[s] = <<>>
    <3>1. partly[r] = Coming[s]
      BY <1>1, <1>6, <2>1, <2>3, PartlyBegins
    <3>2. Whole(partly[r]) /\ OneFrame(partly[r])
      <4>1. Whole(Coming[s])
        BY <1>6 DEF MovingInv, WholeInv
      <4>2. Way(Inflight[s], Coming[s], phase[s], phase[Other(s)], started[s], delivered[Other(s)])
        BY <1>1 DEF WayInv
      <4> QED
        BY <1>6, <3>1, <4>1, <4>2 DEF Way
    <3>3. partly[r] \in Seq(Byte) /\ partly[r] # <<>> /\ partly[r][1][1] \in Frame
      BY <1>1, <2>1, <3>2, SizeOfFirst DEF FramingType, Whole
    <3>4. partly[r][1][1].len \in Nat /\ Len(partly[r]) = HeaderBytes + partly[r][1][1].len
      BY <3>2, <3>3, SizeIsPositive DEF OneFrame, Size
    <3>5. announced[r] # NoLength => announced[r] = partly[r][1][1].len
      BY <1>6, <2>1 DEF MovingInv, HeadInv
    <3>6. Wanted(r) \in Nat
      BY <1>2, <2>1
    <3>7. Wanted(r) = 0
      BY <3>4, <3>5, <3>6, FramingAssumption DEF Wanted
    <3> QED
      BY <1>6, <3>7 DEF CanMove
  <2> QED BY <2>2, <2>3
<1>7. CASE ~BothStand
  <2>1. phase[Other(live)] = "ended"
    BY <1>7, SidesAre DEF BothStand
  <2> QED
    BY <1>3, <2>1
<1>8. CASE BothStand /\ \E side \in Sides : phase[side] = "sending"
  BY <1>5, <1>8
<1>9. CASE BothStand /\ \A side \in Sides : phase[side] # "sending"
  <2>1. \A side \in Sides : phase[side] = "receiving"
    BY <1>2, <1>9, SidesAre DEF BothStand
  <2>2. PICK s \in Sides : Coming[s] # <<>>
    BY <1>9, SidesAre DEF MovingInv, TalkInv
  <2> QED
    BY <1>6, <1>9, <2>1, <2>2, SidesAre
<1> QED
  BY <1>7, <1>8, <1>9

(* With any frames over any connection the sides never both wait.          *)
THEOREM SidesNeverBothWait == FramingSpec => []NeverBothWait
<1>1. FramingInit => MovingInv
  BY MovingInit
<1>2. FramingInv /\ MovingInv /\ [FramingNext]_framingVars => MovingInv'
  BY MovingStep
<1>3. FramingInv /\ MovingInv => NeverBothWait
  BY SomeoneMoves
<1> QED
  BY <1>1, <1>2, <1>3, FramingInductive, PTL DEF FramingSpec

-----------------------------------------------------------------------------
(* Every step leaves less to do.                                           *)

(* What a side still has to do, apart from the bytes it has on the wire.   *)
DuesOf(p, u, a) ==
  IF p = "sending" THEN 4 * Len(u)
  ELSE IF p # "receiving" THEN 0
  ELSE IF a = NoLength THEN 2 ELSE 1

Dues == [s \in Sides |-> DuesOf(phase[s], unsent[s], announced[s])]

(* The dues of a side that sends, one that reads and one that does neither.*)
LEMMA DuesAre ==
  ASSUME NEW p, NEW u \in Seq(Byte), NEW a
  PROVE  /\ DuesOf(p, u, a) \in Nat
         /\ p = "sending" => DuesOf(p, u, a) = 4 * Len(u)
         /\ p = "receiving" => DuesOf(p, u, a) \in {1, 2}
         /\ p = "receiving" /\ a = NoLength => DuesOf(p, u, a) = 2
         /\ p = "receiving" /\ a # NoLength => DuesOf(p, u, a) = 1
         /\ p \notin {"sending", "receiving"} => DuesOf(p, u, a) = 0
<1>1. Len(u) \in Nat
  BY LenProperties
<1>2. CASE p = "sending"
  BY <1>1, <1>2 DEF DuesOf
<1>3. CASE p = "receiving"
  BY <1>3 DEF DuesOf
<1>4. CASE p \notin {"sending", "receiving"}
  BY <1>4 DEF DuesOf
<1> QED
  BY <1>2, <1>3, <1>4

(* The work of both sides is what they have on the wire and their dues.    *)
LEMMA WorkIs ==
  ASSUME FramingType, NEW side \in Sides
  PROVE  /\ Work = (Len(wire[side]) + Dues[side]) + (Len(wire[Other(side)]) + Dues[Other(side)])
         /\ Len(wire[side]) \in Nat /\ Dues[side] \in Nat
<1>1. ASSUME NEW s \in Sides
      PROVE  /\ WorkOf(s) = Len(wire[s]) + Dues[s]
             /\ Len(wire[s]) \in Nat
             /\ Dues[s] \in Nat
  <2>1. wire[s] \in Seq(Byte) /\ unsent[s] \in Seq(Byte)
    BY DEF FramingType
  <2>2. Dues[s] = DuesOf(phase[s], unsent[s], announced[s])
    BY DEF Dues
  <2>3. DuesOf(phase[s], unsent[s], announced[s]) \in Nat
    BY <2>1, DuesAre
  <2>4. Len(wire[s]) \in Nat
    BY <2>1, LenProperties
  <2>5. WorkOf(s) = Len(wire[s]) + Dues[s]
    BY <2>2 DEF WorkOf, DuesOf
  <2> QED
    BY <2>2, <2>3, <2>4, <2>5
<1>2. Work = (Len(wire["worker"]) + Dues["worker"]) + (Len(wire["coordinator"]) + Dues["coordinator"])
  BY <1>1, SidesAre DEF Work
<1>3. CASE side = "worker"
  BY <1>1, <1>2, <1>3, SidesAre
<1>4. CASE side = "coordinator"
  <2>1. Other(side) = "worker"
    BY <1>4, SidesAre
  <2> QED
    BY <1>1, <1>2, <1>4, <2>1, SidesAre
<1> QED
  BY <1>3, <1>4, SidesAre

LEMMA WorkIsNext ==
  ASSUME FramingType', NEW side \in Sides
  PROVE  /\ Work' = (Len(wire'[side]) + Dues'[side]) + (Len(wire'[Other(side)]) + Dues'[Other(side)])
         /\ Len(wire'[side]) \in Nat /\ Dues'[side] \in Nat
<1>1. ASSUME NEW s \in Sides
      PROVE  /\ WorkOf(s)' = Len(wire'[s]) + Dues'[s]
             /\ Len(wire'[s]) \in Nat
             /\ Dues'[s] \in Nat
  <2>1. wire'[s] \in Seq(Byte) /\ unsent'[s] \in Seq(Byte)
    BY DEF FramingType
  <2>2. Dues'[s] = DuesOf(phase'[s], unsent'[s], announced'[s])
    BY DEF Dues, DuesOf
  <2>3. DuesOf(phase'[s], unsent'[s], announced'[s]) \in Nat
    BY <2>1, DuesAre
  <2>4. Len(wire'[s]) \in Nat
    BY <2>1, LenProperties
  <2>5. WorkOf(s)' = Len(wire'[s]) + Dues'[s]
    BY <2>2 DEF WorkOf, DuesOf
  <2> QED
    BY <2>2, <2>3, <2>4, <2>5
<1>2. Work' = (Len(wire'["worker"]) + Dues'["worker"]) + (Len(wire'["coordinator"]) + Dues'["coordinator"])
  BY <1>1, SidesAre DEF Work
<1>3. CASE side = "worker"
  BY <1>1, <1>2, <1>3, SidesAre
<1>4. CASE side = "coordinator"
  <2>1. Other(side) = "worker"
    BY <1>4, SidesAre
  <2> QED
    BY <1>1, <1>2, <1>4, <2>1, SidesAre
<1> QED
  BY <1>3, <1>4, SidesAre

(* It is enough that the bytes on the wire do not grow by what the dues    *)
(* fall.                                                                   *)
LEMMA WorkFalls ==
  ASSUME NEW w1 \in Nat, NEW d1 \in Nat, NEW w2 \in Nat, NEW d2 \in Nat,
         NEW v1 \in Nat, NEW e1 \in Nat, NEW v2 \in Nat,
         v2 <= w2, v1 + e1 < w1 + d1
  PROVE  (v1 + e1) + (v2 + d2) < (w1 + d1) + (w2 + d2)
  OBVIOUS

(* A side whose program stands where it stood has the dues it had.         *)
LEMMA SameDues ==
  ASSUME NEW s \in Sides,
         phase'[s] = phase[s], unsent'[s] = unsent[s], announced'[s] = announced[s]
  PROVE  Dues'[s] = Dues[s]
<1>1. Dues[s] = DuesOf(phase[s], unsent[s], announced[s])
  BY DEF Dues
<1>2. Dues'[s] = DuesOf(phase'[s], unsent'[s], announced'[s])
  BY DEF Dues, DuesOf
<1> QED
  BY <1>1, <1>2

(* The step of one side that leaves the other where it stood.              *)
LEMMA LessIsLeft ==
  ASSUME FramingType, FramingType', NEW side \in Sides,
         Dues'[Other(side)] = Dues[Other(side)],
         Len(wire'[Other(side)]) <= Len(wire[Other(side)]),
         Len(wire'[side]) + Dues'[side] < Len(wire[side]) + Dues[side]
  PROVE  Work' < Work
<1> DEFINE r == Other(side)
           w1 == Len(wire[side])
           w2 == Len(wire[r])
           d1 == Dues[side]
           d2 == Dues[r]
           v1 == Len(wire'[side])
           v2 == Len(wire'[r])
           e1 == Dues'[side]
<1>1. r \in Sides
  BY SidesAre
<1>2. w1 \in Nat /\ d1 \in Nat /\ Work = (w1 + d1) + (w2 + d2)
  BY WorkIs
<1>3. w2 \in Nat /\ d2 \in Nat
  BY <1>1, WorkIs
<1>4. v1 \in Nat /\ e1 \in Nat /\ Work' = (v1 + e1) + (v2 + d2)
  BY WorkIsNext
<1>5. v2 \in Nat
  BY <1>1, WorkIsNext
<1>6. v2 <= w2 /\ v1 + e1 < w1 + d1
  OBVIOUS
<1> HIDE DEF r, w1, w2, d1, d2, v1, v2, e1
<1>7. (v1 + e1) + (v2 + d2) < (w1 + d1) + (w2 + d2)
  BY <1>2, <1>3, <1>4, <1>5, <1>6, WorkFalls
<1> QED
  BY <1>2, <1>4, <1>7

(* The dues before and after a step, by what the side is doing.            *)
LEMMA SendingDues ==
  ASSUME FramingType, NEW s \in Sides, phase[s] = "sending"
  PROVE  Dues[s] = 4 * Len(unsent[s])
<1>1. unsent[s] \in Seq(Byte)
  BY DEF FramingType
<1>2. Dues[s] = DuesOf("sending", unsent[s], announced[s])
  BY DEF Dues
<1> QED
  BY <1>1, <1>2, DuesAre

LEMMA ReadingDues ==
  ASSUME FramingType, NEW s \in Sides, phase[s] = "receiving"
  PROVE  /\ Dues[s] \in {1, 2}
         /\ announced[s] = NoLength => Dues[s] = 2
<1>1. unsent[s] \in Seq(Byte)
  BY DEF FramingType
<1>2. Dues[s] = DuesOf("receiving", unsent[s], announced[s])
  BY DEF Dues
<1> QED
  BY <1>1, <1>2, DuesAre

LEMMA SendingDuesNext ==
  ASSUME FramingType', NEW s \in Sides, phase'[s] = "sending"
  PROVE  Dues'[s] = 4 * Len(unsent'[s])
<1>1. unsent'[s] \in Seq(Byte)
  BY DEF FramingType
<1>2. Dues'[s] = DuesOf("sending", unsent'[s], announced'[s])
  BY DEF Dues, DuesOf
<1> QED
  BY <1>1, <1>2, DuesAre

LEMMA ReadingDuesNext ==
  ASSUME FramingType', NEW s \in Sides, phase'[s] = "receiving"
  PROVE  /\ Dues'[s] \in {1, 2}
         /\ announced'[s] # NoLength => Dues'[s] = 1
<1>1. unsent'[s] \in Seq(Byte)
  BY DEF FramingType
<1>2. Dues'[s] = DuesOf("receiving", unsent'[s], announced'[s])
  BY DEF Dues, DuesOf
<1> QED
  BY <1>1, <1>2, DuesAre

LEMMA NoDuesNext ==
  ASSUME FramingType', NEW s \in Sides, phase'[s] \notin {"sending", "receiving"}
  PROVE  Dues'[s] = 0
<1>1. unsent'[s] \in Seq(Byte)
  BY DEF FramingType
<1>2. Dues'[s] = DuesOf(phase'[s], unsent'[s], announced'[s])
  BY DEF Dues, DuesOf
<1> QED
  BY <1>1, <1>2, DuesAre

(* A side that stops reading, for the reason End stands for.               *)
LEMMA EndLeavesLess ==
  ASSUME FramingType, FramingType', NEW side \in Sides, phase[side] = "receiving", End(side)
  PROVE  Work' < Work
<1> DEFINE r == Other(side)
<1>1. r \in Sides /\ r # side
  BY SidesAre
<1>2. PICK n \in 0..Len(wire[side]) :
        wire' = [wire EXCEPT ![r] = <<>>, ![side] = SubSeq(@, 1, n)]
  BY DEF End
<1>3. Len(wire'[side]) <= Len(wire[side])
  <2>1. wire[side] \in Seq(Byte)
    BY DEF FramingType
  <2>2. wire'[side] = SubSeq(wire[side], 1, n)
    BY <1>1, <1>2 DEF FramingType
  <2>3. Len(SubSeq(wire[side], 1, n)) = n
    BY <1>2, <2>1, CutAndJoin
  <2> QED
    BY <1>2, <2>1, <2>2, <2>3, LenProperties
<1>4. Len(wire'[r]) <= Len(wire[r])
  <2>1. wire'[r] = <<>>
    BY <1>1, <1>2 DEF FramingType
  <2>2. Len(wire'[r]) = 0
    BY <2>1, EmptySeq
  <2>3. Len(wire[r]) \in Nat
    BY <1>1, WorkIs
  <2> QED
    BY <2>2, <2>3
<1>5. /\ phase'[side] = "ended" /\ phase'[r] = phase[r]
      /\ unsent' = unsent /\ announced' = announced
  BY <1>1 DEF End, FramingType
<1>6. Dues'[r] = Dues[r]
  BY <1>1, <1>5, SameDues
<1>7. Dues[side] \in {1, 2}
  BY ReadingDues
<1>8. Dues'[side] = 0
  BY <1>5, NoDuesNext
<1>9. Len(wire[side]) \in Nat /\ Len(wire'[side]) \in Nat
  BY WorkIs, WorkIsNext
<1>10. Len(wire'[side]) + Dues'[side] < Len(wire[side]) + Dues[side]
  BY <1>3, <1>7, <1>8, <1>9
<1> HIDE DEF r
<1> QED
  BY <1>4, <1>6, <1>10, LessIsLeft DEF r

(* Sending a portion moves it to the wire, where it counts once; reading a *)
(* portion takes it off the wire; and a header or a frame read is one due  *)
(* less.                                                                   *)
LEMMA StepLeavesLess ==
  ASSUME FramingType, FramingType', NEW side \in Sides, Step(side)
  PROVE  Work' < Work
<1> DEFINE r == Other(side)
<1>1. r \in Sides /\ r # side /\ Other(side) = r
  BY SidesAre
<1>2. /\ Len(wire[side]) \in Nat /\ Len(wire'[side]) \in Nat
      /\ Dues[side] \in Nat /\ Dues'[side] \in Nat
  BY WorkIs, WorkIsNext
<1>3. Len(wire[r]) \in Nat /\ Len(wire'[r]) \in Nat
  BY <1>1, WorkIs, WorkIsNext
<1>4. Len(unsent[side]) \in Nat /\ Len(unsent'[side]) \in Nat
  <2>1. unsent[side] \in Seq(Byte) /\ unsent'[side] \in Seq(Byte)
    BY DEF FramingType
  <2> QED
    BY <2>1, LenProperties
<1>5. ASSUME Dues'[r] = Dues[r], Len(wire'[r]) <= Len(wire[r]),
             Len(wire'[side]) + Dues'[side] < Len(wire[side]) + Dues[side]
      PROVE  Work' < Work
  BY <1>1, <1>5, LessIsLeft
<1> HIDE DEF r
<1>6. CASE SendBytes(side)
  <2>1. PICK n \in 1..Len(unsent[side]) :
          /\ wire' = [wire EXCEPT ![side] = @ \o SubSeq(unsent[side], 1, n)]
          /\ unsent' = [unsent EXCEPT ![side] = SubSeq(@, n + 1, Len(@))]
    BY <1>6 DEF SendBytes
  <2>2. unsent[side] \in Seq(Byte) /\ wire[side] \in Seq(Byte) /\ n \in 0..Len(unsent[side])
    BY <1>4, <2>1 DEF FramingType
  <2>3. /\ SubSeq(unsent[side], 1, n) \in Seq(Byte) /\ Len(SubSeq(unsent[side], 1, n)) = n
        /\ Len(SubSeq(unsent[side], n + 1, Len(unsent[side]))) = Len(unsent[side]) - n
    BY <2>2, CutAndJoin
  <2>4. /\ wire'[side] = wire[side] \o SubSeq(unsent[side], 1, n) /\ wire'[r] = wire[r]
        /\ unsent'[side] = SubSeq(unsent[side], n + 1, Len(unsent[side])) /\ unsent'[r] = unsent[r]
    BY <1>1, <2>1 DEF FramingType
  <2>5. Len(wire'[side]) = Len(wire[side]) + n
    BY <2>2, <2>3, <2>4, ConcatProperties
  <2>6. Len(unsent'[side]) = Len(unsent[side]) - n
    BY <2>3, <2>4
  <2>7. /\ phase[side] = "sending" /\ phase'[side] \in {"sending", "receiving"}
        /\ phase'[r] = phase[r] /\ announced' = announced
    BY <1>1, <1>6, SendBytesEffect DEF SendBytes, r
  <2>8. Dues'[r] = Dues[r] /\ Len(wire'[r]) <= Len(wire[r])
    BY <1>1, <1>3, <2>4, <2>7, SameDues
  <2>9. Dues[side] = 4 * Len(unsent[side])
    BY <2>7, SendingDues
  <2>10. Dues'[side] <= 4 * Len(unsent'[side]) + 2
    <3>1. CASE phase'[side] = "sending"
      <4>1. Dues'[side] = 4 * Len(unsent'[side])
        BY <3>1, SendingDuesNext
      <4> QED
        BY <1>4, <4>1
    <3>2. CASE phase'[side] = "receiving"
      <4>1. Dues'[side] \in {1, 2}
        BY <3>2, ReadingDuesNext
      <4> QED
        BY <1>4, <4>1
    <3> QED
      BY <2>7, <3>1, <3>2
  <2>11. Len(wire'[side]) + Dues'[side] < Len(wire[side]) + Dues[side]
    <3>1. ASSUME NEW w \in Nat, NEW u \in Nat, NEW v \in Nat, NEW e \in Nat, NEW k \in Nat,
                 k >= 1, v = u - k, e <= 4 * v + 2
          PROVE  (w + k) + e < w + 4 * u
      BY <3>1
    <3>2. n \in Nat /\ n >= 1
      BY <1>4, <2>1
    <3> QED
      BY <1>2, <1>4, <2>5, <2>6, <2>9, <2>10, <3>1, <3>2
  <2> QED
    BY <1>5, <2>8, <2>11
<1>7. CASE SendVanishes(side)
  <2>1. /\ phase[side] = "sending" /\ phase'[side] = "receiving" /\ phase'[r] = phase[r]
        /\ wire' = wire /\ announced' = announced /\ unsent'[r] = unsent[r]
    BY <1>1, <1>7 DEF SendVanishes, FramingType
  <2>2. Dues'[r] = Dues[r] /\ Len(wire'[r]) <= Len(wire[r])
    BY <1>1, <1>3, <2>1, SameDues
  <2>3. Len(unsent[side]) # 0
    BY <2>1, EmptySeq DEF FramingType
  <2>4. Dues[side] = 4 * Len(unsent[side])
    BY <2>1, SendingDues
  <2>5. Dues'[side] \in {1, 2}
    BY <2>1, ReadingDuesNext
  <2>6. Len(wire'[side]) + Dues'[side] < Len(wire[side]) + Dues[side]
    <3>1. ASSUME NEW w \in Nat, NEW u \in Nat, u # 0
          PROVE  w + 1 < w + 4 * u /\ w + 2 < w + 4 * u
      BY <3>1
    <3>2. Len(wire'[side]) = Len(wire[side])
      BY <2>1
    <3> QED
      BY <1>2, <1>4, <2>3, <2>4, <2>5, <3>1, <3>2
  <2> QED
    BY <1>5, <2>2, <2>6
<1>8. CASE RecvBytes(side)
  <2>1. PICK n \in 1..Wanted(side) :
          /\ n <= Len(wire[r])
          /\ wire' = [wire EXCEPT ![r] = SubSeq(@, n + 1, Len(@))]
    BY <1>8 DEF RecvBytes, r
  <2>2. UNCHANGED <<phase, unsent, announced>>
    BY <1>8 DEF RecvBytes
  <2>3. wire[r] \in Seq(Byte) /\ n \in 0..Len(wire[r])
    BY <1>1, <1>3, <2>1 DEF FramingType
  <2>4. Len(SubSeq(wire[r], n + 1, Len(wire[r]))) = Len(wire[r]) - n
    BY <2>3, CutAndJoin
  <2>5. Len(wire'[r]) = Len(wire[r]) - n /\ wire'[side] = wire[side]
    BY <1>1, <2>1, <2>4 DEF FramingType
  <2>6. Dues'[r] = Dues[r] /\ Dues'[side] = Dues[side]
    BY <1>1, <2>2, SameDues
  <2>7. n \in Nat /\ n >= 1
    BY <2>1, <2>3
  <2>8. Len(wire'[r]) + Dues'[r] < Len(wire[r]) + Dues[r]
    <3>1. Dues[r] \in Nat
      BY <1>1, WorkIs
    <3> QED
      BY <1>3, <2>5, <2>6, <2>7, <3>1
  <2>9. Len(wire'[side]) <= Len(wire[side])
    BY <1>2, <2>5
  <2>10. Other(r) = side
    BY <1>1, SidesAre DEF r
  <2> QED
    BY <1>1, <2>6, <2>8, <2>9, <2>10, LessIsLeft
<1>9. CASE RecvEnds(side)
  BY <1>9, EndLeavesLess DEF RecvEnds
<1>10. CASE ReadHeader(side)
  <2>1. phase[side] = "receiving" /\ announced[side] = NoLength
    BY <1>10 DEF ReadHeader
  <2>2. CASE End(side)
    BY <2>1, <2>2, EndLeavesLess
  <2>3. CASE ~End(side)
    <3>1. PICK len \in HeaderLengths(partly[side]) :
            /\ announced' = [announced EXCEPT ![side] = len]
            /\ UNCHANGED <<phase, unsent, wire, partly>>
      BY <1>10, <2>3 DEF ReadHeader
    <3>2. announced'[side] # NoLength
      <4>1. partly[side] # <<>>
        <5>1. partly[side] = <<>> => Len(partly[side]) = 0
          BY EmptySeq
        <5> QED
          BY <1>10, <5>1, FramingAssumption DEF ReadHeader, Wanted
      <4>2. partly[side][1][1] \in Frame
        BY <4>1, SizeOfFirst DEF FramingType
      <4>3. len \in Nat
        <5>1. len \in Lengths
          BY <3>1, <4>2 DEF HeaderLengths, Frame
        <5> QED
          BY <5>1, FramingAssumption
      <4>4. announced'[side] = len
        BY <3>1 DEF FramingType
      <4> QED
        BY <4>3, <4>4 DEF NoLength
    <3>3. announced'[r] = announced[r]
      BY <1>1, <3>1 DEF FramingType
    <3>4. Dues'[r] = Dues[r] /\ Len(wire'[r]) <= Len(wire[r])
      BY <1>1, <1>3, <3>1, <3>3, SameDues
    <3>5. Dues[side] = 2
      BY <2>1, ReadingDues
    <3>6. Dues'[side] = 1
      BY <2>1, <3>1, <3>2, ReadingDuesNext
    <3>7. Len(wire'[side]) + Dues'[side] < Len(wire[side]) + Dues[side]
      BY <1>2, <3>1, <3>5, <3>6
    <3> QED
      BY <1>5, <3>4, <3>7
  <2> QED BY <2>2, <2>3
<1>11. CASE Deliver(side)
  <2>1. phase[side] = "receiving"
    BY <1>11 DEF Deliver
  <2>2. CASE End(side)
    BY <2>1, <2>2, EndLeavesLess
  <2>3. CASE ~End(side)
    <3>1. /\ phase' = [phase EXCEPT ![side] = IF side = "worker" THEN "idle" ELSE "handling"]
          /\ announced' = [announced EXCEPT ![side] = NoLength]
          /\ UNCHANGED <<unsent, wire>>
      BY <1>11, <2>3 DEF Deliver
    <3>2. /\ phase'[side] \in {"idle", "handling"} /\ phase'[r] = phase[r] /\ announced'[r] = announced[r]
          /\ wire' = wire /\ unsent' = unsent
      BY <1>1, <3>1 DEF FramingType
    <3>3. Dues'[r] = Dues[r] /\ Len(wire'[r]) <= Len(wire[r])
      BY <1>1, <1>3, <3>2, SameDues
    <3>4. Dues[side] \in {1, 2}
      BY <2>1, ReadingDues
    <3>5. Dues'[side] = 0
      BY <3>2, NoDuesNext
    <3>6. Len(wire'[side]) + Dues'[side] < Len(wire[side]) + Dues[side]
      BY <1>2, <3>2, <3>4, <3>5
    <3> QED
      BY <1>5, <3>3, <3>6
  <2> QED BY <2>2, <2>3
<1> QED
  BY <1>6, <1>7, <1>8, <1>9, <1>10, <1>11 DEF Step

(* send_all and recv_frame come to an end: the work left falls with every  *)
(* step, however the bytes are cut up.                                     *)
THEOREM StepsRunOut == FramingSpec => WorkRunsOut
<1>1. FramingInv /\ FramingInv' /\ [FramingNext]_framingVars =>
        [\A side \in Sides : Step(side) => Work' < Work]_framingVars
  BY StepLeavesLess DEF FramingInv
<1> QED
  BY <1>1, FramingInductive, PTL DEF FramingSpec, WorkRunsOut

=============================================================================
