--------------------------- MODULE DpiLink_proofs ---------------------------
(***************************************************************************)
(* Proofs about DpiLink for every capacity of the interface, any number of *)
(* endpoint credits and load ids, and calls of any length.                 *)
(***************************************************************************)
EXTENDS DpiLink, FiniteSetTheorems, SequenceTheorems, TLAPS

LoadPacket  == [kind : {"load"}, id : Ids, word : Words]
OtherPacket == [kind : {"store", "cache_op"}]

\* The packet on its way out is a load.
LoadOut == tx # <<>> /\ tx[1].kind = "load"

\* Loads on their way out, as a number.
OutCount == IF LoadOut THEN 1 ELSE 0

\* Answers the call still waits for.
Expected == OutCount + Cardinality(loads) + Len(rspq)

HostTyped ==
  /\ op \in Ops \cup {"idle"} /\ pc \in {"idle", "loop", "recv", "fence", "vacant"}
  /\ cnt \in 0 .. MaxCnt /\ rqst \in 0 .. cnt /\ rsp \in 0 .. rqst
  /\ used \in 0 .. MaxOut
ClockTyped == seen \in BOOLEAN /\ open \in BOOLEAN
TableTyped ==
  ids \in Seq(Ids) /\ index \in [Ids -> 0 .. MaxCnt] /\ data \in [Words -> 0 .. MaxCnt]
PlaceTyped ==
  /\ room \in Nat /\ stores \in Nat
  /\ tx = <<>> \/ \E pkt \in LoadPacket \cup OtherPacket : tx = <<pkt>>
  /\ rspq \in Seq(Loads)
  /\ loads \subseteq Loads /\ IsFiniteSet(loads)
Typed == HostTyped /\ ClockTyped /\ TableTyped /\ PlaceTyped

\* Where a call may be.
Stages ==
  /\ op = "idle" <=> pc = "idle"
  /\ pc = "recv" => op = "read"
  /\ pc \in {"fence", "vacant"} => op \in {"fence", "write"}

\* Every load sent and not yet answered is in exactly one place, and between
\* the calls that read there is none.
Pending == Expected = IF op = "read" THEN rqst - rsp ELSE 0

\* The room of the interface is what no load was promised.
Promised == room + Expected = RspCap

\* Credits of the endpoint cover the packet on its way out too.
Credits == stores + Cardinality(loads) + Len(tx) <= MaxOut

\* A load id is free, or used by one load.
FreeIds    == \A i, j \in 1 .. Len(ids) : i # j => ids[i] # ids[j]
OutIds     == LoadOut => \A i \in 1 .. Len(ids) : tx[1].id # ids[i]
NetIds     == \A l \in loads :
                /\ \A k \in loads : l.id = k.id => l = k
                /\ LoadOut => l.id # tx[1].id
                /\ \A i \in 1 .. Len(ids) : l.id # ids[i]
AnswerIds  == \A i \in 1 .. Len(rspq) :
                /\ \A j \in 1 .. Len(rspq) : i # j => rspq[i].id # rspq[j].id
                /\ \A l \in loads : rspq[i].id # l.id
                /\ LoadOut => rspq[i].id # tx[1].id
                /\ \A j \in 1 .. Len(ids) : rspq[i].id # ids[j]
DistinctIds == FreeIds /\ OutIds /\ NetIds /\ AnswerIds

\* The table has the word of each load that is out.
Indexed ==
  /\ LoadOut => index[tx[1].id] = tx[1].word
  /\ \A l \in loads : index[l.id] = l.word
  /\ \A i \in 1 .. Len(rspq) : index[rspq[i].id] = rspq[i].word

\* A word that was asked for is in its place or on its way.
OnItsWay(w) ==
  \/ LoadOut /\ tx[1].word = w
  \/ \E l \in loads : l.word = w
  \/ \E i \in 1 .. Len(rspq) : rspq[i].word = w
Filled == op = "read" => \A w \in 1 .. rqst : data[w] = w \/ OnItsWay(w)

IInv == Typed /\ Stages /\ Pending /\ Promised /\ Credits /\ DistinctIds /\ Indexed /\ Filled

-----------------------------------------------------------------------------

\* What the types say of the places a load can be in.
LEMMA Places ==
  ASSUME Typed
  PROVE  /\ Cardinality(loads) \in Nat /\ Len(rspq) \in Nat /\ Len(ids) \in Nat
         /\ OutCount \in {0, 1} /\ Expected \in Nat
         /\ Len(tx) \in {0, 1} /\ (tx = <<>> <=> Len(tx) = 0)
         /\ LoadOut => tx = <<tx[1]>> /\ tx[1] \in LoadPacket /\ OutCount = 1 /\ Len(tx) = 1
         /\ ~LoadOut => OutCount = 0
         /\ tx # <<>> => Head(tx) = tx[1] /\ (LoadOut <=> Head(tx).kind = "load")
<1>1. Cardinality(loads) \in Nat
  BY FS_CardinalityType DEF Typed, HostTyped, ClockTyped, TableTyped, PlaceTyped
<1>2. Len(rspq) \in Nat /\ Len(ids) \in Nat
  BY LenProperties DEF Typed, HostTyped, ClockTyped, TableTyped, PlaceTyped
<1>3. CASE tx = <<>>
  BY <1>1, <1>2, <1>3 DEF LoadOut, OutCount, Expected
<1>4. CASE tx # <<>>
  <2>1. PICK pkt \in LoadPacket \cup OtherPacket : tx = <<pkt>>
    BY <1>4 DEF Typed, HostTyped, ClockTyped, TableTyped, PlaceTyped
  <2>2. tx[1] = pkt /\ Len(tx) = 1 /\ Head(tx) = tx[1]
    BY <2>1
  <2>3. pkt.kind = "load" => pkt \in LoadPacket
    BY DEF LoadPacket, OtherPacket
  <2>4. QED
    BY <1>1, <1>2, <1>4, <2>1, <2>2, <2>3 DEF LoadOut, OutCount, Expected
<1>5. QED
  BY <1>3, <1>4

\* A load id popped from the stack.
LEMMA PopEffect ==
  ASSUME NEW s \in Seq(Ids), s # <<>>
  PROVE  /\ Head(s) = s[1] /\ Head(s) \in Ids /\ Tail(s) \in Seq(Ids)
         /\ Len(s) \in Nat /\ Len(s) >= 1 /\ Len(Tail(s)) = Len(s) - 1
         /\ \A i \in 1 .. Len(Tail(s)) : Tail(s)[i] = s[i + 1]
  BY HeadTailProperties, EmptySeq, LenProperties

\* A load id pushed on the stack.
LEMMA PushEffect ==
  ASSUME NEW s \in Seq(Ids), NEW x \in Ids
  PROVE  /\ <<x>> \o s \in Seq(Ids)
         /\ Len(s) \in Nat /\ Len(<<x>> \o s) = Len(s) + 1
         /\ (<<x>> \o s)[1] = x
         /\ \A i \in 2 .. Len(s) + 1 : (<<x>> \o s)[i] = s[i - 1]
<1>1. <<x>> \in Seq(Ids) /\ Len(<<x>>) = 1 /\ <<x>>[1] = x
  OBVIOUS
<1>2. Len(s) \in Nat
  BY LenProperties
<1>3. /\ <<x>> \o s \in Seq(Ids)
      /\ Len(<<x>> \o s) = 1 + Len(s)
      /\ \A i \in 1 .. 1 + Len(s) : (<<x>> \o s)[i] = IF i <= 1 THEN <<x>>[i] ELSE s[i - 1]
  BY <1>1, ConcatProperties
<1>4. QED
  BY <1>1, <1>2, <1>3

\* An answer taken from the interface.
LEMMA TakeEffect ==
  ASSUME NEW s \in Seq(Loads), s # <<>>
  PROVE  /\ Head(s) = s[1] /\ Head(s) \in Loads /\ Tail(s) \in Seq(Loads)
         /\ Len(s) \in Nat /\ Len(s) >= 1 /\ Len(Tail(s)) = Len(s) - 1
         /\ \A i \in 1 .. Len(Tail(s)) : Tail(s)[i] = s[i + 1]
  BY HeadTailProperties, EmptySeq, LenProperties

\* An answer put into the interface.
LEMMA PutEffect ==
  ASSUME NEW s \in Seq(Loads), NEW l \in Loads
  PROVE  /\ Append(s, l) \in Seq(Loads)
         /\ Len(s) \in Nat /\ Len(Append(s, l)) = Len(s) + 1
         /\ Append(s, l)[Len(s) + 1] = l
         /\ \A i \in 1 .. Len(s) : Append(s, l)[i] = s[i]
  BY LenProperties

-----------------------------------------------------------------------------

LEMMA InitInv == Init => IInv
<1>1. SUFFICES ASSUME Init PROVE IInv
  OBVIOUS
<1>2. Cardinality(loads) = 0 /\ IsFiniteSet(loads)
  BY <1>1, FS_EmptySet DEF Init
<1>3. Typed
  <2>1. HostTyped
    BY <1>1, MaxCntAssumption, MaxOutAssumption DEF Init, HostTyped, Ops
  <2>2. TableTyped
    BY <1>1, MaxCntAssumption, EmptySeq DEF Init, TableTyped
  <2>3. PlaceTyped
    BY <1>1, <1>2, CapAssumption, EmptySeq DEF Init, PlaceTyped
  <2>4. ClockTyped
    BY <1>1 DEF Init, ClockTyped
  <2>5. QED
    BY <2>1, <2>2, <2>3, <2>4 DEF Typed
<1>4. ~LoadOut /\ Expected = 0
  BY <1>1, <1>2 DEF Init, LoadOut, OutCount, Expected
<1>5. Stages /\ Pending /\ Promised
  BY <1>1, <1>4, CapAssumption DEF Init, Stages, Pending, Promised
<1>6. Credits
  BY <1>1, <1>2, MaxOutAssumption DEF Init, Credits
<1>7. DistinctIds /\ Indexed /\ Filled
  BY <1>1, <1>4 DEF Init, DistinctIds, FreeIds, OutIds, NetIds, AnswerIds, Indexed, Filled
<1>8. QED
  BY <1>3, <1>5, <1>6, <1>7 DEF IInv

\* A call starts: no load of an earlier one is anywhere.
LEMMA BeginStep == IInv /\ BeginCall => IInv'
<1>1. SUFFICES ASSUME IInv, NEW o \in Ops, NEW n \in 0 .. MaxCnt, Begin(o, n)  PROVE IInv'
  BY MaxCntAssumption DEF BeginCall, Ops, Words
<1>2. op = "idle" /\ Expected = 0
  BY <1>1 DEF IInv, Pending, Begin
<1>3. ~LoadOut /\ loads = {} /\ Len(rspq) = 0
  <2>1. OutCount = 0 /\ Cardinality(loads) = 0 /\ Len(rspq) = 0
    BY <1>1, <1>2, Places DEF IInv, Expected
  <2>2. QED
    BY <1>1, <2>1, FS_EmptySet, Places DEF IInv, Typed, HostTyped, ClockTyped, TableTyped, PlaceTyped
<1>4. tx' = tx /\ loads' = loads /\ rspq' = rspq /\ room' = room /\ stores' = stores
  BY <1>1 DEF Begin, dpiVars, netVars
<1>5. ~LoadOut' /\ loads' = {} /\ Len(rspq') = 0 /\ Expected' = Expected
  BY <1>3, <1>4 DEF LoadOut, OutCount, Expected
<1>6. ids' \in Seq(Ids) /\ \A i \in 1 .. Len(ids') : ids'[i] = i
  <2>1. ids' = [i \in 1 .. LoadCap |-> i] /\ LoadCap \in Nat
    BY <1>1, CapAssumption DEF Begin, Ids
  <2>2. QED
    BY <2>1 DEF Ids
<1>7. Typed'
  <2>1. HostTyped'
    BY <1>1, MaxCntAssumption, MaxOutAssumption DEF HostTyped, Begin, Ops
  <2>2. TableTyped'
    BY <1>1, <1>6, MaxCntAssumption DEF TableTyped, Begin
  <2>3. PlaceTyped'
    BY <1>1 DEF IInv, Typed, PlaceTyped, Begin, dpiVars, netVars
  <2>4. ClockTyped'
    BY <1>1 DEF IInv, Typed, ClockTyped, Begin, dpiVars
  <2>5. QED
    BY <2>1, <2>2, <2>3, <2>4 DEF Typed
<1>8. Stages' /\ Pending' /\ Promised' /\ Credits'
  BY <1>1, <1>2, <1>4, <1>5 DEF IInv, Stages, Pending, Promised, Credits, Begin, Ops
<1>9. DistinctIds' /\ Indexed' /\ Filled'
  BY <1>1, <1>5, <1>6 DEF DistinctIds, FreeIds, OutIds, NetIds, AnswerIds, Indexed, Filled, Begin
<1>10. QED
  BY <1>7, <1>8, <1>9 DEF IInv

\* The places and the ids stay as they are.
LEMMA Unmoved ==
  ASSUME IInv, UNCHANGED <<tx, rspq, loads, ids, index, stores, room>>
  PROVE  /\ Expected' = Expected /\ Promised' /\ Credits' /\ DistinctIds' /\ Indexed'
         /\ \A w : OnItsWay(w) => OnItsWay(w)'
<1>1. LoadOut' = LoadOut /\ Expected' = Expected
  BY DEF LoadOut, OutCount, Expected
<1>2. Promised' /\ Credits'
  BY <1>1 DEF IInv, Promised, Credits
<1>3. DistinctIds' /\ Indexed'
  BY <1>1 DEF IInv, DistinctIds, FreeIds, OutIds, NetIds, AnswerIds, Indexed
<1>4. \A w : OnItsWay(w) => OnItsWay(w)'
  BY <1>1 DEF OnItsWay
<1>5. QED
  BY <1>1, <1>2, <1>3, <1>4

\* The interface does not accept the packet.
LEMMA RefusedStep ==
  ASSUME IInv, Transmit, ~Accepts(Packet)
  PROVE  IInv'
<1>1. UNCHANGED <<op, pc, cnt, rqst, rsp, ids, index, data, used, open, room, tx, rspq, stores, loads>>
      /\ seen' = FALSE
  BY DEF Transmit, netVars
<1>2. Typed' /\ Stages'
  BY <1>1 DEF IInv, Typed, HostTyped, ClockTyped, TableTyped, PlaceTyped, Stages
<1>3. Pending' /\ Filled'
  BY <1>1, Unmoved DEF IInv, Pending, Filled
<1>4. QED
  BY <1>1, <1>2, <1>3, Unmoved DEF IInv

\* A load goes out with the load id on top of the stack.
LEMMA SendLoadStep ==
  ASSUME IInv, Transmit, Accepts(Packet), op = "read"
  PROVE  IInv'
<1> DEFINE x == Head(ids)
<1> DEFINE v == rqst + 1
<1>1. Typed
  BY DEF IInv
<1>2. ids # <<>> /\ rqst < cnt /\ tx = <<>> /\ room > 0
      /\ Packet = [kind |-> "load", id |-> x, word |-> v]
      /\ stores + Cardinality(loads) < MaxOut
  BY DEF Transmit, MoreRequests, Packet, Accepts, ExpectResponse, InNetwork
<1>3. /\ x = ids[1] /\ x \in Ids /\ Tail(ids) \in Seq(Ids)
      /\ Len(ids) \in Nat /\ Len(ids) >= 1 /\ Len(Tail(ids)) = Len(ids) - 1
      /\ \A i \in 1 .. Len(Tail(ids)) : Tail(ids)[i] = ids[i + 1]
  BY <1>1, <1>2, PopEffect DEF Typed, HostTyped, ClockTyped, TableTyped, PlaceTyped
<1>4. /\ tx' = <<Packet>> /\ room' = room - 1 /\ rqst' = v /\ ids' = Tail(ids)
      /\ index' = [index EXCEPT ![x] = v]
      /\ UNCHANGED <<op, pc, cnt, rsp, data, used, open, rspq, stores, loads>> /\ seen' = FALSE
  BY <1>2 DEF Transmit, Send, ExpectResponse, netVars
<1>5. v \in Words /\ Packet \in LoadPacket
  BY <1>1, <1>2, <1>3, MaxCntAssumption DEF Typed, HostTyped, ClockTyped, TableTyped, PlaceTyped, Words, LoadPacket
<1>6. ~LoadOut /\ LoadOut' /\ tx'[1] = Packet /\ tx'[1].id = x /\ tx'[1].word = v /\ Len(tx') = 1
  BY <1>2, <1>4 DEF LoadOut
<1>7. Typed'
  <2>1. HostTyped'
    BY <1>1, <1>2, <1>4 DEF Typed, HostTyped
  <2>2. TableTyped'
    BY <1>1, <1>3, <1>4, <1>5 DEF Typed, TableTyped, Words
  <2>3. PlaceTyped'
    BY <1>1, <1>2, <1>4, <1>5 DEF Typed, PlaceTyped
  <2>4. ClockTyped'
    BY <1>1, <1>4 DEF Typed, ClockTyped
  <2>5. QED
    BY <2>1, <2>2, <2>3, <2>4 DEF Typed
<1>8. Expected' = Expected + 1
  BY <1>1, <1>4, <1>6, Places DEF OutCount, Expected
<1>9. Stages' /\ Pending' /\ Promised'
  BY <1>1, <1>2, <1>4, <1>8, Places DEF IInv, Stages, Pending, Promised, Typed, HostTyped, ClockTyped, TableTyped, PlaceTyped
<1>10. Credits'
  BY <1>1, <1>2, <1>4, <1>6, Places, MaxOutAssumption DEF Credits, Typed, HostTyped, ClockTyped, TableTyped, PlaceTyped
<1>11. DistinctIds'
  <2>1. FreeIds' /\ \A i \in 1 .. Len(ids') : ids'[i] # x
    BY <1>3, <1>4 DEF IInv, DistinctIds, FreeIds
  <2>2. \A l \in loads : l.id # x /\ \A i \in 1 .. Len(ids') : l.id # ids'[i]
    BY <1>3, <1>4 DEF IInv, DistinctIds, NetIds
  <2>3. \A i \in 1 .. Len(rspq) : rspq[i].id # x /\ \A j \in 1 .. Len(ids') : rspq[i].id # ids'[j]
    BY <1>3, <1>4 DEF IInv, DistinctIds, AnswerIds
  <2>4. OutIds'
    BY <1>6, <2>1 DEF OutIds
  <2>5. NetIds'
    BY <1>4, <1>6, <2>2 DEF IInv, DistinctIds, NetIds
  <2>6. AnswerIds'
    BY <1>4, <1>6, <2>3 DEF IInv, DistinctIds, AnswerIds
  <2>7. QED
    BY <2>1, <2>4, <2>5, <2>6 DEF DistinctIds
<1>12. Indexed'
  <2>1. index'[x] = v /\ \A i \in Ids \ {x} : index'[i] = index[i]
    BY <1>1, <1>3, <1>4 DEF Typed, HostTyped, ClockTyped, TableTyped, PlaceTyped
  <2>2. \A l \in loads : l.id \in Ids \ {x} /\ index[l.id] = l.word
    BY <1>1, <1>3 DEF IInv, DistinctIds, NetIds, Indexed, Typed, HostTyped, ClockTyped, TableTyped, PlaceTyped, Loads
  <2>3. \A i \in 1 .. Len(rspq) : rspq[i].id \in Ids \ {x} /\ index[rspq[i].id] = rspq[i].word
    <3>1. \A i \in 1 .. Len(rspq) : rspq[i] \in Loads
      BY <1>1, ElementOfSeq DEF Typed, HostTyped, ClockTyped, TableTyped, PlaceTyped
    <3>2. QED
      BY <1>3, <3>1 DEF IInv, DistinctIds, AnswerIds, Indexed, Loads
  <2>4. QED
    BY <1>4, <1>6, <2>1, <2>2, <2>3 DEF Indexed
<1>13. Filled'
  <2>1. \A w : OnItsWay(w) => OnItsWay(w)'
    BY <1>4, <1>6 DEF OnItsWay
  <2>2. OnItsWay(rqst)'
    BY <1>4, <1>6 DEF OnItsWay
  <2>3. \A w \in 1 .. v : w \in 1 .. rqst \/ w = v
    BY <1>1 DEF Typed, HostTyped, ClockTyped, TableTyped, PlaceTyped
  <2>4. ASSUME NEW w \in 1 .. rqst'  PROVE data'[w] = w \/ OnItsWay(w)'
    <3>1. CASE w = rqst'
      BY <2>2, <3>1
    <3>2. CASE w \in 1 .. rqst
      BY <1>4, <2>1, <3>2 DEF IInv, Filled
    <3>3. QED
      BY <1>4, <2>3, <2>4, <3>1, <3>2
  <2>5. QED
    BY <2>4 DEF Filled
<1>14. QED
  BY <1>7, <1>9, <1>10, <1>11, <1>12, <1>13 DEF IInv

\* A store or a cache operation goes out.
LEMMA SendOtherStep ==
  ASSUME IInv, Transmit, Accepts(Packet), op # "read"
  PROVE  IInv'
<1>1. Typed
  BY DEF IInv
<1>2. Packet \in OtherPacket /\ Packet.kind \in {"store", "cache_op"} /\ ~ExpectResponse(Packet)
  BY DEF Packet, OtherPacket, ExpectResponse
<1>3. rqst < cnt /\ tx = <<>> /\ stores + Cardinality(loads) < MaxOut
  BY DEF Transmit, MoreRequests, Accepts, InNetwork
<1>4. /\ tx' = <<Packet>> /\ room' = room /\ rqst' = rqst + 1
      /\ UNCHANGED <<op, pc, cnt, rsp, ids, index, data, used, open, rspq, stores, loads>>
      /\ seen' = FALSE
  BY <1>2 DEF Transmit, Send, netVars
<1>5. ~LoadOut /\ ~LoadOut' /\ Len(tx') = 1
  BY <1>2, <1>3, <1>4 DEF LoadOut
<1>6. Typed'
  <2>1. HostTyped'
    BY <1>1, <1>3, <1>4 DEF Typed, HostTyped
  <2>2. TableTyped'
    BY <1>1, <1>4 DEF Typed, TableTyped
  <2>3. PlaceTyped'
    BY <1>1, <1>2, <1>3, <1>4 DEF Typed, PlaceTyped
  <2>4. ClockTyped'
    BY <1>1, <1>4 DEF Typed, ClockTyped
  <2>5. QED
    BY <2>1, <2>2, <2>3, <2>4 DEF Typed
<1>7. Expected' = Expected
  BY <1>4, <1>5 DEF OutCount, Expected
<1>8. Stages' /\ Pending' /\ Promised' /\ Filled'
  BY <1>4, <1>7 DEF IInv, Stages, Pending, Promised, Filled
<1>9. Credits'
  BY <1>1, <1>3, <1>4, <1>5, Places, MaxOutAssumption DEF Credits, Typed, HostTyped, ClockTyped, TableTyped, PlaceTyped
<1>10. DistinctIds' /\ Indexed'
  BY <1>4, <1>5 DEF IInv, DistinctIds, FreeIds, OutIds, NetIds, AnswerIds, Indexed
<1>11. QED
  BY <1>6, <1>8, <1>9, <1>10 DEF IInv

\* No answer is there: the host will ask again.
LEMMA NoAnswerStep ==
  ASSUME IInv, Receive, ~(open /\ rspq # <<>>)
  PROVE  IInv'
<1>1. UNCHANGED <<op, pc, cnt, rqst, rsp, ids, index, data, used, open, room, tx, rspq, stores, loads>>
      /\ seen' = FALSE
  BY DEF Receive, netVars
<1>2. Typed' /\ Stages'
  BY <1>1 DEF IInv, Typed, HostTyped, ClockTyped, TableTyped, PlaceTyped, Stages
<1>3. Pending' /\ Filled'
  BY <1>1, Unmoved DEF IInv, Pending, Filled
<1>4. QED
  BY <1>1, <1>2, <1>3, Unmoved DEF IInv

\* The oldest answer goes to the place its load was sent for.
LEMMA AnswerStep ==
  ASSUME IInv, Receive, open, rspq # <<>>
  PROVE  IInv'
<1> DEFINE r == Head(rspq)
<1>1. Typed
  BY DEF IInv
<1>2. op = "read" /\ rsp < rqst /\ pc \in {"loop", "recv"}
  BY DEF Receive, Receiving
<1>3. /\ r = rspq[1] /\ r \in Loads /\ Tail(rspq) \in Seq(Loads)
      /\ Len(rspq) \in Nat /\ Len(rspq) >= 1 /\ Len(Tail(rspq)) = Len(rspq) - 1
      /\ \A i \in 1 .. Len(Tail(rspq)) : Tail(rspq)[i] = rspq[i + 1]
  BY <1>1, TakeEffect DEF Typed, PlaceTyped
<1>4. r.id \in Ids /\ r.word \in Words /\ index[r.id] = r.word
  BY <1>3 DEF IInv, Indexed, Loads
<1>5. /\ rspq' = Tail(rspq) /\ room' = room + 1 /\ rsp' = rsp + 1
      /\ data' = [data EXCEPT ![r.word] = r.word] /\ ids' = <<r.id>> \o ids
      /\ pc' \in {"loop", "recv"}
      /\ UNCHANGED <<op, cnt, rqst, index, used, open, tx, stores, loads>> /\ seen' = FALSE
  BY <1>4 DEF Receive, TakeResponse, netVars
<1>6. /\ ids' \in Seq(Ids) /\ Len(ids) \in Nat /\ Len(ids') = Len(ids) + 1 /\ ids'[1] = r.id
      /\ \A i \in 2 .. Len(ids) + 1 : ids'[i] = ids[i - 1]
  BY <1>1, <1>4, <1>5, PushEffect DEF Typed, TableTyped
<1>7. LoadOut' = LoadOut /\ Expected' = Expected - 1
  BY <1>1, <1>3, <1>5, Places DEF LoadOut, OutCount, Expected
<1>8. Typed'
  <2>1. HostTyped'
    BY <1>1, <1>2, <1>5 DEF Typed, HostTyped
  <2>2. ClockTyped'
    BY <1>1, <1>5 DEF Typed, ClockTyped
  <2>3. TableTyped'
    BY <1>1, <1>4, <1>5, <1>6 DEF Typed, TableTyped, Words
  <2>4. PlaceTyped'
    BY <1>1, <1>3, <1>5 DEF Typed, PlaceTyped
  <2>5. QED
    BY <2>1, <2>2, <2>3, <2>4 DEF Typed
<1>9. Stages' /\ Credits'
  BY <1>2, <1>5 DEF IInv, Stages, Credits
<1>10. Pending' /\ Promised'
  <2>1. Expected \in Nat /\ room \in Nat /\ rsp \in Int /\ rqst \in Int /\ RspCap \in Nat
    BY <1>1, Places, CapAssumption, MaxCntAssumption DEF Typed, HostTyped, PlaceTyped
  <2>2. Expected = rqst - rsp /\ room + Expected = RspCap
    BY <1>2 DEF IInv, Pending, Promised
  <2>3. Expected' = rqst' - rsp' /\ room' + Expected' = RspCap
    BY <1>5, <1>7, <2>1, <2>2
  <2>4. QED
    BY <1>2, <1>5, <2>3 DEF Pending, Promised
<1>11. DistinctIds'
  <2>1. \A i \in 1 .. Len(ids) : r.id # ids[i]
    BY <1>3 DEF IInv, DistinctIds, AnswerIds
  <2>2. \A i \in 1 .. Len(ids') : ids'[i] = r.id \/ \E j \in 1 .. Len(ids) : j = i - 1 /\ ids'[i] = ids[j]
    BY <1>6
  <2>3. \A i \in 1 .. Len(rspq') :
          rspq'[i] = rspq[i + 1] /\ i + 1 \in 1 .. Len(rspq) /\ rspq'[i].id # r.id
    BY <1>3, <1>5 DEF IInv, DistinctIds, AnswerIds
  <2>4. FreeIds'
    <3>1. FreeIds
      BY DEF IInv, DistinctIds
    <3>2. SUFFICES ASSUME NEW i \in 1 .. Len(ids'), NEW j \in 1 .. Len(ids'), i # j
          PROVE  ids'[i] # ids'[j]
      BY DEF FreeIds
    <3>3. i \in Nat /\ j \in Nat /\ (i = 1 \/ i \in 2 .. Len(ids) + 1)
          /\ (j = 1 \/ j \in 2 .. Len(ids) + 1)
      BY <1>6
    <3>4. CASE i = 1
      BY <1>6, <2>1, <3>2, <3>3, <3>4
    <3>5. CASE j = 1
      BY <1>6, <2>1, <3>2, <3>3, <3>5
    <3>6. CASE i # 1 /\ j # 1
      BY <1>6, <3>1, <3>2, <3>3, <3>6 DEF FreeIds
    <3>7. QED
      BY <3>4, <3>5, <3>6
  <2>5. OutIds'
    <3>1. OutIds /\ AnswerIds
      BY DEF IInv, DistinctIds
    <3>2. LoadOut => tx[1].id # r.id
      BY <1>3, <3>1 DEF AnswerIds
    <3>3. LoadOut => \A i \in 1 .. Len(ids') : tx[1].id # ids'[i]
      BY <2>2, <3>1, <3>2 DEF OutIds
    <3>4. QED
      BY <1>5, <1>7, <3>3 DEF OutIds
  <2>6. NetIds'
    <3>1. NetIds /\ AnswerIds
      BY DEF IInv, DistinctIds
    <3>2. \A l \in loads : l.id # r.id
      BY <1>3, <3>1 DEF AnswerIds
    <3>3. \A l \in loads : \A i \in 1 .. Len(ids') : l.id # ids'[i]
      BY <2>2, <3>1, <3>2 DEF NetIds
    <3>4. QED
      BY <1>5, <1>7, <3>1, <3>3 DEF NetIds
  <2>7. AnswerIds'
    <3>1. SUFFICES ASSUME NEW i \in 1 .. Len(rspq')
          PROVE  /\ \A j \in 1 .. Len(rspq') : i # j => rspq'[i].id # rspq'[j].id
                 /\ \A l \in loads : rspq'[i].id # l.id
                 /\ LoadOut => rspq'[i].id # tx[1].id
                 /\ \A j \in 1 .. Len(ids') : rspq'[i].id # ids'[j]
      BY <1>5, <1>7 DEF AnswerIds
    <3>2. \A j \in 1 .. Len(rspq') : i # j => rspq'[i].id # rspq'[j].id
      BY <1>3, <1>5, <2>3 DEF IInv, DistinctIds, AnswerIds
    <3>3. QED
      BY <2>2, <2>3, <3>2 DEF IInv, DistinctIds, AnswerIds
  <2>8. QED
    BY <2>4, <2>5, <2>6, <2>7 DEF DistinctIds
<1>12. Indexed'
  <2>1. \A i \in 1 .. Len(rspq') : rspq'[i] = rspq[i + 1] /\ i + 1 \in 1 .. Len(rspq)
    BY <1>3, <1>5
  <2>2. QED
    BY <1>5, <1>7, <2>1 DEF IInv, Indexed
<1>13. Filled'
  <2>1. SUFFICES ASSUME NEW w \in 1 .. rqst  PROVE data'[w] = w \/ OnItsWay(w)'
    BY <1>5 DEF Filled
  <2>2. w \in Words
    BY <1>1, MaxCntAssumption DEF Typed, HostTyped, Words
  <2>3. CASE w = r.word
    BY <1>1, <1>4, <1>5, <2>3 DEF Typed, TableTyped
  <2>4. CASE w # r.word
    <3>1. data'[w] = data[w]
      BY <1>1, <1>4, <1>5, <2>2, <2>4 DEF Typed, TableTyped
    <3>2. CASE data[w] = w
      BY <3>1, <3>2
    <3>3. CASE \E i \in 1 .. Len(rspq) : rspq[i].word = w
      <4>1. PICK i \in 1 .. Len(rspq) : rspq[i].word = w
        BY <3>3
      <4>2. i # 1 /\ i - 1 \in 1 .. Len(rspq') /\ rspq'[i - 1] = rspq[i]
        BY <1>3, <1>5, <2>4, <4>1
      <4>3. QED
        BY <4>1, <4>2 DEF OnItsWay
    <3>4. CASE (LoadOut /\ tx[1].word = w) \/ \E l \in loads : l.word = w
      BY <1>5, <1>7, <3>4 DEF OnItsWay
    <3>5. QED
      BY <1>2, <3>2, <3>3, <3>4 DEF IInv, Filled, OnItsWay
  <2>5. QED
    BY <2>3, <2>4
<1>14. QED
  BY <1>8, <1>9, <1>10, <1>11, <1>12, <1>13 DEF IInv

\* A call has sent its requests and has its answers: none is out.
LEMMA LoopDoneStep ==
  ASSUME IInv, LoopDone
  PROVE  IInv'
<1>1. UNCHANGED <<cnt, rqst, rsp, ids, index, data, used, open, room, tx, rspq, stores, loads>>
      /\ seen' = FALSE
  BY DEF LoopDone, dpiVars, netVars
<1>2. /\ op = "read" => rsp = rqst
      /\ \/ op = "write" /\ op' = op /\ pc' = "fence"
         \/ op' = "idle" /\ pc' = "idle"
  BY DEF LoopDone, Sent, Return
<1>3. Typed'
  BY <1>1, <1>2 DEF IInv, Typed, HostTyped, ClockTyped, TableTyped, PlaceTyped
<1>4. Stages' /\ Filled'
  BY <1>2 DEF IInv, Stages, Filled
<1>5. Pending'
  BY <1>1, <1>2, Unmoved DEF IInv, Pending, Typed, HostTyped
<1>6. QED
  BY <1>1, <1>3, <1>4, <1>5, Unmoved DEF IInv

\* The two reads of the fence.
LEMMA FenceStep ==
  ASSUME IInv, FenceCredits \/ FenceVacant
  PROVE  IInv'
<1>1. UNCHANGED <<cnt, rqst, rsp, ids, index, data, open, room, tx, rspq, stores, loads>>
  BY DEF FenceCredits, FenceVacant, dpiVars, netVars
<1>2. /\ op \in {"fence", "write"}
      /\ op' \in {op, "idle"} /\ pc' \in {"fence", "vacant", "idle"}
      /\ (op' = "idle" <=> pc' = "idle")
      /\ used' \in {used, stores + Cardinality(loads)} /\ seen' \in {FALSE, open}
  BY DEF IInv, Stages, FenceCredits, FenceVacant, Return, InNetwork
<1>3. Typed'
  <2>1. stores + Cardinality(loads) \in 0 .. MaxOut
    BY Places, MaxOutAssumption DEF IInv, Credits, Typed, PlaceTyped
  <2>2. HostTyped'
    BY <1>1, <1>2, <2>1 DEF IInv, Typed, HostTyped
  <2>3. ClockTyped'
    BY <1>1, <1>2 DEF IInv, Typed, ClockTyped
  <2>4. QED
    BY <1>1, <2>2, <2>3 DEF IInv, Typed, TableTyped, PlaceTyped
<1>4. Stages' /\ Filled'
  BY <1>2 DEF Stages, Filled
<1>5. Pending'
  BY <1>1, <1>2, Unmoved DEF IInv, Pending
<1>6. QED
  BY <1>1, <1>3, <1>4, <1>5, Unmoved DEF IInv

-----------------------------------------------------------------------------

\* What every evaluation leaves to the host.
LEMMA EvaluateEffect ==
  ASSUME IInv, Evaluate
  PROVE  /\ UNCHANGED <<op, pc, cnt, rqst, rsp, ids, index, data, used, room>>
         /\ HostTyped' /\ ClockTyped' /\ TableTyped' /\ Stages'
<1>1. UNCHANGED <<op, pc, cnt, rqst, rsp, ids, index, data, used, room>>
      /\ seen' = TRUE /\ open' = ~open
  BY DEF Evaluate
<1>2. ClockTyped'
  BY <1>1 DEF IInv, Typed, ClockTyped
<1>3. HostTyped' /\ TableTyped' /\ Stages'
  BY <1>1 DEF IInv, Typed, HostTyped, TableTyped, Stages
<1>4. QED
  BY <1>1, <1>2, <1>3

\* Time passes, and at most a store is done.
LEMMA QuietStep ==
  ASSUME IInv, NothingHappens \/ StoreDone
  PROVE  IInv'
<1>1. Evaluate /\ UNCHANGED <<tx, rspq, loads>>
  BY DEF NothingHappens, StoreDone, netVars
<1>2. stores' \in Nat /\ stores' <= stores
  BY DEF NothingHappens, StoreDone, netVars, IInv, Typed, PlaceTyped
<1>3. Typed'
  BY <1>1, <1>2, EvaluateEffect DEF IInv, Typed, PlaceTyped
<1>4. LoadOut' = LoadOut /\ Expected' = Expected
  BY <1>1 DEF LoadOut, OutCount, Expected
<1>5. Pending' /\ Promised' /\ Stages'
  BY <1>1, <1>4, EvaluateEffect DEF IInv, Pending, Promised
<1>6. Credits'
  BY <1>1, <1>2, Places, MaxOutAssumption DEF IInv, Credits, Typed, PlaceTyped
<1>7. DistinctIds' /\ Indexed'
  BY <1>1, <1>4, EvaluateEffect DEF IInv, DistinctIds, FreeIds, OutIds, NetIds, AnswerIds, Indexed
<1>8. Filled'
  BY <1>1, <1>4, EvaluateEffect DEF IInv, Filled, OnItsWay
<1>9. QED
  BY <1>3, <1>5, <1>6, <1>7, <1>8 DEF IInv

\* The endpoint takes a load.
LEMMA TakesLoadStep ==
  ASSUME IInv, EndpointTakes, LoadOut
  PROVE  IInv'
<1> DEFINE l == [id |-> tx[1].id, word |-> tx[1].word]
<1>1. Typed /\ Evaluate
  BY DEF IInv, EndpointTakes
<1>2. tx[1] \in LoadPacket /\ Len(tx) = 1 /\ OutCount = 1 /\ Head(tx) = tx[1] /\ tx[1].kind = "load"
  BY <1>1, Places DEF LoadOut
<1>3. tx' = <<>> /\ loads' = loads \cup {l} /\ UNCHANGED <<stores, rspq>>
  BY <1>2 DEF EndpointTakes
<1>4. ~LoadOut' /\ Len(tx') = 0 /\ OutCount' = 0
  BY <1>3 DEF LoadOut, OutCount
<1>5. l \in Loads /\ l.id = tx[1].id /\ l.word = tx[1].word
  BY <1>2 DEF LoadPacket, Loads
<1>6. l \notin loads
  BY <1>5, LoadOut DEF IInv, DistinctIds, NetIds
<1>7. IsFiniteSet(loads') /\ Cardinality(loads') = Cardinality(loads) + 1
  BY <1>1, <1>3, <1>6, FS_AddElement DEF Typed, PlaceTyped
<1>8. Typed'
  BY <1>1, <1>3, <1>5, <1>7, EvaluateEffect DEF Typed, PlaceTyped
<1>9. Expected' = Expected
  BY <1>1, <1>2, <1>3, <1>4, <1>7, Places DEF Expected
<1>10. Stages' /\ Pending' /\ Promised'
  BY <1>1, <1>9, EvaluateEffect DEF IInv, Pending, Promised
<1>11. Credits'
  BY <1>1, <1>2, <1>3, <1>4, <1>7, Places, MaxOutAssumption DEF IInv, Credits, Typed, PlaceTyped
<1>12. DistinctIds'
  <2>1. FreeIds' /\ OutIds'
    BY <1>1, <1>4, EvaluateEffect DEF IInv, DistinctIds, FreeIds, OutIds
  <2>2. /\ \A k \in loads : k.id # l.id
        /\ \A i \in 1 .. Len(ids) : l.id # ids[i]
        /\ \A i \in 1 .. Len(rspq) : rspq[i].id # l.id
    BY <1>5, LoadOut DEF IInv, DistinctIds, OutIds, NetIds, AnswerIds
  <2>3. NetIds'
    BY <1>1, <1>3, <1>4, <2>2, EvaluateEffect DEF IInv, DistinctIds, NetIds
  <2>4. AnswerIds'
    BY <1>1, <1>3, <1>4, <2>2, EvaluateEffect DEF IInv, DistinctIds, AnswerIds
  <2>5. QED
    BY <2>1, <2>3, <2>4 DEF DistinctIds
<1>13. Indexed'
  BY <1>1, <1>3, <1>4, <1>5, LoadOut, EvaluateEffect DEF IInv, Indexed
<1>14. Filled'
  <2>1. \A w : OnItsWay(w) => OnItsWay(w)'
    BY <1>3, <1>5 DEF OnItsWay
  <2>2. QED
    BY <1>1, <2>1, EvaluateEffect DEF IInv, Filled
<1>15. QED
  BY <1>8, <1>10, <1>11, <1>12, <1>13, <1>14 DEF IInv

\* The endpoint takes a store or a cache operation.
LEMMA TakesOtherStep ==
  ASSUME IInv, EndpointTakes, ~LoadOut
  PROVE  IInv'
<1>1. Typed /\ Evaluate /\ tx # <<>>
  BY DEF IInv, EndpointTakes
<1>2. Len(tx) = 1 /\ Head(tx).kind # "load"
  BY <1>1, Places DEF LoadOut
<1>3. tx' = <<>> /\ stores' = stores + 1 /\ UNCHANGED <<loads, rspq>>
  BY <1>2 DEF EndpointTakes
<1>4. ~LoadOut' /\ Len(tx') = 0 /\ OutCount' = OutCount
  BY <1>3 DEF LoadOut, OutCount
<1>5. Typed'
  BY <1>1, <1>3, EvaluateEffect DEF Typed, PlaceTyped
<1>6. Expected' = Expected
  BY <1>3, <1>4 DEF Expected
<1>7. Stages' /\ Pending' /\ Promised'
  BY <1>1, <1>6, EvaluateEffect DEF IInv, Pending, Promised
<1>8. Credits'
  BY <1>1, <1>2, <1>3, <1>4, Places, MaxOutAssumption DEF IInv, Credits, Typed, PlaceTyped
<1>9. DistinctIds' /\ Indexed'
  BY <1>1, <1>3, <1>4, EvaluateEffect DEF IInv, DistinctIds, FreeIds, OutIds, NetIds, AnswerIds, Indexed
<1>10. Filled'
  BY <1>1, <1>3, EvaluateEffect DEF IInv, Filled, OnItsWay
<1>11. QED
  BY <1>5, <1>7, <1>8, <1>9, <1>10 DEF IInv

\* The network answers a load, and the interface has room for the answer.
LEMMA LoadDoneStep ==
  ASSUME IInv, NEW l \in loads, LoadDone(l)
  PROVE  IInv'
<1>1. Typed /\ Evaluate /\ l \in Loads
  BY DEF IInv, LoadDone, Typed, PlaceTyped
<1>2. IsFiniteSet(loads \ {l}) /\ Cardinality(loads \ {l}) = Cardinality(loads) - 1
  BY <1>1, FS_RemoveElement DEF Typed, PlaceTyped
<1>3. Cardinality(loads) >= 1 /\ Len(rspq) < RspCap
  <2>1. Cardinality(loads \ {l}) \in Nat
    BY <1>2, FS_CardinalityType
  <2>2. QED
    BY <1>1, <1>2, <2>1, Places, CapAssumption DEF IInv, Promised, Expected, Typed, PlaceTyped
<1>4. loads' = loads \ {l} /\ rspq' = Append(rspq, l) /\ UNCHANGED <<tx, stores>>
  BY <1>3 DEF LoadDone
<1>5. /\ rspq' \in Seq(Loads) /\ Len(rspq) \in Nat /\ Len(rspq') = Len(rspq) + 1
      /\ rspq'[Len(rspq) + 1] = l
      /\ \A i \in 1 .. Len(rspq) : rspq'[i] = rspq[i]
  BY <1>1, <1>4, PutEffect DEF Typed, PlaceTyped
<1>6. Typed'
  BY <1>1, <1>2, <1>4, <1>5, EvaluateEffect DEF Typed, PlaceTyped
<1>7. LoadOut' = LoadOut /\ Expected' = Expected
  <2>1. LoadOut' = LoadOut /\ OutCount' = OutCount
    BY <1>4 DEF LoadOut, OutCount
  <2>2. Cardinality(loads') = Cardinality(loads) - 1 /\ Len(rspq') = Len(rspq) + 1
    BY <1>2, <1>4, <1>5
  <2>3. OutCount \in {0, 1} /\ Cardinality(loads) \in Nat /\ Len(rspq) \in Nat
    BY <1>1, Places
  <2>4. QED
    BY <2>1, <2>2, <2>3 DEF Expected
<1>8. Stages' /\ Pending' /\ Promised'
  BY <1>1, <1>7, EvaluateEffect DEF IInv, Pending, Promised
<1>9. Credits'
  BY <1>1, <1>2, <1>4, Places, MaxOutAssumption DEF IInv, Credits, Typed, PlaceTyped
<1>10. \A i \in 1 .. Len(rspq') : rspq'[i] = l \/ (i \in 1 .. Len(rspq) /\ rspq'[i] = rspq[i])
  BY <1>5
<1>11. DistinctIds'
  <2>1. FreeIds' /\ OutIds' /\ NetIds'
    BY <1>1, <1>4, <1>7, EvaluateEffect DEF IInv, DistinctIds, FreeIds, OutIds, NetIds
  <2>2. AnswerIds'
    <3>1. SUFFICES ASSUME NEW i \in 1 .. Len(rspq')
          PROVE  /\ \A j \in 1 .. Len(rspq') : i # j => rspq'[i].id # rspq'[j].id
                 /\ \A k \in loads' : rspq'[i].id # k.id
                 /\ LoadOut => rspq'[i].id # tx[1].id
                 /\ \A j \in 1 .. Len(ids) : rspq'[i].id # ids[j]
      BY <1>1, <1>4, <1>7, EvaluateEffect DEF AnswerIds
    <3>2. \A j \in 1 .. Len(rspq) : rspq[j].id # l.id
      BY DEF IInv, DistinctIds, AnswerIds
    <3>3. \A j \in 1 .. Len(rspq') : i # j => rspq'[i].id # rspq'[j].id
      BY <1>5, <1>10, <3>2 DEF IInv, DistinctIds, AnswerIds
    <3>4. CASE rspq'[i] = l
      BY <1>4, <3>3, <3>4 DEF IInv, DistinctIds, NetIds
    <3>5. CASE i \in 1 .. Len(rspq) /\ rspq'[i] = rspq[i]
      BY <1>4, <3>3, <3>5 DEF IInv, DistinctIds, AnswerIds
    <3>6. QED
      BY <1>10, <3>4, <3>5
  <2>3. QED
    BY <2>1, <2>2 DEF DistinctIds
<1>12. Indexed'
  BY <1>1, <1>4, <1>7, <1>10, EvaluateEffect DEF IInv, Indexed
<1>13. Filled'
  <2>1. ASSUME NEW w, OnItsWay(w)  PROVE OnItsWay(w)'
    <3>1. CASE LoadOut /\ tx[1].word = w
      BY <1>4, <1>7, <3>1 DEF OnItsWay
    <3>2. CASE \E k \in loads : k.word = w
      <4>1. PICK k \in loads : k.word = w
        BY <3>2
      <4>2. CASE k = l
        BY <1>5, <4>1, <4>2 DEF OnItsWay
      <4>3. CASE k # l
        BY <1>4, <4>1, <4>3 DEF OnItsWay
      <4>4. QED
        BY <4>2, <4>3
    <3>3. CASE \E i \in 1 .. Len(rspq) : rspq[i].word = w
      BY <1>5, <3>3 DEF OnItsWay
    <3>4. QED
      BY <2>1, <3>1, <3>2, <3>3 DEF OnItsWay
  <2>2. QED
    BY <1>1, <2>1, EvaluateEffect DEF IInv, Filled
<1>14. QED
  BY <1>6, <1>8, <1>9, <1>11, <1>12, <1>13 DEF IInv

LEMMA StutterStep == IInv /\ UNCHANGED vars => IInv'
<1>1. SUFFICES ASSUME IInv, UNCHANGED vars PROVE IInv'
  OBVIOUS
<1>2. UNCHANGED <<op, pc, cnt, rqst, rsp, ids, index, data, used, seen, open, room, tx, rspq, stores, loads>>
  BY <1>1 DEF vars, hostVars, dpiVars, netVars
<1>3. Typed' /\ Stages'
  BY <1>1, <1>2 DEF IInv, Typed, HostTyped, ClockTyped, TableTyped, PlaceTyped, Stages
<1>4. Pending' /\ Filled'
  BY <1>1, <1>2, Unmoved DEF IInv, Pending, Filled
<1>5. QED
  BY <1>1, <1>2, <1>3, <1>4, Unmoved DEF IInv

-----------------------------------------------------------------------------

\* The strengthened invariant: where every load is, which id it holds, and what
\* room and credits are set aside for it.
THEOREM LinkInvariant == Spec => []IInv
<1>1. IInv /\ [Next]_vars => IInv'
  <2>1. SUFFICES ASSUME IInv, [Next]_vars  PROVE IInv'
    OBVIOUS
  <2>2. CASE BeginCall
    BY <2>1, <2>2, BeginStep
  <2>3. CASE Transmit
    BY <2>1, <2>3, RefusedStep, SendLoadStep, SendOtherStep
  <2>4. CASE Receive
    BY <2>1, <2>4, NoAnswerStep, AnswerStep
  <2>5. CASE LoopDone
    BY <2>1, <2>5, LoopDoneStep
  <2>6. CASE FenceCredits \/ FenceVacant
    BY <2>1, <2>6, FenceStep
  <2>7. CASE NothingHappens \/ StoreDone
    BY <2>1, <2>7, QuietStep
  <2>8. CASE EndpointTakes
    BY <2>1, <2>8, TakesLoadStep, TakesOtherStep
  <2>9. CASE SomeLoadDone
    BY <2>1, <2>9, LoadDoneStep DEF SomeLoadDone
  <2>10. CASE UNCHANGED vars
    BY <2>1, <2>10, StutterStep
  <2>11. QED
    BY <2>1, <2>2, <2>3, <2>4, <2>5, <2>6, <2>7, <2>8, <2>9, <2>10 DEF Next, DpiCall, Simulator
<1>2. QED
  BY <1>1, InitInv, PTL DEF Spec

\* The loads among the packets on their way out, of which there is one at most.
LEMMA OutLoads ==
  ASSUME NEW t, t = <<>> \/ \E pkt \in LoadPacket \cup OtherPacket : t = <<pkt>>
  PROVE  Cardinality({i \in DOMAIN t : t[i].kind = "load"})
           = IF t # <<>> /\ t[1].kind = "load" THEN 1 ELSE 0
<1> DEFINE S == {i \in DOMAIN t : t[i].kind = "load"}
<1>1. CASE t = <<>>
  <2>1. S = {}
    BY <1>1
  <2>2. QED
    BY <1>1, <2>1, FS_EmptySet
<1>2. CASE t # <<>>
  <2>1. PICK pkt : t = <<pkt>>
    BY <1>2
  <2>2. DOMAIN t = {1}
    BY <2>1
  <2>3. CASE t[1].kind = "load"
    <3>1. S = {1}
      BY <2>2, <2>3
    <3>2. QED
      BY <1>2, <2>3, <3>1, FS_Singleton
  <2>4. CASE t[1].kind # "load"
    <3>1. S = {}
      BY <2>2, <2>4
    <3>2. QED
      BY <2>4, <3>1, FS_EmptySet
  <2>5. QED
    BY <2>3, <2>4
<1>3. QED
  BY <1>1, <1>2

\* The loads among the outgoing packets.
LEMMA OutNow ==
  ASSUME IInv
  PROVE  /\ Cardinality(LoadsOut) = OutCount /\ OutCount \in {0, 1} /\ OutCount <= Len(tx)
         /\ Len(tx) \in {0, 1} /\ Len(rspq) \in Nat /\ Cardinality(loads) \in Nat /\ stores \in Nat
<1>1. Typed
  BY DEF IInv
<1>2. Cardinality(LoadsOut) = OutCount
  BY <1>1, OutLoads DEF Typed, PlaceTyped, LoadsOut, OutCount, LoadOut
<1>3. QED
  BY <1>1, <1>2, Places DEF Typed, PlaceTyped

\* The types, with the exact account of the interface's room: no answer is ever
\* dropped.
THEOREM TypeCorrect == Spec => []TypeOK
<1>1. IInv => TypeOK
  <2>1. SUFFICES ASSUME IInv PROVE TypeOK
    OBVIOUS
  <2>2. Cardinality(LoadsOut) = OutCount /\ Len(tx) <= 1
    BY <2>1, OutNow
  <2>3. room + Cardinality(LoadsOut) + Cardinality(loads) + Len(rspq) = RspCap
    BY <2>1, <2>2, Places, CapAssumption DEF IInv, Promised, Expected, Typed, PlaceTyped
  <2>4. QED
    BY <2>1, <2>2, <2>3 DEF IInv, Typed, HostTyped, ClockTyped, TableTyped, PlaceTyped, TypeOK
<1>2. QED
  BY <1>1, LinkInvariant, PTL

\* A read that returns has put every word in its place.
THEOREM ReadsCorrect == Spec => ReadsInPlace
<1>1. IInv /\ [Next]_vars =>
        [op = "read" /\ op' = "idle" => \A w \in 1 .. cnt : data[w] = w]_vars
  <2>1. SUFFICES ASSUME IInv, Next, op = "read", op' = "idle"
        PROVE  \A w \in 1 .. cnt : data[w] = w
    OBVIOUS
  <2>2. LoopDone
    <3>1. ~BeginCall /\ ~Transmit /\ ~Receive /\ ~Evaluate
      BY <2>1 DEF BeginCall, Begin, Transmit, Receive, Evaluate
    <3>2. ~FenceCredits /\ ~FenceVacant
      BY <2>1 DEF FenceCredits, FenceVacant, IInv, Stages
    <3>3. ~Simulator
      BY <3>1 DEF Simulator, NothingHappens, EndpointTakes, StoreDone, SomeLoadDone, LoadDone
    <3>4. QED
      BY <2>1, <3>1, <3>2, <3>3 DEF Next, DpiCall
  <2>3. rsp = cnt /\ rqst = cnt
    BY <2>1, <2>2 DEF LoopDone, Sent
  <2>4. Expected = 0
    BY <2>1, <2>3 DEF IInv, Pending, Typed, HostTyped
  <2>5. ~LoadOut /\ loads = {} /\ Len(rspq) = 0
    <3>1. OutCount = 0 /\ Cardinality(loads) = 0 /\ Len(rspq) = 0
      BY <2>1, <2>4, Places DEF IInv, Expected
    <3>2. QED
      BY <2>1, <3>1, FS_EmptySet, Places DEF IInv, Typed, PlaceTyped
  <2>6. QED
    BY <2>1, <2>3, <2>5 DEF IInv, Filled, OnItsWay
<1>2. QED
  BY <1>1, LinkInvariant, PTL DEF Spec, ReadsInPlace

-----------------------------------------------------------------------------

\* The fence's second read follows its first in the same half cycle, so what
\* the first one found still holds.
FenceInv ==
  /\ op = "fence" => pc \in {"fence", "vacant"}
  /\ pc = "vacant" => seen /\ used = InNetwork

LEMMA FenceInvStep == IInv /\ FenceInv /\ [Next]_vars => FenceInv'
<1>1. SUFFICES ASSUME IInv, FenceInv, [Next]_vars PROVE FenceInv'
  OBVIOUS
<1>2. CASE BeginCall
  BY <1>2 DEF FenceInv, BeginCall, Begin
<1>3. CASE Transmit
  BY <1>1, <1>3 DEF FenceInv, Transmit
<1>4. CASE Receive
  BY <1>1, <1>4 DEF FenceInv, Receive, Receiving, TakeResponse
<1>5. CASE LoopDone
  BY <1>1, <1>5 DEF FenceInv, LoopDone, Return
<1>6. CASE FenceCredits
  BY <1>1, <1>6 DEF FenceInv, FenceCredits, InNetwork, netVars
<1>7. CASE FenceVacant
  BY <1>1, <1>7 DEF FenceInv, FenceVacant, Return
<1>8. CASE Simulator
  <2>1. Evaluate
    BY <1>8 DEF Simulator, NothingHappens, EndpointTakes, StoreDone, SomeLoadDone, LoadDone
  <2>2. QED
    BY <1>1, <2>1 DEF FenceInv, Evaluate
<1>9. CASE UNCHANGED vars
  BY <1>1, <1>9 DEF FenceInv, InNetwork, vars, hostVars, dpiVars, netVars
<1>10. QED
  BY <1>1, <1>2, <1>3, <1>4, <1>5, <1>6, <1>7, <1>8, <1>9 DEF Next, DpiCall

\* A step that LinkSpec does not see.
Unseen == UNCHANGED Link!vars

\* Steps that leave the packets where they are.
LEMMA Resting ==
  ASSUME UNCHANGED <<tx, rspq, stores, loads>>
  PROVE  UNCHANGED <<stores + Len(tx) - Cardinality(LoadsOut),
                     Cardinality(LoadsOut) + Cardinality(loads), Len(rspq)>>
  BY DEF LoadsOut

\* ... and after a step.
LEMMA OutNext ==
  ASSUME IInv'
  PROVE  Cardinality(LoadsOut') = OutCount'
<1>1. tx' = <<>> \/ \E pkt \in LoadPacket \cup OtherPacket : tx' = <<pkt>>
  BY DEF IInv, Typed, PlaceTyped
<1>2. QED
  BY <1>1, OutLoads DEF LoadsOut, OutCount, LoadOut

LEMMA CallRefines ==
  ASSUME IInv, IInv', FenceInv, BeginCall \/ DpiCall
  PROVE  Link!Next \/ Unseen
<1>1. CASE BeginCall
  <2>1. PICK o \in Ops, n \in Nat : Begin(o, n)
    BY <1>1, MaxCntAssumption DEF BeginCall, Ops, Words
  <2>2. UNCHANGED <<tx, rspq, stores, loads>>
    BY <2>1 DEF Begin, dpiVars, netVars
  <2>3. Link!Begin(IF o = "cache" THEN "store" ELSE o)
    BY <2>1, <2>2, Resting DEF Begin, Ops, Link!Begin
  <2>4. QED
    BY <2>3 DEF Link!Next, Ops
<1>2. CASE Transmit
  <2>1. CASE ~Accepts(Packet)
    <3>1. UNCHANGED <<op, tx, rspq, stores, loads>>
      BY <1>2, <2>1 DEF Transmit, netVars
    <3>2. QED
      BY <3>1, Resting DEF Unseen, Link!vars
  <2>2. CASE Accepts(Packet)
    <3>1. /\ tx = <<>> /\ tx' = <<Packet>> /\ UNCHANGED <<op, rspq, stores, loads>>
          /\ op \in {"store", "write", "cache", "read"}
      BY <1>2, <2>2 DEF Transmit, Send, Accepts, FenceInv, IInv, Stages, Typed, HostTyped, Ops, netVars
    <3>2. Len(tx) = 0 /\ Len(tx') = 1 /\ OutCount = 0
          /\ OutCount' = IF op = "read" THEN 1 ELSE 0
      BY <3>1 DEF OutCount, LoadOut, Packet
    <3>3. Cardinality(LoadsOut) = 0 /\ Cardinality(LoadsOut') = IF op = "read" THEN 1 ELSE 0
      BY <3>2, OutNow, OutNext
    <3>4. Cardinality(loads) \in Nat /\ stores \in Nat
      BY OutNow
    <3>5. CASE op = "read"
      BY <3>1, <3>2, <3>3, <3>4, <3>5 DEF Link!Next, Link!PostLoad
    <3>6. CASE op # "read"
      BY <3>1, <3>2, <3>3, <3>4, <3>6 DEF Link!Next, Link!PostStore
    <3>7. QED
      BY <3>5, <3>6
  <2>3. QED
    BY <2>1, <2>2
<1>3. CASE Receive
  <2>1. UNCHANGED <<op, tx, stores, loads>> /\ op = "read"
    BY <1>3 DEF Receive, Receiving, netVars
  <2>2. UNCHANGED <<stores + Len(tx) - Cardinality(LoadsOut), Cardinality(LoadsOut) + Cardinality(loads)>>
    BY <2>1 DEF LoadsOut
  <2>3. CASE open /\ rspq # <<>>
    <3>1. Len(rspq) > 0 /\ Len(rspq') = Len(rspq) - 1
      BY <1>3, <2>3, TakeEffect DEF Receive, TakeResponse, IInv, Typed, PlaceTyped
    <3>2. QED
      BY <2>1, <2>2, <3>1 DEF Link!Next, Link!TakeAnswer
  <2>4. CASE ~(open /\ rspq # <<>>)
    BY <1>3, <2>1, <2>2, <2>4 DEF Receive, Unseen, Link!vars
  <2>5. QED
    BY <2>3, <2>4
<1>4. CASE LoopDone
  <2>1. UNCHANGED <<tx, rspq, stores, loads>> /\ pc = "loop" /\ rqst = cnt
    BY <1>4 DEF LoopDone, Sent, dpiVars, netVars
  <2>2. CASE op = "write"
    BY <1>4, <2>1, <2>2, Resting DEF LoopDone, Unseen, Link!vars
  <2>3. CASE op \in {"store", "cache"}
    BY <1>4, <2>1, <2>3, Resting DEF LoopDone, Return, Link!Next, Link!Return
  <2>4. CASE op = "read"
    <3>1. Expected = 0
      BY <1>4, <2>1, <2>4 DEF LoopDone, Sent, IInv, Pending, Typed, HostTyped
    <3>2. (Cardinality(LoadsOut) + Cardinality(loads)) + Len(rspq) = 0
      BY <3>1, OutNow DEF Expected
    <3>3. QED
      BY <1>4, <2>1, <2>4, <3>2, Resting DEF LoopDone, Return, Link!Next, Link!Return
  <2>5. QED
    BY <2>1, <2>2, <2>3, <2>4 DEF FenceInv, IInv, Stages, Typed, HostTyped, Ops
<1>5. CASE FenceCredits
  <2>1. UNCHANGED <<op, tx, rspq, stores, loads>>
    BY <1>5 DEF FenceCredits, dpiVars, netVars
  <2>2. QED
    BY <2>1, Resting DEF Unseen, Link!vars
<1>6. CASE FenceVacant
  <2>1. UNCHANGED <<tx, rspq, stores, loads>> /\ op \in {"fence", "write"} /\ used = InNetwork
    BY <1>6 DEF FenceVacant, FenceInv, IInv, Stages, dpiVars, netVars
  <2>2. CASE used = 0 /\ tx = <<>>
    <3>1. Cardinality(loads) = 0 /\ stores = 0 /\ Len(tx) = 0
      BY <2>1, <2>2, OutNow DEF InNetwork
    <3>2. Len(rspq) = 0 /\ Cardinality(LoadsOut) = 0
      BY <2>1, <3>1, OutNow DEF IInv, Pending, Expected
    <3>3. (stores + Len(tx) - Cardinality(LoadsOut)) + (Cardinality(LoadsOut) + Cardinality(loads))
            + Len(rspq) = 0
      BY <3>1, <3>2
    <3>4. QED
      BY <1>6, <2>1, <2>2, <3>3, Resting DEF FenceVacant, Return, Link!Next, Link!Return
  <2>3. CASE ~(used = 0 /\ tx = <<>>)
    BY <1>6, <2>1, <2>3, Resting DEF FenceVacant, Unseen, Link!vars
  <2>4. QED
    BY <2>2, <2>3
<1>7. QED
  BY <1>1, <1>2, <1>3, <1>4, <1>5, <1>6 DEF DpiCall

LEMMA TakenLoad ==
  ASSUME IInv, EndpointTakes, LoadOut
  PROVE  UNCHANGED stores /\ Cardinality(loads') = Cardinality(loads) + 1
<1> DEFINE l == [id |-> tx[1].id, word |-> tx[1].word]
<1>1. Head(tx) = tx[1] /\ tx[1].kind = "load"
  BY Places DEF IInv, LoadOut
<1>2. loads' = loads \cup {l} /\ UNCHANGED stores
  BY <1>1 DEF EndpointTakes
<1>3. l \notin loads
  BY DEF IInv, DistinctIds, NetIds
<1>4. QED
  BY <1>2, <1>3, FS_AddElement DEF IInv, Typed, PlaceTyped

LEMMA AnsweredLoad ==
  ASSUME IInv, NEW l \in loads, LoadDone(l)
  PROVE  /\ Cardinality(loads) >= 1 /\ Cardinality(loads') = Cardinality(loads) - 1
         /\ Len(rspq') = Len(rspq) + 1 /\ UNCHANGED <<tx, stores>>
<1>1. Typed /\ l \in Loads
  BY DEF IInv, Typed, PlaceTyped
<1>2. IsFiniteSet(loads \ {l}) /\ Cardinality(loads \ {l}) = Cardinality(loads) - 1
  BY <1>1, FS_RemoveElement DEF Typed, PlaceTyped
<1>3. Cardinality(loads) >= 1 /\ Len(rspq) < RspCap
  <2>1. Cardinality(loads \ {l}) \in Nat
    BY <1>2, FS_CardinalityType
  <2>2. QED
    BY <1>1, <1>2, <2>1, Places, CapAssumption DEF IInv, Promised, Expected, Typed, PlaceTyped
<1>4. loads' = loads \ {l} /\ rspq' = Append(rspq, l) /\ UNCHANGED <<tx, stores>>
  BY <1>3 DEF LoadDone
<1>5. Len(rspq') = Len(rspq) + 1
  BY <1>1, <1>4, PutEffect DEF Typed, PlaceTyped
<1>6. QED
  BY <1>2, <1>3, <1>4, <1>5

LEMMA SimulatorRefines ==
  ASSUME IInv, IInv', Simulator
  PROVE  Link!Next \/ Unseen
<1>1. Evaluate /\ UNCHANGED op
  BY DEF Simulator, NothingHappens, EndpointTakes, StoreDone, SomeLoadDone, LoadDone, Evaluate
<1>2. CASE NothingHappens
  BY <1>1, <1>2, Resting DEF NothingHappens, netVars, Unseen, Link!vars
<1>3. CASE StoreDone
  <2>1. stores > 0 /\ stores' = stores - 1 /\ UNCHANGED <<tx, rspq, loads, LoadsOut>>
    BY <1>3 DEF StoreDone, LoadsOut
  <2>2. QED
    BY <1>1, <2>1, OutNow DEF Link!Next, Link!PerformStore
<1>4. CASE EndpointTakes
  <2>1. tx # <<>> /\ tx' = <<>> /\ UNCHANGED rspq /\ Len(tx) = 1
    BY <1>4, Places DEF EndpointTakes, IInv
  <2>2. Cardinality(LoadsOut') = 0 /\ Len(tx') = 0
    BY <2>1, OutNext DEF OutCount, LoadOut
  <2>3. CASE LoadOut
    <3>1. Cardinality(LoadsOut) = 1
      BY <2>3, OutNow DEF OutCount
    <3>2. UNCHANGED stores /\ Cardinality(loads') = Cardinality(loads) + 1
      BY <1>4, <2>3, TakenLoad
    <3>3. QED
      BY <1>1, <2>1, <2>2, <3>1, <3>2, OutNow DEF Unseen, Link!vars
  <2>4. CASE ~LoadOut
    <3>1. Cardinality(LoadsOut) = 0
      BY <2>4, OutNow DEF OutCount
    <3>2. stores' = stores + 1 /\ UNCHANGED loads
      BY <1>4, <2>1, <2>4, Places DEF EndpointTakes, IInv
    <3>3. QED
      BY <1>1, <2>1, <2>2, <3>1, <3>2, OutNow DEF Unseen, Link!vars
  <2>5. QED
    BY <2>3, <2>4
<1>5. CASE SomeLoadDone
  <2>1. PICK l \in loads : LoadDone(l)
    BY <1>5 DEF SomeLoadDone
  <2>2. /\ Cardinality(loads) >= 1 /\ Cardinality(loads') = Cardinality(loads) - 1
        /\ Len(rspq') = Len(rspq) + 1 /\ UNCHANGED <<tx, stores, LoadsOut>>
    BY <2>1, AnsweredLoad DEF LoadsOut
  <2>3. QED
    BY <1>1, <2>2, OutNow DEF Link!Next, Link!PerformLoad
<1>6. QED
  BY <1>2, <1>3, <1>4, <1>5 DEF Simulator

\* The simulated link keeps the promise of LinkSpec for every capacity: a call
\* that fences returns with nothing of any earlier call on its way, and no
\* read returns short of an answer.
THEOREM LinkRefined == Spec => ImplementsLink
<1>1. Init => Link!Init
  <2>1. SUFFICES ASSUME Init PROVE Link!Init
    OBVIOUS
  <2>2. Cardinality(LoadsOut) = 0 /\ Len(tx) = 0 /\ Len(rspq) = 0 /\ Cardinality(loads) = 0
    BY <2>1, InitInv, OutNow, FS_EmptySet DEF Init, OutCount, LoadOut
  <2>3. QED
    BY <2>1, <2>2 DEF Init, Link!Init
<1>2. Init => FenceInv
  BY DEF Init, FenceInv
<1>3. IInv /\ IInv' /\ FenceInv /\ [Next]_vars => [Link!Next]_Link!vars
  <2>1. SUFFICES ASSUME IInv, IInv', FenceInv, [Next]_vars
                 PROVE  Link!Next \/ Unseen
    BY DEF Unseen
  <2>2. CASE UNCHANGED vars
    BY <2>2, Resting DEF vars, hostVars, dpiVars, netVars, Unseen, Link!vars
  <2>3. CASE Next
    BY <2>1, <2>3, CallRefines, SimulatorRefines DEF Next
  <2>4. QED
    BY <2>1, <2>2, <2>3
<1>4. QED
  BY <1>1, <1>2, <1>3, FenceInvStep, LinkInvariant, PTL DEF Spec, ImplementsLink, Link!Spec
=============================================================================
