--------------------------- MODULE HostLink_proofs ---------------------------
(***************************************************************************)
(* Proofs about HostLink for every packet size, credit count, load cap and *)
(* endpoint.                                                               *)
(***************************************************************************)
EXTENDS HostLink, FiniteSetTheorems, TLAPS

\* A packet is being written exactly while the thread is at "word".
WritingInv == IF pc = "word" THEN wleft \in 1 .. Els ELSE wleft = 0

\* A thread that is in no call is nowhere in one.
IdleInv == op = "idle" <=> pc = "idle"

\* The inductive invariant: types, flow control in both directions, framing.
IInv ==
  /\ TypeOK
  /\ IdleInv
  /\ WritingInv
  /\ VacancyExact
  /\ CachedVacancySafe
  /\ Framing
  /\ ReadCredits
  /\ EndpointCredits
  /\ NoFractionalVacancy

\* Between its two reads the fence may rely on the first; after the second it
\* may rely on both.
FenceInv ==
  /\ pc = "credits" /\ fvac = HostCredits => txq = <<>>
  /\ pc = "fence" /\ FenceOver => Drained

------------------------------------------------------------------------------

\* Multiplication by the packet size, instance by instance.
LEMMA Products ==
  /\ \A m, n \in Nat : m * Els \in Nat /\ (m + 1) * Els = m * Els + Els
                       /\ Els * m = m * Els /\ (m <= n => m * Els <= n * Els)
  /\ \A m \in Nat : m * Els = 0 => m = 0
  BY ElsAssumption

LEMMA SizeFacts ==
  /\ Els \in Nat /\ Els >= 2
  /\ HostCredits \in Nat /\ HostCredits >= 2
  /\ MaxOut \in Nat /\ MaxOut >= 1
  /\ MaxWords \in Nat /\ FifoEls \in Nat /\ SipoEls = Els + 1
  /\ MaxWords = FifoEls + SipoEls /\ MaxWords = HostCredits * Els
<1>1. Els \in Nat /\ Els >= 2 /\ HostCredits \in Nat /\ HostCredits >= 2
      /\ MaxOut \in Nat /\ MaxOut >= 1
  BY ElsAssumption, CreditsAssumption, MaxOutAssumption
<1>2. Els * HostCredits \in Nat /\ Els * HostCredits >= 2 * Els
      /\ Els * HostCredits = HostCredits * Els
  BY <1>1
<1>3. MaxWords \in Nat /\ FifoEls \in Nat /\ SipoEls = Els + 1
      /\ MaxWords = FifoEls + SipoEls /\ MaxWords = HostCredits * Els
  BY <1>1, <1>2 DEF MaxWords, FifoEls, SipoEls
<1>4. QED
  BY <1>1, <1>3

LEMMA GarbageType == \A g \in Garbage : g[1] \in Nat /\ g[2] \in Nat
  BY GarbageAssumption

LEMMA InitIInv == Init => IInv
<1>1. SUFFICES ASSUME Init PROVE IInv
  OBVIOUS
<1>2. TypeOK
  BY <1>1, SizeFacts DEF Init, TypeOK, Ops, Kinds
<1>3. CachedVacancySafe
  BY <1>1, SizeFacts DEF Init, CachedVacancySafe, MaxWords
<1>4. Framing
  BY <1>1, SizeFacts DEF Init, Framing
<1>5. QED
  BY <1>1, <1>2, <1>3, <1>4, SizeFacts
  DEF Init, IInv, IdleInv, WritingInv, VacancyExact, ReadCredits, EndpointCredits, NoFractionalVacancy

\* With an empty transmit path the deserialiser has no packet to launch.
LEMMA EmptyPath == IInv /\ txq = <<>> => sipo < Els
<1>1. SUFFICES ASSUME IInv, txq = <<>> PROVE sipo < Els
  OBVIOUS
<1>2. Els * Len(txq) = 0
  BY <1>1, SizeFacts, Products
<1>3. QED
  BY <1>1, <1>2, SizeFacts DEF IInv, TypeOK, Framing

\* Every step keeps the inductive invariant.
LEMMA StepIInv == IInv /\ [Next]_vars => IInv'
<1>1. SUFFICES ASSUME IInv, [Next]_vars PROVE IInv'
  OBVIOUS
<1> USE SizeFacts, GarbageType
<1>2. CASE BeginCall
  <2>1. PICK o \in {"store", "fence", "write", "read"}, n \in Nat : Begin(o, n)
    BY <1>2, MaxCntAssumption DEF BeginCall
  <2>2. TypeOK'
    BY <1>1, <2>1 DEF IInv, TypeOK, Ops, Begin, EnterFence, EnterLoop, bridgeVars, netVars
  <2>3. pc # "word" /\ pc' \in {"fence", "loop"} /\ wleft' = wleft
    BY <1>1, <2>1 DEF IInv, IdleInv, Begin, EnterFence, EnterLoop
  <2>4. QED
    BY <1>1, <2>1, <2>2, <2>3 DEF IInv, IdleInv, WritingInv, VacancyExact, CachedVacancySafe,
      Framing, ReadCredits, EndpointCredits, NoFractionalVacancy, Begin, EnterFence, EnterLoop,
      bridgeVars, netVars
<1>3. CASE TransmitPoll
  <2>1. CASE Vacancies = {}
    BY <1>1, <1>3, <2>1 DEF IInv, IdleInv, TypeOK, WritingInv, VacancyExact, CachedVacancySafe,
      Framing, ReadCredits, EndpointCredits, NoFractionalVacancy, TransmitPoll, bridgeVars, netVars
  <2>2. CASE Vacancies # {}
    <3>1. tv' \in 0 .. HostCredits /\ tv' * Els = vac
      BY <1>3, <2>2 DEF TransmitPoll, Vacancies
    <3>2. wleft' = 0 /\ vac' = vac /\ vac \in Nat
      BY <1>1, <1>3 DEF IInv, TypeOK, WritingInv, TransmitPoll, bridgeVars
    <3>3. (tv * Els)' = vac
      BY <3>1
    <3>4. CachedVacancySafe'
      BY <3>2, <3>3 DEF CachedVacancySafe
    <3>5. QED
      BY <1>1, <1>3, <3>1, <3>4 DEF IInv, IdleInv, TypeOK, WritingInv, VacancyExact,
        Framing, ReadCredits, EndpointCredits, NoFractionalVacancy, TransmitPoll, bridgeVars, netVars
  <2>3. QED
    BY <2>1, <2>2
<1>4. CASE TransmitStart
  <2>1. Len(txq') = Len(txq) + 1 /\ txq' \in Seq(Kinds) /\ Len(txq) \in Nat
    BY <1>1, <1>4 DEF IInv, TypeOK, Kinds, TransmitStart
  <2>2. tv' \in 0 .. HostCredits /\ tv = tv' + 1
    BY <1>1, <1>4 DEF IInv, TypeOK, TransmitStart, SpendSlot
  <2>3. tv * Els = tv' * Els + Els
    BY <2>2, Products
  <2>4. Els * Len(txq') = Els * Len(txq) + Els
    BY <2>1, Products
  <2>5. wleft = 0 /\ wleft' = Els /\ pc' = "word" /\ op # "idle"
    BY <1>1, <1>4 DEF IInv, IdleInv, WritingInv, TransmitStart
  <2>6. CachedVacancySafe'
    <3>1. vac' = vac
      BY <1>4 DEF TransmitStart
    <3>2. vac \in Nat /\ tv \in Nat
      BY <1>1 DEF IInv, TypeOK
    <3>3. tv' \in Nat
      BY <2>2
    <3>4. (tv * Els) \in Nat /\ (tv' * Els) \in Nat
      BY <3>2, <3>3, Products
    <3>5. tv * Els <= vac
      BY <1>1, <2>5, <3>2, <3>4 DEF IInv, CachedVacancySafe
    <3>6. tv' * Els + wleft' <= vac'
      BY <2>3, <2>5, <3>1, <3>5
    <3>7. QED
      BY <3>1, <3>6 DEF CachedVacancySafe
  <2>7. Framing'
    BY <1>1, <1>4, <2>4, <2>5 DEF IInv, Framing, TypeOK, TransmitStart
  <2>8. TypeOK'
    BY <1>1, <1>4, <2>1, <2>2, <2>5 DEF IInv, TypeOK, TransmitStart, netVars
  <2>9. QED
    BY <1>1, <1>4, <2>5, <2>6, <2>7, <2>8 DEF IInv, IdleInv, WritingInv, VacancyExact,
      ReadCredits, EndpointCredits, NoFractionalVacancy, TransmitStart, netVars
<1>5. CASE TransmitWord
  <2>1. wleft \in 1 .. Els /\ wleft' = wleft - 1 /\ fifo' = fifo + 1 /\ vac' = vac - 1
    BY <1>1, <1>5 DEF IInv, WritingInv, TransmitWord
  <2>2. tv * Els \in Nat /\ tv' = tv
    BY <1>1, <1>5, Products DEF IInv, TypeOK, TransmitWord
  <2>3. vac >= 1
    BY <1>1, <2>1, <2>2 DEF IInv, CachedVacancySafe, TypeOK
  <2>4. TypeOK'
    BY <1>1, <1>5, <2>1, <2>3 DEF IInv, TypeOK, TransmitWord, netVars
  <2>5. CachedVacancySafe' /\ VacancyExact' /\ Framing'
    BY <1>1, <1>5, <2>1, <2>2, <2>3
    DEF IInv, CachedVacancySafe, VacancyExact, Framing, TypeOK, TransmitWord
  <2>6. WritingInv' /\ IdleInv' /\ NoFractionalVacancy'
    BY <1>1, <1>5, <2>1 DEF IInv, IdleInv, WritingInv, NoFractionalVacancy, TransmitWord
  <2>7. QED
    BY <1>1, <1>5, <2>4, <2>5, <2>6 DEF IInv, ReadCredits, EndpointCredits, TransmitWord, netVars
<1>6. CASE ReceiveWord
  <2>1. TypeOK'
    BY <1>1, <1>6 DEF IInv, TypeOK, ReceiveWord, netVars
  <2>2. WritingInv' /\ IdleInv' /\ NoFractionalVacancy'
    BY <1>1, <1>6 DEF IInv, IdleInv, WritingInv, NoFractionalVacancy, ReceiveWord
  <2>3. QED
    BY <1>1, <1>6, <2>1, <2>2 DEF IInv, VacancyExact, CachedVacancySafe, Framing, ReadCredits,
      EndpointCredits, ReceiveWord, netVars
<1>7. CASE LoopDone
  <2>1. TypeOK'
    BY <1>1, <1>7 DEF IInv, TypeOK, Ops, LoopDone, AfterLoop, EnterFence, Return, bridgeVars, netVars
  <2>2. WritingInv' /\ IdleInv' /\ NoFractionalVacancy'
    BY <1>1, <1>7 DEF IInv, IdleInv, WritingInv, NoFractionalVacancy, LoopDone, AfterLoop,
      EnterFence, Return
  <2>3. QED
    BY <1>1, <1>7, <2>1, <2>2 DEF IInv, VacancyExact, CachedVacancySafe, Framing, ReadCredits,
      EndpointCredits, LoopDone, bridgeVars, netVars
<1>8. CASE FenceRead
  <2>1. Vacancies # {}
    <3>1. wleft = 0
      BY <1>1, <1>8 DEF IInv, WritingInv, FenceRead
    <3>2. Len(txq) \in Nat /\ vac \in Nat /\ fifo \in Nat /\ sipo \in Nat
      BY <1>1 DEF IInv, TypeOK
    <3>3. vac + Els * Len(txq) = Els * HostCredits
      BY <1>1, <3>1, <3>2 DEF IInv, VacancyExact, Framing, MaxWords
    <3>4. Els * Len(txq) = Len(txq) * Els /\ Els * HostCredits = HostCredits * Els
      BY <3>2, Products
    <3>5. Len(txq) <= HostCredits
      <4>1. SUFFICES ASSUME Len(txq) >= HostCredits + 1 PROVE FALSE
        BY <3>2
      <4>2. (HostCredits + 1) * Els <= Len(txq) * Els
        BY <4>1, <3>2, Products
      <4>3. (HostCredits + 1) * Els = HostCredits * Els + Els
        BY Products
      <4>4. HostCredits * Els \in Nat /\ Len(txq) * Els \in Nat
        BY <3>2, Products
      <4>5. QED
        BY <3>2, <3>3, <3>4, <4>2, <4>3, <4>4
    <3>6. (HostCredits - Len(txq)) * Els = vac
      <4>1. (HostCredits - Len(txq)) * Els = HostCredits * Els - Len(txq) * Els
        BY <3>2
      <4>2. QED
        BY <3>2, <3>3, <3>4, <4>1
    <3>7. HostCredits - Len(txq) \in 0 .. HostCredits
      BY <3>2, <3>5
    <3>8. QED
      BY <3>6, <3>7 DEF Vacancies
  <2>2. TypeOK'
    <3>1. Vacancies \subseteq Nat /\ outc \in Nat
      BY <1>1 DEF Vacancies, IInv, TypeOK
    <3>2. QED
      BY <1>1, <1>8, <2>1, <3>1 DEF IInv, TypeOK, FenceRead, ReadVacancy, ReadCreditsReg,
        bridgeVars, netVars
  <2>3. WritingInv' /\ IdleInv' /\ NoFractionalVacancy'
    BY <1>1, <1>8, <2>1 DEF IInv, IdleInv, WritingInv, NoFractionalVacancy, FenceRead, ReadVacancy,
      ReadCreditsReg
  <2>4. QED
    BY <1>1, <1>8, <2>2, <2>3 DEF IInv, VacancyExact, CachedVacancySafe, Framing, ReadCredits,
      EndpointCredits, FenceRead, ReadVacancy, ReadCreditsReg, bridgeVars, netVars
<1>9. CASE FenceReturn
  BY <1>1, <1>9 DEF IInv, IdleInv, TypeOK, Ops, WritingInv, VacancyExact, CachedVacancySafe, Framing,
    ReadCredits, EndpointCredits, NoFractionalVacancy, FenceReturn, Return, bridgeVars, netVars
<1>10. CASE SipoTake
  BY <1>1, <1>10 DEF IInv, IdleInv, TypeOK, WritingInv, VacancyExact, CachedVacancySafe, Framing,
    ReadCredits, EndpointCredits, NoFractionalVacancy, SipoTake, hostVars, netVars
<1>11. CASE SendPacket
  <2>1. txq # <<>>
    BY <1>1, <1>11, EmptyPath DEF IInv, TypeOK, SendPacket, Launch
  <2>2. txq' \in Seq(Kinds) /\ Len(txq') \in Nat /\ Len(txq) = Len(txq') + 1
        /\ Head(txq) \in Kinds
    BY <1>1, <1>11, <2>1 DEF IInv, TypeOK, SendPacket, Launch
  <2>3. Els * Len(txq) = Els * Len(txq') + Els
    BY <2>2, Products
  <2>4. tv * Els \in Nat
    BY <1>1, Products DEF IInv, TypeOK
  <2>5. sipo \in Els .. SipoEls /\ sipo' = sipo - Els /\ vac' = vac + Els
    BY <1>1, <1>11 DEF IInv, TypeOK, SendPacket, Launch
  <2>6. VacancyExact' /\ vac' \in 0 .. MaxWords
    BY <1>1, <1>11, <2>5 DEF IInv, TypeOK, VacancyExact, SendPacket, Launch
  <2>7. CachedVacancySafe'
    BY <1>1, <1>11, <2>4, <2>5 DEF IInv, TypeOK, CachedVacancySafe, SendPacket, Launch, hostVars
  <2>8. Framing'
    BY <1>1, <1>11, <2>2, <2>3, <2>5 DEF IInv, TypeOK, Framing, SendPacket, Launch, hostVars
  <2>9. ReadCredits' /\ EndpointCredits'
        /\ rdc' \in 0 .. HostCredits /\ outc' \in 0 .. MaxOut /\ nst' \in Nat /\ nld' \in Nat
    <3>1. rspq' = rspq /\ outc' = outc - 1 /\ outc > 0
      BY <1>11 DEF SendPacket, Launch
    <3>2. CASE Head(txq) = "load"
      <4>1. rdc > 0 /\ rdc' = rdc - 1 /\ nld' = nld + 1 /\ nst' = nst
        BY <1>1, <1>11, <3>2 DEF IInv, TypeOK, SendPacket, Launch, Paused
      <4>2. QED
        BY <1>1, <3>1, <4>1 DEF IInv, TypeOK, ReadCredits, EndpointCredits
    <3>3. CASE Head(txq) # "load"
      <4>1. rdc' = rdc /\ nld' = nld /\ nst' = nst + 1
        BY <1>11, <3>3 DEF SendPacket, Launch
      <4>2. QED
        BY <1>1, <3>1, <4>1 DEF IInv, TypeOK, ReadCredits, EndpointCredits
    <3>4. QED
      BY <3>2, <3>3
  <2>10. TypeOK'
    BY <1>1, <1>11, <2>2, <2>5, <2>6, <2>9 DEF IInv, TypeOK, SendPacket, Launch, hostVars
  <2>11. QED
    BY <1>1, <1>11, <2>6, <2>7, <2>8, <2>9, <2>10
    DEF IInv, IdleInv, WritingInv, NoFractionalVacancy, SendPacket, Launch, hostVars
<1>12. CASE RspToPiso
  BY <1>1, <1>12 DEF IInv, IdleInv, TypeOK, WritingInv, VacancyExact, CachedVacancySafe, Framing,
    ReadCredits, EndpointCredits, NoFractionalVacancy, RspToPiso, hostVars, netVars
<1>13. CASE StoreDone
  BY <1>1, <1>13 DEF IInv, IdleInv, TypeOK, WritingInv, VacancyExact, CachedVacancySafe, Framing,
    ReadCredits, EndpointCredits, NoFractionalVacancy, StoreDone, hostVars, bridgeVars
<1>14. CASE LoadDone
  BY <1>1, <1>14 DEF IInv, IdleInv, TypeOK, WritingInv, VacancyExact, CachedVacancySafe, Framing,
    ReadCredits, EndpointCredits, NoFractionalVacancy, LoadDone, hostVars
<1>15. CASE UNCHANGED vars
  BY <1>1, <1>15 DEF IInv, IdleInv, TypeOK, WritingInv, VacancyExact, CachedVacancySafe, Framing,
    ReadCredits, EndpointCredits, NoFractionalVacancy, vars, hostVars, bridgeVars, netVars, Vacancies
<1>16. QED
  BY <1>1, <1>2, <1>3, <1>4, <1>5, <1>6, <1>7, <1>8, <1>9, <1>10, <1>11, <1>12, <1>13, <1>14, <1>15
  DEF Next, HostStep

\* Types, exact free-word counter, safe cached vacancy, whole packets, no call
\* failing on a fractional vacancy, room for every response: at all times.
THEOREM FlowControl == Spec => []IInv
<1>1. QED
  BY InitIInv, StepIInv, PTL DEF Spec

\* The type invariant, for every value of the constants.
THEOREM TypeCorrect == Spec => []TypeOK
<1>1. IInv => TypeOK
  BY DEF IInv
<1>2. QED
  BY <1>1, FlowControl, PTL

\* No packet is ever made of two packets' words, and no call fails on a
\* vacancy that is not a whole number of packets.
THEOREM WholePacketsKept == Spec => []WholePackets
<1>1. IInv => WholePackets
  BY DEF IInv, WholePackets
<1>2. QED
  BY <1>1, FlowControl, PTL

\* The transmit path never lacks the room its counters promise.
THEOREM TransmitSafe == Spec => []TransmitFlowControl
<1>1. IInv => TransmitFlowControl
  BY DEF IInv, TransmitFlowControl
<1>2. QED
  BY <1>1, FlowControl, PTL

\* A response always finds room in the response FIFO.
THEOREM ResponsesFit == Spec => []ReadCredits
<1>1. IInv => ReadCredits
  BY DEF IInv
<1>2. QED
  BY <1>1, FlowControl, PTL

------------------------------------------------------------------------------

\* A vacancy of HostCredits means that the path is empty between packets.
LEMMA FullVacancy ==
  IInv /\ pc # "word" /\ vac = HostCredits * Els => txq = <<>>
<1>1. SUFFICES ASSUME IInv, pc # "word", vac = HostCredits * Els PROVE txq = <<>>
  OBVIOUS
<1>2. wleft = 0 /\ Len(txq) \in Nat /\ vac = Els * HostCredits
  BY <1>1, SizeFacts, Products DEF IInv, TypeOK, WritingInv
<1>3. Els * Len(txq) = 0
  BY <1>1, <1>2, SizeFacts DEF IInv, TypeOK, VacancyExact, Framing, MaxWords
<1>4. Len(txq) = 0
  BY <1>2, <1>3, Products
<1>5. QED
  BY <1>1, <1>4 DEF IInv, TypeOK

LEMMA StepFenceInv ==
  ASSUME <<HostCredits, MaxOut>> \notin Garbage
  PROVE  IInv /\ FenceInv /\ [Next]_vars => FenceInv'
<1>1. SUFFICES ASSUME IInv, FenceInv, [Next]_vars PROVE FenceInv'
  OBVIOUS
<1>2. \A g \in Garbage : ~(g[1] = HostCredits /\ g[2] = MaxOut)
  <2>1. \A g \in Garbage : g = <<g[1], g[2]>>
    BY GarbageAssumption
  <2>2. QED
    BY <2>1
<1>3. CASE BeginCall
  BY <1>2, <1>3 DEF FenceInv, FenceOver, BeginCall, Begin, EnterFence, EnterLoop
<1>4. CASE TransmitPoll \/ TransmitStart \/ TransmitWord \/ ReceiveWord
  BY <1>4 DEF FenceInv, TransmitPoll, TransmitStart, TransmitWord, ReceiveWord
<1>5. CASE LoopDone
  BY <1>2, <1>5 DEF FenceInv, FenceOver, LoopDone, AfterLoop, EnterFence, Return
<1>6. CASE FenceRead
  <2>1. CASE pc = "fence" /\ ~FenceOver /\ ReadVacancy("credits")
    <3>1. ASSUME fvac' = HostCredits, pc' = "credits" PROVE txq = <<>>
      BY <1>1, <2>1, <3>1, FullVacancy DEF ReadVacancy, Vacancies
    <3>2. QED
      BY <2>1, <3>1 DEF FenceInv, ReadVacancy, bridgeVars
  <2>2. CASE pc = "credits" /\ ReadCreditsReg("fence")
    <3>1. ASSUME fvac' = HostCredits, fcred' = MaxOut PROVE Drained'
      <4>1. txq = <<>>
        BY <1>1, <2>2, <3>1 DEF FenceInv, ReadCreditsReg
      <4>2. outc = MaxOut
        BY <2>2, <3>1 DEF ReadCreditsReg
      <4>3. nst = 0 /\ nld = 0
        BY <1>1, <4>2, SizeFacts DEF IInv, TypeOK, EndpointCredits
      <4>4. QED
        BY <2>2, <4>1, <4>3 DEF Drained, ReadCreditsReg, bridgeVars, netVars
    <3>2. QED
      BY <2>2, <3>1 DEF FenceInv, FenceOver, ReadCreditsReg
  <2>3. QED
    BY <1>6, <2>1, <2>2 DEF FenceRead
<1>7. CASE FenceReturn
  BY <1>7 DEF FenceInv, FenceReturn, Return
<1>8. CASE SipoTake \/ RspToPiso
  BY <1>1, <1>8 DEF FenceInv, FenceOver, Drained, SipoTake, RspToPiso, hostVars, netVars
<1>9. CASE SendPacket
  <2>1. txq # <<>> /\ UNCHANGED hostVars
    BY <1>1, <1>9, EmptyPath, SizeFacts DEF SendPacket, Launch, IInv, TypeOK
  <2>2. QED
    BY <1>1, <2>1 DEF FenceInv, FenceOver, Drained, hostVars
<1>10. CASE StoreDone \/ LoadDone
  BY <1>1, <1>10 DEF FenceInv, FenceOver, Drained, StoreDone, LoadDone, hostVars, bridgeVars
<1>11. CASE UNCHANGED vars
  BY <1>1, <1>11 DEF FenceInv, FenceOver, Drained, vars, hostVars, bridgeVars, netVars
<1>12. QED
  BY <1>1, <1>3, <1>4, <1>5, <1>6, <1>7, <1>8, <1>9, <1>10, <1>11 DEF Next, HostStep

\* When the fence returns nothing is in flight, provided that its
\* uninitialised locals do not happen to hold the values it waits for.
THEOREM FenceCorrect ==
  ASSUME <<HostCredits, MaxOut>> \notin Garbage
  PROVE  Spec => FenceDrains
<1>1. Init => FenceInv
  BY DEF Init, FenceInv
<1>2. FenceInv /\ IInv /\ [Next]_vars => FenceInv'
  BY StepFenceInv
<1>3. FenceInv /\ IInv /\ [Next]_vars => [pc = "fence" /\ pc' = "idle" => Drained]_vars
  <2>1. SUFFICES ASSUME FenceInv, IInv, Next, pc = "fence", pc' = "idle" PROVE Drained
    OBVIOUS
  <2>2. FenceReturn
    BY <2>1 DEF Next, HostStep, BeginCall, Begin, EnterFence, EnterLoop, IInv, IdleInv,
      TransmitPoll, TransmitStart, TransmitWord, ReceiveWord, LoopDone, FenceRead, ReadVacancy,
      ReadCreditsReg, SipoTake, SendPacket, Launch, RspToPiso, StoreDone, LoadDone, hostVars
  <2>3. QED
    BY <2>1, <2>2 DEF FenceInv, FenceReturn
<1>4. QED
  BY <1>1, <1>2, <1>3, FlowControl, PTL DEF Spec, FenceDrains

------------------------------------------------------------------------------

\* Where a call is, and how far.
CallInv ==
  /\ pc \in {"loop", "word"} => op \in {"store", "write", "read"}
  /\ pc \in {"fence", "credits"} => op \in {"write", "fence"}
  /\ pc = "recv" => op = "read" /\ rsp < rqst
  /\ rsp <= rqst /\ rqst <= cnt
  /\ pc = "word" => rqst < cnt

\* The packets of one kind in a queue, and how they change at its ends.
OfKind(s, k) == {i \in DOMAIN s : s[i] = k}
Number(s, k) == Cardinality(OfKind(s, k))

LEMMA NumberType ==
  ASSUME NEW s \in Seq(Kinds), NEW k
  PROVE  /\ IsFiniteSet(OfKind(s, k)) /\ Number(s, k) \in Nat
         /\ s = <<>> => Number(s, k) = 0
<1>1. IsFiniteSet(DOMAIN s)
  <2>1. DOMAIN s = 1 .. Len(s) /\ Len(s) \in Nat
    OBVIOUS
  <2>2. QED
    BY <2>1, FS_Interval
<1>2. OfKind(s, k) \in SUBSET DOMAIN s
  BY DEF OfKind
<1>3. IsFiniteSet(OfKind(s, k))
  BY <1>1, <1>2, FS_Subset
<1>4. s = <<>> => OfKind(s, k) = {}
  BY DEF OfKind
<1>5. QED
  BY <1>3, <1>4, FS_CardinalityType, FS_EmptySet DEF Number

LEMMA QueuedAtEnd ==
  ASSUME NEW s \in Seq(Kinds), NEW x \in Kinds, NEW k
  PROVE  Number(Append(s, x), k) = Number(s, k) + IF x = k THEN 1 ELSE 0
<1> DEFINE t == Append(s, x)
           n == Len(s)
<1>1. /\ n \in Nat /\ DOMAIN s = 1 .. n /\ DOMAIN t = 1 .. n + 1
      /\ t[n + 1] = x /\ \A i \in 1 .. n : t[i] = s[i]
  OBVIOUS
<1> HIDE DEF t
<1>2. OfKind(t, k) = IF x = k THEN OfKind(s, k) \cup {n + 1} ELSE OfKind(s, k)
  BY <1>1 DEF OfKind
<1>3. n + 1 \notin OfKind(s, k)
  BY <1>1 DEF OfKind
<1>4. IsFiniteSet(OfKind(s, k)) /\ Number(s, k) \in Nat
  BY NumberType
<1>5. Cardinality(OfKind(s, k) \cup {n + 1}) = Cardinality(OfKind(s, k)) + 1
  BY <1>3, <1>4, FS_AddElement
<1>6. Number(t, k) = Number(s, k) + IF x = k THEN 1 ELSE 0
  BY <1>2, <1>4, <1>5 DEF Number
<1>7. QED
  BY <1>6 DEF t

LEMMA OneToOneOnto ==
  ASSUME NEW S, NEW T, NEW f \in [S -> T],
         \A a, b \in S : f[a] = f[b] => a = b,
         \A j \in T : \E i \in S : f[i] = j
  PROVE  ExistsBijection(S, T)
<1>1. f \in Injection(S, T)
  BY DEF Injection, IsInjective
<1>2. f \in Surjection(S, T)
  BY DEF Surjection
<1>3. QED
  BY <1>1, <1>2 DEF ExistsBijection, Bijection

LEMMA TakenAtHead ==
  ASSUME NEW s \in Seq(Kinds), s # <<>>, NEW k
  PROVE  Number(s, k) = Number(Tail(s), k) + IF Head(s) = k THEN 1 ELSE 0
<1> DEFINE t == Tail(s)
           n == Len(s)
           S == OfKind(t, k)
           T == OfKind(s, k) \ {1}
           f == [i \in S |-> i + 1]
<1>1. /\ n \in Nat /\ n >= 1 /\ DOMAIN s = 1 .. n /\ DOMAIN t = 1 .. n - 1
      /\ s[1] = Head(s) /\ t \in Seq(Kinds) /\ \A i \in 1 .. n - 1 : t[i] = s[i + 1]
  OBVIOUS
<1> HIDE DEF t
<1>2. \A i \in S : i \in Nat /\ i + 1 \in T
  BY <1>1 DEF OfKind
<1>3. \A j \in T : j - 1 \in S /\ (j - 1) + 1 = j
  BY <1>1 DEF OfKind
<1>4. ExistsBijection(S, T)
  <2>1. f \in [S -> T]
    BY <1>2
  <2>2. \A a, b \in S : f[a] = f[b] => a = b
    BY <1>2
  <2>3. \A j \in T : \E i \in S : f[i] = j
    BY <1>3
  <2>4. QED
    <3> HIDE DEF f, S, T
    <3>1. QED
      BY <2>1, <2>2, <2>3, OneToOneOnto
<1>5. IsFiniteSet(S) /\ Number(t, k) \in Nat
  BY <1>1, NumberType
<1>6. Cardinality(T) = Number(t, k)
  <2> HIDE DEF f, T
  <2>1. QED
    BY <1>4, <1>5, FS_Bijection DEF Number
<1>7. IsFiniteSet(OfKind(s, k)) /\ Number(s, k) \in Nat
  BY NumberType
<1>8. Cardinality(T) = IF 1 \in OfKind(s, k) THEN Number(s, k) - 1 ELSE Number(s, k)
  BY <1>7, FS_RemoveElement DEF Number
<1>9. 1 \in OfKind(s, k) <=> Head(s) = k
  BY <1>1 DEF OfKind
<1>10. Number(s, k) = Number(t, k) + IF Head(s) = k THEN 1 ELSE 0
  BY <1>5, <1>6, <1>7, <1>8, <1>9
<1>11. QED
  BY <1>10 DEF t

LEMMA Queues == LoadsQueued = Number(txq, "load") /\ StoresQueued = Number(txq, "store")
  BY DEF LoadsQueued, StoresQueued, Number, OfKind

\* What the steps that move packets do to the counts LinkSpec knows.
LEMMA QueueTypes ==
  ASSUME TypeOK
  PROVE  /\ LoadsQueued \in Nat /\ StoresQueued \in Nat /\ LoadsAnswered \in Nat
         /\ txq = <<>> => LoadsQueued = 0 /\ StoresQueued = 0
<1>1. txq \in Seq(Kinds) /\ rspq \in Nat
  BY SizeFacts DEF TypeOK
<1>2. QED
  BY <1>1, NumberType, Queues DEF LoadsAnswered

LEMMA StartEffect ==
  ASSUME IInv, CallInv, TransmitStart
  PROVE  IF op = "read" THEN LoadsQueued' = LoadsQueued + 1 /\ StoresQueued' = StoresQueued
                        ELSE LoadsQueued' = LoadsQueued /\ StoresQueued' = StoresQueued + 1
<1> DEFINE x == IF op = "read" THEN "load" ELSE "store"
<1>1. txq \in Seq(Kinds) /\ x \in Kinds /\ txq' = Append(txq, x)
  BY DEF IInv, TypeOK, Kinds, TransmitStart
<1>2. /\ LoadsQueued' = LoadsQueued + (IF x = "load" THEN 1 ELSE 0)
      /\ StoresQueued' = StoresQueued + (IF x = "store" THEN 1 ELSE 0)
  <2>1. LoadsQueued' = Number(txq', "load") /\ StoresQueued' = Number(txq', "store")
    BY DEF LoadsQueued, StoresQueued, Number, OfKind
  <2>2. QED
    BY <1>1, <2>1, Queues, QueuedAtEnd
<1>3. LoadsQueued \in Nat /\ StoresQueued \in Nat
  BY QueueTypes DEF IInv
<1>4. QED
  BY <1>2, <1>3

LEMMA SendEffect ==
  ASSUME IInv, SendPacket
  PROVE  /\ (LoadsQueued + nld)' = LoadsQueued + nld
         /\ (StoresQueued + nst)' = StoresQueued + nst
         /\ LoadsAnswered' = LoadsAnswered /\ UNCHANGED hostVars
<1> USE SizeFacts
<1>1. txq # <<>> /\ txq \in Seq(Kinds) /\ txq' = Tail(txq) /\ Head(txq) \in Kinds
  <2>1. txq # <<>>
    BY EmptyPath DEF IInv, TypeOK, SendPacket, Launch
  <2>2. QED
    BY <2>1 DEF IInv, TypeOK, SendPacket, Launch
<1>2. /\ LoadsQueued = LoadsQueued' + (IF Head(txq) = "load" THEN 1 ELSE 0)
      /\ StoresQueued = StoresQueued' + (IF Head(txq) = "store" THEN 1 ELSE 0)
  <2>1. LoadsQueued' = Number(txq', "load") /\ StoresQueued' = Number(txq', "store")
    BY DEF LoadsQueued, StoresQueued, Number, OfKind
  <2>2. QED
    BY <1>1, <2>1, Queues, TakenAtHead
<1>3. LoadsQueued' \in Nat /\ StoresQueued' \in Nat /\ nld \in Nat /\ nst \in Nat
  <2>1. TypeOK'
    BY StepIInv DEF IInv, Next
  <2>2. txq' \in Seq(Kinds)
    BY <2>1 DEF TypeOK
  <2>3. QED
    BY <2>2, NumberType DEF LoadsQueued, StoresQueued, Number, OfKind, IInv, TypeOK
<1>4. CASE Head(txq) = "load"
  BY <1>2, <1>3, <1>4 DEF SendPacket, Launch, LoadsAnswered
<1>5. CASE Head(txq) = "store"
  BY <1>2, <1>3, <1>5 DEF SendPacket, Launch, LoadsAnswered
<1>6. QED
  BY <1>1, <1>4, <1>5 DEF Kinds

LEMMA StepCallInv == IInv /\ CallInv /\ [Next]_vars => CallInv'
<1>1. SUFFICES ASSUME IInv, CallInv, [Next]_vars PROVE CallInv'
  OBVIOUS
<1> USE SizeFacts
<1>2. cnt \in Nat /\ rqst \in Nat /\ rsp \in Nat
  BY <1>1 DEF IInv, TypeOK
<1>3. CASE BeginCall
  <2>1. PICK o \in {"store", "fence", "write", "read"}, n \in Nat : Begin(o, n)
    BY <1>3, MaxCntAssumption DEF BeginCall
  <2>2. QED
    BY <2>1 DEF CallInv, Begin, EnterFence, EnterLoop
<1>4. CASE TransmitPoll \/ TransmitStart
  BY <1>1, <1>2, <1>4 DEF CallInv, TransmitPoll, TransmitStart, MoreRequests
<1>5. CASE TransmitWord
  BY <1>1, <1>2, <1>5 DEF CallInv, TransmitWord
<1>6. CASE ReceiveWord
  BY <1>1, <1>2, <1>6 DEF CallInv, ReceiveWord
<1>7. CASE LoopDone
  BY <1>1, <1>2, <1>7 DEF CallInv, LoopDone, AfterLoop, EnterFence, Return
<1>8. CASE FenceRead
  BY <1>1, <1>2, <1>8 DEF CallInv, FenceRead, ReadVacancy, ReadCreditsReg
<1>9. CASE FenceReturn
  BY <1>1, <1>2, <1>9 DEF CallInv, FenceReturn, Return
<1>10. CASE SipoTake \/ SendPacket \/ RspToPiso \/ StoreDone \/ LoadDone
  <2>1. UNCHANGED hostVars
    BY <1>10 DEF SipoTake, SendPacket, Launch, RspToPiso, StoreDone, LoadDone
  <2>2. QED
    BY <1>1, <2>1 DEF CallInv, hostVars
<1>11. CASE UNCHANGED vars
  BY <1>1, <1>11 DEF CallInv, vars, hostVars
<1>12. QED
  BY <1>1, <1>3, <1>4, <1>5, <1>6, <1>7, <1>8, <1>9, <1>10, <1>11 DEF Next, HostStep

LEMMA StillCounts ==
  ASSUME UNCHANGED <<txq, nst, nld>>
  PROVE  /\ LoadsQueued' = LoadsQueued /\ (LoadsQueued + nld)' = LoadsQueued + nld
         /\ StoresQueued' = StoresQueued /\ (StoresQueued + nst)' = StoresQueued + nst
BY DEF LoadsQueued, StoresQueued

LEMMA StepLoads == IInv /\ CallInv /\ LoadsAccounted /\ [Next]_vars => LoadsAccounted'
<1>1. SUFFICES ASSUME IInv, CallInv, LoadsAccounted, [Next]_vars PROVE LoadsAccounted'
  OBVIOUS
<1> USE SizeFacts DEF LoadsAccounted, LoadsAnswered, SentLoads
<1>2. /\ cnt \in Nat /\ rqst \in Nat /\ rsp \in Nat
      /\ nld \in Nat /\ rspq \in Nat /\ piso \in 0 .. Els
      /\ LoadsQueued \in Nat
  BY <1>1, QueueTypes DEF IInv, TypeOK
<1>3. CASE BeginCall
  <2>1. PICK o \in {"store", "fence", "write", "read"}, n \in Nat : Begin(o, n)
    BY <1>3, MaxCntAssumption DEF BeginCall
  <2>2. LoadsQueued' = LoadsQueued
    BY <2>1, StillCounts DEF Begin, bridgeVars, netVars
  <2>3. pc' # "word"
    BY <2>1 DEF Begin, EnterFence, EnterLoop
  <2>4. QED
    BY <1>1, <1>2, <2>1, <2>2, <2>3 DEF Begin, bridgeVars, netVars
<1>4. CASE TransmitPoll
  <2>1. LoadsQueued' = LoadsQueued
    BY <1>4, StillCounts DEF TransmitPoll, bridgeVars, netVars
  <2>2. QED
    BY <1>1, <1>4, <2>1 DEF TransmitPoll, bridgeVars, netVars
<1>5. CASE TransmitStart
  <2>1. LoadsQueued' = LoadsQueued + IF op = "read" THEN 1 ELSE 0
    BY <1>1, <1>2, <1>5, StartEffect
  <2>2. QED
    BY <1>1, <1>2, <1>5, <2>1 DEF TransmitStart, netVars
<1>6. CASE TransmitWord
  <2>1. LoadsQueued' = LoadsQueued
    BY <1>6, StillCounts DEF TransmitWord, netVars
  <2>2. QED
    BY <1>1, <1>2, <1>6, <2>1 DEF TransmitWord, netVars
<1>7. CASE ReceiveWord
  <2>1. LoadsQueued' = LoadsQueued
    BY <1>7, StillCounts DEF ReceiveWord, netVars
  <2>2. pc # "word" /\ pc' # "word"
    BY <1>7 DEF ReceiveWord
  <2>3. QED
    BY <1>1, <1>2, <1>7, <2>1, <2>2 DEF ReceiveWord, netVars
<1>8. CASE LoopDone
  <2>1. LoadsQueued' = LoadsQueued
    BY <1>8, StillCounts DEF LoopDone, bridgeVars, netVars
  <2>2. QED
    BY <1>1, <1>2, <1>8, <2>1 DEF LoopDone, AfterLoop, EnterFence, Return, bridgeVars, netVars
<1>9. CASE FenceRead \/ FenceReturn
  <2>1. LoadsQueued' = LoadsQueued
    BY <1>9, StillCounts
    DEF FenceRead, ReadVacancy, ReadCreditsReg, FenceReturn, bridgeVars, netVars
  <2>2. op # "read" /\ op' # "read"
    BY <1>1, <1>9 DEF CallInv, FenceRead, ReadVacancy, ReadCreditsReg, FenceReturn, Return
  <2>3. QED
    BY <1>1, <1>9, <2>1, <2>2
    DEF FenceRead, ReadVacancy, ReadCreditsReg, FenceReturn, bridgeVars, netVars
<1>10. CASE SendPacket
  BY <1>1, <1>2, <1>10, SendEffect DEF hostVars
<1>11. CASE SipoTake \/ StoreDone
  <2>1. LoadsQueued' = LoadsQueued
    BY <1>11 DEF LoadsQueued, SipoTake, StoreDone, bridgeVars
  <2>2. QED
    BY <1>1, <1>11, <2>1 DEF SipoTake, StoreDone, hostVars, bridgeVars, netVars
<1>12. CASE RspToPiso
  <2>1. LoadsQueued' = LoadsQueued
    BY <1>12, StillCounts DEF RspToPiso, netVars
  <2>2. QED
    BY <1>1, <1>2, <1>12, <2>1 DEF RspToPiso, hostVars, netVars
<1>13. CASE LoadDone
  <2>1. LoadsQueued' = LoadsQueued
    BY <1>13 DEF LoadsQueued, LoadDone
  <2>2. QED
    BY <1>1, <1>2, <1>13, <2>1 DEF LoadDone, hostVars
<1>14. CASE UNCHANGED vars
  <2>1. LoadsQueued' = LoadsQueued
    BY <1>14 DEF LoadsQueued, vars, bridgeVars
  <2>2. QED
    BY <1>1, <1>14, <2>1 DEF vars, hostVars, bridgeVars, netVars
<1>15. QED
  BY <1>1, <1>3, <1>4, <1>5, <1>6, <1>7, <1>8, <1>9, <1>10, <1>11, <1>12, <1>13, <1>14
  DEF Next, HostStep

LEMMA LoadsInvariant == Spec => [](LoadsAccounted /\ CallInv)
<1>1. Init => LoadsAccounted /\ CallInv
  <2>1. SUFFICES ASSUME Init PROVE LoadsAccounted /\ CallInv
    OBVIOUS
  <2>2. LoadsQueued = 0
    BY <2>1, InitIInv, QueueTypes DEF IInv, Init
  <2>3. QED
    BY <2>1, <2>2 DEF Init, CallInv, LoadsAccounted, LoadsAnswered
<1>2. QED
  BY <1>1, StepLoads, StepCallInv, FlowControl, PTL DEF Spec

\* Every load read_mem has sent and not seen answered is in exactly one place,
\* and no answer is ever left behind for the next call.
THEOREM LoadsKept == Spec => []LoadsAccounted
<1>1. QED
  BY LoadsInvariant, PTL

\* A step that LinkSpec does not see.
Unseen == UNCHANGED Link!vars

LEMMA HostRefines ==
  ASSUME IInv, CallInv, LoadsAccounted, FenceInv, BeginCall \/ HostStep
  PROVE  Link!Next \/ Unseen
<1> USE SizeFacts
<1>1. /\ cnt \in Nat /\ rqst \in Nat /\ rsp \in Nat
      /\ nld \in Nat /\ nst \in Nat /\ rspq \in Nat /\ piso \in 0 .. Els
      /\ LoadsQueued \in Nat /\ StoresQueued \in Nat /\ LoadsAnswered \in Nat
  BY QueueTypes DEF IInv, TypeOK
<1>2. CASE BeginCall
  <2>1. PICK o \in {"store", "fence", "write", "read"}, n \in Nat : Begin(o, n)
    BY <1>2, MaxCntAssumption DEF BeginCall
  <2>2. UNCHANGED <<StoresQueued + nst, LoadsQueued + nld, LoadsAnswered>>
    BY <2>1, StillCounts DEF Begin, bridgeVars, netVars, LoadsAnswered
  <2>3. Link!Begin(o)
    BY <2>1, <2>2 DEF Begin, Link!Begin
  <2>4. QED
    BY <2>3 DEF Link!Next
<1>3. CASE TransmitPoll \/ TransmitWord \/ FenceRead
  <2>1. UNCHANGED <<op, txq, nst, nld, rspq, piso>>
    BY <1>3 DEF TransmitPoll, TransmitWord, FenceRead, ReadVacancy, ReadCreditsReg, bridgeVars, netVars
  <2>2. QED
    BY <2>1, StillCounts DEF Unseen, Link!vars, LoadsAnswered
<1>4. CASE TransmitStart
  <2>1. UNCHANGED <<op, nst, nld, rspq, piso>> /\ pc = "loop"
    BY <1>4 DEF TransmitStart, netVars
  <2>2. LoadsAnswered' = LoadsAnswered
    BY <2>1 DEF LoadsAnswered
  <2>3. CASE op = "read"
    BY <1>1, <1>4, <2>1, <2>2, <2>3, StartEffect DEF Link!Next, Link!PostLoad
  <2>4. CASE op \in {"store", "write"}
    BY <1>1, <1>4, <2>1, <2>2, <2>4, StartEffect DEF Link!Next, Link!PostStore
  <2>5. QED
    BY <2>1, <2>3, <2>4 DEF CallInv
<1>5. CASE ReceiveWord
  <2>1. UNCHANGED <<op, txq, nst, nld, rspq>> /\ op = "read" /\ piso > 0 /\ piso' = piso - 1
    BY <1>5 DEF ReceiveWord, netVars
  <2>2. CASE piso = 1
    <3>1. LoadsAnswered > 0 /\ LoadsAnswered' = LoadsAnswered - 1
      BY <1>1, <2>1, <2>2 DEF LoadsAnswered
    <3>2. QED
      BY <2>1, <3>1, StillCounts DEF Link!Next, Link!TakeAnswer
  <2>3. CASE piso # 1
    <3>1. LoadsAnswered' = LoadsAnswered
      BY <1>1, <2>1, <2>3 DEF LoadsAnswered
    <3>2. QED
      BY <2>1, <3>1, StillCounts DEF Unseen, Link!vars
  <2>4. QED
    BY <2>2, <2>3
<1>6. CASE LoopDone
  <2>1. UNCHANGED <<txq, nst, nld, rspq, piso>> /\ pc = "loop" /\ rqst = cnt
    BY <1>6 DEF LoopDone, bridgeVars, netVars
  <2>2. UNCHANGED <<StoresQueued + nst, LoadsQueued + nld, LoadsAnswered>>
    BY <2>1, StillCounts DEF LoadsAnswered
  <2>3. CASE op = "write"
    BY <1>6, <2>2, <2>3 DEF LoopDone, AfterLoop, EnterFence, Unseen, Link!vars
  <2>4. CASE op = "store"
    BY <1>6, <2>2, <2>4 DEF LoopDone, AfterLoop, Return, Link!Next, Link!Return
  <2>5. CASE op = "read"
    <3>1. (LoadsQueued + nld) + LoadsAnswered = 0
      BY <1>1, <1>6, <2>1, <2>5 DEF LoopDone, AfterLoop, LoadsAccounted, SentLoads
    <3>2. QED
      BY <1>6, <2>2, <2>5, <3>1 DEF LoopDone, AfterLoop, Return, Link!Next, Link!Return
  <2>6. QED
    BY <2>1, <2>3, <2>4, <2>5 DEF CallInv
<1>7. CASE FenceReturn
  <2>1. UNCHANGED <<txq, nst, nld, rspq, piso>> /\ pc = "fence" /\ FenceOver
    BY <1>7 DEF FenceReturn, bridgeVars, netVars
  <2>2. UNCHANGED <<StoresQueued + nst, LoadsQueued + nld, LoadsAnswered>>
    BY <2>1, StillCounts DEF LoadsAnswered
  <2>3. LoadsQueued = 0 /\ StoresQueued = 0 /\ nst = 0 /\ nld = 0
    BY <2>1, QueueTypes DEF FenceInv, Drained, IInv
  <2>4. op \in {"write", "fence"}
    BY <2>1 DEF CallInv
  <2>5. LoadsAnswered = 0
    BY <1>1, <2>3, <2>4 DEF LoadsAccounted
  <2>6. (StoresQueued + nst) + (LoadsQueued + nld) + LoadsAnswered = 0
    BY <2>3, <2>5
  <2>7. QED
    BY <1>7, <2>2, <2>4, <2>6 DEF FenceReturn, Return, Link!Next, Link!Return
<1>8. QED
  BY <1>2, <1>3, <1>4, <1>5, <1>6, <1>7 DEF HostStep

LEMMA WiresRefine ==
  ASSUME IInv, SipoTake \/ SendPacket \/ RspToPiso \/ StoreDone \/ LoadDone
  PROVE  Link!Next \/ Unseen
<1> USE SizeFacts
<1>1. /\ nld \in Nat /\ nst \in Nat /\ rspq \in Nat /\ piso \in 0 .. Els
      /\ LoadsQueued \in Nat /\ StoresQueued \in Nat /\ LoadsAnswered \in Nat
  BY QueueTypes DEF IInv, TypeOK
<1>2. CASE SipoTake
  BY <1>2, StillCounts DEF SipoTake, hostVars, netVars, Unseen, Link!vars, LoadsAnswered
<1>3. CASE SendPacket
  BY <1>3, SendEffect DEF hostVars, Unseen, Link!vars
<1>4. CASE RspToPiso
  <2>1. LoadsAnswered' = LoadsAnswered
    BY <1>1, <1>4 DEF RspToPiso, LoadsAnswered
  <2>2. QED
    BY <1>4, <2>1, StillCounts DEF RspToPiso, hostVars, netVars, Unseen, Link!vars
<1>5. CASE StoreDone
  <2>1. /\ UNCHANGED <<op, LoadsQueued, StoresQueued, LoadsAnswered, nld>>
        /\ nst > 0 /\ nst' = nst - 1
    BY <1>5 DEF StoreDone, hostVars, bridgeVars, LoadsQueued, StoresQueued, LoadsAnswered
  <2>2. QED
    BY <1>1, <2>1 DEF Link!Next, Link!PerformStore
<1>6. CASE LoadDone
  <2>1. /\ UNCHANGED <<op, LoadsQueued, StoresQueued, nst>>
        /\ nld > 0 /\ nld' = nld - 1 /\ LoadsAnswered' = LoadsAnswered + 1
    BY <1>1, <1>6 DEF LoadDone, hostVars, LoadsQueued, StoresQueued, LoadsAnswered
  <2>2. QED
    BY <1>1, <2>1 DEF Link!Next, Link!PerformLoad
<1>7. QED
  BY <1>2, <1>3, <1>4, <1>5, <1>6

\* The link keeps its promise: a call that fences returns with nothing of any
\* earlier call on its way, and no read returns short of an answer, provided
\* that the fence's uninitialised locals do not hold the values it waits for.
THEOREM LinkRefined ==
  ASSUME <<HostCredits, MaxOut>> \notin Garbage
  PROVE  Spec => ImplementsLink
<1>1. Init => Link!Init
  <2>1. SUFFICES ASSUME Init PROVE Link!Init
    OBVIOUS
  <2>2. LoadsQueued = 0 /\ StoresQueued = 0
    BY <2>1, InitIInv, QueueTypes DEF IInv, Init
  <2>3. QED
    BY <2>1, <2>2 DEF Init, Link!Init, LoadsAnswered
<1>2. Init => FenceInv
  BY DEF Init, FenceInv
<1>3. IInv /\ FenceInv /\ [Next]_vars => FenceInv'
  BY StepFenceInv
<1>4. IInv /\ CallInv /\ LoadsAccounted /\ FenceInv /\ [Next]_vars => [Link!Next]_Link!vars
  <2>1. SUFFICES ASSUME IInv, CallInv, LoadsAccounted, FenceInv, [Next]_vars
                 PROVE  Link!Next \/ Unseen
    BY DEF Unseen
  <2>2. CASE UNCHANGED vars
    BY <2>2, StillCounts DEF vars, hostVars, bridgeVars, netVars, Unseen, Link!vars, LoadsAnswered
  <2>3. CASE Next
    BY <2>1, <2>3, HostRefines, WiresRefine DEF Next
  <2>4. QED
    BY <2>1, <2>2, <2>3
<1>5. QED
  BY <1>1, <1>2, <1>3, <1>4, FlowControl, LoadsInvariant, PTL DEF Spec, ImplementsLink, Link!Spec
==============================================================================
