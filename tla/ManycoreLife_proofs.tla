------------------------- MODULE ManycoreLife_proofs -------------------------
(***************************************************************************)
(* Proofs about ManycoreLife for every set of instances, number of rounds  *)
(* and capacity, and for both platforms.                                   *)
(***************************************************************************)
EXTENDS ManycoreLife, TLAPS

\* Each stage belongs to its platform.
PlatformStages ==
  /\ pc \in {"mmio", "round", "read", "recheck", "vacancy", "instruments"} => kind = "f1"
  /\ pc \in {"tracer", "drain"} => kind = "dpi"

\* A drain counts what it may read.
DrainCounts ==
  /\ pc = "read" => left >= 1 /\ left <= Waiting
  /\ pc = "drain" => drains + stale <= LoadCap

\* The identifier is in use from its claim to its release.
Claimed == pc \notin {"idle", "platform"}

Claim ==
  /\ Claimed => active_ids
  /\ kind = "f1" /\ ~Claimed => (active_ids => Live # {})
  /\ pc = "platform" => mc \in name /\ mc \notin Live
  /\ Claimed => mc \in name
  /\ pc \in Stages \ {"idle", "platform", "mmio"} => mc \in platform

\* Only an exit runs beside an instance, and it is the one that exits.
Ownership ==
  /\ \A m, n \in Live : m = n
  /\ Live \subseteq platform
  /\ Live # {} => active_ids
  /\ Live # {} /\ Claimed =>
       then = "exit" /\ mc \in Live /\ pc \in {"round", "read", "recheck", "release"}
  /\ Live # {} /\ ~Claimed => ready
  /\ pc \in {"reset", "dma"} => ready

\* What an init has checked stays so.
Clean ==
  /\ Live # {} => stale = 0 /\ ~torn
  /\ kind = "dpi" => ~torn
  /\ pc \in {"vacancy", "instruments", "config", "responders", "reset", "dma"} => stale = 0
  /\ pc \in {"instruments", "config", "responders", "reset", "dma"} => ~torn

IInv == TypeOK /\ PlatformStages /\ DrainCounts /\ Claim /\ Ownership /\ Clean

------------------------------------------------------------------------------

\* What a call that returns leaves of the set of live instances.
LEMMA ReturnEffect ==
  ASSUME TypeOK, NEW o \in {"live", "failed", "exited"}, Return(o)
  PROVE  /\ pc' = "idle"
         /\ status' \in [Instances -> {"new", "live", "failed", "exited"}]
         /\ o = "live" => Live' = Live \cup {mc}
         /\ o # "live" => Live' = Live \ {mc}
  BY DEF TypeOK, Return, Live

\* A packet taken from a FIFO that has one.
LEMMA TakeEffect ==
  ASSUME TypeOK, Waiting > 0, TakePacket
  PROVE  /\ stale' \in Nat /\ fresh' \in Nat /\ Waiting' = Waiting - 1
         /\ stale' = stale - 1 \/ (stale = 0 /\ stale' = 0)
  BY DEF TypeOK, Waiting, TakePacket

\* A count within a capacity, or past it with nothing left.
LEMMA Counted ==
  \A d, s, c \in Nat :
    d + s <= c \/ (d > c /\ s = 0) => (d <= c => d + s <= c) /\ (d > c => s = 0)
  OBVIOUS

\* An init that has not finished has the hardware to itself.
LEMMA InitAlone ==
  ASSUME IInv, Claimed,
         pc \notin {"round", "read", "recheck", "release"} \/ then # "exit"
  PROVE  Live = {}
  BY DEF IInv, Ownership

LEMMA InitInv == Init => IInv
<1>1. ASSUME Init PROVE IInv
  <2>1. kind \in {"f1", "dpi"}
    BY <1>1, KindsAssumption DEF Init
  <2>2. Live = {}
    BY <1>1 DEF Init, Live
  <2>3. TypeOK
    <3>1. stale \in Nat /\ stale <= LoadCap /\ stale + 0 = stale /\ 0 <= LoadCap
          /\ LoadCap \in Nat /\ LoadCap + 1 \in Nat /\ Rounds \in Nat
      BY <1>1, <2>1, CapAssumption, RoundsAssumption DEF Init
    <3>2. 0 \in 0 .. (IF kind = "f1" THEN Rounds ELSE LoadCap + 1) /\ 0 \in 0 .. LoadCap
      BY <3>1, <2>1
    <3>3. stale \in Nat /\ fresh \in Nat /\ Waiting <= LoadCap
      BY <3>1, <1>1 DEF Init, Waiting
    <3>4. QED
      BY <1>1, <3>2, <3>3 DEF Init, TypeOK, Stages
  <2>4. QED
    BY <1>1, <2>2, <2>3
    DEF Init, IInv, PlatformStages, DrainCounts, Claimed, Claim, Ownership, Clean
<1>2. QED BY <1>1

------------------------------------------------------------------------------
(***************************************************************************)
(* One lemma per stage of a call.                                          *)
(***************************************************************************)

LEMMA BeginInv == ASSUME IInv, NEW m \in Instances, Begin(m) PROVE IInv'
<1>1. Live' = Live /\ m \notin Live
  BY DEF Begin, IInv, TypeOK, Ownership, Live
<1>2. TypeOK'
  BY DEF Begin, IInv, TypeOK, Stages, Waiting, procVars, fifoVars
<1>3. QED
  BY <1>1, <1>2
  DEF Begin, IInv, PlatformStages, DrainCounts, Claimed, Claim, Ownership, Clean,
      Stages, Waiting, procVars, fifoVars

LEMMA PlatformInv == ASSUME IInv, Platform PROVE IInv'
<1>1. CASE mc \in platform \/ active_ids
  <2>1. Return("failed") /\ UNCHANGED <<platform, active_ids, mc, then, drains, left, fifoVars>>
        /\ UNCHANGED <<name, kind, ready, torn>> /\ pc = "platform"
    BY <1>1 DEF Platform
  <2>2. Live' = Live /\ pc' = "idle"
    BY <2>1, ReturnEffect DEF IInv, Claim
  <2>3. TypeOK'
    BY <2>1, ReturnEffect DEF IInv, TypeOK, Stages, Waiting, fifoVars
  <2>4. QED
    BY <2>1, <2>2, <2>3
    DEF IInv, PlatformStages, DrainCounts, Claimed, Claim, Ownership, Clean, Waiting, fifoVars
<1>2. CASE ~(mc \in platform \/ active_ids)
  <2>1. /\ pc = "platform" /\ active_ids' = TRUE /\ stale' = Waiting /\ fresh' = 0
        /\ platform' = IF kind = "f1" THEN platform ELSE platform \cup {mc}
        /\ pc' = IF kind = "f1" THEN "mmio" ELSE "tracer"
        /\ UNCHANGED <<mc, then, drains, left, status, name, kind, ready, torn>>
    BY <1>2 DEF Platform, Stage
  <2>2. Live' = Live /\ Live = {}
    BY <1>2, <2>1 DEF Live, IInv, Ownership
  <2>3. TypeOK'
    BY <2>1 DEF IInv, TypeOK, Claim, Stages, Waiting
  <2>4. kind \in {"f1", "dpi"}
    BY KindsAssumption DEF IInv, TypeOK
  <2>5. QED
    BY <2>1, <2>2, <2>3, <2>4
    DEF IInv, PlatformStages, DrainCounts, Claimed, Claim, Ownership, Clean, Stages
<1>3. QED BY <1>1, <1>2

LEMMA MmioInv == ASSUME IInv, Mmio PROVE IInv'
<1>0. pc = "mmio" /\ Live = {} /\ UNCHANGED <<name, kind, ready, fifoVars, torn>>
  BY InitAlone DEF Mmio, Claimed
<1>1. CASE platform' = platform \cup {mc} /\ pc' = "round" /\ then' = "init" /\ drains' = 0
           /\ UNCHANGED <<status, active_ids, mc, left>>
  <2>1. Live' = {}
    BY <1>0, <1>1 DEF Live
  <2>2. TypeOK'
    BY <1>0, <1>1, RoundsAssumption, CapAssumption
    DEF IInv, TypeOK, Claim, Claimed, Stages, Waiting, fifoVars
  <2>3. QED
    BY <1>0, <1>1, <2>1, <2>2
    DEF IInv, PlatformStages, DrainCounts, Claimed, Claim, Ownership, Clean, Stages,
        Waiting, fifoVars
<1>2. CASE active_ids' = FALSE /\ Return("failed") /\ UNCHANGED <<platform, mc, then, drains, left>>
  <2>1. Live' = {} /\ pc' = "idle"
    BY <1>0, <1>2, ReturnEffect DEF IInv
  <2>2. TypeOK'
    BY <1>0, <1>2, ReturnEffect DEF IInv, TypeOK, Stages, Waiting, fifoVars
  <2>3. QED
    BY <1>0, <1>2, <2>1, <2>2
    DEF IInv, PlatformStages, DrainCounts, Claimed, Claim, Ownership, Clean, Waiting, fifoVars
<1>3. QED BY <1>1, <1>2 DEF Mmio

LEMMA RoundInv == ASSUME IInv, Round PROVE IInv'
<1>0. /\ pc = "round" /\ kind = "f1"
      /\ UNCHANGED <<mc, then, instVars, procVars, fifoVars, torn>>
  BY DEF Round, IInv, PlatformStages
<1>1. Live' = Live /\ Waiting' = Waiting
  BY <1>0 DEF Live, Waiting, instVars, fifoVars
<1>2. TypeOK' /\ (pc' = "read" => left' >= 1 /\ left' <= Waiting') /\ pc' \in {"read", "recheck"}
  BY <1>0, <1>1, RoundsAssumption
  DEF Round, IInv, TypeOK, Stages, Waiting, instVars, procVars, fifoVars
<1>3. QED
  BY <1>0, <1>1, <1>2
  DEF IInv, PlatformStages, DrainCounts, Claimed, Claim, Ownership, Clean, Stages,
      instVars, procVars, fifoVars

LEMMA ReadPacketInv == ASSUME IInv, ReadPacket PROVE IInv'
<1>0. /\ pc = "read" /\ kind = "f1" /\ TakePacket /\ left' = left - 1
      /\ pc' = IF left = 1 THEN "round" ELSE "read"
      /\ UNCHANGED <<mc, then, drains, instVars, procVars, torn>>
  BY DEF ReadPacket, IInv, PlatformStages
<1>1. left >= 1 /\ left <= Waiting /\ left \in Nat /\ Waiting \in Nat /\ LoadCap \in Nat
      /\ Waiting <= LoadCap
  BY <1>0, CapAssumption DEF IInv, DrainCounts, TypeOK, Waiting
<1>2. Waiting > 0
  BY <1>1
<1>3. /\ stale' \in Nat /\ fresh' \in Nat /\ Waiting' = Waiting - 1
      /\ stale' = stale - 1 \/ (stale = 0 /\ stale' = 0)
  BY <1>0, <1>2, TakeEffect DEF IInv
<1>4. /\ left' \in 0 .. LoadCap /\ Waiting' <= LoadCap
      /\ (pc' = "read" => left' >= 1 /\ left' <= Waiting')
  BY <1>0, <1>1, <1>3
<1>5. Live' = Live /\ (stale = 0 => stale' = 0) /\ pc' \in {"round", "read"}
  <2>1. stale \in Nat
    BY DEF IInv, TypeOK
  <2>2. QED BY <1>0, <1>3, <2>1 DEF Live, instVars
<1>6. TypeOK'
  BY <1>0, <1>3, <1>4, <1>5 DEF IInv, TypeOK, Stages, instVars, procVars
<1>7. QED
  BY <1>0, <1>4, <1>5, <1>6
  DEF IInv, PlatformStages, DrainCounts, Claimed, Claim, Ownership, Clean, Stages,
      instVars, procVars

\* Giving the platform back ends the init with nobody holding anything.
LEMMA FifosFailInv ==
  ASSUME IInv, Claimed, kind = "f1", Live = {}, FifosFail,
         UNCHANGED <<name, kind, ready, fifoVars, torn>>
  PROVE  IInv'
<1>1. Live' = {} /\ pc' = "idle"
  BY ReturnEffect DEF IInv, FifosFail
<1>2. TypeOK'
  BY ReturnEffect DEF IInv, FifosFail, TypeOK, Stages, Waiting, fifoVars
<1>3. QED
  BY <1>1, <1>2
  DEF FifosFail, IInv, PlatformStages, DrainCounts, Claimed, Claim, Ownership, Clean,
      Waiting, fifoVars

LEMMA RecheckInv == ASSUME IInv, Recheck PROVE IInv'
<1>0. pc = "recheck" /\ kind = "f1" /\ UNCHANGED <<name, kind, ready, fifoVars, torn>>
  BY DEF Recheck, IInv, PlatformStages
<1>1. CASE then = "init" /\ Waiting > 0
  <2>1. Live = {} /\ Claimed
    BY <1>0, <1>1, InitAlone DEF Claimed
  <2>2. QED BY <1>0, <1>1, <2>1, FifosFailInv DEF Recheck
<1>2. CASE ~(then = "init" /\ Waiting > 0)
  <2>1. /\ pc' = IF then = "init" THEN "vacancy" ELSE "release"
        /\ UNCHANGED <<mc, then, drains, left, platform, active_ids, status>>
    BY <1>2 DEF Recheck, Stage
  <2>2. Live' = Live /\ Waiting' = Waiting
    BY <1>0, <2>1 DEF Live, Waiting, fifoVars
  <2>3. then = "init" => stale = 0
    <3>1. stale \in Nat /\ fresh \in Nat
      BY DEF IInv, TypeOK
    <3>2. QED BY <1>2, <3>1 DEF Waiting
  <2>4. TypeOK'
    BY <1>0, <2>1 DEF IInv, TypeOK, Stages, Waiting, fifoVars
  <2>5. QED
    BY <1>0, <2>1, <2>2, <2>3, <2>4
    DEF IInv, PlatformStages, DrainCounts, Claimed, Claim, Ownership, Clean, Stages, fifoVars
<1>3. QED BY <1>1, <1>2

LEMMA VacancyInv == ASSUME IInv, Vacancy PROVE IInv'
<1>0. pc = "vacancy" /\ kind = "f1" /\ UNCHANGED <<name, kind, ready, fifoVars, torn>>
  BY DEF Vacancy, IInv, PlatformStages
<1>1. Live = {} /\ Claimed
  BY <1>0, InitAlone DEF Claimed
<1>2. CASE torn
  BY <1>0, <1>1, <1>2, FifosFailInv DEF Vacancy
<1>3. CASE ~torn
  <2>1. pc' = "instruments" /\ UNCHANGED <<mc, then, drains, left, platform, active_ids, status>>
    BY <1>3 DEF Vacancy, Stage
  <2>2. Live' = {}
    BY <1>1, <2>1 DEF Live
  <2>3. TypeOK'
    BY <1>0, <2>1 DEF IInv, TypeOK, Stages, Waiting, fifoVars
  <2>4. QED
    BY <1>0, <1>1, <1>3, <2>1, <2>2, <2>3
    DEF IInv, PlatformStages, DrainCounts, Claimed, Claim, Ownership, Clean, Stages, fifoVars
<1>4. QED BY <1>2, <1>3

\* A stage after the claim of the platform cleans up, or hands over to the next.
AfterClaim == {"instruments", "config", "responders", "reset", "dma"}

LEMMA CleanupInv ==
  ASSUME IInv, pc \in AfterClaim, Cleanup("failed"),
         UNCHANGED <<instVars, procVars, fifoVars, torn>>
  PROVE  IInv'
<1>1. Claimed /\ Live = {} /\ mc \in platform
  BY InitAlone DEF AfterClaim, Claimed, IInv, Claim, Stages
<1>2. Live' = {} /\ Waiting' = Waiting
  BY <1>1 DEF Live, Waiting, instVars, fifoVars
<1>3. kind \in {"f1", "dpi"}
  BY KindsAssumption DEF IInv, TypeOK
<1>4. pc' \in {"round", "release"} /\ (pc' = "round" => kind = "f1")
  BY DEF Cleanup
<1>5. TypeOK'
  BY <1>3, <1>4, RoundsAssumption, CapAssumption
  DEF Cleanup, IInv, TypeOK, Stages, Waiting, instVars, procVars, fifoVars
<1>6. QED
  BY <1>1, <1>2, <1>4, <1>5
  DEF Cleanup, IInv, PlatformStages, DrainCounts, Claimed, Claim, Ownership, Clean, Stages,
      instVars, procVars, fifoVars

LEMMA StageInv ==
  ASSUME IInv, pc \in AfterClaim,
         NEW s \in {"config", "responders", "reset", "dma"}, Stage(s),
         s \in {"reset", "dma"} => ready',
         ready' \in BOOLEAN,
         UNCHANGED <<instVars, kind, active_ids, fifoVars, torn>>
  PROVE  IInv'
<1>1. Claimed /\ Live = {} /\ mc \in platform
  BY InitAlone DEF AfterClaim, Claimed, IInv, Claim, Stages
<1>2. Live' = {} /\ Waiting' = Waiting /\ pc' = s
  BY <1>1 DEF Live, Waiting, instVars, fifoVars, Stage
<1>3. TypeOK'
  BY <1>2 DEF Stage, IInv, TypeOK, Stages, Waiting, instVars, fifoVars
<1>4. QED
  BY <1>1, <1>2, <1>3
  DEF Stage, AfterClaim, IInv, PlatformStages, DrainCounts, Claimed, Claim, Ownership, Clean,
      Stages, instVars, fifoVars

LEMMA StagesInv ==
  ASSUME IInv, Instruments \/ Config \/ Responders \/ WaitReset PROVE IInv'
<1>0. ready \in BOOLEAN /\ (pc = "reset" => ready)
  BY DEF IInv, TypeOK, Ownership
<1>1. CASE Instruments
  BY <1>0, <1>1, CleanupInv, StageInv DEF Instruments, AfterClaim, procVars
<1>2. CASE Config
  BY <1>0, <1>2, CleanupInv, StageInv DEF Config, AfterClaim, procVars
<1>3. CASE Responders
  BY <1>3, StageInv DEF Responders, AfterClaim
<1>4. CASE WaitReset
  BY <1>0, <1>4, CleanupInv, StageInv DEF WaitReset, AfterClaim, procVars
<1>5. QED BY <1>1, <1>2, <1>3, <1>4

\* The last stage: the instance goes live, alone.
LEMMA DmaInv == ASSUME IInv, Dma PROVE IInv'
<1>0. pc = "dma" /\ UNCHANGED <<name, platform, procVars, fifoVars, torn>>
  BY DEF Dma
<1>1. CASE Return("live") /\ UNCHANGED <<mc, then, drains, left>>
  <2>1. Claimed /\ Live = {} /\ mc \in platform /\ active_ids /\ ready
    BY <1>0, InitAlone DEF Claimed, IInv, Claim, Ownership, Stages
  <2>2. Live' = {mc} /\ pc' = "idle"
    BY <1>1, <2>1, ReturnEffect DEF IInv
  <2>3. TypeOK'
    BY <1>0, <1>1, ReturnEffect DEF IInv, TypeOK, Stages, Waiting, procVars, fifoVars
  <2>4. QED
    BY <1>0, <1>1, <2>1, <2>2, <2>3
    DEF IInv, PlatformStages, DrainCounts, Claimed, Claim, Ownership, Clean, procVars, fifoVars
<1>2. CASE Cleanup("failed") /\ UNCHANGED status
  BY <1>0, <1>2, CleanupInv DEF AfterClaim, instVars
<1>3. QED BY <1>1, <1>2 DEF Dma

\* Whatever the call, nobody holds the hardware after the release.
LEMMA ReleaseInv == ASSUME IInv, Release PROVE IInv'
<1>0. /\ pc = "release" /\ active_ids' = FALSE
      /\ platform' = IF kind = "f1" THEN platform \ {mc} ELSE platform
      /\ UNCHANGED <<name, kind, ready, mc, then, drains, left, fifoVars, torn>>
  BY DEF Release
<1>1. /\ pc' = "idle" /\ Live' = Live \ {mc}
      /\ status' \in [Instances -> {"new", "live", "failed", "exited"}]
  BY ReturnEffect DEF Release, IInv
<1>2. Live' = {}
  <2>1. Claimed
    BY <1>0 DEF Claimed
  <2>2. QED BY <1>1, <2>1 DEF IInv, Ownership
<1>3. TypeOK'
  BY <1>0, <1>1 DEF IInv, TypeOK, Stages, Waiting, fifoVars
<1>4. QED
  BY <1>0, <1>1, <1>2, <1>3
  DEF IInv, PlatformStages, DrainCounts, Claimed, Claim, Ownership, Clean, Waiting, fifoVars

\* A simulation that fails keeps the identifier, with nobody live.
LEMMA DpiFailInv ==
  ASSUME IInv, pc \in {"tracer", "drain"}, Return("failed"),
         drains' \in 0 .. LoadCap + 1, stale' \in Nat, fresh' \in Nat, Waiting' <= LoadCap,
         UNCHANGED <<mc, then, left, name, platform, procVars, torn>>
  PROVE  IInv'
<1>1. Claimed /\ Live = {} /\ kind = "dpi"
  BY InitAlone DEF Claimed, IInv, PlatformStages
<1>2. Live' = {} /\ pc' = "idle"
  BY <1>1, ReturnEffect DEF IInv
<1>3. TypeOK'
  BY <1>1, ReturnEffect DEF IInv, TypeOK, Stages, procVars
<1>4. QED
  BY <1>1, <1>2, <1>3
  DEF IInv, PlatformStages, DrainCounts, Claimed, Claim, Ownership, Clean, procVars

LEMMA DpiTracerInv == ASSUME IInv, DpiTracer PROVE IInv'
<1>0. /\ pc = "tracer" /\ kind = "dpi"
      /\ UNCHANGED <<name, platform, procVars, fifoVars, torn>>
  BY DEF DpiTracer, IInv, PlatformStages
<1>1. /\ Claimed /\ Live = {} /\ drains \in 0 .. LoadCap + 1 /\ Waiting <= LoadCap
      /\ stale \in Nat /\ fresh \in Nat /\ LoadCap \in Nat
  BY <1>0, InitAlone, CapAssumption DEF Claimed, IInv, TypeOK
<1>2. CASE pc' = "drain" /\ drains' = 0 /\ UNCHANGED <<status, mc, then, left>>
  <2>1. Live' = {}
    BY <1>1, <1>2 DEF Live
  <2>2. 0 + stale <= LoadCap /\ 0 \in 0 .. LoadCap + 1
    BY <1>1 DEF Waiting
  <2>3. TypeOK'
    BY <1>0, <1>2, <2>2 DEF IInv, TypeOK, Stages, Waiting, procVars, fifoVars
  <2>4. QED
    BY <1>0, <1>1, <1>2, <2>1, <2>2, <2>3
    DEF IInv, PlatformStages, DrainCounts, Claimed, Claim, Ownership, Clean, Stages,
        procVars, fifoVars
<1>3. CASE DpiFail
  BY <1>0, <1>1, <1>3, DpiFailInv DEF DpiFail, Waiting, fifoVars
<1>4. QED BY <1>2, <1>3 DEF DpiTracer

\* A drain that read more than the capacity has read all that was there before.
LEMMA DpiDrainInv == ASSUME IInv, DpiDrain PROVE IInv'
<1>0. pc = "drain" /\ kind = "dpi" /\ UNCHANGED <<mc, then, left, name, platform, procVars, torn>>
  BY DEF DpiDrain, IInv, PlatformStages
<1>1. /\ Claimed /\ Live = {} /\ drains \in Nat /\ Waiting <= LoadCap /\ Waiting \in Nat
      /\ stale \in Nat /\ fresh \in Nat /\ LoadCap \in Nat /\ drains + stale <= LoadCap
      /\ ~torn
  BY <1>0, InitAlone, CapAssumption
  DEF Claimed, IInv, TypeOK, DrainCounts, Clean, Waiting
<1>2. /\ stale' \in Nat /\ fresh' \in Nat /\ Waiting' <= LoadCap
      /\ drains' \in 0 .. LoadCap + 1
      /\ drains' + stale' <= LoadCap \/ (drains' > LoadCap /\ stale' = 0)
      /\ Waiting = 0 => stale' = 0
  <2>1. CASE Waiting > 0
    <3>1. /\ stale' \in Nat /\ fresh' \in Nat /\ Waiting' = Waiting - 1
          /\ stale' = stale - 1 \/ (stale = 0 /\ stale' = 0)
          /\ drains' = drains + 1
      BY <2>1, TakeEffect DEF DpiDrain, IInv
    <3>2. Waiting' <= LoadCap /\ drains' \in 0 .. LoadCap + 1
      BY <1>1, <3>1
    <3>3. CASE stale' = stale - 1
      <4>1. drains' + stale' <= LoadCap
        BY <1>1, <3>1, <3>3
      <4>2. QED BY <2>1, <3>1, <3>2, <4>1
    <3>4. CASE stale = 0 /\ stale' = 0
      <4>1. drains' + stale' <= LoadCap \/ drains' > LoadCap
        BY <1>1, <3>1, <3>4
      <4>2. QED BY <2>1, <3>1, <3>2, <3>4, <4>1
    <3>5. QED BY <3>1, <3>3, <3>4
  <2>2. CASE ~(Waiting > 0)
    <3>1. UNCHANGED <<stale, fresh, drains>>
      BY <2>2 DEF DpiDrain, fifoVars
    <3>2. Waiting' = Waiting
      BY <3>1 DEF Waiting
    <3>3. stale = 0
      BY <1>1, <2>2 DEF Waiting
    <3>4. QED BY <1>1, <3>1, <3>2, <3>3
  <2>3. QED BY <2>1, <2>2
<1>7. drains' \in Nat /\ stale' \in Nat /\ LoadCap \in Nat
  BY <1>1, <1>2
<1>8. drains' <= LoadCap => drains' + stale' <= LoadCap
  BY <1>2, <1>7, Counted
<1>9. drains' > LoadCap => stale' = 0
  BY <1>2, <1>7, Counted
<1>3. CASE Waiting > 0 /\ drains' <= LoadCap /\ UNCHANGED <<pc, status>>
  <2>0. Live' = {}
    BY <1>1, <1>3 DEF Live
  <2>1. Live' = {} /\ drains' + stale' <= LoadCap
    BY <2>0, <1>8, <1>3
  <2>2. TypeOK'
    BY <1>0, <1>2, <1>3 DEF IInv, TypeOK, procVars
  <2>3. QED
    BY <1>0, <1>1, <1>3, <2>1, <2>2
    DEF IInv, PlatformStages, DrainCounts, Claimed, Claim, Ownership, Clean, Stages, procVars
<1>4. CASE Return("failed")
  BY <1>0, <1>2, <1>4, DpiFailInv
<1>5. CASE /\ IF Waiting > 0 THEN drains' > LoadCap ELSE drains' # LoadCap
           /\ pc' = "config" /\ UNCHANGED status
  <2>1. stale' = 0
    <3>1. CASE Waiting > 0
      <4>1. drains' > LoadCap
        BY <1>5, <3>1
      <4>2. QED BY <1>9, <4>1
    <3>2. CASE ~(Waiting > 0)
      <4>1. Waiting = 0
        BY <1>1, <3>2
      <4>2. QED BY <1>2, <4>1
    <3>3. QED BY <3>1, <3>2
  <2>2. Live' = {}
    BY <1>1, <1>5 DEF Live
  <2>3. TypeOK'
    BY <1>0, <1>2, <1>5 DEF IInv, TypeOK, Stages, procVars
  <2>4. QED
    BY <1>0, <1>1, <1>5, <2>1, <2>2, <2>3
    DEF IInv, PlatformStages, DrainCounts, Claimed, Claim, Ownership, Clean, Stages, procVars
<1>6. QED BY <1>3, <1>4, <1>5 DEF DpiDrain

------------------------------------------------------------------------------
(***************************************************************************)
(* The program, the manycore and the end of the process.                   *)
(***************************************************************************)

LEMMA ExitInv == ASSUME IInv, NEW m \in Instances, Exit(m) PROVE IInv'
<1>1. /\ pc = "idle" /\ m \in Live /\ mc' = m /\ ready' = FALSE /\ then' = "exit" /\ drains' = 0
      /\ pc' = IF kind = "f1" THEN "round" ELSE "release"
      /\ UNCHANGED <<left, status, name, platform, kind, active_ids, fifoVars, torn>>
  BY DEF Exit, Live, instVars
<1>2. Live' = Live /\ m \in platform /\ m \in name /\ active_ids
  BY <1>1 DEF Live, IInv, Ownership, TypeOK
<1>3. TypeOK'
  <2>1. drains' \in 0 .. (IF kind' = "f1" THEN Rounds ELSE LoadCap + 1)
    BY <1>1, RoundsAssumption, CapAssumption
  <2>2. Waiting' <= LoadCap /\ pc' \in Stages
    BY <1>1 DEF IInv, TypeOK, Stages, Waiting, fifoVars
  <2>3. QED BY <1>1, <2>1, <2>2 DEF IInv, TypeOK, fifoVars
<1>4. QED
  BY <1>1, <1>2, <1>3
  DEF IInv, PlatformStages, DrainCounts, Claimed, Claim, Ownership, Clean, Stages, Waiting,
      fifoVars

LEMMA RequestInv == ASSUME IInv, NEW m \in Instances, Request(m) PROVE IInv'
<1>1. /\ pc = "idle" /\ Waiting > 0 /\ TakePacket
      /\ UNCHANGED <<instVars, procVars, callVars, torn>>
  BY DEF Request
<1>2. /\ stale' \in Nat /\ fresh' \in Nat /\ Waiting' = Waiting - 1
      /\ stale' = stale - 1 \/ (stale = 0 /\ stale' = 0)
  BY <1>1, TakeEffect DEF IInv
<1>3. Waiting' <= LoadCap /\ (stale = 0 => stale' = 0)
  <2>1. Waiting \in Nat /\ LoadCap \in Nat /\ Waiting <= LoadCap /\ stale \in Nat
    BY CapAssumption DEF IInv, TypeOK, Waiting
  <2>2. QED BY <1>2, <2>1
<1>4. Live' = Live
  BY <1>1 DEF Live, instVars
<1>5. TypeOK'
  BY <1>1, <1>2, <1>3 DEF IInv, TypeOK, instVars, procVars, callVars
<1>6. QED
  BY <1>1, <1>3, <1>4, <1>5
  DEF IInv, PlatformStages, DrainCounts, Claimed, Claim, Ownership, Clean,
      instVars, procVars, callVars

LEMMA StartOverInv == ASSUME IInv, NEW m \in Instances, StartOver(m) PROVE IInv'
<1>1. /\ pc = "idle" /\ status[m] \in {"failed", "exited"}
      /\ status' = [status EXCEPT ![m] = "new"]
      /\ name' = name \ {m} /\ platform' = platform \ {m}
      /\ UNCHANGED <<procVars, callVars, fifoVars, torn>>
  BY DEF StartOver
<1>2. Live' = Live /\ m \notin Live
  BY <1>1 DEF Live, IInv, TypeOK
<1>3. TypeOK'
  BY <1>1 DEF IInv, TypeOK, Waiting, procVars, callVars, fifoVars
<1>4. QED
  BY <1>1, <1>2, <1>3
  DEF IInv, PlatformStages, DrainCounts, Claimed, Claim, Ownership, Clean,
      procVars, callVars, fifoVars

LEMMA CrashInv == ASSUME IInv, Crash PROVE IInv'
<1>1. /\ status' = [m \in Instances |-> "new"] /\ name' = {} /\ platform' = {}
      /\ active_ids' = FALSE /\ ready' = FALSE /\ pc' = "idle"
      /\ UNCHANGED <<kind, mc, then, drains, left>>
  BY DEF Crash
<1>2. /\ stale' \in Nat /\ fresh' \in Nat /\ Waiting' <= LoadCap /\ torn' \in BOOLEAN
      /\ kind = "dpi" => ~torn'
  <2>1. CASE kind = "f1"
    BY <2>1 DEF Crash, IInv, TypeOK, Waiting, fifoVars
  <2>2. CASE kind # "f1"
    BY <2>2, CapAssumption DEF Crash, IInv, TypeOK, Clean, Waiting
  <2>3. QED BY <2>1, <2>2
<1>3. Live' = {}
  BY <1>1 DEF Live
<1>4. TypeOK'
  BY <1>1, <1>2 DEF IInv, TypeOK, Stages
<1>5. QED
  BY <1>1, <1>2, <1>3, <1>4
  DEF IInv, PlatformStages, DrainCounts, Claimed, Claim, Ownership, Clean

LEMMA SendInv == ASSUME IInv, Send PROVE IInv'
<1>1. /\ Waiting < LoadCap /\ fresh' = fresh + 1
      /\ UNCHANGED <<instVars, procVars, callVars, stale, torn>>
  BY DEF Send
<1>2. /\ fresh' \in Nat /\ Waiting' = Waiting + 1 /\ Waiting' <= LoadCap /\ Waiting \in Nat
      /\ (left <= Waiting => left <= Waiting')
  BY <1>1, CapAssumption DEF IInv, TypeOK, Waiting
<1>3. Live' = Live
  BY <1>1 DEF Live, instVars
<1>4. TypeOK'
  BY <1>1, <1>2 DEF IInv, TypeOK, instVars, procVars, callVars
<1>5. QED
  BY <1>1, <1>2, <1>3, <1>4
  DEF IInv, PlatformStages, DrainCounts, Claimed, Claim, Ownership, Clean,
      instVars, procVars, callVars

------------------------------------------------------------------------------

\* The invariant holds in every state of every behaviour.
LEMMA StepInv == IInv /\ [Next]_vars => IInv'
<1>1. SUFFICES ASSUME IInv, [Next]_vars PROVE IInv'
  OBVIOUS
<1>2. CASE \E m \in Instances : Begin(m) \/ Exit(m) \/ Request(m) \/ StartOver(m)
  BY <1>1, <1>2, BeginInv, ExitInv, RequestInv, StartOverInv
<1>3. CASE Host
  BY <1>1, <1>3, PlatformInv, MmioInv, RoundInv, ReadPacketInv, RecheckInv, VacancyInv,
     StagesInv, DpiTracerInv, DpiDrainInv, DmaInv, ReleaseInv DEF Host
<1>4. CASE Crash
  BY <1>1, <1>4, CrashInv
<1>5. CASE Send
  BY <1>1, <1>5, SendInv
<1>6. CASE UNCHANGED vars
  BY <1>1, <1>6
  DEF vars, instVars, procVars, callVars, fifoVars, IInv, TypeOK, PlatformStages, DrainCounts,
      Claimed, Claim, Ownership, Clean, Live, Waiting
<1>7. QED BY <1>1, <1>2, <1>3, <1>4, <1>5, <1>6 DEF Next

LEMMA Inductive == Spec => []IInv
  BY InitInv, StepInv, PTL DEF Spec

\* TypeOK: the drains are bounded and never read an empty FIFO.
THEOREM TypeCorrect == Spec => []TypeOK
<1>1. IInv => TypeOK
  BY DEF IInv
<1>2. QED BY <1>1, Inductive, PTL

\* OneOwner: at most one instance has the hardware, with all it needs, whatever
\* stage the inits of the others fail at.
THEOREM SoleOwner == Spec => []OneOwner
<1>1. IInv => OneOwner
  BY DEF IInv, OneOwner, Ownership, Claim, Claimed
<1>2. QED BY <1>1, Inductive, PTL

\* CleanStart: an instance never starts on what an earlier program left.
THEOREM StartsClean == Spec => []CleanStart
<1>1. IInv => CleanStart
  BY DEF IInv, CleanStart, Clean
<1>2. QED BY <1>1, Inductive, PTL
=============================================================================
