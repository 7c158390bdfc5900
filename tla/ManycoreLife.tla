---------------------------- MODULE ManycoreLife ----------------------------
(***************************************************************************)
(* The life of manycore instances in one host process: hb_mc_manycore_init *)
(* and hb_mc_manycore_exit with the error path of every stage, over the    *)
(* platform of the FPGA ("f1") or of a simulation ("dpi").                 *)
(*                                                                         *)
(* Several instances ask for the one identifier there is.  The request     *)
(* FIFO of the manycore outlives them: a platform drains it before it is   *)
(* used, while the manycore may go on sending.  The process may die: the   *)
(* FPGA keeps its state, with part of a packet in the transmit FIFO when   *)
(* the host was writing one; a simulation dies with the process.           *)
(*                                                                         *)
(* The manycore and the FIFOs are external.                                *)
(***************************************************************************)
EXTENDS Naturals

CONSTANTS
  Instances, \* hb_mc_manycore_t structures of the program
  Kinds,     \* platforms the program may be built for: "f1", "dpi"
  Rounds,    \* rounds of a drain of the FPGA platform
  LoadCap    \* io_remote_load_cap: packets the request FIFO holds

ASSUME KindsAssumption  == Kinds \subseteq {"f1", "dpi"}
ASSUME RoundsAssumption == Rounds \in Nat \ {0}
ASSUME CapAssumption    == LoadCap \in Nat \ {0}

VARIABLES
  kind,        \* the platform of the build
  status,      \* what the program knows of each instance
  name,        \* instances whose mc->name is not null
  platform,    \* instances whose mc->platform is not null
  active_ids,  \* identifier 0 is in use
  ready,       \* the responders have their data
  pc,          \* stage of the call in progress, "idle" if none
  mc,          \* the instance it is for
  then,        \* what follows a drain: the rest of "init", or the end of the
               \* cleanup of an init that "failed" or of an "exit"
  drains,      \* rounds (f1) or packets (dpi) of the drain so far
  left,        \* packets left to read in the round (f1)
  stale,       \* packets in the request FIFO sent before this init began
  fresh,       \* packets behind them
  torn         \* part of a packet is in the transmit FIFO

instVars  == <<status, name, platform>>
procVars  == <<kind, active_ids, ready>>
callVars  == <<pc, mc, then, drains, left>>
fifoVars  == <<stale, fresh>>
vars      == <<instVars, procVars, callVars, fifoVars, torn>>

Stages ==
  {"idle", "platform",
   "mmio", "round", "read", "recheck", "vacancy", "instruments",  \* f1
   "tracer", "drain",                                              \* dpi
   "config", "responders", "reset", "dma", "release"}

Waiting == stale + fresh
Live    == {m \in Instances : status[m] = "live"}

Init ==
  /\ kind \in Kinds
  /\ status = [m \in Instances |-> "new"] /\ name = {} /\ platform = {}
  /\ active_ids = FALSE /\ ready = FALSE
  /\ pc = "idle" /\ mc \in Instances /\ then = "init" /\ drains = 0 /\ left = 0
  /\ stale \in 0 .. (IF kind = "f1" THEN LoadCap ELSE 0) /\ fresh = 0
  /\ torn = FALSE

\* The call returns with this outcome for the program.
Return(outcome) == pc' = "idle" /\ status' = [status EXCEPT ![mc] = outcome]

Stage(s) == pc' = s /\ UNCHANGED <<mc, then, drains, left>>

\* An init or an exit cleans the platform up; the FPGA platform drains first.
Cleanup(why) ==
  /\ pc' = IF kind = "f1" THEN "round" ELSE "release"
  /\ then' = why /\ drains' = 0
  /\ UNCHANGED <<mc, left>>

\* The oldest packet of the FIFO is taken.
TakePacket ==
  IF stale > 0 THEN stale' = stale - 1 /\ UNCHANGED fresh
               ELSE fresh' = fresh - 1 /\ UNCHANGED stale

(***************************************************************************)
(* hb_mc_manycore_init.  An instance with a name is refused at once, and    *)
(* no path of init or exit clears the name it frees.                       *)
(***************************************************************************)
Begin(m) ==
  /\ pc = "idle" /\ m \notin name
  /\ name' = name \cup {m}
  /\ mc' = m /\ pc' = "platform"
  /\ UNCHANGED <<status, platform, procVars, then, drains, left, fifoVars, torn>>

\* Mutant: the refusal goes through the error path that releases the id.
PlatformReleases ==
  /\ pc = "platform"
  /\ IF mc \in platform \/ active_ids
       THEN /\ Return("failed") /\ active_ids' = FALSE
            /\ UNCHANGED <<platform, mc, then, drains, left, fifoVars>>
       ELSE /\ active_ids' = TRUE /\ stale' = Waiting /\ fresh' = 0
            /\ platform' = IF kind = "f1" THEN platform ELSE platform \cup {mc}
            /\ Stage(IF kind = "f1" THEN "mmio" ELSE "tracer") /\ UNCHANGED status
  /\ UNCHANGED <<name, kind, ready, torn>>

\* hb_mc_platform_init claims the identifier, if no instance has it; what waits
\* in the FIFO is from before.
Platform ==
  /\ pc = "platform"
  /\ IF mc \in platform \/ active_ids
       THEN /\ Return("failed")
            /\ UNCHANGED <<platform, active_ids, mc, then, drains, left, fifoVars>>
       ELSE /\ active_ids' = TRUE /\ stale' = Waiting /\ fresh' = 0
            /\ platform' = IF kind = "f1" THEN platform ELSE platform \cup {mc}
            /\ Stage(IF kind = "f1" THEN "mmio" ELSE "tracer") /\ UNCHANGED status
  /\ UNCHANGED <<name, kind, ready, torn>>

\* The FPGA platform maps the device.  When that fails the identifier to
\* release is read from memory just freed: it is still there, or the erasure of
\* what is not found kills the process (Crash).
Mmio ==
  /\ pc = "mmio"
  /\ \/ /\ platform' = platform \cup {mc}
        /\ pc' = "round" /\ then' = "init" /\ drains' = 0
        /\ UNCHANGED <<status, active_ids, mc, left>>
     \/ /\ active_ids' = FALSE /\ Return("failed")
        /\ UNCHANGED <<platform, mc, then, drains, left>>
  /\ UNCHANGED <<name, kind, ready, fifoVars, torn>>

\* Mutant: the drain goes on until the FIFO is empty.
RoundUnbounded ==
  /\ pc = "round"
  /\ IF Waiting > 0
       THEN pc' = "read" /\ left' = Waiting /\ UNCHANGED drains
       ELSE pc' = "recheck" /\ UNCHANGED <<drains, left>>
  /\ UNCHANGED <<mc, then, instVars, procVars, fifoVars, torn>>

\* Mutant: one round too many.
RoundTooMany ==
  /\ pc = "round"
  /\ IF drains <= Rounds /\ Waiting > 0
       THEN pc' = "read" /\ drains' = drains + 1 /\ left' = Waiting
       ELSE pc' = "recheck" /\ UNCHANGED <<drains, left>>
  /\ UNCHANGED <<mc, then, instVars, procVars, fifoVars, torn>>

\* A round of the drain reads the occupancy ...
Round ==
  /\ pc = "round"
  /\ IF drains < Rounds /\ Waiting > 0
       THEN pc' = "read" /\ drains' = drains + 1 /\ left' = Waiting
       ELSE pc' = "recheck" /\ UNCHANGED <<drains, left>>
  /\ UNCHANGED <<mc, then, instVars, procVars, fifoVars, torn>>

\* ... and then that many packets.
ReadPacket ==
  /\ pc = "read"
  /\ TakePacket
  /\ left' = left - 1
  /\ pc' = IF left = 1 THEN "round" ELSE "read"
  /\ UNCHANGED <<mc, then, drains, instVars, procVars, torn>>

\* An init whose FIFOs cannot be used gives the platform back.
FifosFail ==
  /\ platform' = platform \ {mc} /\ active_ids' = FALSE
  /\ Return("failed") /\ UNCHANGED <<mc, then, drains, left>>

\* Packets that came meanwhile fail the init; a cleanup ignores them.
Recheck ==
  /\ pc = "recheck"
  /\ IF then = "init" /\ Waiting > 0
       THEN FifosFail
       ELSE /\ Stage(IF then = "init" THEN "vacancy" ELSE "release")
            /\ UNCHANGED <<platform, active_ids, status>>
  /\ UNCHANGED <<name, kind, ready, fifoVars, torn>>

\* Mutant: the remainder of the division is not looked at.
VacancyUnchecked ==
  /\ pc = "vacancy"
  /\ Stage("instruments") /\ UNCHANGED <<platform, active_ids, status>>
  /\ UNCHANGED <<name, kind, ready, fifoVars, torn>>

\* The vacancy of the transmit FIFO must be a whole number of packets.
Vacancy ==
  /\ pc = "vacancy"
  /\ IF torn THEN FifosFail
             ELSE Stage("instruments") /\ UNCHANGED <<platform, active_ids, status>>
  /\ UNCHANGED <<name, kind, ready, fifoVars, torn>>

\* The profiler and the tracer of the FPGA platform start, or fail.
Instruments ==
  /\ pc = "instruments"
  /\ Stage("config") \/ Cleanup("failed")
  /\ UNCHANGED <<instVars, procVars, fifoVars, torn>>

\* A simulation that fails leaves the identifier in use and mc->platform
\* pointing at what it deleted.
DpiFail == Return("failed") /\ UNCHANGED <<mc, then, drains, left>>

DpiTracer ==
  /\ pc = "tracer"
  /\ \/ pc' = "drain" /\ drains' = 0 /\ UNCHANGED <<status, mc, then, left>>
     \/ DpiFail
  /\ UNCHANGED <<name, platform, procVars, fifoVars, torn>>

\* The simulation reads packets, one per window, until none is valid or more
\* than the capacity were read; having read exactly the capacity is a failure.
\* The drain of the responses that follows finds none, and its result is not
\* looked at.
DpiDrain ==
  /\ pc = "drain"
  /\ IF Waiting > 0
       THEN TakePacket /\ drains' = drains + 1
       ELSE UNCHANGED <<fifoVars, drains>>
  /\ \/ Waiting > 0 /\ drains' <= LoadCap /\ UNCHANGED <<pc, status>>
     \/ Waiting = 0 /\ drains' = LoadCap /\ Return("failed")
     \/ /\ IF Waiting > 0 THEN drains' > LoadCap ELSE drains' # LoadCap
        /\ pc' = "config" /\ UNCHANGED status
  /\ UNCHANGED <<mc, then, left, name, platform, procVars, torn>>

\* Reading the configuration fails on a field out of range.
Config ==
  /\ pc = "config"
  /\ Stage("responders") \/ Cleanup("failed")
  /\ UNCHANGED <<instVars, procVars, fifoVars, torn>>

\* hb_mc_responders_init: none of the responders of the library fails.
Responders ==
  /\ pc = "responders"
  /\ ready' = TRUE
  /\ Stage("reset")
  /\ UNCHANGED <<instVars, kind, active_ids, fifoVars, torn>>

\* A simulation waits so many evaluations for the end of the reset.
WaitReset ==
  /\ pc = "reset"
  /\ Stage("dma") \/ (kind = "dpi" /\ Cleanup("failed"))
  /\ UNCHANGED <<instVars, procVars, fifoVars, torn>>

\* The last stage fails on any value but 0; hb_mc_dma_init_default returns none.
Dma ==
  /\ pc = "dma"
  /\ \/ Return("live") /\ UNCHANGED <<mc, then, drains, left>>
     \/ Cleanup("failed") /\ UNCHANGED status
  /\ UNCHANGED <<name, platform, procVars, fifoVars, torn>>

\* The end of hb_mc_platform_cleanup; only the FPGA platform clears the pointer.
Release ==
  /\ pc = "release"
  /\ active_ids' = FALSE
  /\ platform' = IF kind = "f1" THEN platform \ {mc} ELSE platform
  /\ Return(IF then = "exit" THEN "exited" ELSE "failed")
  /\ UNCHANGED <<name, kind, ready, mc, then, drains, left, fifoVars, torn>>

Host ==
  \/ Platform \/ Mmio \/ Round \/ ReadPacket \/ Recheck \/ Vacancy \/ Instruments
  \/ DpiTracer \/ DpiDrain
  \/ Config \/ Responders \/ WaitReset \/ Dma \/ Release

(***************************************************************************)
(* The program: exit, a request received for the responders, a structure    *)
(* that is zeroed again, and the end of the process.                       *)
(***************************************************************************)
Exit(m) ==
  /\ pc = "idle" /\ status[m] = "live"
  /\ mc' = m /\ ready' = FALSE
  /\ pc' = IF kind = "f1" THEN "round" ELSE "release"
  /\ then' = "exit" /\ drains' = 0
  /\ UNCHANGED <<left, instVars, kind, active_ids, fifoVars, torn>>

Request(m) ==
  /\ pc = "idle" /\ status[m] = "live" /\ Waiting > 0
  /\ TakePacket
  /\ UNCHANGED <<instVars, procVars, callVars, torn>>

StartOver(m) ==
  /\ pc = "idle" /\ status[m] \in {"failed", "exited"}
  /\ status' = [status EXCEPT ![m] = "new"]
  /\ name' = name \ {m} /\ platform' = platform \ {m}
  /\ UNCHANGED <<procVars, callVars, fifoVars, torn>>

Crash ==
  /\ \/ pc # "idle" \/ Live # {}
  /\ status' = [m \in Instances |-> "new"] /\ name' = {} /\ platform' = {}
  /\ active_ids' = FALSE /\ ready' = FALSE /\ pc' = "idle"
  /\ IF kind = "f1"
       THEN torn' \in (IF Live # {} THEN {torn, TRUE} ELSE {torn}) /\ UNCHANGED fifoVars
       ELSE stale' = 0 /\ fresh' = 0 /\ UNCHANGED torn
  /\ UNCHANGED <<kind, mc, then, drains, left>>

\* The manycore sends a request; a simulated one only while it is evaluated.
Send ==
  /\ Waiting < LoadCap
  /\ kind = "dpi" => pc \in {"tracer", "drain", "reset"} \/ (pc = "idle" /\ Live # {})
  /\ fresh' = fresh + 1
  /\ UNCHANGED <<instVars, procVars, callVars, stale, torn>>

Next ==
  \/ \E m \in Instances : Begin(m) \/ Exit(m) \/ Request(m) \/ StartOver(m)
  \/ Host \/ Crash \/ Send

Spec     == Init /\ [][Next]_vars
FairSpec == Spec /\ WF_vars(Host)

(***************************************************************************)
(* Properties.                                                             *)
(***************************************************************************)
\* Every variable in its range: a drain is bounded, and the FIFO is never read
\* when it is empty.
TypeOK ==
  /\ kind \in Kinds /\ pc \in Stages /\ mc \in Instances
  /\ status \in [Instances -> {"new", "live", "failed", "exited"}]
  /\ name \subseteq Instances /\ platform \subseteq name
  /\ active_ids \in BOOLEAN /\ ready \in BOOLEAN /\ torn \in BOOLEAN
  /\ then \in {"init", "failed", "exit"}
  /\ drains \in 0 .. (IF kind = "f1" THEN Rounds ELSE LoadCap + 1) /\ left \in 0 .. LoadCap
  /\ stale \in Nat /\ fresh \in Nat /\ Waiting <= LoadCap

\* However many instances ask, at whatever stage their inits fail, at most one
\* has the hardware; it holds the identifier, its platform and responders that
\* have their data.  On the FPGA no failed init keeps the identifier.
OneOwner ==
  pc = "idle" =>
    /\ \A m, n \in Live : m = n
    /\ \A m \in Live : active_ids /\ ready /\ m \in platform
    /\ kind = "f1" => (active_ids => Live # {})

\* An instance never starts on what an earlier program left: the responders get
\* no request from before its init, and its first packet is not joined to the
\* part of a packet that a killed host left in the transmit FIFO.
CleanStart == Live # {} => stale = 0 /\ ~torn

\* Every init and exit returns, although the manycore may go on sending while
\* its FIFO is drained.
CallsReturn == pc # "idle" ~> pc = "idle"
=============================================================================
