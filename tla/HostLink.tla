------------------------------ MODULE HostLink ------------------------------
(***************************************************************************)
(* The host-to-manycore link of the F1 platform.                           *)
(*                                                                         *)
(* One host thread runs the library calls that move data (hb_mc_manycore_  *)
(* write, write_mem, read, read_mem and host_request_fence) over the       *)
(* platform's transmit, receive and fence.  The bridge                     *)
(* (bsg_mcl_axil_fifos_master) collects the 32-bit words the host writes   *)
(* into packets, hands them to the manycore endpoint, and returns load     *)
(* responses through a FIFO of HostCredits packets.  The endpoint and the  *)
(* network behind it are external: they hold MaxOut credits, take one per  *)
(* request, answer requests in any order, and give the credit back with    *)
(* the answer.                                                             *)
(*                                                                         *)
(* Requests are told apart by their kind only: a load id is free when a    *)
(* load of the call has been answered, whichever one, and data is left out.*)
(***************************************************************************)
EXTENDS Naturals, Sequences, FiniteSets

CONSTANTS
  Els,          \* 32-bit words per packet (sipo_els_lp, 4 in the design)
  HostCredits,  \* host_credits_p: packets the transmit path and response FIFO hold
  MaxOut,       \* credits of the manycore endpoint
  LoadCap,      \* io_remote_load_cap: load ids read_mem may have in flight
  MaxCnt,       \* bound: words moved by one read_mem or write_mem call
  Garbage       \* values the fence's uninitialised locals may hold on entry

ASSUME ElsAssumption     == Els \in Nat \ {0, 1}
ASSUME CreditsAssumption == HostCredits \in Nat \ {0, 1}
ASSUME MaxOutAssumption  == MaxOut \in Nat \ {0}
\* Every machine's Makefile sets the load cap to the host credits, and the
\* configuration calls the cap the capacity of the response FIFO.
ASSUME LoadCapAssumption == LoadCap \in 1 .. HostCredits
ASSUME MaxCntAssumption  == MaxCnt \in Nat \ {0}
ASSUME GarbageAssumption == Garbage \in SUBSET (Nat \X Nat)

VARIABLES
  \* the host thread
  op,       \* library call in progress
  pc,       \* where the thread stands in it
  cnt,      \* words the call moves
  rqst,     \* packets transmitted so far by the call
  rsp,      \* responses received so far by the call
  tv,       \* pl->transmit_vacancy, the host's cached count of free slots
  wleft,    \* words of the current packet still to be written
  fvac,     \* the fence's local `vacancy'
  fcred,    \* the fence's local `credits'
  \* the bridge
  txq,      \* kinds of the packets handed to the bridge, oldest first
  fifo,     \* words in fifo_req
  sipo,     \* words in sipof_req
  vac,      \* cnt_req_credit: free words of the transmit path
  rdc,      \* cnt_rd_credit: read credits left
  rspq,     \* packets in fifo_rsp
  piso,     \* words left in piso_rsp
  \* the endpoint and the network
  outc,     \* endpoint credits left
  nst,      \* stores in the network
  nld       \* loads in the network

hostVars   == <<op, pc, cnt, rqst, rsp, tv, wleft, fvac, fcred>>
bridgeVars == <<txq, fifo, sipo, vac, rdc, rspq, piso>>
netVars    == <<outc, nst, nld>>
vars       == <<hostVars, bridgeVars, netVars>>

Kinds == {"store", "load"}
Ops   == {"idle", "store", "write", "read", "fence"}

MaxWords == Els * HostCredits            \* max_val_p of cnt_req_credit
FifoEls  == MaxWords - (Els + 1)         \* host_tx_fifo_els_lp
SipoEls  == Els + 1                      \* elements of sipof_req

(***************************************************************************)
(* The host thread.                                                        *)
(***************************************************************************)

\* hb_mc_platform_get_transmit_vacancy: the packet count the counter stands
\* for; no count at all when the counter holds a fraction of a packet.
Vacancies == {n \in 0 .. HostCredits : n * Els = vac}

Init ==
  /\ op = "idle" /\ pc = "idle"
  /\ cnt = 0 /\ rqst = 0 /\ rsp = 0
  /\ tv = HostCredits                    \* hb_mc_platform_fifos_init
  /\ wleft = 0 /\ fvac = 0 /\ fcred = 0
  /\ txq = <<>> /\ fifo = 0 /\ sipo = 0 /\ vac = MaxWords
  /\ rdc = HostCredits /\ rspq = 0 /\ piso = 0
  /\ outc = MaxOut /\ nst = 0 /\ nld = 0

\* hb_mc_platform_fence is entered: its locals hold what the stack held.
EnterFence ==
  /\ pc' = "fence"
  /\ \E g \in Garbage : fvac' = g[1] /\ fcred' = g[2]

EnterLoop == pc' = "loop" /\ UNCHANGED <<fvac, fcred>>

\* A library call that moves n words starts.  A plain hb_mc_manycore_write
\* posts one store and does not fence; hb_mc_manycore_read is a read of one.
Begin(o, n) ==
  /\ op = "idle"
  /\ op' = o
  /\ IF o = "fence" THEN EnterFence ELSE EnterLoop
  /\ cnt' = n /\ rqst' = 0 /\ rsp' = 0
  /\ UNCHANGED <<tv, wleft, bridgeVars, netVars>>

BeginCall ==
  \/ Begin("store", 1)
  \/ Begin("fence", 0)
  \/ \E o \in {"write", "read"}, n \in 1 .. MaxCnt : Begin(o, n)

\* Mutant: the load ids do not limit what read_mem sends.
MoreRequestsNoCap == rqst < cnt

\* read_mem sends while words are left and a load id is free; the stores of
\* write_mem need no id.
MoreRequests ==
  /\ rqst < cnt
  /\ op = "read" => rqst - rsp < LoadCap

\* Mutant: the word count of the register is taken for a packet count.
TransmitPollWords ==
  /\ pc = "loop" /\ MoreRequests
  /\ tv = 0
  /\ tv' = vac
  /\ UNCHANGED <<op, pc, cnt, rqst, rsp, wleft, fvac, fcred, bridgeVars, netVars>>

\* hb_mc_platform_transmit waits until its cached vacancy is positive,
\* reading the counter again while it is zero and ignoring a failed read.
TransmitPoll ==
  /\ pc = "loop" /\ MoreRequests
  /\ tv = 0
  /\ tv' \in IF Vacancies = {} THEN {tv} ELSE Vacancies
  /\ UNCHANGED <<op, pc, cnt, rqst, rsp, wleft, fvac, fcred, bridgeVars, netVars>>

\* Mutant: transmit does not wait for a positive vacancy.
SpendSlotUnchecked == tv' = tv - 1

\* ... then spends one slot and starts writing the words of the packet.
SpendSlot ==
  /\ tv > 0
  /\ tv' = tv - 1

TransmitStart ==
  /\ pc = "loop" /\ MoreRequests
  /\ SpendSlot
  /\ txq' = Append(txq, IF op = "read" THEN "load" ELSE "store")
  /\ wleft' = Els
  /\ pc' = "word"
  /\ UNCHANGED <<op, cnt, rqst, rsp, fvac, fcred, fifo, sipo, vac, rdc, rspq, piso,
                 netVars>>

\* One AXI-Lite write to the transmit data register: accepted only while the
\* word FIFO has room; the counter goes down by one word.
TransmitWord ==
  /\ pc = "word"
  /\ fifo < FifoEls
  /\ fifo' = fifo + 1
  /\ vac' = vac - 1
  /\ wleft' = wleft - 1
  /\ IF wleft = 1 THEN pc' = "loop" /\ rqst' = rqst + 1
                  ELSE UNCHANGED <<pc, rqst>>
  /\ UNCHANGED <<op, cnt, rsp, tv, fvac, fcred, txq, sipo, rdc, rspq, piso, netVars>>

\* One AXI-Lite read of the response data register: it stalls until the
\* serialiser has a word.  A response is complete when its last word is read.
ReceiveWord ==
  /\ op = "read" /\ pc \in {"loop", "recv"}
  /\ pc = "loop" => ~MoreRequests /\ rsp < rqst
  /\ piso > 0
  /\ piso' = piso - 1
  /\ IF piso = 1 THEN rsp' = rsp + 1 ELSE UNCHANGED rsp
  /\ pc' = IF rsp' < rqst THEN "recv" ELSE "loop"
  /\ UNCHANGED <<op, cnt, rqst, tv, wleft, fvac, fcred, txq, fifo, sipo, vac, rdc,
                 rspq, netVars>>

Return == op' = "idle" /\ pc' = "idle" /\ UNCHANGED <<fvac, fcred>>

\* Mutants: write_mem returns without the fence; read_mem stops one short.
AfterLoopNoFence ==
  /\ op = "read" => rsp = cnt
  /\ Return
AfterLoopShort ==
  /\ op = "read" => rsp + 1 >= cnt
  /\ IF op = "write" THEN EnterFence /\ UNCHANGED op ELSE Return

\* The call has sent its requests: write_mem and memset fence, a read returns
\* when it has every response, a write returns at once.
AfterLoop ==
  /\ op = "read" => rsp = cnt
  /\ IF op = "write" THEN EnterFence /\ UNCHANGED op ELSE Return

LoopDone ==
  /\ pc = "loop" /\ rqst = cnt
  /\ AfterLoop
  /\ UNCHANGED <<cnt, rqst, rsp, tv, wleft, bridgeVars, netVars>>

\* hb_mc_platform_fence loops until both its locals hold the maximum.
FenceOver == fvac = HostCredits /\ fcred = MaxOut

\* The read of the vacancy; a fractional count makes the call fail.
ReadVacancy(to) ==
  /\ IF Vacancies = {} THEN pc' = "failed" /\ UNCHANGED fvac
                       ELSE pc' = to /\ fvac' \in Vacancies
  /\ UNCHANGED <<op, cnt, rqst, rsp, tv, wleft, fcred, bridgeVars, netVars>>

\* The read of the endpoint's credits.
ReadCreditsReg(to) ==
  /\ fcred' = outc
  /\ pc' = to
  /\ UNCHANGED <<op, cnt, rqst, rsp, tv, wleft, fvac, bridgeVars, netVars>>

\* Mutant: the fence reads the credits before the vacancy.
FenceReadSwapped ==
  \/ pc = "fence" /\ ~FenceOver /\ ReadCreditsReg("credits")
  \/ pc = "credits" /\ ReadVacancy("fence")

\* One round of the fence reads the vacancy, then, some time later, the credits.
FenceRead ==
  \/ pc = "fence" /\ ~FenceOver /\ ReadVacancy("credits")
  \/ pc = "credits" /\ ReadCreditsReg("fence")

FenceReturn ==
  /\ pc = "fence" /\ FenceOver
  /\ Return
  /\ UNCHANGED <<cnt, rqst, rsp, tv, wleft, bridgeVars, netVars>>

HostStep ==
  \/ TransmitPoll \/ TransmitStart \/ TransmitWord
  \/ ReceiveWord \/ LoopDone
  \/ FenceRead \/ FenceReturn

(***************************************************************************)
(* The bridge.                                                             *)
(***************************************************************************)

\* The deserialiser takes a word from the word FIFO.
SipoTake ==
  /\ fifo > 0 /\ sipo < SipoEls
  /\ fifo' = fifo - 1 /\ sipo' = sipo + 1
  /\ UNCHANGED <<hostVars, txq, vac, rdc, rspq, piso, netVars>>

\* pause_host_req: a load waits for a read credit.
Paused == Head(txq) = "load" /\ rdc = 0

\* Launch(n, up): a packet of n words leaves for the endpoint, which must have
\* a credit; the free-word counter goes up and a load spends a read credit.
Launch(n, up) ==
  /\ sipo >= n
  /\ ~Paused /\ outc > 0
  /\ sipo' = sipo - n
  /\ vac' = vac + up
  /\ txq' = Tail(txq)
  /\ outc' = outc - 1
  /\ IF Head(txq) = "load"
       THEN rdc' = rdc - 1 /\ nld' = nld + 1 /\ UNCHANGED nst
       ELSE nst' = nst + 1 /\ UNCHANGED <<rdc, nld>>
  /\ UNCHANGED <<hostVars, fifo, rspq, piso>>

\* Mutant: the packet is one word short.
SendPacketShort == txq # <<>> /\ Launch(Els - 1, Els - 1)

\* A full deserialiser hands its packet over.
SendPacket == Launch(Els, Els)

\* Mutant: the read credit is not given back.
RspToPisoNoCredit ==
  /\ rspq > 0 /\ piso = 0
  /\ rspq' = rspq - 1
  /\ piso' = Els
  /\ UNCHANGED <<hostVars, txq, fifo, sipo, vac, rdc, netVars>>

\* The serialiser takes the next response; its read credit comes back.
RspToPiso ==
  /\ rspq > 0 /\ piso = 0
  /\ rspq' = rspq - 1
  /\ piso' = Els
  /\ rdc' = rdc + 1
  /\ UNCHANGED <<hostVars, txq, fifo, sipo, vac, netVars>>

(***************************************************************************)
(* The endpoint and the network (external).                                *)
(***************************************************************************)

StoreDone ==
  /\ nst > 0
  /\ nst' = nst - 1
  /\ outc' = outc + 1
  /\ UNCHANGED <<hostVars, bridgeVars, nld>>

\* A load response enters the response FIFO when that has room.
LoadDone ==
  /\ nld > 0 /\ rspq < HostCredits
  /\ nld' = nld - 1
  /\ outc' = outc + 1
  /\ rspq' = rspq + 1
  /\ UNCHANGED <<hostVars, txq, fifo, sipo, vac, rdc, piso, nst>>

Next == BeginCall \/ HostStep \/ SipoTake \/ SendPacket \/ RspToPiso \/ StoreDone \/ LoadDone

Spec == Init /\ [][Next]_vars

\* The host thread runs, the bridge is clocked and the network answers.  No
\* fairness on BeginCall: nothing obliges a program to make another call.
Fairness ==
  /\ WF_vars(HostStep)
  /\ WF_vars(SipoTake) /\ WF_vars(SendPacket) /\ WF_vars(RspToPiso)
  /\ WF_vars(StoreDone) /\ WF_vars(LoadDone)

FairSpec == Spec /\ Fairness

(***************************************************************************)
(* Properties.                                                             *)
(***************************************************************************)

\* Every counter stays within its register or FIFO, and the thread at a point
\* of the code of a call.
TypeOK ==
  /\ op \in Ops
  /\ pc \in {"idle", "loop", "word", "recv", "fence", "credits", "failed"}
  /\ cnt \in Nat /\ rqst \in Nat /\ rsp \in Nat
  /\ tv \in 0 .. HostCredits /\ wleft \in 0 .. Els
  /\ fvac \in Nat /\ fcred \in Nat
  /\ txq \in Seq(Kinds)
  /\ fifo \in 0 .. FifoEls /\ sipo \in 0 .. SipoEls /\ vac \in 0 .. MaxWords
  /\ rdc \in 0 .. HostCredits /\ rspq \in 0 .. HostCredits /\ piso \in 0 .. Els
  /\ outc \in 0 .. MaxOut /\ nst \in Nat /\ nld \in Nat

\* No request is anywhere between the host and its destination.
Drained == txq = <<>> /\ nst = 0 /\ nld = 0

\* "Stall until the all requests (and responses) have reached their
\* destination": when the fence returns, nothing is in flight.  It rests on
\* the order of its two reads, which are not atomic.
FenceDrains == [][pc = "fence" /\ pc' = "idle" => Drained]_vars

\* The free-word counter and the host's cached copy, which it spends without
\* looking, never promise room the transmit path does not have.
VacancyExact == vac + fifo + sipo = MaxWords
CachedVacancySafe == tv * Els + wleft <= vac
TransmitFlowControl == VacancyExact /\ CachedVacancySafe

\* The words in the path are whole packets plus the one being written, so a
\* packet that reaches the endpoint is never made of two packets' words.
Framing == Els * Len(txq) = fifo + sipo + wleft

\* No library call fails on a fractional vacancy: get_transmit_vacancy only
\* reads the counter between packets.
NoFractionalVacancy == pc # "failed"

\* Both: the counter the bridge keeps in words and the one the host keeps in
\* packets never drift apart by part of a packet.
WholePackets == Framing /\ NoFractionalVacancy

\* Every load the bridge has launched holds a read credit until its response
\* leaves the response FIFO, so a response always finds room there.
ReadCredits == rdc + nld + rspq = HostCredits

\* A credit of the endpoint is held by each request in the network, no more.
EndpointCredits == outc + nst + nld = MaxOut

LoadsQueued == Cardinality({i \in DOMAIN txq : txq[i] = "load"})
StoresQueued == Cardinality({i \in DOMAIN txq : txq[i] = "store"})
LoadsAnswered == rspq + (IF piso > 0 THEN 1 ELSE 0)

\* A packet whose words are still being written is not counted by the call.
SentLoads == rqst + (IF op = "read" /\ pc = "word" THEN 1 ELSE 0)

\* Every load read_mem has sent and not seen answered is in exactly one
\* place; between calls no response is left behind for the next one to take.
LoadsAccounted ==
  LoadsQueued + nld + LoadsAnswered = IF op = "read" THEN SentLoads - rsp ELSE 0

\* The link keeps its promise: no call that fences returns with a request of
\* any earlier call still on its way, and no read returns short of an answer.
Link == INSTANCE LinkSpec WITH
          call <- op, stores <- StoresQueued + nst,
          loads <- LoadsQueued + nld, answers <- LoadsAnswered
ImplementsLink == Link!Spec

\* Every call returns: neither the wait for vacancy, nor a stalled register
\* read, nor the fence can go on for ever.
CallsReturn == op # "idle" ~> op = "idle"
=============================================================================
