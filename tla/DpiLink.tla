------------------------------- MODULE DpiLink -------------------------------
(***************************************************************************)
(* The host-to-manycore link of the simulation platforms                   *)
(* (platforms/dpi-verilator), under the same library calls as HostLink.     *)
(*                                                                         *)
(* There is one thread: time passes in the manycore only while the host    *)
(* evaluates the simulator.  Transmit, receive and the credit read repeat  *)
(* "evaluate, then call the DPI" until the DPI accepts; the DPI accepts    *)
(* only in one half of each cycle.  The DPI interface, the endpoint and    *)
(* the network are external: the interface holds one packet on its way out *)
(* and RspCap responses, the endpoint MaxOut credits, and the network      *)
(* answers in any order.                                                   *)
(*                                                                         *)
(* Loads carry their load id and the number of the word they read, so that *)
(* the model shows where read_mem puts each answer.                        *)
(***************************************************************************)
EXTENDS Naturals, Sequences, FiniteSets

CONSTANTS
  MaxOut,   \* credits of the manycore endpoint
  RspCap,   \* responses the DPI interface holds
  LoadCap,  \* io_remote_load_cap: load ids of a read_mem
  MaxCnt    \* bound: words or cache lines of one call

ASSUME MaxOutAssumption  == MaxOut \in Nat \ {0}
\* "REMOTE LOAD CAPACITY is how many packets the host interface can hold".
ASSUME CapAssumption     == RspCap \in Nat \ {0} /\ LoadCap \in 1 .. RspCap
ASSUME MaxCntAssumption  == MaxCnt \in Nat \ {0}

VARIABLES
  \* the host
  op,      \* library call in progress
  pc,      \* where the thread stands in it
  cnt,     \* packets the call sends
  rqst,    \* packets sent so far
  rsp,     \* responses received so far
  ids,     \* stack of free load ids, top first
  index,   \* id_to_rsp_i: the word each load id was used for, 0 for none
  data,    \* the word each place of the caller's buffer was filled from
  used,    \* the fence's local `credits_used'
  seen,    \* the simulator has been evaluated since the last DPI call
  \* the DPI interface
  open,    \* the half of the cycle in which it accepts calls
  tx,      \* the packet on its way out
  room,    \* responses it has room for that no request was promised
  rspq,    \* responses, oldest first
  \* the endpoint and the network
  stores,  \* stores and cache operations in the network
  loads    \* loads in the network

hostVars == <<op, pc, cnt, rqst, rsp, ids, index, data, used, seen>>
dpiVars  == <<open, tx, room, rspq>>
netVars  == <<stores, loads>>
vars     == <<hostVars, dpiVars, netVars>>

Ops    == {"store", "write", "cache", "read", "fence"}
Ids    == 1 .. LoadCap
Words  == 1 .. MaxCnt
Loads  == [id : Ids, word : Words]

Init ==
  /\ op = "idle" /\ pc = "idle" /\ cnt = 0 /\ rqst = 0 /\ rsp = 0
  /\ ids = <<>> /\ index = [i \in Ids |-> 0] /\ data = [w \in Words |-> 0]
  /\ used = 0 /\ seen = FALSE
  /\ open = FALSE /\ tx = <<>> /\ room = RspCap /\ rspq = <<>>
  /\ stores = 0 /\ loads = {}

(***************************************************************************)
(* The host.                                                               *)
(***************************************************************************)

\* A call that sends n packets starts, read_mem with every load id free.
Begin(o, n) ==
  /\ op = "idle"
  /\ op' = o /\ cnt' = n /\ rqst' = 0 /\ rsp' = 0
  /\ pc' = IF o = "fence" THEN "fence" ELSE "loop"
  /\ ids' = [i \in Ids |-> i]
  /\ index' = [i \in Ids |-> 0] /\ data' = [w \in Words |-> 0]
  /\ used' = 0 /\ seen' = FALSE
  /\ UNCHANGED <<dpiVars, netVars>>

BeginCall ==
  \/ Begin("store", 1)
  \/ Begin("fence", 0)
  \/ \E o \in {"write", "cache", "read"}, n \in Words : Begin(o, n)

\* read_mem sends while words are left and a load id is free.
MoreRequests == rqst < cnt /\ (op = "read" => ids # <<>>)

\* The next packet of the call.
Packet ==
  CASE op = "read"  -> [kind |-> "load", id |-> Head(ids), word |-> rqst + 1]
    [] op = "cache" -> [kind |-> "cache_op"]
    [] OTHER        -> [kind |-> "store"]

InNetwork == stores + Cardinality(loads)

\* Mutants: no request, or every request, is taken to be answered.
ExpectNone(pkt) == FALSE
ExpectAll(pkt)  == TRUE

\* Stores and cache operations are not answered: the endpoint filters them.
ExpectResponse(pkt) == pkt.kind \notin {"store", "cache_op"}

\* Neither out of credits or capacity, nor out of the window, nor not ready.
Accepts(pkt) ==
  /\ open /\ tx = <<>>
  /\ InNetwork < MaxOut
  /\ ExpectResponse(pkt) => room > 0

\* Mutant: the load id stays on the stack.
SendIdKept(pkt) ==
  /\ tx' = <<pkt>>
  /\ room' = IF ExpectResponse(pkt) THEN room - 1 ELSE room
  /\ rqst' = rqst + 1
  /\ IF op = "read"
       THEN index' = [index EXCEPT ![pkt.id] = pkt.word] /\ ids' = ids
       ELSE UNCHANGED <<ids, index>>

Send(pkt) ==
  /\ tx' = <<pkt>>
  /\ room' = IF ExpectResponse(pkt) THEN room - 1 ELSE room
  /\ rqst' = rqst + 1
  /\ IF op = "read"
       THEN index' = [index EXCEPT ![pkt.id] = pkt.word] /\ ids' = Tail(ids)
       ELSE UNCHANGED <<ids, index>>

\* hb_mc_platform_transmit: again after the next evaluation if not accepted.
Transmit ==
  /\ pc = "loop" /\ seen /\ MoreRequests
  /\ IF Accepts(Packet) THEN Send(Packet) ELSE UNCHANGED <<tx, room, rqst, ids, index>>
  /\ seen' = FALSE
  /\ UNCHANGED <<op, pc, cnt, rsp, data, used, open, rspq, netVars>>

Receiving == op = "read" /\ rsp < rqst /\ (pc = "recv" \/ (pc = "loop" /\ ~MoreRequests))

\* The word of a response goes where its load id says, and the id is free.
TakeResponse(r) ==
  /\ rspq' = Tail(rspq)
  /\ room' = room + 1
  /\ data' = [data EXCEPT ![index[r.id]] = r.word]
  /\ rsp' = rsp + 1
  /\ ids' = <<r.id>> \o ids
  /\ pc' = IF rsp' < rqst THEN "recv" ELSE "loop"

\* hb_mc_platform_receive: again if out of the window or not valid.
Receive ==
  /\ Receiving /\ seen
  /\ IF open /\ rspq # <<>> THEN TakeResponse(Head(rspq))
                            ELSE UNCHANGED <<rspq, room, data, rsp, ids, pc>>
  /\ seen' = FALSE
  /\ UNCHANGED <<op, cnt, rqst, index, used, open, tx, netVars>>

Return == op' = "idle" /\ pc' = "idle"

Sent == pc = "loop" /\ rqst = cnt /\ (op = "read" => rsp = cnt)

\* The call has sent its requests: write_mem fences, a read has its answers,
\* a store or a range of cache operations returns at once.
LoopDone ==
  /\ Sent
  /\ IF op = "write" THEN pc' = "fence" /\ UNCHANGED op ELSE Return
  /\ seen' = FALSE
  /\ UNCHANGED <<cnt, rqst, rsp, ids, index, data, used, dpiVars, netVars>>

\* Mutant: the simulator is evaluated between the two reads.
FenceCreditsEval ==
  /\ pc = "fence" /\ seen
  /\ IF open THEN used' = InNetwork /\ pc' = "vacant" ELSE UNCHANGED <<used, pc>>
  /\ seen' = FALSE
  /\ UNCHANGED <<op, cnt, rqst, rsp, ids, index, data, dpiVars, netVars>>

\* hb_mc_platform_fence reads the credits in use, again if out of the window,
\* ...
FenceCredits ==
  /\ pc = "fence" /\ seen
  /\ IF open THEN used' = InNetwork /\ pc' = "vacant" ELSE UNCHANGED <<used, pc>>
  /\ seen' = open
  /\ UNCHANGED <<op, cnt, rqst, rsp, ids, index, data, dpiVars, netVars>>

\* ... then whether the way out is vacant, without evaluating in between.
FenceVacant ==
  /\ pc = "vacant" /\ seen
  /\ IF used = 0 /\ tx = <<>> THEN Return ELSE pc' = "fence" /\ UNCHANGED op
  /\ seen' = FALSE
  /\ UNCHANGED <<cnt, rqst, rsp, ids, index, data, used, dpiVars, netVars>>

DpiCall == Transmit \/ Receive \/ LoopDone \/ FenceCredits \/ FenceVacant

(***************************************************************************)
(* The manycore (external), half a cycle per evaluation.                   *)
(***************************************************************************)

Evaluate ==
  /\ op # "idle" /\ ~Sent /\ ~seen
  /\ seen' = TRUE
  /\ open' = ~open
  /\ UNCHANGED <<op, pc, cnt, rqst, rsp, ids, index, data, used, room>>

NothingHappens == Evaluate /\ UNCHANGED <<tx, rspq, netVars>>

\* The endpoint takes the packet on its way out.
EndpointTakes ==
  /\ Evaluate
  /\ tx # <<>>
  /\ tx' = <<>>
  /\ LET pkt == Head(tx)
     IN IF pkt.kind = "load"
          THEN loads' = loads \cup {[id |-> pkt.id, word |-> pkt.word]} /\ UNCHANGED stores
          ELSE stores' = stores + 1 /\ UNCHANGED loads
  /\ UNCHANGED rspq

StoreDone ==
  /\ Evaluate
  /\ stores > 0
  /\ stores' = stores - 1
  /\ UNCHANGED <<tx, rspq, loads>>

\* A response that finds no room is dropped.
LoadDone(l) ==
  /\ Evaluate
  /\ loads' = loads \ {l}
  /\ rspq' = IF Len(rspq) < RspCap THEN Append(rspq, l) ELSE rspq
  /\ UNCHANGED <<tx, stores>>

SomeLoadDone == \E l \in loads : LoadDone(l)

Simulator == NothingHappens \/ EndpointTakes \/ StoreDone \/ SomeLoadDone

Next == BeginCall \/ DpiCall \/ Simulator

Spec == Init /\ [][Next]_vars

\* The host runs, and the manycore makes progress while it is evaluated: what
\* can happen in evaluation after evaluation happens in one of them.
Fairness ==
  /\ WF_vars(DpiCall) /\ WF_vars(Simulator)
  /\ SF_vars(EndpointTakes) /\ SF_vars(StoreDone) /\ SF_vars(SomeLoadDone)

FairSpec == Spec /\ Fairness

(***************************************************************************)
(* Properties.                                                             *)
(***************************************************************************)

LoadsOut == {i \in DOMAIN tx : tx[i].kind = "load"}

\* Every variable in its range; the capacity the interface has left is what
\* is neither promised to a load nor taken by a response.
TypeOK ==
  /\ op \in Ops \cup {"idle"} /\ pc \in {"idle", "loop", "recv", "fence", "vacant"}
  /\ cnt \in 0 .. MaxCnt /\ rqst \in 0 .. cnt /\ rsp \in 0 .. rqst
  /\ ids \in Seq(Ids) /\ index \in [Ids -> 0 .. MaxCnt] /\ data \in [Words -> 0 .. MaxCnt]
  /\ used \in 0 .. MaxOut /\ seen \in BOOLEAN /\ open \in BOOLEAN
  /\ Len(tx) <= 1 /\ rspq \in Seq(Loads) /\ stores \in Nat /\ loads \subseteq Loads
  /\ room + Cardinality(LoadsOut) + Cardinality(loads) + Len(rspq) = RspCap

\* When a read returns, every place of the caller's buffer holds the word it
\* asked for, although load ids are used again within the call and answers
\* come in any order.
ReadsInPlace ==
  [][op = "read" /\ op' = "idle" => \A w \in 1 .. cnt : data[w] = w]_vars

\* The simulated link keeps the same promise as the real one: no call that
\* fences returns with a request of any earlier call on its way.
Link == INSTANCE LinkSpec WITH
          call    <- IF op = "cache" THEN "store" ELSE op,
          stores  <- stores + Len(tx) - Cardinality(LoadsOut),
          loads   <- Cardinality(LoadsOut) + Cardinality(loads),
          answers <- Len(rspq)
ImplementsLink == Link!Spec

\* Every call returns: none of the loops that wait for the interface waits for
\* a credit, room or a response that never comes.
CallsReturn == op # "idle" ~> op = "idle"
=============================================================================
