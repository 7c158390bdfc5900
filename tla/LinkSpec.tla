------------------------------- MODULE LinkSpec -------------------------------
(***************************************************************************)
(* What the link promises to the library, without FIFOs, credits or        *)
(* counters: requests are posted, performed in any order, and a load is     *)
(* answered once it has been performed.  A call that fences returns only   *)
(* when every request posted so far has been performed; a call that reads  *)
(* returns only when each of its loads has been answered.                  *)
(***************************************************************************)
EXTENDS Naturals

VARIABLES
  call,      \* library call in progress
  stores,    \* stores posted and not yet performed
  loads,     \* loads posted and not yet performed
  answers    \* loads performed whose answer the host has not taken

vars == <<call, stores, loads, answers>>

Init == call = "idle" /\ stores = 0 /\ loads = 0 /\ answers = 0

Begin(c) ==
  /\ call = "idle"
  /\ call' = c
  /\ UNCHANGED <<stores, loads, answers>>

PostStore ==
  /\ call \in {"store", "write"}
  /\ stores' = stores + 1
  /\ UNCHANGED <<call, loads, answers>>

PostLoad ==
  /\ call = "read"
  /\ loads' = loads + 1
  /\ UNCHANGED <<call, stores, answers>>

PerformStore ==
  /\ stores > 0
  /\ stores' = stores - 1
  /\ UNCHANGED <<call, loads, answers>>

PerformLoad ==
  /\ loads > 0
  /\ loads' = loads - 1
  /\ answers' = answers + 1
  /\ UNCHANGED <<call, stores>>

TakeAnswer ==
  /\ call = "read" /\ answers > 0
  /\ answers' = answers - 1
  /\ UNCHANGED <<call, stores, loads>>

Return ==
  /\ call # "idle"
  /\ call \in {"write", "fence"} => stores + loads + answers = 0
  /\ call = "read" => loads + answers = 0
  /\ call' = "idle"
  /\ UNCHANGED <<stores, loads, answers>>

Next ==
  \/ \E c \in {"store", "write", "read", "fence"} : Begin(c)
  \/ PostStore \/ PostLoad
  \/ PerformStore \/ PerformLoad \/ TakeAnswer
  \/ Return

Spec == Init /\ [][Next]_vars
=============================================================================
