----------------------------- MODULE FlatMemory -----------------------------
(***************************************************************************)
(* What the virtual addresses of the manycore promise to a program on the  *)
(* host: a number of spaces, each a flat array of words, and calls that    *)
(* copy a buffer to consecutive addresses of one space, or back, in order. *)
(* A call stops early only at an address its space does not have.          *)
(***************************************************************************)
EXTENDS Naturals, Sequences

VARIABLES
  contents,   \* [space -> [address -> word]]
  usable,     \* [space -> the addresses it has at present]
  op,         \* the call in progress: kind, space, at, left, data; or Idle
  got         \* the words the last read has returned so far

vars == <<contents, usable, op, got>>

Idle == [kind |-> "idle"]
Ops == {"read", "write"}

Init ==
  /\ op = Idle
  /\ got = <<>>

\* Only between calls do spaces grow or shrink.
Resize ==
  /\ op = Idle
  /\ DOMAIN usable' = DOMAIN usable
  /\ UNCHANGED <<contents, op, got>>

Begin ==
  /\ op = Idle
  /\ op'.kind \in Ops
  /\ op'.kind = "write" => Len(op'.data) = op'.left
  /\ got' = <<>>
  /\ UNCHANGED <<contents, usable>>

\* The next n words of the call, all of them usable.
Copy(n) ==
  LET first == op.at
      last == op.at + n - 1
  IN /\ op.kind \in Ops
     /\ n <= op.left
     /\ first .. last \subseteq usable[op.space]
     /\ IF op.kind = "read"
        THEN /\ got' = got \o [i \in 1 .. n |-> contents[op.space][first + i - 1]]
             /\ op' = [op EXCEPT !.at = @ + n, !.left = @ - n]
             /\ UNCHANGED contents
        ELSE /\ contents' = [contents EXCEPT ![op.space] =
                  [a \in DOMAIN @ |-> IF a \in first .. last
                                      THEN op.data[a - first + 1] ELSE @[a]]]
             /\ op' = [op EXCEPT !.at = @ + n, !.left = @ - n,
                                 !.data = SubSeq(@, n + 1, Len(@))]
             /\ UNCHANGED got
     /\ UNCHANGED usable

\* A call ends with its last word, or at an address that is not there.
End ==
  /\ op.kind \in Ops
  /\ op.left = 0 \/ op.at \notin usable[op.space]
  /\ op' = Idle
  /\ UNCHANGED <<contents, usable, got>>

Next ==
  \/ Resize
  \/ Begin
  \/ op.kind \in Ops /\ \E n \in 1 .. op.left : Copy(n)
  \/ End

Spec == Init /\ [][Next]_vars
=============================================================================
