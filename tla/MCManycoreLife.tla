--------------------------- MODULE MCManycoreLife ---------------------------
(***************************************************************************)
(* ManycoreLife with three instances over either platform.                 *)
(***************************************************************************)
EXTENDS ManycoreLife
=============================================================================
