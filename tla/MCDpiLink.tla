------------------------------ MODULE MCDpiLink ------------------------------
(***************************************************************************)
(* DpiLink with three load ids for calls of up to five words.             *)
(***************************************************************************)
EXTENDS DpiLink
=============================================================================
