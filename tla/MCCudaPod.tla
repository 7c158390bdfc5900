------------------------------ MODULE MCCudaPod ------------------------------
(***************************************************************************)
(* CudaPod on small meshes.                                                *)
(***************************************************************************)
EXTENDS CudaPod

Call(gx, gy, dx, dy, k) == [grid |-> <<gx, gy>>, dim |-> <<dx, dy>>, known |-> k]

\* Grids whose tile groups compete for a 2x2 mesh in different shapes.
MixedCalls == {Call(1, 2, 2, 1, TRUE), Call(2, 1, 1, 2, TRUE), Call(1, 1, 2, 2, TRUE)}

\* One kernel that exists and one that the binary lacks.
MissingCalls == {Call(1, 1, 1, 1, TRUE), Call(1, 1, 1, 1, FALSE)}
=============================================================================
