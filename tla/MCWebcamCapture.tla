-------------------------- MODULE MCWebcamCapture --------------------------
(* Model-checking instance of WebcamCapture. *)
EXTENDS WebcamCapture, TLC

\* Nothing distinguishes one source object from another.
Symmetry == Permutations(Sources)

\* One buffer is too few for init_mmap; two and three are enough.
GrantedCounts == {1, 2, 3}

=============================================================================
