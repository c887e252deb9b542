-------------------------- MODULE MCLiveSubsession --------------------------
(* Model-checking instance of LiveSubsession. *)
EXTENDS LiveSubsession, TLC

\* Clients differ in nothing, nor do streams.  Only the runs that
\* check a single invariant use this: it is not sound for liveness.
Symmetry == Permutations(Clients) \cup Permutations(Streams)

=============================================================================
