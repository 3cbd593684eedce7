------------------------------- MODULE MCJobs -------------------------------
(* Values for the constants of Jobs. *)
EXTENDS Jobs, TLC

AllOps == {"create", "seed", "update", "remove", "embed"}

\* Request slots are interchangeable, and so are keys and texts.
Symmetry ==
    Permutations(Requests) \cup Permutations(Sources) \cup Permutations(Texts)

=============================================================================
