------------------------------ MODULE MCAuth ------------------------------
(* Values for the constants of Auth. *)
EXTENDS Auth, TLC

AllOps == {"register", "resend", "forgot", "consume", "login", "refresh",
           "logout", "google"}

AllFaults == {"mongo", "redis", "redis_late", "mail"}

\* Request slots are interchangeable.
RequestSymmetry == Permutations(Requests)

=============================================================================
