-------------------------- MODULE ResumeLifecycle --------------------------
(***************************************************************************)
(* What a user is promised about resumes and quotas, without files,        *)
(* vectors, documents and failures.  An upload is charged once its         *)
(* extraction has succeeded, or not at all.                                *)
(***************************************************************************)
EXTENDS Naturals

CONSTANTS
    Ids,            \* uploads, in their order
    UploadLimit,    \* uploads of the plan
    Unlimited,      \* the plan has no limit
    EditLimit       \* edits of a profile

VARIABLES
    stage,          \* of the profile of each upload
    edits,          \* how often it has been edited
    count,          \* how many uploads have been charged
    owed            \* successful uploads that are still to be charged

vars == <<stage, edits, count, owed>>

Reviewed == {"ready_for_review", "confirmed"}

Init ==
    /\ stage \in {[i \in Ids |-> "none"], [i \in Ids |-> IF i = 1 THEN "failed" ELSE "none"]}
    /\ edits = [i \in Ids |-> 0]
    /\ count \in 0..UploadLimit
    /\ owed = 0

\* A profile is new: the one before has been removed, and the quota allows it.
Upload(i) ==
    /\ \A j \in Ids : stage[j] = "none"
    /\ Unlimited \/ count < UploadLimit
    /\ stage' = [stage EXCEPT ![i] = "processing"]
    /\ UNCHANGED <<edits, count, owed>>

Extracted(i) ==
    /\ stage[i] = "processing"
    /\ stage' = [stage EXCEPT ![i] = "ready_for_review"]
    /\ owed' = owed + 1
    /\ UNCHANGED <<edits, count>>

ExtractionFailed(i) ==
    /\ stage[i] = "processing"
    /\ stage' = [stage EXCEPT ![i] = "failed"]
    /\ UNCHANGED <<edits, count, owed>>

Edit(i) ==
    /\ stage[i] \in Reviewed
    /\ edits[i] < EditLimit
    /\ edits' = [edits EXCEPT ![i] = @ + 1]
    /\ UNCHANGED <<stage, count, owed>>

\* Also a profile whose extraction was cut short.
Confirm(i) ==
    /\ stage[i] \in {"processing", "ready_for_review"}
    /\ stage' = [stage EXCEPT ![i] = "confirmed"]
    /\ UNCHANGED <<edits, count, owed>>

Remove(i) ==
    /\ stage[i] # "none"
    /\ stage' = [stage EXCEPT ![i] = "none"]
    /\ edits' = [edits EXCEPT ![i] = 0]
    /\ UNCHANGED <<count, owed>>

Charge ==
    /\ owed > 0
    /\ owed' = owed - 1
    /\ count' = count + 1
    /\ UNCHANGED <<stage, edits>>

\* An upload that is cut short after its extraction is never charged.
Forgo ==
    /\ owed > 0
    /\ owed' = owed - 1
    /\ UNCHANGED <<stage, edits, count>>

\* The quota is given back only while there is no successful upload on file.
Reset ==
    /\ \A i \in Ids : stage[i] \notin Reviewed
    /\ count' = 0
    /\ UNCHANGED <<stage, edits, owed>>

Next ==
    \/ \E i \in Ids :
          \/ Upload(i) \/ Extracted(i) \/ ExtractionFailed(i)
          \/ Edit(i) \/ Confirm(i) \/ Remove(i)
    \/ Charge \/ Forgo \/ Reset

Spec == Init /\ [][Next]_vars

=============================================================================
