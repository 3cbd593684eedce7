----------------------------- MODULE MCResumes -----------------------------
(* Values for the constants of Resumes. *)
EXTENDS Resumes, TLC

AllOps == {"upload", "quota", "delete", "edit", "confirm"}

AllFaults == {"mongo", "storage", "gemini", "qdrant", "qdrant_late"}

\* The non-empty values of the arrays have the same entries, some of them in
\* skills and others in technologies: one line of the text and one list of
\* skills, but different payloads.
Entries(lists) == IF lists = Blank THEN {} ELSE {"entries"}
MCEmbeddingText(c) == <<c.text, Entries(c.lists)>>
MCSkillsOf(lists) == Entries(lists)

\* Contents are interchangeable, and so are request slots.
ValueSymmetry == Permutations(Values)
Symmetry == Permutations(Values) \cup Permutations(Requests)

=============================================================================
