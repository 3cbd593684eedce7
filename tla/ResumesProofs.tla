--------------------------- MODULE ResumesProofs ---------------------------
(***************************************************************************)
(* Proofs about Resumes, for every number of requests, uploads, edits and  *)
(* contents.                                                               *)
(***************************************************************************)
EXTENDS Resumes, TLAPS

----------------------------------------------------------------------------
(* Lemmas on the operators the actions are built from *)

\* The request record and the fresh documents have their types.
LEMMA FreshTypes ==
    /\ FreshResume \in ResumeDoc
    /\ FreshProfile \in ProfileDoc
    /\ NoMem \in Mem
    /\ None \notin ResumeDoc /\ None \notin ProfileDoc /\ None \notin Point
BY ConstantsAssumption
   DEF FreshResume, ResumeDoc, FreshProfile, ProfileDoc, NoMem, Mem, Status,
       Field, Content, BlankContent, Skills, Texts, NoText, SavedFields, NoId

\* Moving a request on keeps the types of pc and mem.
LEMMA GotoType ==
    ASSUME TypeOK, NEW r \in Requests, NEW label \in Labels, NEW m \in Mem,
           Goto(r, label, m)
    PROVE  pc' \in [Requests -> Labels] /\ mem' \in [Requests -> Mem]
BY FreshTypes DEF TypeOK, Goto

LEMMA FinishType ==
    ASSUME TypeOK, NEW r \in Requests, Finish(r)
    PROVE  pc' \in [Requests -> Labels] /\ mem' \in [Requests -> Mem]
BY FreshTypes, GotoType DEF Finish, Labels

\* A lookup by user finds an id whose document is stored, or none.
LEMMA FindByUserType ==
    ASSUME NEW docs, NEW i \in FindByUser(docs)
    PROVE  /\ i \in Ids \cup {NoId}
           /\ i # NoId => i \in Ids /\ docs[i] # None
BY DEF FindByUser, Existing, Ids, NoId

\* What save() stores is a profile, and what it leaves of the rest is one.
LEMMA WrittenType ==
    ASSUME NEW stored \in ProfileDoc, NEW doc \in ProfileDoc, NEW dirty
    PROVE  Written(stored, doc, dirty) \in ProfileDoc
BY DEF Written, ProfileDoc, NextVersion

LEMMA SavedDocType ==
    ASSUME NEW doc \in ProfileDoc, NEW dirty
    PROVE  [doc EXCEPT !.v = NextVersion(doc.v, dirty)] \in ProfileDoc
BY DEF ProfileDoc, NextVersion

LEMMA SaveProfileType ==
    ASSUME TypeOK, NEW r \in Requests, NEW doc \in ProfileDoc,
           NEW dirty \in SUBSET SavedFields, NEW ok \in Labels,
           NEW failed \in Labels, SaveProfile(r, doc, dirty, ok, failed)
    PROVE  TypeOK'
<1> DEFINE m == mem[r]
           saved == [m EXCEPT !.doc = [doc EXCEPT !.v = NextVersion(doc.v, dirty)],
                              !.dirty = {}]
           kept == [m EXCEPT !.doc = doc, !.dirty = dirty]
<1>1. m \in Mem
  BY DEF TypeOK
<1>2. saved \in Mem /\ kept \in Mem
  BY <1>1, SavedDocType DEF Mem
<1>3. pc' \in [Requests -> Labels] /\ mem' \in [Requests -> Mem]
  <2>1. CASE Goto(r, ok, saved)
    BY <2>1, <1>2, GotoType
  <2>2. CASE Goto(r, failed, kept)
    BY <2>2, <1>2, GotoType
  <2>3. QED
    BY <2>1, <2>2 DEF SaveProfile
<1>4. profiles' \in [Ids -> ProfileDoc \cup {None}]
  <2>1. CASE /\ CanSave(m.pid, doc, dirty)
             /\ profiles' = [profiles EXCEPT
                                ![m.pid] = Written(profiles[m.pid], doc, dirty)]
    <3>1. CASE m.pid \in Ids
      <4>1. profiles[m.pid] \in ProfileDoc
        BY <2>1, <3>1 DEF CanSave, TypeOK
      <4>2. QED
        BY <4>1, <2>1, WrittenType DEF TypeOK
    <3>2. CASE m.pid \notin Ids
      BY <2>1, <3>2 DEF TypeOK
    <3>3. QED
      BY <3>1, <3>2
  <2>2. CASE UNCHANGED profiles
    BY <2>2 DEF TypeOK
  <2>3. QED
    BY <2>1, <2>2 DEF SaveProfile
<1>5. QED
  BY <1>3, <1>4 DEF SaveProfile, TypeOK

\* The assignments of the handlers give profiles.
LEMMA ConfirmedType ==
    ASSUME NEW doc \in ProfileDoc, NEW c \in Content
    PROVE  Confirmed(doc, c) \in ProfileDoc
BY DEF Confirmed, Apply, ProfileDoc, Content, Status

LEMMA EditedType ==
    ASSUME NEW doc \in ProfileDoc, NEW c \in Content
    PROVE  Edited(doc, c) \in ProfileDoc
<1>1. Apply(doc, c) \in ProfileDoc
  BY DEF Apply, ProfileDoc, Content
<1>2. doc.edits + 1 \in Nat
  BY DEF ProfileDoc
<1>3. QED
  BY <1>1, <1>2 DEF Edited, ProfileDoc

LEMMA ExtractedType ==
    ASSUME NEW doc \in ProfileDoc, NEW c \in Content
    PROVE  Extracted(doc, c) \in ProfileDoc
BY DEF Extracted, ProfileDoc, Content, Status

LEMMA ExtractionFailedType ==
    ASSUME NEW doc \in ProfileDoc
    PROVE  ExtractionFailed(doc) \in ProfileDoc
BY DEF ExtractionFailed, ProfileDoc, Status

LEMMA SyncedType ==
    ASSUME NEW doc \in ProfileDoc
    PROVE  /\ ContentOf(doc) \in Content /\ Text(doc) \in Texts
           /\ Synced(doc) \in ProfileDoc
           /\ [doc EXCEPT !.syncError = TRUE] \in ProfileDoc
<1>1. ContentOf(doc) \in Content
  BY DEF ContentOf, ProfileDoc, Content
<1>2. Text(doc) \in Texts
  BY <1>1 DEF Text, Texts
<1>3. QED
  BY <1>1, <1>2 DEF Synced, ProfileDoc

LEMMA SkillsType ==
    ASSUME NEW doc \in ProfileDoc, NEW v \in Nat
    PROVE  [skills |-> SkillsOf(doc.lists), v |-> v] \in ResumeDoc
<1>1. doc.lists \in Field
  BY DEF ProfileDoc
<1>2. SkillsOf(doc.lists) \in Skills
  BY <1>1 DEF Skills
<1>3. QED
  BY <1>2 DEF ResumeDoc

----------------------------------------------------------------------------
(* TypeOK is inductive: one lemma per group of actions *)

\* A request that moves on without touching anything else keeps TypeOK.
LEMMA LocalStepType ==
    ASSUME TypeOK, pc' \in [Requests -> Labels], mem' \in [Requests -> Mem],
           UNCHANGED <<uploadCount, lastId, stores>>,
           UNCHANGED calm \/ calm' = FALSE
    PROVE  TypeOK'
BY DEF TypeOK, stores

LEMMA RequestType ==
    ASSUME TypeOK, NEW r \in Requests, Request(r)
    PROVE  TypeOK'
<1>1. CASE BeginUpload(r)
  <2>1. [NoMem EXCEPT !.op = "upload", !.count = uploadCount] \in Mem
    BY FreshTypes DEF TypeOK, Mem
  <2>2. QED
    BY <1>1, <2>1, GotoType, LocalStepType DEF BeginUpload, Labels
<1>2. CASE BeginQuota(r)
  <2>1. [NoMem EXCEPT !.op = "quota", !.count = uploadCount] \in Mem
    BY FreshTypes DEF TypeOK, Mem
  <2>2. QED
    BY <1>2, <2>1, GotoType, LocalStepType DEF BeginQuota, Labels
<1>3. CASE BeginDelete(r)
  <2>1. PICK i \in Existing(resumes) :
           Goto(r, "delete_file", [NoMem EXCEPT !.op = "delete", !.id = i])
    BY <1>3 DEF BeginDelete
  <2>2. [NoMem EXCEPT !.op = "delete", !.id = i] \in Mem
    BY FreshTypes DEF Existing, Mem
  <2>3. QED
    BY <1>3, <2>1, <2>2, GotoType, LocalStepType DEF BeginDelete, Labels
<1>4. CASE BeginEdit(r)
  <2>1. PICK i \in Existing(resumes) :
           Goto(r, "edit_profile", [NoMem EXCEPT !.op = "edit", !.id = i,
                                                 !.pid = i, !.res = resumes[i]])
    BY <1>4 DEF BeginEdit
  <2>2. resumes[i] \in ResumeDoc /\ i \in Ids
    BY DEF Existing, TypeOK
  <2>3. [NoMem EXCEPT !.op = "edit", !.id = i, !.pid = i, !.res = resumes[i]] \in Mem
    BY <2>2, FreshTypes DEF Mem
  <2>4. QED
    BY <1>4, <2>1, <2>3, GotoType, LocalStepType DEF BeginEdit, Labels
<1>5. CASE BeginConfirm(r)
  <2>1. PICK i \in Existing(profiles), c \in Content :
           Goto(r, "confirm_save", [NoMem EXCEPT !.op = "confirm", !.pid = i,
                    !.doc = Confirmed(profiles[i], c),
                    !.dirty = Changes(profiles[i], Confirmed(profiles[i], c))])
    BY <1>5 DEF BeginConfirm
  <2>2. Confirmed(profiles[i], c) \in ProfileDoc /\ i \in Ids
    BY ConfirmedType DEF Existing, TypeOK
  <2>3. [NoMem EXCEPT !.op = "confirm", !.pid = i,
             !.doc = Confirmed(profiles[i], c),
             !.dirty = Changes(profiles[i], Confirmed(profiles[i], c))] \in Mem
    BY <2>2, FreshTypes DEF Mem, Changes
  <2>4. QED
    BY <1>5, <2>1, <2>3, GotoType, LocalStepType DEF BeginConfirm, Labels
<1>6. QED
  BY <1>1, <1>2, <1>3, <1>4, <1>5 DEF Request

\* The locals of a request keep their type when one of them is assigned.
LEMMA MemType ==
    ASSUME TypeOK, NEW r \in Requests
    PROVE  /\ mem[r] \in Mem
           /\ mem[r].doc \in ProfileDoc
           /\ mem[r].dirty \in SUBSET SavedFields
           /\ \A i \in Ids \cup {NoId} : [mem[r] EXCEPT !.id = i] \in Mem
           /\ \A doc \in ProfileDoc, dirty \in SUBSET SavedFields :
                 [mem[r] EXCEPT !.doc = doc, !.dirty = dirty] \in Mem
BY DEF TypeOK, Mem

LEMMA SyncStepsType ==
    ASSUME TypeOK, NEW r \in Requests,
           \/ SyncResume(r) \/ SyncProfile(r) \/ SyncReset(r)
           \/ FindExisting(r) \/ FindExistingProfile(r)
    PROVE  TypeOK'
<1>0. AfterSync(mem[r].op) \in Labels
  BY DEF AfterSync, Labels
<1>1. CASE SyncResume(r)
  <2>1. PICK i \in FindByUser(resumes) : Goto(r, "sync_profile", [mem[r] EXCEPT !.id = i])
    BY <1>1 DEF SyncResume
  <2>2. [mem[r] EXCEPT !.id = i] \in Mem
    BY FindByUserType, MemType
  <2>3. QED
    BY <1>1, <2>1, <2>2, GotoType, LocalStepType DEF SyncResume, Labels
<1>2. CASE SyncProfile(r)
  <2>1. PICK i \in FindByUser(profiles) :
           Goto(r, IF ShouldReset(mem[r].count, mem[r].id, StatusOf(i))
                   THEN "sync_reset" ELSE AfterSync(mem[r].op), mem[r])
    BY <1>2 DEF SyncProfile
  <2>2. (IF ShouldReset(mem[r].count, mem[r].id, StatusOf(i))
         THEN "sync_reset" ELSE AfterSync(mem[r].op)) \in Labels
    BY <1>0 DEF Labels
  <2>3. QED
    BY <1>2, <2>1, <2>2, MemType, GotoType, LocalStepType DEF SyncProfile
<1>3. CASE SyncReset(r)
  <2>1. [mem[r] EXCEPT !.count = 0] \in Mem
    BY MemType DEF Mem
  <2>2. QED
    BY <1>0, <1>3, <2>1, GotoType DEF SyncReset, TypeOK, stores
<1>4. CASE FindExisting(r)
  <2>1. PICK i \in FindByUser(resumes) :
           Goto(r, IF i # NoId THEN "find_existing_profile"
                   ELSE IF CanUpload(mem[r].count, FALSE) THEN "save_file" ELSE "idle",
                [mem[r] EXCEPT !.id = i])
    BY <1>4 DEF FindExisting
  <2>2. [mem[r] EXCEPT !.id = i] \in Mem
    BY FindByUserType, MemType
  <2>3. (IF i # NoId THEN "find_existing_profile"
         ELSE IF CanUpload(mem[r].count, FALSE) THEN "save_file" ELSE "idle") \in Labels
    BY DEF Labels
  <2>4. QED
    BY <1>4, <2>1, <2>2, <2>3, GotoType, LocalStepType DEF FindExisting
<1>5. CASE FindExistingProfile(r)
  <2>1. (IF CanUpload(mem[r].count, StatusOf(mem[r].id) = "failed")
         THEN "delete_file" ELSE "idle") \in Labels
    BY DEF Labels
  <2>2. QED
    BY <1>5, <2>1, MemType, GotoType, LocalStepType DEF FindExistingProfile
<1>6. QED
  BY <1>1, <1>2, <1>3, <1>4, <1>5

LEMMA RemovalStepsType ==
    ASSUME TypeOK, NEW r \in Requests,
           DeleteFile(r) \/ DeleteVector(r) \/ DeleteProfile(r) \/ DeleteResume(r)
    PROVE  TypeOK'
<1>1. CASE DeleteFile(r)
  <2>1. pc' \in [Requests -> Labels] /\ mem' \in [Requests -> Mem]
    BY <1>1, MemType, GotoType DEF DeleteFile, Labels
  <2>2. QED
    BY <1>1, <2>1 DEF DeleteFile, TypeOK
<1>2. CASE DeleteVector(r)
  <2>1. pc' \in [Requests -> Labels] /\ mem' \in [Requests -> Mem]
    BY <1>2, MemType, GotoType, FinishType DEF DeleteVector, Labels
  <2>2. QED
    BY <1>2, <2>1 DEF DeleteVector, TypeOK
<1>3. CASE DeleteProfile(r)
  <2>1. pc' \in [Requests -> Labels] /\ mem' \in [Requests -> Mem]
    BY <1>3, MemType, GotoType DEF DeleteProfile, Labels
  <2>2. QED
    BY <1>3, <2>1 DEF DeleteProfile, TypeOK
<1>4. CASE DeleteResume(r)
  <2>1. (IF mem[r].op = "upload" THEN "save_file" ELSE "idle") \in Labels
    BY DEF Labels
  <2>2. pc' \in [Requests -> Labels] /\ mem' \in [Requests -> Mem]
    BY <1>4, <2>1, MemType, GotoType DEF DeleteResume
  <2>3. QED
    BY <1>4, <2>2 DEF DeleteResume, TypeOK
<1>5. QED
  BY <1>1, <1>2, <1>3, <1>4

LEMMA CreationStepsType ==
    ASSUME TypeOK, NEW r \in Requests,
           \/ SaveFile(r) \/ CreateResume(r) \/ UpsertProfile(r)
           \/ Extract(r) \/ Charge(r)
    PROVE  TypeOK'
<1>1. CASE SaveFile(r)
  <2>1. CASE /\ lastId < MaxUploads
             /\ lastId' = lastId + 1
             /\ files' = files \cup {lastId'}
             /\ Goto(r, "create_resume", [mem[r] EXCEPT !.id = lastId', !.pid = lastId'])
    <3>1. lastId' \in Ids /\ lastId' \in 0..MaxUploads
      BY <2>1, ConstantsAssumption DEF TypeOK, Ids
    <3>2. [mem[r] EXCEPT !.id = lastId', !.pid = lastId'] \in Mem
      BY <3>1, MemType DEF Mem
    <3>3. QED
      BY <1>1, <2>1, <3>1, <3>2, GotoType DEF SaveFile, TypeOK, Labels
  <2>2. CASE Finish(r) /\ UNCHANGED <<lastId, files>>
    BY <1>1, <2>2, FinishType DEF SaveFile, TypeOK
  <2>3. QED
    BY <1>1, <2>1, <2>2 DEF SaveFile
<1>2. CASE CreateResume(r)
  <2>1. [mem[r] EXCEPT !.res = FreshResume] \in Mem
    BY MemType, FreshTypes DEF Mem
  <2>2. pc' \in [Requests -> Labels] /\ mem' \in [Requests -> Mem]
    BY <1>2, <2>1, GotoType, FinishType DEF CreateResume, Labels
  <2>3. QED
    BY <1>2, <2>2, FreshTypes DEF CreateResume, TypeOK
<1>3. CASE UpsertProfile(r)
  <2>1. [mem[r] EXCEPT !.doc = FreshProfile] \in Mem
    BY MemType, FreshTypes DEF Mem
  <2>2. pc' \in [Requests -> Labels] /\ mem' \in [Requests -> Mem]
    BY <1>3, <2>1, GotoType, FinishType DEF UpsertProfile, Labels
  <2>3. QED
    BY <1>3, <2>2, FreshTypes DEF UpsertProfile, TypeOK
<1>4. CASE Extract(r)
  <2>1. CASE Goto(r, "save_failed", mem[r])
    BY <1>4, <2>1, MemType, GotoType, LocalStepType DEF Extract, Labels
  <2>2. ASSUME NEW c \in Content,
               Goto(r, "save_extracted",
                    [mem[r] EXCEPT !.doc = Extracted(mem[r].doc, c),
                        !.dirty = Changes(mem[r].doc, Extracted(mem[r].doc, c))])
        PROVE  TypeOK'
    <3>1. [mem[r] EXCEPT !.doc = Extracted(mem[r].doc, c),
               !.dirty = Changes(mem[r].doc, Extracted(mem[r].doc, c))] \in Mem
      BY MemType, ExtractedType DEF Changes
    <3>2. QED
      BY <1>4, <2>2, <3>1, GotoType, LocalStepType DEF Extract, Labels
  <2>3. QED
    BY <1>4, <2>1, <2>2 DEF Extract
<1>5. CASE Charge(r)
  BY <1>5, FinishType DEF Charge, TypeOK, stores
<1>6. QED
  BY <1>1, <1>2, <1>3, <1>4, <1>5

LEMMA SavingStepsType ==
    ASSUME TypeOK, NEW r \in Requests,
           \/ SaveExtracted(r) \/ SaveFailed(r) \/ EditSave(r)
           \/ ConfirmSave(r) \/ SaveSynced(r) \/ RecordFailure(r)
    PROVE  TypeOK'
<1>1. CASE SaveExtracted(r) \/ EditSave(r) \/ ConfirmSave(r) \/ SaveSynced(r)
  BY <1>1, MemType, SaveProfileType
     DEF SaveExtracted, EditSave, ConfirmSave, SaveSynced, Labels
<1>2. CASE SaveFailed(r)
  <2>1. mem[r].dirty \cup Changes(mem[r].doc, ExtractionFailed(mem[r].doc))
            \in SUBSET SavedFields
    BY MemType DEF Changes
  <2>2. QED
    BY <1>2, <2>1, MemType, ExtractionFailedType, SaveProfileType DEF SaveFailed, Labels
<1>3. CASE RecordFailure(r)
  <2> DEFINE doc == [mem[r].doc EXCEPT !.syncError = TRUE]
  <2>1. mem[r].dirty \cup Changes(mem[r].doc, doc) \in SUBSET SavedFields
    BY MemType DEF Changes
  <2>2. doc \in ProfileDoc
    BY MemType, SyncedType
  <2>3. QED
    BY <1>3, <2>1, <2>2, SaveProfileType DEF RecordFailure, Labels
<1>4. QED
  BY <1>1, <1>2, <1>3

LEMMA SyncStartType ==
    ASSUME NEW doc PROVE SyncStart(doc) \in Labels
BY DEF SyncStart, Labels

LEMMA OtherStepsType ==
    ASSUME TypeOK, NEW r \in Requests,
           \/ SaveSkills(r) \/ EditProfile(r) \/ ConfirmResume(r)
           \/ UpsertPoint(r) \/ MongoError(r)
    PROVE  TypeOK'
<1>1. CASE SaveSkills(r)
  <2> DEFINE m == mem[r]
  <2>1. AfterSkills(m) \in Labels
    BY SyncStartType DEF AfterSkills, Labels
  <2>2. pc' \in [Requests -> Labels] /\ mem' \in [Requests -> Mem]
    BY <1>1, <2>1, MemType, GotoType, FinishType DEF SaveSkills
  <2>3. [skills |-> SkillsOf(m.doc.lists), v |-> m.res.v + 1] \in ResumeDoc
    <3>1. m.doc \in ProfileDoc /\ m.res \in ResumeDoc
      BY MemType DEF Mem
    <3>2. m.res.v + 1 \in Nat
      BY <3>1 DEF ResumeDoc
    <3>3. QED
      BY <3>1, <3>2, SkillsType
  <2>4. resumes' \in [Ids -> ResumeDoc \cup {None}]
    BY <1>1, <2>3 DEF SaveSkills, TypeOK
  <2>5. QED
    BY <1>1, <2>2, <2>4 DEF SaveSkills, TypeOK
<1>2. CASE EditProfile(r)
  <2>1. CASE Finish(r)
    BY <1>2, <2>1, FinishType, LocalStepType DEF EditProfile
  <2>2. CASE CanEdit(mem[r].id)
    <3> DEFINE i == mem[r].id
    <3>1. PICK c \in Content :
             Goto(r, "edit_save", [mem[r] EXCEPT !.doc = Edited(profiles[i], c),
                      !.dirty = Changes(profiles[i], Edited(profiles[i], c))])
      BY <1>2, <2>2 DEF EditProfile
    <3>2. profiles[i] \in ProfileDoc
      <4>1. i \in Ids \cup {NoId}
        BY MemType DEF Mem
      <4>2. i # NoId /\ profiles[i] # None
        BY <2>2 DEF CanEdit, StatusOf
      <4>3. QED
        BY <4>1, <4>2 DEF TypeOK
    <3>3. [mem[r] EXCEPT !.doc = Edited(profiles[i], c),
               !.dirty = Changes(profiles[i], Edited(profiles[i], c))] \in Mem
      BY <3>2, EditedType, MemType DEF Changes
    <3>4. QED
      BY <1>2, <3>1, <3>3, GotoType, LocalStepType DEF EditProfile, Labels
  <2>3. QED
    BY <1>2, <2>1, <2>2 DEF EditProfile
<1>3. CASE ConfirmResume(r)
  <2>1. PICK i \in FindByUser(resumes) :
           IF i = NoId THEN Goto(r, SyncStart(mem[r].doc), mem[r])
           ELSE Goto(r, "save_skills", [mem[r] EXCEPT !.id = i, !.res = resumes[i]])
    BY <1>3 DEF ConfirmResume
  <2>2. CASE i = NoId
    BY <1>3, <2>1, <2>2, SyncStartType, MemType, GotoType, LocalStepType
       DEF ConfirmResume
  <2>3. CASE i # NoId
    <3>1. i \in Ids /\ resumes[i] \in ResumeDoc
      BY <2>3, FindByUserType DEF TypeOK
    <3>2. [mem[r] EXCEPT !.id = i, !.res = resumes[i]] \in Mem
      BY <3>1, MemType DEF Mem
    <3>3. QED
      BY <1>3, <2>1, <2>3, <3>2, GotoType, LocalStepType DEF ConfirmResume, Labels
  <2>4. QED
    BY <2>2, <2>3
<1>4. CASE UpsertPoint(r)
  <2> DEFINE m == mem[r]
             new == Synced(m.doc)
             written == [resume |-> m.pid, content |-> ContentOf(m.doc)]
  <2>1. [m EXCEPT !.doc = new, !.dirty = m.dirty \cup Changes(m.doc, new)] \in Mem
    BY MemType, SyncedType DEF Changes
  <2>2. pc' \in [Requests -> Labels] /\ mem' \in [Requests -> Mem]
    BY <1>4, <2>1, MemType, GotoType DEF UpsertPoint, Labels
  <2>3. written \in Point
    BY MemType, SyncedType DEF Mem, Point
  <2>4. point' \in Point \cup {None}
    BY <1>4, <2>3 DEF UpsertPoint, TypeOK
  <2>5. QED
    BY <1>4, <2>2, <2>4 DEF UpsertPoint, TypeOK
<1>5. CASE MongoError(r)
  BY <1>5, FinishType, LocalStepType DEF MongoError
<1>6. QED
  BY <1>1, <1>2, <1>3, <1>4, <1>5

\* Every variable keeps its type in every behaviour.
THEOREM TypeCorrect == Spec => []TypeOK
<1>1. Init => TypeOK
  BY FreshTypes, ConstantsAssumption, ExtractionFailedType
     DEF Init, NewAccount, LegacyFailure, TypeOK, Ids, Labels
<1>2. TypeOK /\ [Next]_vars => TypeOK'
  <2> SUFFICES ASSUME TypeOK, [Next]_vars PROVE TypeOK'
    OBVIOUS
  <2>1. ASSUME NEW r \in Requests, Request(r) PROVE TypeOK'
    BY <2>1, RequestType
  <2>2. ASSUME NEW r \in Requests, Step(r) PROVE TypeOK'
    BY <2>2, SyncStepsType, RemovalStepsType, CreationStepsType,
       SavingStepsType, OtherStepsType DEF Step
  <2>3. CASE Crash
    BY <2>3, FreshTypes, LocalStepType DEF Crash, Labels
  <2>4. CASE UNCHANGED vars
    BY <2>4 DEF vars, stores, TypeOK
  <2>5. QED
    BY <2>1, <2>2, <2>3, <2>4 DEF Next
<1>3. QED
  BY <1>1, <1>2, PTL DEF Spec

----------------------------------------------------------------------------
(* The edit count.  The stored count alone is not inductive: a request     *)
(* that was accepted still holds the count it is going to save.            *)

LocalEditsWithinLimit == \A r \in Requests : mem[r].doc.edits <= EditLimit

EditsInv == EditsWithinLimit /\ LocalEditsWithinLimit

\* A request moves on with a document whose count is within the limit.
LEMMA GotoEdits ==
    ASSUME TypeOK, LocalEditsWithinLimit, NEW r \in Requests, NEW label,
           NEW m, m.doc.edits <= EditLimit, Goto(r, label, m)
    PROVE  LocalEditsWithinLimit'
<1>1. NoMem.doc.edits <= EditLimit
  BY ConstantsAssumption DEF NoMem, FreshProfile
<1>2. mem' = [mem EXCEPT ![r] = IF label = "idle" THEN NoMem ELSE m]
  BY DEF Goto
<1>3. \A q \in Requests : mem'[q] = mem[q] \/ mem'[q] = NoMem \/ mem'[q] = m
  BY <1>2 DEF TypeOK
<1>4. QED
  BY <1>1, <1>3 DEF LocalEditsWithinLimit

LEMMA FinishEdits ==
    ASSUME TypeOK, LocalEditsWithinLimit, NEW r \in Requests, Finish(r)
    PROVE  LocalEditsWithinLimit'
<1>1. NoMem.doc.edits <= EditLimit
  BY ConstantsAssumption DEF NoMem, FreshProfile
<1>2. QED
  BY <1>1, GotoEdits DEF Finish

\* The assignments to the other locals leave the count alone.
LEMMA SameDocEdits ==
    ASSUME TypeOK, LocalEditsWithinLimit, NEW r \in Requests
    PROVE  /\ mem[r].doc.edits <= EditLimit
           /\ \A i : [mem[r] EXCEPT !.id = i].doc.edits <= EditLimit
           /\ \A n : [mem[r] EXCEPT !.count = n].doc.edits <= EditLimit
           /\ \A d : [mem[r] EXCEPT !.res = d].doc.edits <= EditLimit
           /\ \A i, d : [mem[r] EXCEPT !.id = i, !.res = d].doc.edits <= EditLimit
           /\ \A i, j : [mem[r] EXCEPT !.id = i, !.pid = j].doc.edits <= EditLimit
           /\ \A d, s : [mem[r] EXCEPT !.doc = d, !.dirty = s].doc = d
<1>1. mem[r] \in Mem /\ mem[r].doc.edits <= EditLimit
  BY DEF TypeOK, LocalEditsWithinLimit
<1>2. QED
  BY <1>1 DEF Mem

\* A save stores either the count of the document or the one that was stored.
LEMMA SaveProfileEdits ==
    ASSUME TypeOK, EditsInv, NEW r \in Requests, NEW doc \in ProfileDoc,
           doc.edits <= EditLimit, NEW dirty, NEW ok, NEW failed,
           SaveProfile(r, doc, dirty, ok, failed)
    PROVE  EditsInv'
<1> DEFINE m == mem[r]
           saved == [m EXCEPT !.doc = [doc EXCEPT !.v = NextVersion(doc.v, dirty)],
                              !.dirty = {}]
           kept == [m EXCEPT !.doc = doc, !.dirty = dirty]
<1>1. saved.doc.edits <= EditLimit /\ kept.doc.edits <= EditLimit
  <2>1. [doc EXCEPT !.v = NextVersion(doc.v, dirty)].edits = doc.edits
    BY DEF ProfileDoc
  <2>2. m \in Mem
    BY DEF TypeOK
  <2>3. saved.doc = [doc EXCEPT !.v = NextVersion(doc.v, dirty)] /\ kept.doc = doc
    BY <2>2 DEF Mem
  <2>4. QED
    BY <2>1, <2>3
<1>2. LocalEditsWithinLimit'
  BY <1>1, GotoEdits DEF SaveProfile, EditsInv
<1>3. EditsWithinLimit'
  <2>1. CASE UNCHANGED profiles
    BY <2>1 DEF EditsInv, EditsWithinLimit
  <2>2. CASE /\ CanSave(m.pid, doc, dirty)
             /\ profiles' = [profiles EXCEPT
                                ![m.pid] = Written(profiles[m.pid], doc, dirty)]
    <3>1. ASSUME NEW i \in Ids, profiles'[i] # None
          PROVE  profiles'[i].edits <= EditLimit
      <4>1. CASE i = m.pid
        <5>1. profiles[i] # None
          BY <2>2, <4>1 DEF CanSave
        <5>2. profiles[i].edits <= EditLimit
          BY <5>1 DEF EditsInv, EditsWithinLimit
        <5>3. Written(profiles[i], doc, dirty).edits <= EditLimit
          BY <5>2 DEF Written
        <5>4. QED
          BY <2>2, <4>1, <5>3 DEF TypeOK
      <4>2. CASE i # m.pid
        BY <2>2, <3>1, <4>2 DEF EditsInv, EditsWithinLimit, TypeOK
      <4>3. QED
        BY <4>1, <4>2
    <3>2. QED
      BY <3>1 DEF EditsWithinLimit
  <2>3. QED
    BY <2>1, <2>2 DEF SaveProfile
<1>4. QED
  BY <1>2, <1>3 DEF EditsInv

LEMMA RequestEdits ==
    ASSUME TypeOK, EditsInv, NEW r \in Requests, Request(r)
    PROVE  EditsInv'
<1> USE DEF EditsInv
<1>1. EditsWithinLimit'
  BY DEF Request, BeginUpload, BeginQuota, BeginDelete, BeginEdit, BeginConfirm,
         EditsWithinLimit, stores
<1>2. NoMem.doc.edits <= EditLimit /\ NoMem \in Mem
  BY ConstantsAssumption, FreshTypes DEF NoMem, FreshProfile
<1>3. CASE BeginUpload(r)
  <2>1. [NoMem EXCEPT !.op = "upload", !.count = uploadCount].doc.edits <= EditLimit
    BY <1>2 DEF Mem
  <2>2. QED
    BY <1>1, <1>3, <2>1, GotoEdits DEF BeginUpload
<1>4. CASE BeginQuota(r)
  <2>1. [NoMem EXCEPT !.op = "quota", !.count = uploadCount].doc.edits <= EditLimit
    BY <1>2 DEF Mem
  <2>2. QED
    BY <1>1, <1>4, <2>1, GotoEdits DEF BeginQuota
<1>5. CASE BeginDelete(r)
  <2>1. PICK i \in Existing(resumes) :
           Goto(r, "delete_file", [NoMem EXCEPT !.op = "delete", !.id = i])
    BY <1>5 DEF BeginDelete
  <2>2. [NoMem EXCEPT !.op = "delete", !.id = i].doc.edits <= EditLimit
    BY <1>2 DEF Mem
  <2>3. QED
    BY <1>1, <2>1, <2>2, GotoEdits
<1>6. CASE BeginEdit(r)
  <2>1. PICK i \in Existing(resumes) :
           Goto(r, "edit_profile", [NoMem EXCEPT !.op = "edit", !.id = i,
                                                 !.pid = i, !.res = resumes[i]])
    BY <1>6 DEF BeginEdit
  <2>2. [NoMem EXCEPT !.op = "edit", !.id = i, !.pid = i,
             !.res = resumes[i]].doc.edits <= EditLimit
    BY <1>2 DEF Mem
  <2>3. QED
    BY <1>1, <2>1, <2>2, GotoEdits
<1>7. CASE BeginConfirm(r)
  <2>1. PICK i \in Existing(profiles), c \in Content :
           Goto(r, "confirm_save", [NoMem EXCEPT !.op = "confirm", !.pid = i,
                    !.doc = Confirmed(profiles[i], c),
                    !.dirty = Changes(profiles[i], Confirmed(profiles[i], c))])
    BY <1>7 DEF BeginConfirm
  <2>2. profiles[i] \in ProfileDoc /\ profiles[i].edits <= EditLimit
    BY DEF Existing, TypeOK, EditsWithinLimit
  <2>3. Confirmed(profiles[i], c).edits = profiles[i].edits
    BY <2>2 DEF Confirmed, Apply, ProfileDoc
  <2>4. [NoMem EXCEPT !.op = "confirm", !.pid = i,
             !.doc = Confirmed(profiles[i], c),
             !.dirty = Changes(profiles[i], Confirmed(profiles[i], c))].doc
             = Confirmed(profiles[i], c)
    BY <1>2 DEF Mem
  <2>5. QED
    BY <1>1, <2>1, <2>2, <2>3, <2>4, GotoEdits
<1>8. QED
  BY <1>3, <1>4, <1>5, <1>6, <1>7 DEF Request

\* The steps that neither assign to the loaded profile nor store one.
LEMMA QuietStepsEdits ==
    ASSUME TypeOK, EditsInv, NEW r \in Requests,
           \/ SyncResume(r) \/ SyncProfile(r) \/ SyncReset(r) \/ FindExisting(r)
           \/ FindExistingProfile(r) \/ DeleteFile(r) \/ DeleteVector(r)
           \/ DeleteProfile(r) \/ DeleteResume(r) \/ SaveFile(r)
           \/ CreateResume(r) \/ SaveSkills(r) \/ Charge(r)
           \/ ConfirmResume(r) \/ MongoError(r)
    PROVE  EditsInv'
<1> USE DEF EditsInv
<1>1. EditsWithinLimit'
  <2>1. CASE DeleteProfile(r)
    BY <2>1 DEF DeleteProfile, EditsWithinLimit, TypeOK
  <2>2. CASE ~DeleteProfile(r)
    <3>1. UNCHANGED profiles
      BY <2>2 DEF SyncResume, SyncProfile, SyncReset, FindExisting,
            FindExistingProfile, DeleteFile, DeleteVector, DeleteResume,
            SaveFile, CreateResume, SaveSkills, Charge, ConfirmResume,
            MongoError, stores
    <3>2. QED
      BY <3>1 DEF EditsWithinLimit
  <2>3. QED
    BY <2>1, <2>2
<1>2. LocalEditsWithinLimit'
  <2>1. CASE SyncResume(r) \/ SyncProfile(r) \/ SyncReset(r)
    BY <2>1, SameDocEdits, GotoEdits DEF SyncResume, SyncProfile, SyncReset
  <2>2. CASE FindExisting(r) \/ FindExistingProfile(r)
    BY <2>2, SameDocEdits, GotoEdits DEF FindExisting, FindExistingProfile
  <2>3. CASE DeleteFile(r) \/ DeleteVector(r) \/ DeleteProfile(r) \/ DeleteResume(r)
    BY <2>3, SameDocEdits, GotoEdits, FinishEdits
       DEF DeleteFile, DeleteVector, DeleteProfile, DeleteResume
  <2>4. CASE SaveFile(r) \/ CreateResume(r)
    BY <2>4, SameDocEdits, GotoEdits, FinishEdits DEF SaveFile, CreateResume
  <2>5. CASE SaveSkills(r) \/ Charge(r) \/ MongoError(r)
    BY <2>5, SameDocEdits, GotoEdits, FinishEdits DEF SaveSkills, Charge, MongoError
  <2>6. CASE ConfirmResume(r)
    <3>1. PICK i \in FindByUser(resumes) :
             IF i = NoId THEN Goto(r, SyncStart(mem[r].doc), mem[r])
             ELSE Goto(r, "save_skills", [mem[r] EXCEPT !.id = i, !.res = resumes[i]])
      BY <2>6 DEF ConfirmResume
    <3>2. QED
      BY <3>1, SameDocEdits, GotoEdits
  <2>7. QED
    BY <2>1, <2>2, <2>3, <2>4, <2>5, <2>6
<1>3. QED
  BY <1>1, <1>2

\* The steps that create, assign to or store a profile.
LEMMA ProfileStepsEdits ==
    ASSUME TypeOK, EditsInv, NEW r \in Requests,
           \/ UpsertProfile(r) \/ Extract(r) \/ EditProfile(r) \/ UpsertPoint(r)
           \/ SaveExtracted(r) \/ SaveFailed(r) \/ EditSave(r)
           \/ ConfirmSave(r) \/ SaveSynced(r) \/ RecordFailure(r)
    PROVE  EditsInv'
<1> USE DEF EditsInv
<1> DEFINE m == mem[r]
<1>0. m \in Mem /\ m.doc \in ProfileDoc /\ m.doc.edits <= EditLimit
  BY MemType, SameDocEdits
<1>1. CASE UpsertProfile(r)
  <2>1. FreshProfile.edits <= EditLimit
    BY ConstantsAssumption DEF FreshProfile
  <2>2. [m EXCEPT !.doc = FreshProfile].doc = FreshProfile
    BY <1>0 DEF Mem
  <2>3. LocalEditsWithinLimit'
    BY <1>1, <2>1, <2>2, GotoEdits, FinishEdits DEF UpsertProfile
  <2>4. EditsWithinLimit'
    BY <1>1, <2>1 DEF UpsertProfile, EditsWithinLimit, TypeOK
  <2>5. QED
    BY <2>3, <2>4
<1>2. CASE Extract(r)
  <2>1. EditsWithinLimit'
    BY <1>2 DEF Extract, EditsWithinLimit, stores
  <2>2. CASE Goto(r, "save_failed", m)
    BY <2>1, <2>2, <1>0, GotoEdits
  <2>3. ASSUME NEW c \in Content,
               Goto(r, "save_extracted",
                    [m EXCEPT !.doc = Extracted(m.doc, c),
                              !.dirty = Changes(m.doc, Extracted(m.doc, c))])
        PROVE  EditsInv'
    <3> DEFINE new == [m EXCEPT !.doc = Extracted(m.doc, c),
                                !.dirty = Changes(m.doc, Extracted(m.doc, c))]
    <3>1. Extracted(m.doc, c).edits = 0
      BY <1>0 DEF Extracted, ProfileDoc
    <3>2. new.doc = Extracted(m.doc, c)
      BY <1>0 DEF Mem
    <3>3. new.doc.edits <= EditLimit
      BY <3>1, <3>2, ConstantsAssumption
    <3> HIDE DEF new
    <3>4. LocalEditsWithinLimit'
      BY <2>3, <3>3, GotoEdits DEF new
    <3>5. QED
      BY <2>1, <3>4
  <2>4. QED
    BY <1>2, <2>2, <2>3 DEF Extract
<1>3. CASE EditProfile(r)
  <2>1. EditsWithinLimit'
    BY <1>3 DEF EditProfile, EditsWithinLimit, stores
  <2>2. CASE Finish(r)
    BY <2>1, <2>2, FinishEdits
  <2>3. CASE CanEdit(m.id)
    <3> DEFINE i == m.id
    <3>1. PICK c \in Content :
             Goto(r, "edit_save", [m EXCEPT !.doc = Edited(profiles[i], c),
                      !.dirty = Changes(profiles[i], Edited(profiles[i], c))])
      BY <1>3, <2>3 DEF EditProfile
    <3>2. profiles[i] \in ProfileDoc
      <4>1. i \in Ids \cup {NoId}
        BY <1>0 DEF Mem
      <4>2. i # NoId /\ profiles[i] # None
        BY <2>3 DEF CanEdit, StatusOf
      <4>3. QED
        BY <4>1, <4>2 DEF TypeOK
    <3>3. Edited(profiles[i], c).edits = profiles[i].edits + 1
      BY <3>2 DEF Edited, Apply, ProfileDoc
    <3>4. Edited(profiles[i], c).edits <= EditLimit
      BY <3>2, <3>3, <2>3, ConstantsAssumption DEF CanEdit, ProfileDoc
    <3>5. [m EXCEPT !.doc = Edited(profiles[i], c),
              !.dirty = Changes(profiles[i], Edited(profiles[i], c))].doc
              = Edited(profiles[i], c)
      BY <1>0 DEF Mem
    <3>6. QED
      BY <2>1, <3>1, <3>4, <3>5, GotoEdits
  <2>4. QED
    BY <1>3, <2>2, <2>3 DEF EditProfile
<1>4. CASE UpsertPoint(r)
  <2> DEFINE new == Synced(m.doc)
             synced == [m EXCEPT !.doc = new,
                                 !.dirty = m.dirty \cup Changes(m.doc, new)]
  <2>1. EditsWithinLimit'
    BY <1>4 DEF UpsertPoint, EditsWithinLimit
  <2>2. synced.doc = new /\ new.edits = m.doc.edits
    BY <1>0 DEF Mem, Synced, ProfileDoc
  <2>3. synced.doc.edits <= EditLimit
    BY <1>0, <2>2
  <2>4. LocalEditsWithinLimit'
    <3>1. CASE Goto(r, "save_synced", synced)
      BY <2>3, <3>1, GotoEdits
    <3>2. CASE Goto(r, "record_failure", m)
      BY <1>0, <3>2, GotoEdits
    <3>3. QED
      BY <1>4, <3>1, <3>2 DEF UpsertPoint
  <2>5. QED
    BY <2>1, <2>4
<1>5. CASE SaveExtracted(r) \/ EditSave(r) \/ ConfirmSave(r) \/ SaveSynced(r)
  BY <1>0, <1>5, SaveProfileEdits DEF SaveExtracted, EditSave, ConfirmSave, SaveSynced
<1>6. CASE SaveFailed(r)
  <2>1. ExtractionFailed(m.doc) \in ProfileDoc /\ ExtractionFailed(m.doc).edits <= EditLimit
    BY <1>0, ExtractionFailedType DEF ExtractionFailed, ProfileDoc
  <2>2. QED
    BY <1>6, <2>1, SaveProfileEdits DEF SaveFailed
<1>7. CASE RecordFailure(r)
  <2> DEFINE doc == [m.doc EXCEPT !.syncError = TRUE]
  <2>1. doc \in ProfileDoc /\ doc.edits <= EditLimit
    BY <1>0, SyncedType DEF ProfileDoc
  <2>2. QED
    BY <1>7, <2>1, SaveProfileEdits DEF RecordFailure
<1>8. QED
  BY <1>1, <1>2, <1>3, <1>4, <1>5, <1>6, <1>7

LEMMA EditsInvHolds == Spec => []EditsInv
<1>1. Init => EditsInv
  <2>1. NoMem.doc.edits <= EditLimit
    BY ConstantsAssumption DEF NoMem, FreshProfile
  <2>2. ExtractionFailed(FreshProfile).edits <= EditLimit
    BY ConstantsAssumption DEF ExtractionFailed, FreshProfile
  <2>3. QED
    BY <2>1, <2>2 DEF Init, NewAccount, LegacyFailure, EditsInv,
                      EditsWithinLimit, LocalEditsWithinLimit
<1>2. TypeOK /\ EditsInv /\ [Next]_vars => EditsInv'
  <2> SUFFICES ASSUME TypeOK, EditsInv, [Next]_vars PROVE EditsInv'
    OBVIOUS
  <2>1. ASSUME NEW r \in Requests, Request(r) PROVE EditsInv'
    BY <2>1, RequestEdits
  <2>2. ASSUME NEW r \in Requests, Step(r) PROVE EditsInv'
    BY <2>2, QuietStepsEdits, ProfileStepsEdits DEF Step
  <2>3. CASE Crash
    <3>1. NoMem.doc.edits <= EditLimit
      BY ConstantsAssumption DEF NoMem, FreshProfile
    <3>2. QED
      BY <2>3, <3>1 DEF Crash, EditsInv, EditsWithinLimit, LocalEditsWithinLimit, stores
  <2>4. CASE UNCHANGED vars
    BY <2>4 DEF vars, stores, EditsInv, EditsWithinLimit, LocalEditsWithinLimit
  <2>5. QED
    BY <2>1, <2>2, <2>3, <2>4 DEF Next
<1>3. QED
  BY <1>1, <1>2, TypeCorrect, PTL DEF Spec

\* However many edits, confirmations and uploads overlap, fail or are cut
\* short, no stored edit count exceeds PROFILE_EDIT_LIMIT.
THEOREM EditCountBounded == Spec => []EditsWithinLimit
<1>1. EditsInv => EditsWithinLimit
  BY DEF EditsInv
<1>2. QED
  BY <1>1, EditsInvHolds, PTL

=============================================================================
