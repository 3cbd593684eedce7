------------------------- MODULE ResumesQuotaProofs -------------------------
(***************************************************************************)
(* What Resumes keeps in step while requests overlap, and which overlaps   *)
(* each property cannot do with: the upload quota, the skills of a resume, *)
(* the vector of a profile, and the lifecycle as ResumeLifecycle puts it.  *)
(***************************************************************************)
EXTENDS ResumesOverlapProofs, FiniteSetTheorems

----------------------------------------------------------------------------
(* Types and locals, for a step of any kind *)

LEMMA LocalsKeep ==
    ASSUME TypeOK, LocalsInv, NEW r \in Requests, Request(r) \/ Step(r)
    PROVE  LocalsInv'
BY RequestLocals, SyncStepsLocals, RemovalStepsLocals, CreationStepsLocals,
   SavingStepsLocals, OtherStepsLocals DEF Step

LEMMA TypeKeeps ==
    ASSUME TypeOK, NEW r \in Requests, Request(r) \/ Step(r)
    PROVE  TypeOK'
BY RequestType, SyncStepsType, RemovalStepsType, CreationStepsType, SavingStepsType,
   OtherStepsType DEF Step

----------------------------------------------------------------------------
(* How an upload goes on *)

\* The steps of an upload that canUpload has let through.
Admitted == Removing \cup Creating \cup Extracting \cup {"save_file", "save_skills", "charge"}

\* The next step of a request that stays an upload, and the count it works with.
UploadMove(r) ==
    \/ BeginUpload(r) /\ pc'[r] = "sync_resume" /\ mem'[r].count = uploadCount
    \/ /\ mem[r].op = "upload" /\ mem'[r].count = mem[r].count
       /\ \/ SyncResume(r) /\ pc'[r] = "sync_profile"
          \/ SyncProfile(r) /\ pc'[r] = "sync_reset"
          \/ /\ SyncProfile(r) /\ pc'[r] = "find_existing"
             /\ \E i \in FindByUser(profiles) :
                   ~ShouldReset(mem[r].count, mem[r].id, StatusOf(i))
          \/ /\ FindExisting(r) /\ pc'[r] = "find_existing_profile"
             /\ mem'[r].id \in Existing(resumes)
          \/ /\ FindExisting(r) /\ pc'[r] = "save_file"
             /\ CanUpload(mem[r].count, FALSE) /\ Existing(resumes) = {}
          \/ /\ FindExistingProfile(r) /\ pc'[r] = "delete_file"
             /\ CanUpload(mem[r].count, StatusOf(mem[r].id) = "failed")
          \/ /\ pc[r] \in Admitted /\ pc'[r] \in Admitted
             /\ pc'[r] = "save_file" => DeleteResume(r)
    \/ /\ mem[r].op = "upload" /\ mem'[r].count = 0
       /\ SyncReset(r) /\ pc'[r] = "find_existing"

\* A request that ends is no upload any more.
LEMMA EndedUpload ==
    ASSUME TypeOK, NEW r \in Requests, NEW label, NEW m,
           Finish(r) \/ (Goto(r, label, m) /\ label = "idle"), mem'[r].op = "upload"
    PROVE  FALSE
<1>1. mem'[r] = NoMem
  BY GotoEffect, FinishEffect
<1>2. QED
  BY <1>1 DEF NoMem

\* An admitted upload that keeps its op and its count is still one.
LEMMA AdmittedMove ==
    ASSUME TypeOK, NEW r \in Requests, pc[r] \in Admitted,
           NEW label, NEW m, Goto(r, label, m) \/ Finish(r),
           m.op = mem[r].op, m.count = mem[r].count, mem'[r].op = "upload",
           label \in Admitted \cup {"idle"}, label # "save_file"
    PROVE  UploadMove(r)
<1>1. Goto(r, label, m) /\ label # "idle"
  BY EndedUpload
<1>2. pc'[r] = label /\ mem'[r] = m
  BY <1>1, GotoEffect
<1>3. QED
  BY <1>1, <1>2 DEF UploadMove

LEMMA SyncMoves ==
    ASSUME TypeOK, LocalsInv, NEW r \in Requests, mem'[r].op = "upload",
           \/ SyncResume(r) \/ SyncProfile(r) \/ SyncReset(r)
           \/ FindExisting(r) \/ FindExistingProfile(r)
    PROVE  UploadMove(r)
<1>0. mem[r] \in Mem
  BY MemType
<1>1. CASE SyncResume(r)
  <2> DEFINE m(i) == [mem[r] EXCEPT !.id = i]
  <2>1. PICK i \in FindByUser(resumes) : Goto(r, "sync_profile", m(i))
    BY <1>1 DEF SyncResume
  <2>2. m(i).op = mem[r].op /\ m(i).count = mem[r].count
    BY <1>0 DEF Mem
  <2> HIDE DEF m
  <2>3. pc'[r] = "sync_profile" /\ mem'[r] = m(i)
    BY <2>1, GotoEffect
  <2>4. QED
    BY <1>1, <2>2, <2>3 DEF UploadMove
<1>2. CASE SyncProfile(r)
  <2> DEFINE label(i) == IF ShouldReset(mem[r].count, mem[r].id, StatusOf(i))
                         THEN "sync_reset" ELSE AfterSync(mem[r].op)
  <2>1. PICK i \in FindByUser(profiles) : Goto(r, label(i), mem[r])
    BY <1>2 DEF SyncProfile
  <2>2. label(i) # "idle"
    BY <2>1, EndedUpload
  <2>3. pc'[r] = label(i) /\ mem'[r] = mem[r]
    BY <2>1, <2>2, GotoEffect
  <2>4. AfterSync(mem[r].op) = "find_existing"
    BY <2>3 DEF AfterSync
  <2>5. QED
    BY <1>2, <2>3, <2>4 DEF UploadMove
<1>3. CASE SyncReset(r)
  <2> DEFINE m == [mem[r] EXCEPT !.count = 0]
  <2>1. m.op = mem[r].op /\ m.count = 0
    BY <1>0 DEF Mem
  <2>2. Goto(r, AfterSync(mem[r].op), m)
    BY <1>3 DEF SyncReset
  <2> HIDE DEF m
  <2>3. AfterSync(mem[r].op) # "idle"
    BY <2>2, EndedUpload
  <2>4. pc'[r] = "find_existing" /\ mem'[r] = m
    BY <2>2, <2>3, GotoEffect DEF AfterSync
  <2>5. QED
    BY <1>3, <2>1, <2>4 DEF UploadMove
<1>4. CASE FindExisting(r)
  <2> DEFINE m(i) == [mem[r] EXCEPT !.id = i]
             label(i) == IF i # NoId THEN "find_existing_profile"
                         ELSE IF CanUpload(mem[r].count, FALSE) THEN "save_file" ELSE "idle"
  <2>1. PICK i \in FindByUser(resumes) : Goto(r, label(i), m(i))
    BY <1>4 DEF FindExisting
  <2>2. m(i).op = mem[r].op /\ m(i).count = mem[r].count /\ m(i).id = i
    BY <1>0 DEF Mem
  <2>3. label(i) # "idle"
    <3> HIDE DEF label, m
    <3>1. QED
      BY <2>1, EndedUpload
  <2>4. pc'[r] = label(i) /\ mem'[r] = m(i)
    <3> HIDE DEF label, m
    <3>1. QED
      BY <2>1, <2>3, GotoEffect
  <2>5. IF i # NoId THEN i \in Existing(resumes) ELSE Existing(resumes) = {}
    BY DEF FindByUser, Existing, Ids, NoId
  <2>6. CASE i # NoId
    <3>1. pc'[r] = "find_existing_profile" /\ mem'[r].id \in Existing(resumes)
      BY <2>2, <2>4, <2>5, <2>6
    <3> HIDE DEF label, m
    <3>2. QED
      BY <1>4, <2>2, <2>4, <3>1 DEF UploadMove
  <2>7. CASE i = NoId
    <3>1. pc'[r] = "save_file" /\ Existing(resumes) = {} /\ CanUpload(mem[r].count, FALSE)
      BY <2>3, <2>4, <2>5, <2>7
    <3> HIDE DEF label, m
    <3>2. QED
      BY <1>4, <2>2, <2>4, <3>1 DEF UploadMove
  <2>8. QED
    BY <2>6, <2>7
<1>5. CASE FindExistingProfile(r)
  <2>1. Goto(r, "delete_file", mem[r]) /\ CanUpload(mem[r].count, StatusOf(mem[r].id) = "failed")
    BY <1>5, EndedUpload DEF FindExistingProfile
  <2>2. pc'[r] = "delete_file" /\ mem'[r] = mem[r]
    BY <2>1, GotoEffect
  <2>3. QED
    BY <1>5, <2>1, <2>2 DEF UploadMove
<1>6. QED
  BY <1>1, <1>2, <1>3, <1>4, <1>5

LEMMA AdmittedMoves ==
    ASSUME TypeOK, LocalsInv, NEW r \in Requests, mem'[r].op = "upload",
           \/ DeleteFile(r) \/ DeleteVector(r) \/ DeleteProfile(r) \/ DeleteResume(r)
           \/ SaveFile(r) \/ CreateResume(r) \/ UpsertProfile(r) \/ Extract(r)
           \/ SaveExtracted(r) \/ SaveFailed(r) \/ SaveSkills(r) \/ Charge(r) \/ MongoError(r)
    PROVE  UploadMove(r)
<1> USE DEF Admitted, Removing, Creating, Extracting
<1>0. /\ mem[r] \in Mem /\ mem[r].doc \in ProfileDoc /\ mem[r].dirty \in SUBSET SavedFields
      /\ OpInv(pc[r], mem[r])
  BY MemType DEF LocalsInv, LocalInv
<1>1. ~Finish(r)
  BY EndedUpload
<1>2. CASE DeleteFile(r) \/ DeleteVector(r) \/ DeleteProfile(r)
  <2>1. \E label \in {"delete_vector", "delete_profile", "delete_resume"} : Goto(r, label, mem[r])
    BY <1>1, <1>2 DEF DeleteFile, DeleteVector, DeleteProfile
  <2>2. pc[r] \in Removing
    BY <1>2 DEF DeleteFile, DeleteVector, DeleteProfile, At
  <2>3. QED
    BY <2>1, <2>2, AdmittedMove
<1>3. CASE DeleteResume(r)
  <2>1. Goto(r, IF mem[r].op = "upload" THEN "save_file" ELSE "idle", mem[r]) /\ At(r, "delete_resume")
    BY <1>3 DEF DeleteResume
  <2>2. mem[r].op = "upload"
    BY <2>1, EndedUpload
  <2>3. pc'[r] = "save_file" /\ mem'[r] = mem[r]
    BY <2>1, <2>2, GotoEffect
  <2>4. QED
    BY <1>3, <2>1, <2>2, <2>3 DEF UploadMove, At
<1>4. CASE SaveFile(r)
  <2> DEFINE m == [mem[r] EXCEPT !.id = lastId', !.pid = lastId']
  <2>1. m.op = mem[r].op /\ m.count = mem[r].count
    BY <1>0 DEF Mem
  <2>2. Goto(r, "create_resume", m) /\ pc[r] = "save_file"
    BY <1>1, <1>4 DEF SaveFile, At
  <2> HIDE DEF m
  <2>3. QED
    BY <2>1, <2>2, AdmittedMove
<1>5. CASE CreateResume(r)
  <2> DEFINE m == [mem[r] EXCEPT !.res = FreshResume]
  <2>1. m.op = mem[r].op /\ m.count = mem[r].count
    BY <1>0 DEF Mem
  <2>2. Goto(r, "upsert_profile", m) /\ pc[r] = "create_resume"
    BY <1>1, <1>5 DEF CreateResume, At
  <2> HIDE DEF m
  <2>3. QED
    BY <2>1, <2>2, AdmittedMove
<1>6. CASE UpsertProfile(r)
  <2> DEFINE m == [mem[r] EXCEPT !.doc = FreshProfile]
  <2>1. m.op = mem[r].op /\ m.count = mem[r].count
    BY <1>0 DEF Mem
  <2>2. Goto(r, "extract", m) /\ pc[r] = "upsert_profile"
    BY <1>1, <1>6 DEF UpsertProfile, At
  <2> HIDE DEF m
  <2>3. QED
    BY <2>1, <2>2, AdmittedMove
<1>7. CASE Extract(r)
  <2> DEFINE m(c) == [mem[r] EXCEPT !.doc = Extracted(mem[r].doc, c),
                          !.dirty = Changes(mem[r].doc, Extracted(mem[r].doc, c))]
  <2>1. pc[r] = "extract" /\ (Goto(r, "save_failed", mem[r])
                             \/ \E c \in Content : Goto(r, "save_extracted", m(c)))
    BY <1>7 DEF Extract, At
  <2>2. \A c : m(c).op = mem[r].op /\ m(c).count = mem[r].count
    BY <1>0 DEF Mem
  <2> HIDE DEF m
  <2>3. QED
    BY <2>1, <2>2, AdmittedMove
<1>8. CASE SaveExtracted(r)
  <2>1. pc[r] = "save_extracted"
        /\ SaveProfile(r, mem[r].doc, mem[r].dirty, "save_skills", "save_failed")
    BY <1>8 DEF SaveExtracted, At
  <2>2. ASSUME NEW doc \in ProfileDoc, NEW dirty \in SUBSET SavedFields,
               SaveProfile(r, doc, dirty, "save_skills", "save_failed")
        PROVE  \E label \in {"save_skills", "save_failed"} : \E n :
                   Goto(r, label, n) /\ SameButDoc(mem[r], n)
    <3>1. PICK n \in Mem :
             /\ SameButDoc(mem[r], n)
             /\ Goto(r, "save_skills", n) \/ Goto(r, "save_failed", n)
      BY <2>2, SaveEffect
    <3>2. QED
      BY <3>1
  <2>3. PICK label \in {"save_skills", "save_failed"} : \E n :
            Goto(r, label, n) /\ SameButDoc(mem[r], n)
    BY <1>0, <2>1, <2>2
  <2>4. PICK n : Goto(r, label, n) /\ SameButDoc(mem[r], n)
    BY <2>3
  <2>5. QED
    BY <2>1, <2>4, AdmittedMove DEF SameButDoc
<1>9. CASE SaveFailed(r)
  <2>1. \E n : Goto(r, "idle", n)
    BY <1>9 DEF SaveFailed, SaveProfile
  <2>2. QED
    BY <2>1, EndedUpload
<1>10. CASE SaveSkills(r)
  <2>1. Goto(r, AfterSkills(mem[r]), mem[r]) /\ pc[r] = "save_skills"
    BY <1>1, <1>10 DEF SaveSkills, At
  <2>2. AfterSkills(mem[r]) # "idle"
    BY <2>1, EndedUpload
  <2>3. mem[r].op = "upload"
    BY <2>1, <2>2, GotoEffect
  <2>4. AfterSkills(mem[r]) = "charge"
    BY <2>3 DEF AfterSkills
  <2>5. QED
    BY <2>1, <2>4, AdmittedMove
<1>11. QED
  BY <1>1, <1>2, <1>3, <1>4, <1>5, <1>6, <1>7, <1>8, <1>9, <1>10 DEF Charge, MongoError

LEMMA UploadMoves ==
    ASSUME TypeOK, LocalsInv, NEW r \in Requests, Request(r) \/ Step(r), mem'[r].op = "upload"
    PROVE  UploadMove(r)
<1>0. /\ mem[r] \in Mem /\ mem[r].doc \in ProfileDoc /\ mem[r].dirty \in SUBSET SavedFields
      /\ OpInv(pc[r], mem[r])
  BY MemType DEF LocalsInv, LocalInv
<1>1. CASE BeginUpload(r)
  <2> DEFINE m == [NoMem EXCEPT !.op = "upload", !.count = uploadCount]
  <2>1. m.count = uploadCount
    BY DEF NoMem
  <2>2. Goto(r, "sync_resume", m)
    BY <1>1 DEF BeginUpload
  <2> HIDE DEF m
  <2>3. pc'[r] = "sync_resume" /\ mem'[r] = m
    BY <2>2, GotoEffect
  <2>4. QED
    BY <1>1, <2>1, <2>3 DEF UploadMove
<1>2. CASE BeginQuota(r) \/ BeginDelete(r) \/ BeginEdit(r) \/ BeginConfirm(r)
  <2>1. \E label \in Labels : \E m :
            Goto(r, label, m) /\ label # "idle" /\ m.op # "upload"
    <3>1. CASE BeginQuota(r)
      <4> DEFINE m == [NoMem EXCEPT !.op = "quota", !.count = uploadCount]
      <4>1. Goto(r, "sync_resume", m) /\ m.op = "quota"
        BY <3>1 DEF BeginQuota, NoMem
      <4> HIDE DEF m
      <4>2. QED
        BY <4>1 DEF Labels
    <3>2. CASE BeginDelete(r)
      <4> DEFINE m(i) == [NoMem EXCEPT !.op = "delete", !.id = i]
      <4>1. PICK i : Goto(r, "delete_file", m(i))
        BY <3>2 DEF BeginDelete
      <4>2. m(i).op = "delete"
        BY DEF NoMem
      <4> HIDE DEF m
      <4>3. QED
        BY <4>1, <4>2 DEF Labels
    <3>3. CASE BeginEdit(r)
      <4> DEFINE m(i) == [NoMem EXCEPT !.op = "edit", !.id = i, !.pid = i, !.res = resumes[i]]
      <4>1. PICK i : Goto(r, "edit_profile", m(i))
        BY <3>3 DEF BeginEdit
      <4>2. m(i).op = "edit"
        BY DEF NoMem
      <4> HIDE DEF m
      <4>3. QED
        BY <4>1, <4>2 DEF Labels
    <3>4. CASE BeginConfirm(r)
      <4> DEFINE m(i, c) == [NoMem EXCEPT !.op = "confirm", !.pid = i,
                                  !.doc = Confirmed(profiles[i], c),
                                  !.dirty = Changes(profiles[i], Confirmed(profiles[i], c))]
      <4>1. \E i, c : Goto(r, "confirm_save", m(i, c))
        BY <3>4 DEF BeginConfirm
      <4>2. \A i, c : m(i, c).op = "confirm"
        BY DEF NoMem
      <4> HIDE DEF m
      <4>3. QED
        BY <4>1, <4>2 DEF Labels
    <3>5. QED
      BY <1>2, <3>1, <3>2, <3>3, <3>4
  <2>2. QED
    BY <2>1, GotoEffect
<1>3. CASE EditSave(r) \/ ConfirmSave(r) \/ SaveSynced(r) \/ RecordFailure(r)
  <2>1. PICK doc \in ProfileDoc, dirty \in SUBSET SavedFields, ok \in Labels, failed \in Labels :
            SaveProfile(r, doc, dirty, ok, failed)
    BY <1>0, <1>3, RecordFailureDoc
       DEF EditSave, ConfirmSave, SaveSynced, RecordFailure, Labels
  <2>2. \E label, n : Goto(r, label, n) /\ SameButDoc(mem[r], n)
    BY <2>1, SaveEffect
  <2>3. mem'[r] = NoMem \/ mem'[r].op = mem[r].op
    BY <2>2, GotoEffect DEF SameButDoc
  <2>4. mem[r].op # "upload"
    BY <1>0, <1>3 DEF EditSave, ConfirmSave, SaveSynced, RecordFailure, At, OpInv
  <2>5. QED
    BY <2>3, <2>4 DEF NoMem
<1>4. CASE EditProfile(r) \/ ConfirmResume(r) \/ UpsertPoint(r)
  <2>1. mem[r].op # "upload"
    BY <1>0, <1>4 DEF EditProfile, ConfirmResume, UpsertPoint, At, OpInv
  <2>2. \E label, m : (Goto(r, label, m) /\ m.op = mem[r].op) \/ Finish(r)
    <3>1. CASE EditProfile(r)
      <4> DEFINE m(c) == [mem[r] EXCEPT !.doc = Edited(profiles[mem[r].id], c),
                            !.dirty = Changes(profiles[mem[r].id], Edited(profiles[mem[r].id], c))]
      <4>1. Finish(r) \/ \E c : Goto(r, "edit_save", m(c))
        BY <3>1 DEF EditProfile
      <4>2. \A c : m(c).op = mem[r].op
        BY <1>0 DEF Mem
      <4> HIDE DEF m
      <4>3. QED
        BY <4>1, <4>2
    <3>2. CASE ConfirmResume(r)
      <4> DEFINE m(i) == [mem[r] EXCEPT !.id = i, !.res = resumes[i]]
      <4>1. \/ Goto(r, SyncStart(mem[r].doc), mem[r])
            \/ \E i : Goto(r, "save_skills", m(i))
        BY <3>2 DEF ConfirmResume
      <4>2. \A i : m(i).op = mem[r].op
        BY <1>0 DEF Mem
      <4> HIDE DEF m
      <4>3. QED
        BY <4>1, <4>2
    <3>3. CASE UpsertPoint(r)
      <4> DEFINE m == [mem[r] EXCEPT !.doc = Synced(mem[r].doc),
                          !.dirty = mem[r].dirty \cup Changes(mem[r].doc, Synced(mem[r].doc))]
      <4>1. Goto(r, "save_synced", m) \/ Goto(r, "record_failure", mem[r])
        BY <3>3 DEF UpsertPoint
      <4>2. m.op = mem[r].op
        BY <1>0 DEF Mem
      <4> HIDE DEF m
      <4>3. QED
        BY <4>1, <4>2
    <3>4. QED
      BY <1>4, <3>1, <3>2, <3>3
  <2>3. mem'[r] = NoMem \/ mem'[r].op = mem[r].op
    BY <2>2, GotoEffect, FinishEffect
  <2>4. QED
    BY <2>1, <2>3 DEF NoMem
<1>5. QED
  BY <1>1, <1>2, <1>3, <1>4, SyncMoves, AdmittedMoves DEF Request, Step

----------------------------------------------------------------------------
(* How a step changes the count *)

CountChange(r) ==
    \/ SyncReset(r) /\ At(r, "sync_reset") /\ uploadCount' = 0
    \/ /\ Charge(r) /\ At(r, "charge") /\ uploadCount' = uploadCount + 1
       /\ pc'[r] = "idle" /\ mem'[r] = NoMem /\ UNCHANGED <<lastId, stores, calm>>

LEMMA QuotaStep ==
    ASSUME TypeOK, LocalsInv, NEW r \in Requests, Request(r) \/ Step(r)
    PROVE  UNCHANGED uploadCount \/ CountChange(r)
<1>0. mem[r] \in Mem /\ mem[r].doc \in ProfileDoc /\ mem[r].dirty \in SUBSET SavedFields
  BY MemType
<1>1. CASE SyncReset(r)
  BY <1>1 DEF SyncReset, CountChange
<1>2. CASE Charge(r)
  BY <1>2, FinishEffect DEF Charge, CountChange
<1>3. CASE SaveExtracted(r) \/ SaveFailed(r) \/ EditSave(r) \/ ConfirmSave(r) \/ SaveSynced(r)
           \/ RecordFailure(r)
  BY <1>3 DEF SaveExtracted, SaveFailed, EditSave, ConfirmSave, SaveSynced, RecordFailure,
              SaveProfile
<1>4. CASE Request(r)
  BY <1>4 DEF Request, BeginUpload, BeginQuota, BeginDelete, BeginEdit, BeginConfirm
<1>5. CASE SyncResume(r) \/ SyncProfile(r) \/ FindExisting(r) \/ FindExistingProfile(r)
           \/ DeleteFile(r) \/ DeleteVector(r) \/ DeleteProfile(r) \/ DeleteResume(r)
  BY <1>5 DEF SyncResume, SyncProfile, FindExisting, FindExistingProfile, DeleteFile,
              DeleteVector, DeleteProfile, DeleteResume
<1>6. CASE SaveFile(r) \/ CreateResume(r) \/ UpsertProfile(r) \/ Extract(r) \/ SaveSkills(r)
  BY <1>6 DEF SaveFile, CreateResume, UpsertProfile, Extract, SaveSkills
<1>7. CASE EditProfile(r) \/ ConfirmResume(r) \/ UpsertPoint(r) \/ MongoError(r)
  BY <1>7 DEF EditProfile, ConfirmResume, UpsertPoint, MongoError
<1>8. QED
  BY <1>1, <1>2, <1>3, <1>4, <1>5, <1>6, <1>7 DEF Step

----------------------------------------------------------------------------
(* One resume and one profile *)

\* No two uploads at a time.
OneUpload ==
    \A q, r \in Requests : mem[q].op = "upload" /\ mem[r].op = "upload" => q = r

OneResumeInv ==
    /\ \A i, j \in Ids : resumes[i] # None /\ resumes[j] # None => i = j
    /\ \A r \in Requests, i \in Ids :
          mem[r].op = "upload" /\ pc[r] \in Found /\ resumes[i] # None => i = mem[r].id
    /\ \A r \in Requests, i \in Ids :
          pc[r] \in {"save_file", "create_resume"} => resumes[i] = None

OneProfile == \A i, j \in Ids : profiles[i] # None /\ profiles[j] # None => i = j

\* Without the unique indexes it takes more to have one profile at a time.
OneProfileInv ==
    /\ UniqueIndex => OneProfile
    /\ ~UniqueIndex => OneResumeInv /\ OwnerInv

\* What keeps a second profile from being made.
ProfilesApart == UniqueIndex \/ (OneUpload /\ RemovalsApart)

LEMMA OneProfileHolds ==
    ASSUME OneProfileInv
    PROVE  OneProfile
BY DEF OneProfileInv, OneResumeInv, OneProfile, OwnerInv, ProfileHasResume

\* Only an upload makes a resume, and it makes one when there is none.
LEMMA OneResumeKeeps ==
    ASSUME GroundInv, OneUpload, OneResumeInv, NEW r \in Requests, Request(r) \/ Step(r)
    PROVE  OneResumeInv'
<1>0. TypeOK /\ LocalsInv /\ IdsInv /\ OthersStay(r) /\ Arrival(r)
  BY StepArrival DEF GroundInv
<1>1. \A q \in Requests : OpInv(pc[q], mem[q])
  BY <1>0 DEF LocalsInv, LocalInv
<1>2. ASSUME NEW i \in Ids, resumes'[i] # None
      PROVE  \/ resumes[i] # None
             \/ CreateResume(r) /\ i = mem[r].id /\ At(r, "create_resume")
                /\ pc'[r] = "upsert_profile" /\ mem[r].op = "upload"
  <2>1. CASE ResumeChange(r, i)
    BY <1>1, <1>2, <2>1 DEF ResumeChange, Passes, At, OpInv, Owning
  <2>2. QED
    BY <1>0, <1>2, <2>1, ResumeStep
<1>3. ASSUME NEW i \in Ids, NEW j \in Ids, resumes'[i] # None, resumes'[j] # None
      PROVE  i = j
  <2>1. CASE resumes[i] # None /\ resumes[j] # None
    BY <2>1 DEF OneResumeInv
  <2>2. CASE At(r, "create_resume")
    BY <1>2, <1>3, <2>2 DEF OneResumeInv, At
  <2>3. QED
    BY <1>2, <1>3, <2>1, <2>2
<1>4. ASSUME NEW q \in Requests, NEW i \in Ids, mem'[q].op = "upload", pc'[q] \in Found,
             resumes'[i] # None
      PROVE  i = mem'[q].id
  <2>1. CASE q # r
    <3>1. pc'[q] = pc[q] /\ mem'[q] = mem[q]
      BY <1>0, <2>1 DEF OthersStay
    <3>2. resumes[i] # None
      BY <1>2, <1>4, <2>1, <3>1 DEF OneUpload
    <3>3. QED
      BY <1>4, <3>1, <3>2 DEF OneResumeInv
  <2>2. CASE q = r
    <3>0. resumes[i] # None
      BY <1>2, <1>4, <2>2 DEF Found, Removing
    <3>1. CASE pc'[r] = "find_existing_profile"
      <4>1. FindExisting(r) /\ mem'[r].id \in Existing(resumes)
        BY <1>0, <1>4, <2>2, <3>1, UploadMoves DEF UploadMove, Admitted, Removing, Creating,
                                                   Extracting
      <4>2. QED
        BY <2>2, <3>0, <4>1 DEF OneResumeInv, Existing
    <3>2. CASE pc'[r] \in Removing
      <4>1. pc[r] \in Found /\ mem'[r].id = mem[r].id /\ mem[r].op = "upload"
        BY <1>0, <1>4, <2>2, <3>2 DEF Arrival, Passes, Removing, Found, At
      <4>2. QED
        BY <2>2, <3>0, <4>1 DEF OneResumeInv
    <3>3. QED
      BY <1>4, <2>2, <3>1, <3>2 DEF Found
  <2>3. QED
    BY <2>1, <2>2
<1>5. ASSUME NEW q \in Requests, NEW i \in Ids, pc'[q] \in {"save_file", "create_resume"}
      PROVE  resumes'[i] = None
  <2>0. mem'[q].op = "upload"
    <3>1. LocalsInv'
      BY <1>0, LocalsKeep
    <3>2. QED
      BY <1>5, <3>1 DEF LocalsInv, LocalInv, OpInv, Owning
  <2>1. CASE q # r
    <3>1. pc'[q] = pc[q] /\ mem'[q] = mem[q]
      BY <1>0, <2>1 DEF OthersStay
    <3>2. QED
      BY <1>2, <1>5, <2>0, <2>1, <3>1 DEF OneUpload, OneResumeInv
  <2>2. CASE q = r /\ pc'[r] = "create_resume"
    <3>1. SaveFile(r)
      BY <1>0, <2>2 DEF Arrival
    <3>2. QED
      BY <3>1 DEF SaveFile, At, OneResumeInv
  <2>3. CASE q = r /\ pc'[r] = "save_file"
    <3>1. \/ FindExisting(r) /\ Existing(resumes) = {}
          \/ DeleteResume(r) /\ mem[r].op = "upload"
      BY <1>0, <2>0, <2>3, UploadMoves DEF UploadMove
    <3>2. CASE FindExisting(r) /\ Existing(resumes) = {}
      BY <3>2 DEF FindExisting, Existing, stores
    <3>3. CASE DeleteResume(r) /\ mem[r].op = "upload"
      <4>1. resumes[i] # None => i = mem[r].id
        BY <3>3 DEF DeleteResume, At, OneResumeInv, Found, Removing
      <4>2. resumes' = [resumes EXCEPT ![mem[r].id] = None] /\ resumes \in [Ids -> ResumeDoc \cup {None}]
        BY <1>0, <3>3 DEF DeleteResume, TypeOK
      <4>3. QED
        BY <4>1, <4>2
    <3>4. QED
      BY <3>1, <3>2, <3>3
  <2>4. QED
    BY <1>5, <2>1, <2>2, <2>3
<1>6. QED
  BY <1>3, <1>4, <1>5 DEF OneResumeInv

LEMMA OneProfileKeeps ==
    ASSUME GroundInv, UniqueIndex => OneProfile, NEW r \in Requests, Request(r) \/ Step(r)
    PROVE  UniqueIndex => OneProfile'
<1>0. TypeOK /\ LocalsInv
  BY DEF GroundInv
<1>1. SUFFICES ASSUME UniqueIndex, NEW i \in Ids, NEW j \in Ids,
                      profiles'[i] # None, profiles'[j] # None
               PROVE  i = j
  BY DEF OneProfile
<1>2. TypeOK'
  BY <1>0, TypeKeeps
<1>3. ASSUME NEW k \in Ids, profiles'[k] # None
      PROVE  profiles[k] # None \/ (UpsertProfile(r) /\ k = mem[r].id)
  <2>1. StatusOf(k)' # "none"
    BY <1>2, <1>3 DEF StatusOf, TypeOK, ProfileDoc, Status, Ids, NoId
  <2>2. StatusOf(k)' = StatusOf(k) \/ StatusChange(r, k)
    BY <1>0, StatusStep
  <2>3. CASE UpsertProfile(r) /\ k = mem[r].id /\ profiles[k] = None
    BY <2>3
  <2>4. QED
    BY <1>0, <2>1, <2>2, <2>3, NoStatus DEF StatusChange
<1>4. CASE profiles[i] # None /\ profiles[j] # None
  BY <1>1, <1>4 DEF OneProfile
<1>5. CASE UpsertProfile(r) /\ (profiles[i] = None \/ profiles[j] = None)
  <2>1. \A k \in Ids : profiles'[k] # None => k = mem[r].id
    BY <1>0, <1>1, <1>3, <1>5 DEF UpsertProfile, Duplicate, Existing
  <2>2. QED
    BY <1>1, <2>1
<1>6. QED
  BY <1>1, <1>3, <1>4, <1>5

----------------------------------------------------------------------------
(* The count stays within the limit *)

\* One more upload can be charged.
Below(count) == Unlimited \/ count < UploadLimit

\* The count an upload works with is not below the stored one, and an upload
\* that canUpload has let through can be charged.
QuotaInv ==
    /\ UploadCountWithinLimit
    /\ \A r \in Requests : mem[r].op = "upload" => uploadCount <= mem[r].count
    /\ \A r \in Requests, i \in Ids :
          /\ pc[r] \in {"find_existing", "find_existing_profile"}
          /\ StatusOf(i) = "failed"
          => Below(mem[r].count)
    /\ \A r \in Requests :
          mem[r].op = "upload" /\ pc[r] \in Admitted => Below(mem[r].count)
    /\ \A r \in Requests, i \in Ids :
          mem[r].op = "upload" /\ pc[r] \in {"save_skills", "charge"} =>
              StatusOf(i) # "processing"
    /\ \A i \in Ids : StatusOf(i) = "processing" => Below(uploadCount)

LEMMA CountTypes ==
    ASSUME TypeOK
    PROVE  /\ uploadCount \in Nat /\ UploadLimit \in Nat
           /\ \A r \in Requests : mem[r].count \in Nat
BY ConstantsAssumption, MemType DEF TypeOK, Mem

\* Only the upload that is charged raises the count.
LEMMA CountRises ==
    ASSUME GroundInv, OneUpload, QuotaInv, UploadLimit > 0,
           NEW r \in Requests, Request(r) \/ Step(r)
    PROVE  /\ UploadCountWithinLimit'
           /\ \A i \in Ids : StatusOf(i) = "processing" => Below(uploadCount)'
           /\ \A q \in Requests \ {r} : mem[q].op = "upload" => uploadCount' <= uploadCount
<1>0. TypeOK /\ LocalsInv /\ OpInv(pc[r], mem[r])
  BY DEF GroundInv, LocalsInv, LocalInv
<1>1. uploadCount \in Nat /\ UploadLimit \in Nat /\ mem[r].count \in Nat
  BY <1>0, CountTypes
<1>2. CASE UNCHANGED uploadCount
  BY <1>1, <1>2 DEF QuotaInv, UploadCountWithinLimit, Below
<1>3. CASE uploadCount' = 0
  BY <1>1, <1>3 DEF QuotaInv, UploadCountWithinLimit, Below
<1>4. CASE At(r, "charge") /\ uploadCount' = uploadCount + 1
  <2>1. mem[r].op = "upload"
    BY <1>0, <1>4 DEF OpInv, Owning, At
  <2>2. Below(mem[r].count) /\ uploadCount <= mem[r].count
    BY <1>4, <2>1 DEF QuotaInv, Admitted, At
  <2>3. UploadCountWithinLimit'
    BY <1>1, <1>4, <2>2 DEF Below, UploadCountWithinLimit
  <2>4. \A i \in Ids : StatusOf(i) # "processing"
    BY <1>4, <2>1 DEF QuotaInv, At
  <2>5. \A q \in Requests \ {r} : mem[q].op # "upload"
    BY <2>1 DEF OneUpload
  <2>6. QED
    BY <2>3, <2>4, <2>5
<1>5. QED
  BY <1>0, <1>2, <1>3, <1>4, QuotaStep DEF CountChange

LEMMA QuotaKeeps ==
    ASSUME GroundInv, OneUpload, OneProfile, OneProfile', QuotaInv, UploadLimit > 0,
           NEW r \in Requests, Request(r) \/ Step(r)
    PROVE  QuotaInv'
<1>0. TypeOK /\ LocalsInv /\ OthersStay(r) /\ Arrival(r) /\ TypeOK' /\ LocalsInv'
  BY StepArrival, TypeKeeps, LocalsKeep DEF GroundInv
<1>1. /\ \A q \in Requests : OpInv(pc[q], mem[q]) /\ OpInv(pc'[q], mem'[q])
      /\ uploadCount \in Nat /\ uploadCount' \in Nat /\ UploadLimit \in Nat
      /\ mem[r].count \in Nat
  BY <1>0, CountTypes DEF LocalsInv, LocalInv, TypeOK
<1>2. /\ UploadCountWithinLimit'
      /\ \A i \in Ids : StatusOf(i) = "processing" => Below(uploadCount)'
      /\ \A q \in Requests \ {r} : mem[q].op = "upload" => uploadCount' <= uploadCount
  BY CountRises
<1>3. ASSUME NEW q \in Requests, mem'[q].op = "upload"
      PROVE  uploadCount' <= mem'[q].count
  <2>1. CASE q # r
    BY <1>0, <1>1, <1>2, <1>3, <2>1, CountTypes DEF OthersStay, QuotaInv
  <2>2. CASE q = r
    <3>1. UploadMove(r)
      BY <1>0, <1>3, <2>2, UploadMoves
    <3>2. CASE BeginUpload(r) /\ mem'[r].count = uploadCount
      BY <1>1, <2>2, <3>2 DEF BeginUpload
    <3>3. CASE SyncReset(r) /\ mem'[r].count = 0
      BY <1>1, <2>2, <3>3 DEF SyncReset
    <3>4. CASE mem[r].op = "upload" /\ mem'[r].count = mem[r].count
      <4>1. ~CountChange(r) \/ uploadCount' = 0
        BY <1>3, <2>2 DEF CountChange, NoMem
      <4>2. QED
        BY <1>0, <1>1, <2>2, <3>4, <4>1, QuotaStep DEF QuotaInv
    <3>5. QED
      BY <3>1, <3>2, <3>3, <3>4 DEF UploadMove
  <2>3. QED
    BY <2>1, <2>2
<1>4. ASSUME NEW q \in Requests, NEW i \in Ids,
             pc'[q] \in {"find_existing", "find_existing_profile"}, StatusOf(i)' = "failed"
      PROVE  Below(mem'[q].count)
  <2>0. mem'[q].op = "upload"
    BY <1>1, <1>4 DEF OpInv
  <2>1. StatusOf(i) = "failed" \/ (SaveFailed(r) /\ pc'[r] = "idle" /\ mem[r].op = "upload")
    <3>1. StatusOf(i)' = StatusOf(i) \/ StatusChange(r, i)
      BY <1>0, StatusStep
    <3>2. QED
      BY <1>1, <1>4, <3>1 DEF StatusChange, SaveFailed, At, OpInv, Owning, Extracting
  <2>2. CASE q # r
    <3>1. pc'[q] = pc[q] /\ mem'[q] = mem[q]
      BY <1>0, <2>2 DEF OthersStay
    <3>2. StatusOf(i) = "failed"
      BY <2>0, <2>1, <2>2, <3>1 DEF OneUpload
    <3>3. QED
      BY <1>4, <3>1, <3>2 DEF QuotaInv
  <2>3. CASE q = r
    <3>0. StatusOf(i) = "failed" /\ UploadMove(r)
      BY <1>0, <1>4, <2>0, <2>1, <2>3, UploadMoves
    <3>1. CASE SyncReset(r) /\ mem'[r].count = 0
      BY <1>1, <2>3, <3>1 DEF Below
    <3>2. CASE /\ mem'[r].count = mem[r].count
               /\ \E j \in FindByUser(profiles) : ~ShouldReset(mem[r].count, mem[r].id, StatusOf(j))
      <4>1. PICK j \in FindByUser(profiles) : ~ShouldReset(mem[r].count, mem[r].id, StatusOf(j))
        BY <3>2
      <4>2. profiles[i] # None
        BY <1>0, <3>0, NoStatus
      <4>3. j = i
        BY <4>1, <4>2 DEF FindByUser, Existing, OneProfile
      <4>4. QED
        BY <1>1, <2>3, <3>0, <3>2, <4>1, <4>3 DEF ShouldReset, Below
    <3>3. CASE FindExisting(r) /\ mem'[r].count = mem[r].count
      BY <2>3, <3>0, <3>3 DEF FindExisting, At, QuotaInv
    <3>4. QED
      BY <1>4, <2>3, <3>0, <3>1, <3>2, <3>3
         DEF UploadMove, Admitted, Removing, Creating, Extracting
  <2>4. QED
    BY <2>2, <2>3
<1>5. ASSUME NEW q \in Requests, mem'[q].op = "upload", pc'[q] \in Admitted
      PROVE  Below(mem'[q].count)
  <2>1. CASE q # r
    BY <1>0, <1>5, <2>1 DEF OthersStay, QuotaInv
  <2>2. CASE q = r
    <3>0. UploadMove(r)
      BY <1>0, <1>5, <2>2, UploadMoves
    <3>1. CASE FindExisting(r) /\ CanUpload(mem[r].count, FALSE) /\ mem'[r].count = mem[r].count
      BY <2>2, <3>1 DEF CanUpload, Below
    <3>2. CASE /\ FindExistingProfile(r) /\ mem'[r].count = mem[r].count
               /\ CanUpload(mem[r].count, StatusOf(mem[r].id) = "failed")
      BY <1>1, <2>2, <3>2 DEF CanUpload, Below, QuotaInv, FindExistingProfile, At, OpInv
    <3>3. CASE mem[r].op = "upload" /\ pc[r] \in Admitted /\ mem'[r].count = mem[r].count
      BY <2>2, <3>3 DEF QuotaInv
    <3>4. QED
      BY <1>5, <2>2, <3>0, <3>1, <3>2, <3>3
         DEF UploadMove, Admitted, Removing, Creating, Extracting
  <2>3. QED
    BY <2>1, <2>2
<1>6. ASSUME NEW i \in Ids, StatusOf(i)' = "processing"
      PROVE  \/ StatusOf(i) = "processing"
             \/ UpsertProfile(r) /\ At(r, "upsert_profile") /\ mem[r].op = "upload"
  <2>1. StatusOf(i)' = StatusOf(i) \/ StatusChange(r, i)
    BY <1>0, StatusStep
  <2>2. QED
    BY <1>1, <1>6, <2>1 DEF StatusChange, UpsertProfile, At, OpInv, Owning
<1>7. ASSUME NEW q \in Requests, NEW i \in Ids, mem'[q].op = "upload",
             pc'[q] \in {"save_skills", "charge"}
      PROVE  StatusOf(i)' # "processing"
  <2>0. SUFFICES ASSUME StatusOf(i)' = "processing" PROVE FALSE
    OBVIOUS
  <2>1. StatusOf(i) = "processing" \/ (At(r, "upsert_profile") /\ mem[r].op = "upload")
    BY <1>6, <2>0
  <2>2. CASE q # r
    BY <1>0, <1>7, <2>1, <2>2 DEF OthersStay, OneUpload, QuotaInv
  <2>3. CASE q = r /\ pc'[r] = "charge"
    BY <1>0, <1>7, <2>1, <2>3 DEF Arrival, Passes, At, QuotaInv
  <2>4. CASE q = r /\ pc'[r] = "save_skills"
    <3>1. /\ At(r, "save_extracted") /\ Stored(r, mem[r].doc, mem[r].dirty)
      BY <1>0, <1>1, <1>7, <2>4 DEF Arrival, Passes, At, OpInv
    <3>2. /\ mem[r].pid \in Ids /\ mem[r].doc \in ProfileDoc
          /\ mem[r].doc.status = "ready_for_review" /\ "status" \in mem[r].dirty
      BY <1>0, <3>1, MemType DEF LocalsInv, LocalInv, OpInv, DocInv, Owning, Extracting, At
    <3>3. ASSUME NEW k \in Ids, k = mem[r].pid
          PROVE  profiles'[k] # None /\ StatusOf(k)' = "ready_for_review"
      <4>1. profiles[k] # None
        BY <3>1, <3>3 DEF Stored, CanSave
      <4>2. /\ profiles[k] # None <=> profiles'[k] # None
            /\ StatusOf(k)' = IF k = mem[r].pid /\ "status" \in mem[r].dirty
                              THEN mem[r].doc.status ELSE StatusOf(k)
        BY <1>0, <3>1, <3>2, <3>3, StoredStatus
      <4>3. QED
        BY <3>2, <3>3, <4>1, <4>2
    <3>4. profiles'[i] # None
      BY <2>0 DEF StatusOf
    <3>5. PICK k \in Ids : k = mem[r].pid
      BY <3>2
    <3>6. i = k
      BY <3>3, <3>4, <3>5 DEF OneProfile
    <3>7. QED
      BY <2>0, <3>3, <3>5, <3>6
  <2>5. QED
    BY <1>7, <2>2, <2>3, <2>4
<1>8. ASSUME NEW i \in Ids, StatusOf(i)' = "processing"
      PROVE  Below(uploadCount)'
  <2>1. CASE StatusOf(i) = "processing"
    BY <1>2, <2>1
  <2>2. CASE UpsertProfile(r) /\ mem[r].op = "upload"
    BY <1>1, <2>2 DEF UpsertProfile, At, QuotaInv, Admitted, Creating, Below
  <2>3. QED
    BY <1>8, <1>6, <2>1, <2>2
<1>9. QED
  BY <1>2, <1>3, <1>4, <1>5, <1>7, <1>8 DEF QuotaInv

LEMMA OneProfileInvHolds == Spec /\ []ProfilesApart => []OneProfileInv
<1>1. Init => OneProfileInv
  <2> SUFFICES ASSUME Init PROVE OneProfileInv
    OBVIOUS
  <2>1. \A r \in Requests : pc[r] = "idle"
    BY DEF Init
  <2>2. OneResumeInv
    BY <2>1, FreshTypes DEF Init, NewAccount, LegacyFailure, OneResumeInv, Found, Removing
  <2>3. OneProfile
    BY FreshTypes DEF Init, NewAccount, LegacyFailure, OneProfile
  <2>4. OwnerInv
    BY <2>1, FreshTypes DEF Init, NewAccount, LegacyFailure, OwnerInv, ProfileHasResume, At
  <2>5. QED
    BY <2>2, <2>3, <2>4 DEF OneProfileInv
<1>2. GroundInv /\ OneProfileInv /\ ProfilesApart /\ [Next]_vars => OneProfileInv'
  <2> SUFFICES ASSUME GroundInv, OneProfileInv, ProfilesApart, [Next]_vars
               PROVE  OneProfileInv'
    OBVIOUS
  <2>1. CASE Crash
    <3>1. ~UniqueIndex => OneResumeInv'
      BY <2>1 DEF Crash, stores, OneProfileInv, OneResumeInv, Found, Removing
    <3>2. UniqueIndex => OneProfile'
      BY <2>1 DEF Crash, stores, OneProfileInv, OneProfile
    <3>3. ~UniqueIndex => OwnerInv'
      BY <2>1 DEF Crash, stores, OneProfileInv, OwnerInv, ProfileHasResume, At
    <3>4. QED
      BY <3>1, <3>2, <3>3 DEF OneProfileInv
  <2>2. CASE UNCHANGED vars
    BY <2>2 DEF vars, stores, OneProfileInv, OneResumeInv, OneProfile, OwnerInv,
                ProfileHasResume, At
  <2>3. ASSUME NEW r \in Requests, Request(r) \/ Step(r) PROVE OneProfileInv'
    BY <2>3, OneResumeKeeps, OneProfileKeeps, OwnerKeeps DEF OneProfileInv, ProfilesApart
  <2>4. QED
    BY <2>1, <2>2, <2>3 DEF Next
<1>3. QED
  BY <1>1, <1>2, GroundInvHolds, PTL DEF Spec

LEMMA QuotaInvHolds ==
    ASSUME UploadLimit > 0
    PROVE  Spec /\ []OneUpload /\ []ProfilesApart => []QuotaInv
<1>1. Init => QuotaInv
  <2> SUFFICES ASSUME Init PROVE QuotaInv
    OBVIOUS
  <2>1. /\ \A r \in Requests : pc[r] = "idle" /\ mem[r] = NoMem
        /\ uploadCount \in Nat /\ uploadCount <= UploadLimit
    BY ConstantsAssumption DEF Init, NewAccount, LegacyFailure
  <2>2. \A i \in Ids : StatusOf(i) # "processing"
    BY FreshTypes DEF Init, NewAccount, LegacyFailure, StatusOf, ExtractionFailed, FreshProfile
  <2>3. \A r \in Requests : mem[r].op # "upload"
    BY <2>1 DEF NoMem
  <2>4. QED
    BY <2>1, <2>2, <2>3 DEF QuotaInv, UploadCountWithinLimit, Admitted, Removing, Creating,
                            Extracting
<1>2. /\ GroundInv /\ OneProfileInv /\ OneProfileInv' /\ OneUpload /\ QuotaInv /\ [Next]_vars
      => QuotaInv'
  <2> SUFFICES ASSUME GroundInv, OneProfileInv, OneProfileInv', OneUpload, QuotaInv, [Next]_vars
               PROVE  QuotaInv'
    OBVIOUS
  <2>1. CASE Crash
    <3>1. \A r \in Requests : pc'[r] = "idle" /\ mem'[r].op # "upload"
      BY <2>1 DEF Crash, NoMem
    <3>2. uploadCount' = uploadCount /\ \A i \in Ids : StatusOf(i)' = StatusOf(i)
      BY <2>1 DEF Crash, stores, StatusOf
    <3>3. QED
      BY <3>1, <3>2 DEF QuotaInv, UploadCountWithinLimit, Below, Admitted, Removing, Creating,
                        Extracting
  <2>2. CASE UNCHANGED vars
    <3>1. \A i \in Ids : StatusOf(i)' = StatusOf(i)
      BY <2>2 DEF vars, stores, StatusOf
    <3>2. QED
      BY <2>2, <3>1 DEF vars, QuotaInv, UploadCountWithinLimit, Below
  <2>3. ASSUME NEW r \in Requests, Request(r) \/ Step(r) PROVE QuotaInv'
    <3>1. OneProfile /\ OneProfile'
      BY OneProfileHolds, PTL
    <3>2. QED
      BY <2>3, <3>1, QuotaKeeps
  <2>4. QED
    BY <2>1, <2>2, <2>3 DEF Next
<1>3. QED
  BY <1>1, <1>2, GroundInvHolds, OneProfileInvHolds, PTL DEF Spec

\* Theorem: with a limit of at least one, whatever fails and wherever the
\* process dies, the count of uploads never exceeds the plan's limit, as long as
\* the user's uploads follow one another and no second profile is made: the
\* unique indexes exist, or nobody deletes a resume while its profile is about
\* to be created.  All other requests may overlap.
THEOREM CountWithinLimit ==
    ASSUME UploadLimit > 0
    PROVE  Spec /\ []OneUpload /\ []ProfilesApart => []UploadCountWithinLimit
<1>1. QuotaInv => UploadCountWithinLimit
  BY DEF QuotaInv
<1>2. QED
  BY <1>1, QuotaInvHolds, PTL

\* Theorem: under the same conditions a user whose extraction came to nothing,
\* or was cut short by a restart, can upload again without deleting the resume.
THEOREM FailedUploadIsReplaceable ==
    ASSUME UploadLimit > 0
    PROVE  Spec /\ []OneUpload /\ []ProfilesApart => []FailedUploadCanBeReplaced
<1>1. QuotaInv => FailedUploadCanBeReplaced
  BY DEF QuotaInv, FailedUploadCanBeReplaced, CanUpload, Below
<1>2. QED
  BY <1>1, QuotaInvHolds, PTL

----------------------------------------------------------------------------
(* The quota is given back only when there is no successful upload *)

\* No sync is under way while an upload makes its resume and its profile.
SyncsApart ==
    \A q, r \in Requests :
        ~(pc[q] \in {"sync_profile", "sync_reset"} /\ Owning(pc[r], mem[r]))

\* What the sync has found is still so.
SyncInv ==
    /\ \A r \in Requests, i \in Ids :
          At(r, "sync_profile") /\ mem[r].id = NoId => resumes[i] = None
    /\ \A r \in Requests, i \in Ids :
          At(r, "sync_reset") => StatusOf(i) \in {"failed", "none"}

\* How a request gets to the two last steps of the sync.
SyncArrival(r) ==
    /\ pc'[r] = "sync_profile" => SyncResume(r) /\ mem'[r].id \in FindByUser(resumes)
    /\ pc'[r] = "sync_reset" =>
          /\ SyncProfile(r) /\ At(r, "sync_profile")
          /\ \E i \in FindByUser(profiles) :
                ShouldReset(mem[r].count, mem[r].id, StatusOf(i))

LEMMA SyncArrives ==
    ASSUME TypeOK, LocalsInv, NEW r \in Requests, Request(r) \/ Step(r)
    PROVE  SyncArrival(r)
<1>0. mem[r] \in Mem /\ mem[r].doc \in ProfileDoc /\ mem[r].dirty \in SUBSET SavedFields
      /\ OpInv(pc[r], mem[r])
  BY MemType DEF LocalsInv, LocalInv
<1>1. CASE SyncResume(r)
  <2> DEFINE m(i) == [mem[r] EXCEPT !.id = i]
  <2>1. PICK i \in FindByUser(resumes) : Goto(r, "sync_profile", m(i))
    BY <1>1 DEF SyncResume
  <2>2. m(i).id = i
    BY <1>0 DEF Mem
  <2> HIDE DEF m
  <2>3. pc'[r] = "sync_profile" /\ mem'[r] = m(i)
    BY <2>1, GotoEffect
  <2>4. QED
    BY <1>1, <2>1, <2>2, <2>3 DEF SyncArrival
<1>2. CASE SyncProfile(r)
  <2> DEFINE label(i) == IF ShouldReset(mem[r].count, mem[r].id, StatusOf(i))
                         THEN "sync_reset" ELSE AfterSync(mem[r].op)
  <2>1. PICK i \in FindByUser(profiles) : Goto(r, label(i), mem[r])
    BY <1>2 DEF SyncProfile
  <2>2. pc'[r] = label(i)
    BY <2>1, GotoEffect
  <2>3. QED
    BY <1>2, <2>1, <2>2 DEF SyncArrival, AfterSync, SyncProfile
<1>3. pc \in [Requests -> Labels]
  BY DEF TypeOK
<1>4. CASE SyncReset(r) \/ FindExisting(r) \/ FindExistingProfile(r)
  BY <1>3, <1>4 DEF SyncArrival, Goto, Finish, SyncReset, AfterSync, FindExisting,
                    FindExistingProfile
<1>5. CASE Request(r)
  BY <1>3, <1>5 DEF SyncArrival, Goto, Finish, Request, BeginUpload, BeginQuota, BeginDelete,
                    BeginEdit, BeginConfirm
<1>6. CASE DeleteFile(r) \/ DeleteVector(r) \/ DeleteProfile(r) \/ DeleteResume(r)
  BY <1>3, <1>6 DEF SyncArrival, Goto, Finish, DeleteFile, DeleteVector, DeleteProfile, DeleteResume
<1>7. CASE SaveFile(r) \/ CreateResume(r) \/ UpsertProfile(r) \/ Extract(r) \/ Charge(r)
           \/ MongoError(r)
  BY <1>3, <1>7 DEF SyncArrival, Goto, Finish, SaveFile, CreateResume, UpsertProfile, Extract,
                    Charge, MongoError
<1>8. CASE SaveExtracted(r) \/ SaveFailed(r) \/ EditSave(r) \/ ConfirmSave(r) \/ SaveSynced(r)
           \/ RecordFailure(r)
  BY <1>3, <1>8 DEF SyncArrival, Goto, Finish, SaveExtracted, SaveFailed, EditSave, ConfirmSave,
                    SaveSynced, RecordFailure,
                    SaveProfile
<1>9. CASE SaveSkills(r) \/ EditProfile(r) \/ ConfirmResume(r) \/ UpsertPoint(r)
  BY <1>3, <1>9 DEF SyncArrival, Goto, Finish, SaveSkills, AfterSkills, SyncStart, EditProfile,
                    ConfirmResume, UpsertPoint
<1>10. QED
  BY <1>1, <1>2, <1>4, <1>5, <1>6, <1>7, <1>8, <1>9 DEF Step

LEMMA SyncKeeps ==
    ASSUME GroundInv, StageInv, OwnerInv, OneProfile, SyncInv, SyncsApart,
           NEW r \in Requests, Request(r) \/ Step(r)
    PROVE  SyncInv'
<1>0. TypeOK /\ LocalsInv /\ OthersStay(r) /\ SyncArrival(r)
  BY StepArrival, SyncArrives DEF GroundInv
<1>1. \A i \in Ids : StageStep(r, i)
  BY StageSteps
<1>2. ASSUME NEW q \in Requests, NEW i \in Ids, At(q, "sync_profile")', mem'[q].id = NoId
      PROVE  resumes'[i] = None
  <2>1. CASE q # r
    <3>1. At(q, "sync_profile") /\ mem[q].id = NoId
      BY <1>0, <1>2, <2>1 DEF OthersStay, At
    <3>2. ~Owning(pc[r], mem[r])
      BY <3>1 DEF SyncsApart, At
    <3>3. ~At(r, "create_resume")
      BY <3>2 DEF Owning, At
    <3>4. resumes[i] = None
      BY <3>1 DEF SyncInv
    <3>5. QED
      BY <1>0, <3>3, <3>4, ResumeStep DEF ResumeChange, Passes
  <2>2. CASE q = r
    <3>1. SyncResume(r) /\ NoId \in FindByUser(resumes)
      BY <1>0, <1>2, <2>2 DEF SyncArrival, At
    <3>2. resumes[i] = None
      BY <3>1 DEF FindByUser, Existing, Ids, NoId
    <3>3. QED
      BY <3>1, <3>2 DEF SyncResume, stores
  <2>3. QED
    BY <2>1, <2>2
<1>3. ASSUME NEW q \in Requests, NEW i \in Ids, At(q, "sync_reset")'
      PROVE  StatusOf(i)' \in {"failed", "none"}
  <2>1. CASE q # r
    <3>1. At(q, "sync_reset")
      BY <1>0, <1>3, <2>1 DEF OthersStay, At
    <3>2. ~Owning(pc[r], mem[r])
      BY <3>1 DEF SyncsApart, At
    <3>3. ~UpsertProfile(r) /\ pc[r] \notin {"save_extracted", "save_failed"}
      BY <3>2 DEF UpsertProfile, Owning, Extracting, At
    <3>4. StatusOf(i) \in {"failed", "none"}
      BY <3>1 DEF SyncInv
    <3>5. QED
      BY <1>1, <3>3, <3>4 DEF StageStep
  <2>2. CASE q = r
    <3>1. SyncProfile(r) /\ At(r, "sync_profile")
      BY <1>0, <1>3, <2>2 DEF SyncArrival, At
    <3>2. PICK j \in FindByUser(profiles) : ShouldReset(mem[r].count, mem[r].id, StatusOf(j))
      BY <1>0, <1>3, <2>2 DEF SyncArrival, At
    <3>3. StatusOf(i) \in {"failed", "none"}
      <4>1. CASE mem[r].id = NoId
        BY <1>0, <3>1, <4>1, NoStatus DEF SyncInv, OwnerInv, ProfileHasResume
      <4>2. CASE StatusOf(j) = "failed"
        <5>1. j \in Ids /\ profiles[j] # None
          BY <3>2, <4>2, FindByUserType DEF StatusOf
        <5>2. profiles[i] = None \/ i = j
          BY <5>1 DEF OneProfile
        <5>3. QED
          BY <4>2, <5>2 DEF StatusOf
      <4>3. QED
        BY <3>2, <4>1, <4>2 DEF ShouldReset
    <3>4. StatusOf(i)' = StatusOf(i)
      BY <3>1 DEF SyncProfile, stores, StatusOf
    <3>5. QED
      BY <3>3, <3>4
  <2>3. QED
    BY <2>1, <2>2
<1>4. QED
  BY <1>2, <1>3 DEF SyncInv

LEMMA SyncInvHolds ==
    Spec /\ []SyncsApart /\ []ExtractsApart /\ []RemovalsApart /\ []ProfilesApart => []SyncInv
<1>1. Init => SyncInv
  BY DEF Init, SyncInv, At
<1>2. /\ GroundInv /\ StageInv /\ OwnerInv /\ OneProfileInv /\ SyncInv /\ SyncsApart /\ [Next]_vars
      => SyncInv'
  <2> SUFFICES ASSUME GroundInv, StageInv, OwnerInv, OneProfileInv, SyncInv, SyncsApart,
                      [Next]_vars
               PROVE  SyncInv'
    OBVIOUS
  <2>1. CASE Crash
    BY <2>1 DEF Crash, SyncInv, At
  <2>2. CASE UNCHANGED vars
    <3>1. \A i \in Ids : StatusOf(i)' = StatusOf(i)
      BY <2>2 DEF vars, stores, StatusOf
    <3>2. QED
      BY <2>2, <3>1 DEF vars, stores, SyncInv, At
  <2>3. QED
    BY <2>1, <2>2, SyncKeeps, OneProfileHolds DEF Next
<1>3. QED
  BY <1>1, <1>2, GroundInvHolds, StageInvHolds, OwnerInvHolds, OneProfileInvHolds, PTL DEF Spec

\* Theorem: whatever fails and wherever the process dies, the sync gives the
\* quota back only when there is no successful upload on file, as long as no
\* sync overlaps an upload that is making its resume and its profile, no profile
\* is confirmed while it is extracted, no resume is deleted while its profile is
\* about to be created, and no second profile is made.
THEOREM ResetIsDeserved ==
    Spec /\ []SyncsApart /\ []ExtractsApart /\ []RemovalsApart /\ []ProfilesApart
    => ResetOnlyWithoutSuccessfulUpload
<1>1. /\ GroundInv /\ SyncInv /\ [Next]_vars
      => [uploadCount' < uploadCount => \A i \in Ids : ~Reviewable(i)]_vars
  <2> SUFFICES ASSUME GroundInv, SyncInv, Next, uploadCount' < uploadCount, NEW i \in Ids
               PROVE  ~Reviewable(i)
    OBVIOUS
  <2>1. TypeOK /\ LocalsInv /\ uploadCount \in Nat
    BY DEF GroundInv, TypeOK
  <2>2. PICK r \in Requests : Request(r) \/ Step(r)
    BY <2>1 DEF Next, Crash
  <2>3. At(r, "sync_reset")
    BY <2>1, <2>2, QuotaStep DEF CountChange
  <2>4. QED
    BY <2>3 DEF SyncInv, Reviewable
<1>2. QED
  BY <1>1, GroundInvHolds, SyncInvHolds, PTL DEF Spec, ResetOnlyWithoutSuccessfulUpload

----------------------------------------------------------------------------
(* A successful upload on file is charged *)

\* Nobody saves the skills of a resume whose upload has still to do it.
SkillsApart ==
    \A q, r \in Requests :
        Owning(pc[r], mem[r]) /\ At(q, "save_skills") /\ mem[q].op # "upload" =>
            mem[q].id # mem[r].id

\* The resume an upload has loaded is the one that is stored.
VersionInv ==
    \A r \in Requests, i \in Ids :
        /\ Owning(pc[r], mem[r]) /\ pc[r] \notin {"create_resume", "charge"}
        /\ mem[r].id = i /\ resumes[i] # None
        => resumes[i].v = 0

\* The upload that has saved the profile of i and is about to be charged.
OwedFor(r, i) ==
    mem[r].op = "upload" /\ pc[r] \in {"save_skills", "charge"} /\ mem[r].pid = i

ChargeInv ==
    calm => \A i \in Ids : Reviewable(i) =>
                uploadCount > 0 \/ \E r \in Requests : OwedFor(r, i)

LEMMA CalmStep ==
    ASSUME NEW r \in Requests, Request(r) \/ Step(r), calm'
    PROVE  calm /\ ~MongoError(r)
<1>1. CASE SaveExtracted(r) \/ SaveFailed(r) \/ EditSave(r) \/ ConfirmSave(r) \/ SaveSynced(r)
           \/ RecordFailure(r)
  BY <1>1 DEF SaveExtracted, SaveFailed, EditSave, ConfirmSave, SaveSynced, RecordFailure,
              SaveProfile, MongoError
<1>2. CASE Request(r)
  BY <1>2 DEF Request, BeginUpload, BeginQuota, BeginDelete, BeginEdit, BeginConfirm, MongoError
<1>3. CASE SyncResume(r) \/ SyncProfile(r) \/ SyncReset(r) \/ FindExisting(r)
           \/ FindExistingProfile(r) \/ DeleteFile(r) \/ DeleteVector(r)
  BY <1>3 DEF SyncResume, SyncProfile, SyncReset, FindExisting, FindExistingProfile, DeleteFile,
              DeleteVector, MongoError
<1>4. CASE DeleteProfile(r) \/ DeleteResume(r) \/ SaveFile(r) \/ CreateResume(r)
           \/ UpsertProfile(r) \/ Extract(r) \/ SaveSkills(r) \/ Charge(r)
  BY <1>4 DEF DeleteProfile, DeleteResume, SaveFile, CreateResume, UpsertProfile, Extract,
              SaveSkills, Charge, MongoError
<1>5. CASE EditProfile(r) \/ ConfirmResume(r) \/ UpsertPoint(r) \/ MongoError(r)
  BY <1>5 DEF EditProfile, ConfirmResume, UpsertPoint, MongoError
<1>6. QED
  BY <1>1, <1>2, <1>3, <1>4, <1>5 DEF Step

\* A resume that is stored after a step keeps its version, is new, or has had
\* its skills saved.
LEMMA VersionStep ==
    ASSUME TypeOK, LocalsInv, NEW r \in Requests, NEW i \in Ids, Request(r) \/ Step(r),
           resumes'[i] # None
    PROVE  \/ resumes'[i] = resumes[i]
           \/ resumes'[i].v = 0
           \/ SaveSkills(r) /\ At(r, "save_skills") /\ i = mem[r].id
<1>0. resumes \in [Ids -> ResumeDoc \cup {None}]
  BY DEF TypeOK
<1>1. CASE UNCHANGED resumes
  BY <1>1
<1>2. CASE CreateResume(r)
  BY <1>0, <1>2 DEF CreateResume, FreshResume
<1>3. CASE DeleteResume(r)
  BY <1>0, <1>3 DEF DeleteResume
<1>4. CASE SaveSkills(r)
  <2>1. CASE i = mem[r].id
    BY <1>4, <2>1 DEF SaveSkills
  <2>2. CASE i # mem[r].id
    <3>1. UNCHANGED resumes \/ \E d : resumes' = [resumes EXCEPT ![mem[r].id] = d]
      BY <1>4 DEF SaveSkills
    <3>2. QED
      BY <1>0, <2>2, <3>1
  <2>3. QED
    BY <2>1, <2>2
<1>5. CASE SaveExtracted(r) \/ SaveFailed(r) \/ EditSave(r) \/ ConfirmSave(r) \/ SaveSynced(r)
           \/ RecordFailure(r)
  BY <1>1, <1>5 DEF SaveExtracted, SaveFailed, EditSave, ConfirmSave, SaveSynced, RecordFailure,
              SaveProfile
<1>6. CASE Request(r)
  BY <1>1, <1>6 DEF Request, BeginUpload, BeginQuota, BeginDelete, BeginEdit, BeginConfirm, stores
<1>7. CASE SyncResume(r) \/ SyncProfile(r) \/ SyncReset(r) \/ FindExisting(r)
           \/ FindExistingProfile(r) \/ DeleteFile(r) \/ DeleteVector(r) \/ DeleteProfile(r)
  BY <1>1, <1>7 DEF SyncResume, SyncProfile, SyncReset, FindExisting, FindExistingProfile,
                    DeleteFile, DeleteVector, DeleteProfile, stores
<1>8. CASE SaveFile(r) \/ UpsertProfile(r) \/ Extract(r) \/ Charge(r) \/ EditProfile(r)
           \/ ConfirmResume(r) \/ UpsertPoint(r) \/ MongoError(r)
  BY <1>1, <1>8 DEF SaveFile, UpsertProfile, Extract, Charge, EditProfile, ConfirmResume,
                    UpsertPoint, MongoError, stores
<1>9. QED
  BY <1>2, <1>3, <1>4, <1>5, <1>6, <1>7, <1>8 DEF Step

LEMMA VersionKeeps ==
    ASSUME GroundInv, VersionInv, SkillsApart, NEW r \in Requests, Request(r) \/ Step(r)
    PROVE  VersionInv'
<1>0. TypeOK /\ LocalsInv /\ IdsInv /\ OthersStay(r) /\ Arrival(r) /\ LocalsInv'
  BY StepArrival, LocalsKeep DEF GroundInv
<1>1. SUFFICES ASSUME NEW q \in Requests, NEW i \in Ids, Owning(pc'[q], mem'[q]),
                      pc'[q] \notin {"create_resume", "charge"}, mem'[q].id = i,
                      resumes'[i] # None
               PROVE  resumes'[i].v = 0
  BY DEF VersionInv, Owning
<1>2. CASE pc'[q] = "upsert_profile" /\ q = r
  <2>1. CreateResume(r) /\ mem[r].id = i /\ pc'[r] # "idle"
    BY <1>0, <1>1, <1>2 DEF Arrival, Passes
  <2>2. resumes' = [resumes EXCEPT ![mem[r].id] = FreshResume]
    BY <1>0, <2>1, FinishEffect DEF CreateResume
  <2>3. QED
    BY <1>0, <2>1, <2>2 DEF TypeOK, FreshResume
<1>3. CASE ~(pc'[q] = "upsert_profile" /\ q = r)
  <2>1. /\ Owning(pc[q], mem[q]) /\ pc[q] \notin {"create_resume", "charge"} /\ mem[q].id = i
        /\ q = r => pc[r] # "save_skills"
    <3>1. CASE q # r
      BY <1>0, <1>1, <3>1 DEF OthersStay
    <3>2. CASE q = r /\ pc'[r] \in Extracting
      BY <1>0, <1>1, <3>2 DEF Arrival, Passes, At, Owning, Extracting
    <3>3. CASE q = r /\ pc'[r] = "save_skills"
      <4>1. mem'[r].op = "upload"
        BY <1>1, <3>3 DEF Owning, Extracting
      <4>2. OpInv(pc[r], mem[r])
        BY <1>0 DEF LocalsInv, LocalInv
      <4>3. QED
        BY <1>0, <1>1, <3>3, <4>1, <4>2 DEF Arrival, Passes, At, Owning, Extracting, OpInv
    <3>4. QED
      BY <1>1, <1>3, <3>1, <3>2, <3>3 DEF Owning
  <2>2. ~(SaveSkills(r) /\ At(r, "save_skills") /\ i = mem[r].id)
    <3>1. CASE At(r, "save_skills") /\ mem[r].op = "upload" /\ mem[r].id = i
      <4>1. Owning(pc[r], mem[r])
        BY <3>1 DEF Owning, At
      <4>2. q = r
        BY <1>0, <2>1, <3>1, <4>1 DEF IdsInv
      <4>3. QED
        BY <2>1, <3>1, <4>2 DEF At
    <3>2. CASE At(r, "save_skills") /\ mem[r].op # "upload"
      BY <2>1, <3>2 DEF SkillsApart
    <3>3. QED
      BY <3>1, <3>2
  <2>3. QED
    BY <1>0, <1>1, <2>1, <2>2, VersionStep DEF VersionInv
<1>4. QED
  BY <1>2, <1>3

\* The charge of a successful upload goes through, unless MongoDB fails.
LEMMA OwedStays ==
    ASSUME GroundInv, OwnerInv, VersionInv, NEW r \in Requests, NEW i \in Ids,
           OwedFor(r, i), Reviewable(i), Step(r), calm'
    PROVE  uploadCount' > 0 \/ OwedFor(r, i)'
<1>0. /\ TypeOK /\ LocalsInv /\ OpInv(pc[r], mem[r]) /\ DocInv(pc[r], mem[r])
      /\ ~MongoError(r) /\ mem[r] \in Mem
  BY CalmStep, MemType DEF GroundInv, LocalsInv, LocalInv
<1>1. Charge(r) \/ (SaveSkills(r) /\ At(r, "save_skills"))
  BY <1>0 DEF OwedFor, Step, SyncResume, SyncProfile, SyncReset, FindExisting,
         FindExistingProfile, DeleteFile, DeleteVector, DeleteProfile, DeleteResume, SaveFile,
         CreateResume, UpsertProfile, Extract, SaveExtracted, SaveFailed, SaveSkills, EditProfile,
         EditSave, ConfirmSave, ConfirmResume, UpsertPoint, SaveSynced, RecordFailure, At
<1>2. CASE Charge(r)
  BY <1>0, <1>2 DEF Charge, TypeOK
<1>3. CASE SaveSkills(r) /\ At(r, "save_skills")
  <2>1. Owning(pc[r], mem[r]) /\ pc[r] = "save_skills" /\ mem[r].id = i /\ mem[r].op = "upload"
    BY <1>0, <1>3 DEF OwedFor, At, Owning, OpInv
  <2>2. resumes[i] # None
    BY <1>0, NoStatus DEF Reviewable, OwnerInv, ProfileHasResume
  <2>3. resumes[i].v = 0 /\ mem[r].res.v = 0
    BY <1>0, <2>1, <2>2 DEF VersionInv, DocInv, FreshResume
  <2>4. Goto(r, AfterSkills(mem[r]), mem[r])
    BY <1>3, <2>1, <2>2, <2>3 DEF SaveSkills
  <2>5. AfterSkills(mem[r]) = "charge"
    BY <2>1 DEF AfterSkills
  <2>6. pc'[r] = "charge" /\ mem'[r] = mem[r]
    BY <1>0, <2>4, <2>5, GotoEffect
  <2>7. QED
    BY <2>6 DEF OwedFor
<1>4. QED
  BY <1>1, <1>2, <1>3

LEMMA ChargeKeeps ==
    ASSUME GroundInv, StageInv, OwnerInv, SyncInv, VersionInv, calm => OutcomeInv, ChargeInv,
           ExtractsApart, NEW r \in Requests, Request(r) \/ Step(r)
    PROVE  ChargeInv'
<1>0. TypeOK /\ LocalsInv /\ OthersStay(r) /\ Arrival(r) /\ TypeOK'
  BY StepArrival, TypeKeeps DEF GroundInv
<1>1. SUFFICES ASSUME calm', NEW i \in Ids, Reviewable(i)'
               PROVE  uploadCount' > 0 \/ \E q \in Requests : OwedFor(q, i)'
  BY DEF ChargeInv
<1>2. calm
  BY <1>1, CalmStep
<1>3. uploadCount \in Nat /\ uploadCount' \in Nat
  BY <1>0 DEF TypeOK
<1>4. CASE ~Reviewable(i)
  <2>1. StatusOf(i) \in {"processing", "failed", "none"}
    BY <1>0, <1>4, NoStatus DEF Reviewable, Status
  <2>2. StatusOf(i)' \in {"ready_for_review", "confirmed"}
    BY <1>1 DEF Reviewable
  <2>3. ~(i = mem[r].pid /\ At(r, "confirm_save") /\ StatusOf(i) = "processing")
    BY <1>2 DEF OutcomeInv, HasExtractor, ExtractsApart
  <2>4. i = mem[r].pid /\ pc[r] \in {"save_extracted", "save_failed"}
    BY <2>1, <2>2, <2>3, StageSteps DEF StageStep
  <2>5. SaveExtracted(r) /\ pc'[r] = "save_skills"
    BY <1>0, <2>1, <2>2, <2>4, StatusStep DEF StatusChange, ConfirmSave, At
  <2>6. Passes(r, "save_extracted", "save_skills")
    BY <1>0, <2>4, <2>5 DEF Arrival, EditSave, ConfirmResume, At
  <2>7. mem[r].op = "upload"
    BY <1>0, <2>4 DEF LocalsInv, LocalInv, OpInv, Owning, Extracting
  <2>8. OwedFor(r, i)'
    BY <2>4, <2>6, <2>7 DEF OwedFor, Passes
  <2>9. QED
    BY <2>8
<1>5. CASE Reviewable(i)
  <2>1. uploadCount > 0 \/ \E q \in Requests : OwedFor(q, i)
    BY <1>2, <1>5 DEF ChargeInv
  <2>2. CASE uploadCount > 0
    <3>1. ~At(r, "sync_reset")
      BY <1>5 DEF SyncInv, Reviewable
    <3>2. QED
      BY <1>0, <1>3, <2>2, <3>1, QuotaStep DEF CountChange
  <2>3. ASSUME NEW q \in Requests, OwedFor(q, i)
        PROVE  uploadCount' > 0 \/ OwedFor(q, i)'
    <3>1. CASE q # r
      BY <1>0, <2>3, <3>1 DEF OthersStay, OwedFor
    <3>2. CASE q = r
      <4>1. Step(r)
        BY <2>3, <3>2 DEF OwedFor, Request, BeginUpload, BeginQuota, BeginDelete, BeginEdit,
                          BeginConfirm, Begin, At
      <4>2. QED
        BY <1>1, <1>5, <2>3, <3>2, <4>1, OwedStays
    <3>3. QED
      BY <3>1, <3>2
  <2>4. QED
    BY <2>1, <2>2, <2>3
<1>6. QED
  BY <1>4, <1>5

LEMMA VersionInvHolds == Spec /\ []SkillsApart => []VersionInv
<1>1. Init => VersionInv
  BY DEF Init, VersionInv, Owning, Extracting
<1>2. GroundInv /\ VersionInv /\ SkillsApart /\ [Next]_vars => VersionInv'
  <2> SUFFICES ASSUME GroundInv, VersionInv, SkillsApart, [Next]_vars PROVE VersionInv'
    OBVIOUS
  <2>1. CASE Crash
    BY <2>1 DEF Crash, VersionInv, Owning, Extracting
  <2>2. CASE UNCHANGED vars
    BY <2>2 DEF vars, stores, VersionInv, Owning
  <2>3. QED
    BY <2>1, <2>2, VersionKeeps DEF Next
<1>3. QED
  BY <1>1, <1>2, GroundInvHolds, PTL DEF Spec

CalmOutcomeInv == calm => OutcomeInv

LEMMA CalmOutcomeInvHolds == Spec => []CalmOutcomeInv
<1>1. Init => CalmOutcomeInv
  <2> SUFFICES ASSUME Init, NEW i \in Ids PROVE StatusOf(i) # "processing"
    BY DEF CalmOutcomeInv, OutcomeInv
  <2>1. QED
    BY FreshTypes DEF Init, NewAccount, LegacyFailure, StatusOf, ExtractionFailed, FreshProfile
<1>2. GroundInv /\ CalmOutcomeInv /\ [Next]_vars => CalmOutcomeInv'
  <2> SUFFICES ASSUME GroundInv, CalmOutcomeInv, [Next]_vars, calm' PROVE OutcomeInv'
    BY DEF CalmOutcomeInv
  <2>1. CASE UNCHANGED vars
    BY <2>1 DEF vars, stores, CalmOutcomeInv, OutcomeInv, HasExtractor, StatusOf
  <2>2. ASSUME NEW r \in Requests, Request(r) \/ Step(r) PROVE OutcomeInv'
    BY <2>2, CalmStep, OutcomeKeeps DEF CalmOutcomeInv
  <2>3. QED
    BY <2>1, <2>2 DEF Next, Crash
<1>3. QED
  BY <1>1, <1>2, GroundInvHolds, PTL DEF Spec

LEMMA ChargeInvHolds ==
    /\ Spec /\ []SyncsApart /\ []ExtractsApart
    /\ []RemovalsApart /\ []ProfilesApart /\ []SkillsApart
    => []ChargeInv
<1>1. Init => ChargeInv
  <2> SUFFICES ASSUME Init, NEW i \in Ids PROVE ~Reviewable(i)
    BY DEF ChargeInv
  <2>1. QED
    BY FreshTypes
       DEF Init, NewAccount, LegacyFailure, Reviewable, StatusOf, ExtractionFailed, FreshProfile
<1>2. /\ GroundInv /\ StageInv /\ OwnerInv /\ SyncInv /\ VersionInv /\ CalmOutcomeInv
      /\ ChargeInv /\ ExtractsApart /\ [Next]_vars
      => ChargeInv'
  <2> SUFFICES ASSUME GroundInv, StageInv, OwnerInv, SyncInv, VersionInv, CalmOutcomeInv,
                      ChargeInv, ExtractsApart, [Next]_vars
               PROVE  ChargeInv'
    OBVIOUS
  <2>1. CASE Crash
    BY <2>1 DEF Crash, ChargeInv
  <2>2. CASE UNCHANGED vars
    <3>1. \A i \in Ids : StatusOf(i)' = StatusOf(i)
      BY <2>2 DEF vars, stores, StatusOf
    <3>2. QED
      BY <2>2, <3>1 DEF vars, stores, ChargeInv, Reviewable, OwedFor
  <2>3. QED
    BY <2>1, <2>2, ChargeKeeps DEF Next, CalmOutcomeInv
<1>3. QED
  BY <1>1, <1>2, GroundInvHolds, StageInvHolds, OwnerInvHolds, SyncInvHolds, VersionInvHolds,
     CalmOutcomeInvHolds, PTL DEF Spec

\* Theorem: while calls fail without effect, MongoDB answers and the process
\* lives, a successful upload on file is charged once no request is running:
\* under the conditions of ResetIsDeserved, and as long as no edit or
\* confirmation saves the skills of a resume whose upload has still to do it.
THEOREM SuccessIsCharged ==
    /\ Spec /\ []SyncsApart /\ []ExtractsApart
    /\ []RemovalsApart /\ []ProfilesApart /\ []SkillsApart
    => []CountCoversResume
<1>1. ChargeInv => CountCoversResume
  BY DEF ChargeInv, CountCoversResume, AllIdle, OwedFor, At
<1>2. QED
  BY <1>1, ChargeInvHolds, PTL

----------------------------------------------------------------------------
(* One request at a time works on a resume and its profile *)

\* r has the resume or the profile of i in its hands: it edits or confirms it,
\* removes it or is about to, or makes it.
WorksOn(r, i) ==
    \/ mem[r].op \in {"edit", "confirm"} /\ mem[r].pid = i
    \/ (pc[r] \in Found \/ Owning(pc[r], mem[r])) /\ mem[r].id = i

WorkApart ==
    \A q, r \in Requests, i \in Ids : WorksOn(q, i) /\ WorksOn(r, i) => q = r

OneResume == \A i, j \in Ids : resumes[i] # None /\ resumes[j] # None => i = j

\* The steps at which a request holds a profile, or a resume, it has loaded.
Holding == Extracting \cup {"edit_save", "confirm_save", "confirm_resume", "save_skills",
                            "upsert_point", "save_synced", "record_failure"}
HoldingResume == Extracting \cup {"upsert_profile", "edit_profile", "edit_save", "save_skills"}

\* The stored profile is the loaded one, but for what is still to be saved.
Agrees(stored, doc, dirty) ==
    stored.v = doc.v /\ \A f \in SavedFields \ dirty : stored[f] = doc[f]

LoadedInv ==
    /\ \A r \in Requests : pc[r] \in Holding =>
          /\ profiles[mem[r].pid] # None
          /\ Agrees(profiles[mem[r].pid], mem[r].doc, mem[r].dirty)
    /\ \A r \in Requests : pc[r] \in HoldingResume =>
          mem[r].id = mem[r].pid /\ mem[r].id \in Ids /\ resumes[mem[r].id] = mem[r].res
    /\ \A r \in Requests : pc[r] \in Found => resumes[mem[r].id] # None

MirrorOwed(r, i) == pc[r] \in {"confirm_resume", "save_skills"} /\ mem[r].pid = i

MirrorInv ==
    calm => \A i \in Ids : Reviewable(i) =>
        \/ resumes[i].skills = SkillsOf(profiles[i].lists)
        \/ \E r \in Requests : MirrorOwed(r, i)

\* The vector is in the hands of a request: it is to be brought up to date, or
\* its metadata are still to be saved.
VectorOwed(r, i) ==
    /\ mem[r].pid = i
    /\ Vectoring(pc[r], mem[r]) \/ pc[r] \in {"save_synced", "record_failure"}

\* Only the sync of the vector assigns its metadata.
SyncFields == {"hash", "syncError"}

SyncFieldsInv ==
    \A r \in Requests : pc[r] \in Holding \ {"save_synced", "record_failure"} =>
        mem[r].dirty \cap SyncFields = {}

\* What a request knows while it syncs the vector: save_synced follows the
\* upsert, and nobody else touches the point in between.
VectorHeld ==
    /\ calm => \A r \in Requests : At(r, "record_failure") => "hash" \notin mem[r].dirty
    /\ \A r \in Requests : pc[r] \in {"upsert_point", "save_synced"} =>
          QdrantEnabled /\ Text(mem[r].doc) # NoText
    /\ \A r \in Requests : At(r, "save_synced") =>
          /\ IsPointOf(point, mem[r].pid, Text(mem[r].doc))
          /\ mem[r].doc.hash = Text(mem[r].doc)

PointHeld(r, i) ==
    \/ At(r, "save_synced") /\ mem[r].pid = i
    \/ At(r, "delete_profile") /\ mem[r].id = i

\* The hash of a profile is that of the stored point, but while the profile is
\* removed or about to get a new hash.
HashIsStored ==
    calm /\ QdrantEnabled =>
        \A i \in Ids : profiles[i] # None /\ profiles[i].hash # NoText =>
            \/ IsPointOf(point, i, profiles[i].hash)
            \/ \E r \in Requests : PointHeld(r, i)

\* The hash of a confirmed profile is that of its text, or a request still
\* has to see to it.
ContentIsHashed ==
    calm /\ QdrantEnabled =>
        \A i \in Ids : StatusOf(i) = "confirmed" /\ ~profiles[i].syncError =>
            \/ Text(profiles[i]) # NoText /\ profiles[i].hash = Text(profiles[i])
            \/ \E r \in Requests : VectorOwed(r, i)

VectorInv == VectorHeld /\ HashIsStored /\ ContentIsHashed

LEMMA WorkApartImplies ==
    ASSUME LocalsInv, WorkApart
    PROVE  ExtractsApart /\ RemovalsApart /\ DeletesApart /\ EditsApart
<1>1. \A r \in Requests : OpInv(pc[r], mem[r])
  BY DEF LocalsInv, LocalInv
<1>2. \A r \in Requests : pc[r] \in Removing => mem[r].id \in Ids /\ WorksOn(r, mem[r].id)
  BY <1>1 DEF OpInv, WorksOn, Found
<1>3. \A r \in Requests : mem[r].op \in {"edit", "confirm"} =>
          mem[r].pid \in Ids /\ WorksOn(r, mem[r].pid)
  BY <1>1 DEF OpInv, WorksOn
<1>4. \A r \in Requests : Owning(pc[r], mem[r]) => mem[r].id \in Ids /\ WorksOn(r, mem[r].id)
  BY <1>1 DEF OpInv, WorksOn
<1>5. ExtractsApart
  <2> SUFFICES ASSUME NEW q \in Requests, NEW r \in Requests, pc[q] \in Extracting,
                      At(r, "confirm_save"), mem[q].pid = mem[r].pid
               PROVE  FALSE
    BY DEF ExtractsApart
  <2>1. mem[q].id = mem[q].pid /\ Owning(pc[q], mem[q]) /\ mem[r].op = "confirm" /\ q # r
    BY <1>1 DEF OpInv, Owning, At, Extracting
  <2>2. QED
    BY <1>3, <1>4, <2>1 DEF WorkApart
<1>6. RemovalsApart
  <2> SUFFICES ASSUME NEW q \in Requests, NEW r \in Requests, At(q, "delete_resume"),
                      At(r, "upsert_profile"), mem[q].id = mem[r].id
               PROVE  FALSE
    BY DEF RemovalsApart
  <2>1. pc[q] \in Removing /\ Owning(pc[r], mem[r]) /\ q # r
    BY DEF At, Removing, Owning
  <2>2. QED
    BY <1>2, <1>4, <2>1 DEF WorkApart
<1>7. DeletesApart
  <2> SUFFICES ASSUME NEW q \in Requests, NEW r \in Requests, At(q, "delete_profile"),
                      Vectoring(pc[r], mem[r]), mem[q].id = mem[r].pid
               PROVE  FALSE
    BY DEF DeletesApart
  <2>1. pc[q] \in Removing /\ mem[r].op \in {"edit", "confirm"} /\ q # r
    BY <1>1 DEF At, Removing, Vectoring, OpInv
  <2>2. QED
    BY <1>2, <1>3, <2>1 DEF WorkApart
<1>8. EditsApart
  <2> SUFFICES ASSUME NEW q \in Requests, NEW r \in Requests, At(q, "edit_save"),
                      At(r, "edit_save"), mem[q].pid = mem[r].pid
               PROVE  q = r
    BY DEF EditsApart
  <2>1. mem[q].op = "edit" /\ mem[r].op = "edit"
    BY <1>1 DEF At, OpInv
  <2>2. QED
    BY <1>3, <2>1 DEF WorkApart
<1>9. QED
  BY <1>5, <1>6, <1>7, <1>8

LEMMA OneResumeHolds == Spec /\ []ProfilesApart => []OneResume
<1> DEFINE Unique == UniqueIndex => OneResume
<1>1. Init => Unique
  BY DEF Init, NewAccount, LegacyFailure, OneResume
<1>2. GroundInv /\ Unique /\ [Next]_vars => Unique'
  <2> SUFFICES ASSUME GroundInv, OneResume, UniqueIndex, [Next]_vars,
                      NEW i \in Ids, NEW j \in Ids, resumes'[i] # None, resumes'[j] # None
               PROVE  i = j
    BY DEF OneResume
  <2>1. CASE UNCHANGED resumes
    BY <2>1 DEF OneResume
  <2>2. ASSUME NEW r \in Requests, Request(r) \/ Step(r)
        PROVE  i = j
    <3>1. \A k \in Ids : (resumes'[k] = None <=> resumes[k] = None) \/ ResumeChange(r, k)
      BY <2>2, ResumeStep DEF GroundInv
    <3>2. CASE resumes[i] # None /\ resumes[j] # None
      BY <3>2 DEF OneResume
    <3>3. CASE CreateResume(r) /\ pc'[r] = "upsert_profile" /\ At(r, "create_resume")
      <4>1. ~Duplicate(resumes, mem[r].id)
        BY <3>3, FinishEffect DEF CreateResume, GroundInv
      <4>2. \A k \in Ids : resumes[k] # None => k = mem[r].id
        BY <4>1 DEF Duplicate, Existing
      <4>3. QED
        BY <3>1, <4>2 DEF ResumeChange
    <3>4. QED
      BY <3>1, <3>2, <3>3 DEF ResumeChange, Passes, OneResume
  <2>3. QED
    BY <2>1, <2>2 DEF Next, Crash, vars, stores
<1>3. OneProfileInv /\ Unique => OneResume
  BY DEF OneProfileInv, OneResumeInv, OneResume
<1>4. QED
  BY <1>1, <1>2, <1>3, GroundInvHolds, OneProfileInvHolds, PTL DEF Spec

----------------------------------------------------------------------------
(* What a request holds is what is stored *)

\* Assigning fields, and remembering them, keeps the rest in agreement.
LEMMA AssignedAgrees ==
    ASSUME NEW stored, NEW doc, NEW new, NEW dirty, Agrees(stored, doc, dirty), new.v = doc.v
    PROVE  Agrees(stored, new, dirty \cup Changes(doc, new))
BY DEF Agrees, Changes

LEMMA SameAgrees ==
    ASSUME NEW doc
    PROVE  Agrees(doc, doc, {})
BY DEF Agrees

\* What profile.save() then does, and what the request holds after it.
SavedOrKept(r, doc, dirty, ok, failed, new) ==
    \/ /\ pc'[r] = ok /\ UNCHANGED calm
       /\ profiles' = [profiles EXCEPT ![mem[r].pid] = new]
       /\ ok # "idle" => SameButDoc(mem[r], mem'[r]) /\ mem'[r].doc = new /\ mem'[r].dirty = {}
    \/ /\ pc'[r] = failed /\ UNCHANGED profiles /\ ~calm'
       /\ failed # "idle" => /\ SameButDoc(mem[r], mem'[r])
                             /\ mem'[r].dirty = dirty /\ mem'[r].doc = doc

\* profile.save() of a document that agrees with the stored one succeeds unless
\* MongoDB fails, and the document is then the stored one.
LEMMA SaveAgrees ==
    ASSUME TypeOK, NEW r \in Requests, NEW doc \in ProfileDoc, NEW dirty \in SUBSET SavedFields,
           NEW ok, NEW failed, SaveProfile(r, doc, dirty, ok, failed),
           mem[r].pid \in Ids, profiles[mem[r].pid] # None,
           Agrees(profiles[mem[r].pid], doc, dirty)
    PROVE  SavedOrKept(r, doc, dirty, ok, failed, [doc EXCEPT !.v = NextVersion(doc.v, dirty)])
<1> DEFINE m == mem[r]
           stored == profiles[m.pid]
           new == [doc EXCEPT !.v = NextVersion(doc.v, dirty)]
           saved == [m EXCEPT !.doc = new, !.dirty = {}]
           kept == [m EXCEPT !.doc = doc, !.dirty = dirty]
<1>1. m \in Mem /\ new \in ProfileDoc /\ stored \in ProfileDoc
  BY SavedDocType DEF TypeOK
<1>2. CanSave(m.pid, doc, dirty)
  BY DEF CanSave, Agrees
<1>3. Written(stored, doc, dirty) = new
  <2>1. /\ Written(stored, doc, dirty).status = doc.status
        /\ Written(stored, doc, dirty).text = doc.text
        /\ Written(stored, doc, dirty).lists = doc.lists
        /\ Written(stored, doc, dirty).edits = doc.edits
        /\ Written(stored, doc, dirty).syncError = doc.syncError
        /\ Written(stored, doc, dirty).hash = doc.hash
        /\ Written(stored, doc, dirty).v = NextVersion(doc.v, dirty)
    BY DEF Written, Agrees, SavedFields
  <2>2. Written(stored, doc, dirty) \in ProfileDoc
    BY <1>1, WrittenType
  <2>3. /\ new.status = doc.status /\ new.text = doc.text /\ new.lists = doc.lists
        /\ new.edits = doc.edits /\ new.syncError = doc.syncError /\ new.hash = doc.hash
        /\ new.v = NextVersion(doc.v, dirty)
    BY DEF ProfileDoc
  <2> HIDE DEF new
  <2>4. QED
    BY <1>1, <2>1, <2>2, <2>3 DEF ProfileDoc
<1>4. \/ /\ profiles' = [profiles EXCEPT ![m.pid] = Written(stored, doc, dirty)]
         /\ Goto(r, ok, saved) /\ UNCHANGED calm
      \/ /\ Goto(r, failed, kept) /\ UNCHANGED profiles /\ ~calm'
  BY <1>2 DEF SaveProfile
<1>5. SameButDoc(m, saved) /\ saved.doc = new /\ saved.dirty = {}
  BY <1>1 DEF Mem, SameButDoc
<1>6. SameButDoc(m, kept) /\ kept.doc = doc /\ kept.dirty = dirty
  BY <1>1 DEF Mem, SameButDoc
<1> HIDE DEF new, saved, kept
<1>7. ASSUME profiles' = [profiles EXCEPT ![m.pid] = Written(stored, doc, dirty)],
             Goto(r, ok, saved), UNCHANGED calm
      PROVE  SavedOrKept(r, doc, dirty, ok, failed, new)
  <2>1. pc'[r] = ok /\ (ok # "idle" => mem'[r] = saved)
    BY <1>7, GotoEffect
  <2>2. QED
    BY <1>3, <1>5, <1>7, <2>1 DEF SavedOrKept
<1>8. ASSUME Goto(r, failed, kept), UNCHANGED profiles, ~calm'
      PROVE  SavedOrKept(r, doc, dirty, ok, failed, new)
  <2>1. pc'[r] = failed /\ (failed # "idle" => mem'[r] = kept)
    BY <1>8, GotoEffect
  <2>2. QED
    BY <1>6, <1>8, <2>1 DEF SavedOrKept
<1>9. SavedOrKept(r, doc, dirty, ok, failed, new)
  BY <1>4, <1>7, <1>8
<1>10. QED
  BY <1>9 DEF new

\* A step leaves alone whatever its request does not work on.
LEMMA OthersWorkStays ==
    ASSUME GroundInv, LoadedInv, NEW r \in Requests, Request(r) \/ Step(r),
           NEW i \in Ids, ~WorksOn(r, i)
    PROVE  profiles'[i] = profiles[i] /\ resumes'[i] = resumes[i]
<1>0. /\ TypeOK /\ LocalsInv /\ OpInv(pc[r], mem[r])
      /\ profiles \in [Ids -> ProfileDoc \cup {None}] /\ resumes \in [Ids -> ResumeDoc \cup {None}]
  BY DEF GroundInv, LocalsInv, LocalInv, TypeOK
<1>1. CASE SaveExtracted(r) \/ SaveFailed(r) \/ EditSave(r) \/ ConfirmSave(r) \/ SaveSynced(r)
           \/ RecordFailure(r)
  <2>1. mem[r].pid # i
    BY <1>0, <1>1 DEF SaveExtracted, SaveFailed, EditSave, ConfirmSave, SaveSynced,
                      RecordFailure, At, OpInv, Owning, Extracting, WorksOn
  <2>2. UNCHANGED resumes
    BY <1>1 DEF SaveExtracted, SaveFailed, EditSave, ConfirmSave, SaveSynced, RecordFailure,
                SaveProfile
  <2>3. UNCHANGED profiles \/ \E d : profiles' = [profiles EXCEPT ![mem[r].pid] = d]
    BY <1>1 DEF SaveExtracted, SaveFailed, EditSave, ConfirmSave, SaveSynced, RecordFailure,
                SaveProfile
  <2>4. QED
    BY <1>0, <2>1, <2>2, <2>3
<1>2. CASE DeleteProfile(r) \/ DeleteResume(r) \/ CreateResume(r) \/ UpsertProfile(r)
  <2>1. mem[r].id # i
    BY <1>2 DEF DeleteProfile, DeleteResume, CreateResume, UpsertProfile, At, WorksOn, Found,
                Removing, Owning
  <2>2. /\ UNCHANGED profiles \/ \E d : profiles' = [profiles EXCEPT ![mem[r].id] = d]
        /\ UNCHANGED resumes \/ \E d : resumes' = [resumes EXCEPT ![mem[r].id] = d]
    BY <1>2 DEF DeleteProfile, DeleteResume, CreateResume, UpsertProfile
  <2>3. QED
    BY <1>0, <2>1, <2>2
<1>3. CASE SaveSkills(r)
  <2>1. mem[r].id = mem[r].pid /\ mem[r].op \in {"upload", "edit", "confirm"}
        /\ pc[r] = "save_skills"
    BY <1>0, <1>3 DEF SaveSkills, At, LoadedInv, HoldingResume, OpInv
  <2>2. mem[r].id # i
    BY <2>1 DEF WorksOn, Owning
  <2>3. /\ UNCHANGED profiles
        /\ UNCHANGED resumes \/ \E d : resumes' = [resumes EXCEPT ![mem[r].id] = d]
    BY <1>3 DEF SaveSkills
  <2>4. QED
    BY <1>0, <2>2, <2>3
<1>4. CASE Request(r)
  BY <1>4 DEF Request, BeginUpload, BeginQuota, BeginDelete, BeginEdit, BeginConfirm, stores
<1>5. CASE SyncResume(r) \/ SyncProfile(r) \/ SyncReset(r) \/ FindExisting(r)
           \/ FindExistingProfile(r) \/ DeleteFile(r) \/ DeleteVector(r)
  BY <1>5 DEF SyncResume, SyncProfile, SyncReset, FindExisting, FindExistingProfile,
              DeleteFile, DeleteVector, stores
<1>6. CASE SaveFile(r) \/ Extract(r) \/ Charge(r) \/ EditProfile(r)
           \/ ConfirmResume(r) \/ UpsertPoint(r) \/ MongoError(r)
  BY <1>6 DEF SaveFile, Extract, Charge, EditProfile, ConfirmResume, UpsertPoint, MongoError, stores
<1>7. QED
  BY <1>1, <1>2, <1>3, <1>4, <1>5, <1>6 DEF Step

\* A save of doc goes through, or MongoDB fails.
Outcome(r, doc, ok, failed) ==
    \/ /\ pc'[r] = ok /\ UNCHANGED calm
       /\ \E new \in ProfileDoc :
             /\ \A f \in SavedFields : new[f] = doc[f]
             /\ profiles' = [profiles EXCEPT ![mem[r].pid] = new]
             /\ ok # "idle" => /\ SameButDoc(mem[r], mem'[r])
                               /\ mem'[r].doc = new /\ mem'[r].dirty = {}
    \/ /\ pc'[r] = failed /\ UNCHANGED profiles /\ ~calm'
       /\ failed # "idle" => /\ SameButDoc(mem[r], mem'[r]) /\ mem'[r].doc = doc
                             /\ Agrees(profiles[mem[r].pid], mem'[r].doc, mem'[r].dirty)

LEMMA SaveOutcome ==
    ASSUME TypeOK, NEW r \in Requests, NEW doc \in ProfileDoc, NEW dirty \in SUBSET SavedFields,
           NEW ok, NEW failed, SaveProfile(r, doc, dirty, ok, failed),
           mem[r].pid \in Ids, profiles[mem[r].pid] # None,
           Agrees(profiles[mem[r].pid], doc, dirty)
    PROVE  Outcome(r, doc, ok, failed)
<1> DEFINE new == [doc EXCEPT !.v = NextVersion(doc.v, dirty)]
<1>1. new \in ProfileDoc
  BY SavedDocType
<1>2. \A f \in SavedFields : new[f] = doc[f]
  BY DEF SavedFields, ProfileDoc
<1>3. SavedOrKept(r, doc, dirty, ok, failed, new)
  BY SaveAgrees
<1> HIDE DEF new
<1>4. QED
  BY <1>1, <1>2, <1>3 DEF Outcome, SavedOrKept

LEMMA SaveOutcomes ==
    ASSUME GroundInv, LoadedInv, NEW r \in Requests
    PROVE  /\ SaveExtracted(r) => Outcome(r, mem[r].doc, "save_skills", "save_failed")
           /\ SaveFailed(r) => Outcome(r, ExtractionFailed(mem[r].doc), "idle", "idle")
           /\ EditSave(r) => Outcome(r, mem[r].doc, "save_skills", "idle")
           /\ ConfirmSave(r) => Outcome(r, mem[r].doc, "confirm_resume", "idle")
           /\ SaveSynced(r) => Outcome(r, mem[r].doc, "idle", "record_failure")
           /\ RecordFailure(r) => Outcome(r, [mem[r].doc EXCEPT !.syncError = TRUE], "idle", "idle")
<1>0. /\ TypeOK /\ LocalsInv /\ mem[r].doc \in ProfileDoc /\ mem[r].dirty \in SUBSET SavedFields
  BY MemType DEF GroundInv
<1>1. ASSUME pc[r] \in Saving
      PROVE  /\ mem[r].pid \in Ids /\ profiles[mem[r].pid] # None
             /\ Agrees(profiles[mem[r].pid], mem[r].doc, mem[r].dirty)
  BY <1>0, <1>1, SavingIds DEF LoadedInv, Saving, Holding, Extracting
<1>2. SaveFailed(r) => Outcome(r, ExtractionFailed(mem[r].doc), "idle", "idle")
  <2> DEFINE doc == ExtractionFailed(mem[r].doc)
             dirty == mem[r].dirty \cup Changes(mem[r].doc, doc)
  <2> SUFFICES ASSUME SaveFailed(r) PROVE Outcome(r, doc, "idle", "idle")
    OBVIOUS
  <2>1. /\ At(r, "save_failed") /\ doc \in ProfileDoc /\ dirty \in SUBSET SavedFields
        /\ SaveProfile(r, doc, dirty, "idle", "idle")
    BY <1>0, SaveFailedDoc DEF SaveFailed
  <2>2. doc.v = mem[r].doc.v
    BY <1>0 DEF ExtractionFailed, ProfileDoc
  <2>3. Agrees(profiles[mem[r].pid], doc, dirty)
    <3> HIDE DEF doc
    <3>1. QED
      BY <1>1, <2>1, <2>2, AssignedAgrees DEF At, Saving
  <2> HIDE DEF doc, dirty
  <2>4. QED
    BY <1>0, <1>1, <2>1, <2>3, SaveOutcome DEF At, Saving
<1>3. RecordFailure(r) => Outcome(r, [mem[r].doc EXCEPT !.syncError = TRUE], "idle", "idle")
  <2> DEFINE doc == [mem[r].doc EXCEPT !.syncError = TRUE]
             dirty == mem[r].dirty \cup Changes(mem[r].doc, doc)
  <2> SUFFICES ASSUME RecordFailure(r) PROVE Outcome(r, doc, "idle", "idle")
    OBVIOUS
  <2>1. /\ At(r, "record_failure") /\ doc \in ProfileDoc /\ dirty \in SUBSET SavedFields
        /\ SaveProfile(r, doc, dirty, "idle", "idle")
    BY <1>0, RecordFailureDoc DEF RecordFailure
  <2>2. doc.v = mem[r].doc.v
    BY <1>0 DEF ProfileDoc
  <2>3. Agrees(profiles[mem[r].pid], doc, dirty)
    <3> HIDE DEF doc
    <3>1. QED
      BY <1>1, <2>1, <2>2, AssignedAgrees DEF At, Saving
  <2> HIDE DEF doc, dirty
  <2>4. QED
    BY <1>0, <1>1, <2>1, <2>3, SaveOutcome DEF At, Saving
<1>4. QED
  BY <1>0, <1>1, <1>2, <1>3, SaveOutcome
     DEF SaveExtracted, EditSave, ConfirmSave, SaveSynced, At, Saving

\* How a request gets to the last two steps of the sync of the vector.
LateArrival(r) ==
    /\ pc'[r] = "save_synced" => UpsertPoint(r)
    /\ pc'[r] = "record_failure" =>
          UpsertPoint(r) \/ ConfirmResume(r) \/ SaveSkills(r) \/ SaveSynced(r)

LEMMA LateArrives ==
    ASSUME TypeOK, NEW r \in Requests, Request(r) \/ Step(r)
    PROVE  LateArrival(r)
<1>1. pc \in [Requests -> Labels]
  BY DEF TypeOK
<1>2. CASE UpsertPoint(r) \/ ConfirmResume(r) \/ SaveSkills(r) \/ SaveSynced(r)
  BY <1>1, <1>2 DEF LateArrival, Goto, Finish, ConfirmResume, SaveSkills, AfterSkills, SyncStart,
                    SaveSynced, SaveProfile
<1>3. CASE Request(r)
  BY <1>1, <1>3 DEF LateArrival, Goto, Finish, Request, BeginUpload, BeginQuota, BeginDelete,
                    BeginEdit, BeginConfirm
<1>4. CASE SyncResume(r) \/ SyncProfile(r) \/ SyncReset(r) \/ FindExisting(r)
           \/ FindExistingProfile(r)
  BY <1>1, <1>4 DEF LateArrival, Goto, Finish, SyncResume, SyncProfile, SyncReset, AfterSync,
                    FindExisting, FindExistingProfile
<1>5. CASE DeleteFile(r) \/ DeleteVector(r) \/ DeleteProfile(r) \/ DeleteResume(r)
           \/ SaveFile(r) \/ CreateResume(r) \/ UpsertProfile(r)
  BY <1>1, <1>5 DEF LateArrival, Goto, Finish, DeleteFile, DeleteVector, DeleteProfile,
                    DeleteResume, SaveFile, CreateResume, UpsertProfile
<1>6. CASE Extract(r) \/ Charge(r) \/ MongoError(r) \/ EditProfile(r)
  BY <1>1, <1>6 DEF LateArrival, Goto, Finish, Extract, Charge, MongoError, EditProfile
<1>7. CASE SaveExtracted(r) \/ SaveFailed(r) \/ EditSave(r) \/ ConfirmSave(r) \/ RecordFailure(r)
  BY <1>1, <1>7 DEF LateArrival, Goto, Finish, SaveExtracted, SaveFailed, EditSave, ConfirmSave,
                    RecordFailure, SaveProfile
<1>8. QED
  BY <1>2, <1>3, <1>4, <1>5, <1>6, <1>7 DEF Step

\* What r holds when it gets there.
Loads(r) ==
    /\ pc'[r] \in Holding =>
          /\ profiles'[mem'[r].pid] # None
          /\ Agrees(profiles'[mem'[r].pid], mem'[r].doc, mem'[r].dirty)
    /\ pc'[r] \in HoldingResume =>
          mem'[r].id = mem'[r].pid /\ mem'[r].id \in Ids /\ resumes'[mem'[r].id] = mem'[r].res
    /\ pc'[r] \in Found => resumes'[mem'[r].id] # None

LEMMA SavesLoad ==
    ASSUME GroundInv, LoadedInv, NEW r \in Requests,
           \/ SaveExtracted(r) \/ SaveFailed(r) \/ EditSave(r)
           \/ ConfirmSave(r) \/ SaveSynced(r) \/ RecordFailure(r)
    PROVE  Loads(r)
<1>0. TypeOK /\ LocalsInv /\ mem[r].pid \in Ids /\ UNCHANGED resumes
      /\ profiles \in [Ids -> ProfileDoc \cup {None}]
  BY SavingIds DEF GroundInv, TypeOK, SaveExtracted, SaveFailed, EditSave, ConfirmSave, SaveSynced,
                   RecordFailure, SaveProfile, At, Saving
<1>1. profiles[mem[r].pid] # None
  BY DEF LoadedInv, Holding, Extracting, SaveExtracted, SaveFailed, EditSave, ConfirmSave,
         SaveSynced, RecordFailure, At
<1>2. ASSUME NEW doc, NEW ok, NEW failed, Outcome(r, doc, ok, failed),
             ok \notin Found, failed \notin Found, failed \notin HoldingResume \ {"save_failed"},
             ok \in HoldingResume \/ failed = "save_failed" => pc[r] \in HoldingResume,
             pc'[r] # "idle"
      PROVE  Loads(r)
  <2>1. CASE /\ pc'[r] = ok
             /\ \E new \in ProfileDoc :
                   /\ profiles' = [profiles EXCEPT ![mem[r].pid] = new]
                   /\ ok # "idle" => /\ SameButDoc(mem[r], mem'[r])
                                     /\ mem'[r].doc = new /\ mem'[r].dirty = {}
    <3>1. PICK new \in ProfileDoc :
             /\ profiles' = [profiles EXCEPT ![mem[r].pid] = new]
             /\ SameButDoc(mem[r], mem'[r]) /\ mem'[r].doc = new /\ mem'[r].dirty = {}
      BY <1>2, <2>1
    <3>2. profiles'[mem[r].pid] = new /\ new # None
      BY <1>0, <3>1, FreshTypes
    <3>3. mem'[r].pid = mem[r].pid /\ mem'[r].id = mem[r].id /\ mem'[r].res = mem[r].res
      BY <3>1 DEF SameButDoc
    <3>4. Agrees(profiles'[mem'[r].pid], mem'[r].doc, mem'[r].dirty)
      BY <3>1, <3>2, <3>3, SameAgrees
    <3>5. QED
      BY <1>0, <1>2, <2>1, <3>2, <3>3, <3>4 DEF Loads, LoadedInv
  <2>2. CASE /\ pc'[r] = failed /\ UNCHANGED profiles
             /\ failed # "idle" => /\ SameButDoc(mem[r], mem'[r])
                                   /\ Agrees(profiles[mem[r].pid], mem'[r].doc, mem'[r].dirty)
    <3>1. mem'[r].pid = mem[r].pid /\ mem'[r].id = mem[r].id /\ mem'[r].res = mem[r].res
      BY <1>2, <2>2 DEF SameButDoc
    <3>2. QED
      BY <1>0, <1>1, <1>2, <2>2, <3>1 DEF Loads, LoadedInv
  <2>3. QED
    BY <1>2, <2>1, <2>2 DEF Outcome
<1>3. pc'[r] = "idle" => Loads(r)
  BY DEF Loads, Holding, HoldingResume, Found, Removing, Extracting
<1>4. /\ {"save_skills", "confirm_resume", "idle", "save_failed", "record_failure"} \cap Found = {}
      /\ {"confirm_resume", "idle", "record_failure"} \cap HoldingResume = {}
      /\ {"save_extracted", "edit_save"} \subseteq HoldingResume
  BY DEF Found, HoldingResume, Removing, Extracting
<1>5. QED
  BY <1>2, <1>3, <1>4, SaveOutcomes
     DEF SaveExtracted, SaveFailed, EditSave, ConfirmSave, SaveSynced, RecordFailure, At

\* How a request gets to the steps after its first lookup.
LEMMA FoundArrives ==
    ASSUME TypeOK, NEW r \in Requests, Request(r) \/ Step(r)
    PROVE  /\ pc'[r] = "find_existing_profile" => FindExisting(r)
           /\ pc'[r] = "edit_profile" => BeginEdit(r)
<1>1. pc \in [Requests -> Labels]
  BY DEF TypeOK
<1>2. CASE FindExisting(r) \/ BeginEdit(r)
  BY <1>1, <1>2 DEF Goto, FindExisting, BeginEdit
<1>3. CASE Request(r)
  BY <1>1, <1>3 DEF Goto, Finish, Request, BeginUpload, BeginQuota, BeginDelete, BeginEdit,
                    BeginConfirm
<1>4. CASE SyncResume(r) \/ SyncProfile(r) \/ SyncReset(r) \/ FindExistingProfile(r)
  BY <1>1, <1>4 DEF Goto, Finish, SyncResume, SyncProfile, SyncReset, AfterSync,
                    FindExistingProfile
<1>5. CASE DeleteFile(r) \/ DeleteVector(r) \/ DeleteProfile(r) \/ DeleteResume(r)
           \/ SaveFile(r) \/ CreateResume(r) \/ UpsertProfile(r)
  BY <1>1, <1>5 DEF Goto, Finish, DeleteFile, DeleteVector, DeleteProfile, DeleteResume, SaveFile,
                    CreateResume, UpsertProfile
<1>6. CASE Extract(r) \/ Charge(r) \/ MongoError(r) \/ EditProfile(r) \/ UpsertPoint(r)
           \/ ConfirmResume(r) \/ SaveSkills(r)
  BY <1>1, <1>6 DEF Goto, Finish, Extract, Charge, MongoError, EditProfile, UpsertPoint,
                    ConfirmResume, SaveSkills, AfterSkills, SyncStart
<1>7. CASE SaveExtracted(r) \/ SaveFailed(r) \/ EditSave(r) \/ ConfirmSave(r) \/ SaveSynced(r)
           \/ RecordFailure(r)
  BY <1>1, <1>7 DEF Goto, Finish, SaveExtracted, SaveFailed, EditSave, ConfirmSave, SaveSynced,
                    RecordFailure, SaveProfile
<1>8. QED
  BY <1>2, <1>3, <1>4, <1>5, <1>6, <1>7 DEF Step

LEMMA StepsLoad ==
    ASSUME GroundInv, LoadedInv, OwnerInv, OneResume, NEW r \in Requests, Request(r) \/ Step(r)
    PROVE  Loads(r)
<1>0. /\ TypeOK /\ LocalsInv /\ OpInv(pc[r], mem[r]) /\ DocInv(pc[r], mem[r]) /\ mem[r] \in Mem
      /\ Arrival(r) /\ LateArrival(r) /\ IdsInv /\ mem[r].doc \in ProfileDoc
      /\ profiles \in [Ids -> ProfileDoc \cup {None}] /\ resumes \in [Ids -> ResumeDoc \cup {None}]
  BY StepArrival, LateArrives, MemType DEF GroundInv, LocalsInv, LocalInv, TypeOK
<1>1. CASE UpsertProfile(r)
  <2>1. mem[r].id = mem[r].pid /\ mem[r].id \in Ids /\ mem[r].dirty = {}
        /\ resumes[mem[r].id] = mem[r].res
    BY <1>0, <1>1 DEF UpsertProfile, At, OpInv, DocInv, Owning, LoadedInv, HoldingResume
  <2>2. CASE /\ profiles' = [profiles EXCEPT ![mem[r].id] = FreshProfile]
             /\ Goto(r, "extract", [mem[r] EXCEPT !.doc = FreshProfile])
    <3>1. pc'[r] = "extract" /\ mem'[r] = [mem[r] EXCEPT !.doc = FreshProfile]
      BY <1>0, <2>2, GotoEffect
    <3>2. /\ mem'[r].doc = FreshProfile /\ mem'[r].pid = mem[r].pid /\ mem'[r].id = mem[r].id
          /\ mem'[r].res = mem[r].res /\ mem'[r].dirty = {} /\ UNCHANGED resumes
          /\ profiles'[mem[r].id] = FreshProfile /\ FreshProfile # None
      BY <1>0, <1>1, <2>1, <2>2, <3>1, FreshTypes DEF Mem, UpsertProfile
    <3>3. QED
      BY <2>1, <3>1, <3>2, SameAgrees DEF Loads, Found, Removing
  <2>3. CASE Finish(r)
    BY <1>0, <2>3, FinishEffect DEF Loads, Holding, HoldingResume, Found, Removing, Extracting
  <2>4. QED
    BY <1>1, <2>2, <2>3 DEF UpsertProfile
<1>2. CASE Extract(r)
  <2>1. /\ mem[r].doc = FreshProfile /\ mem[r].dirty = {} /\ UNCHANGED <<profiles, resumes>>
        /\ profiles[mem[r].pid] # None /\ Agrees(profiles[mem[r].pid], mem[r].doc, {})
        /\ mem[r].id = mem[r].pid /\ mem[r].id \in Ids /\ resumes[mem[r].id] = mem[r].res
    BY <1>0, <1>2 DEF Extract, At, DocInv, LoadedInv, Holding, HoldingResume, Extracting, stores
  <2>2. ASSUME NEW c \in Content,
               Goto(r, "save_extracted", [mem[r] EXCEPT !.doc = Extracted(mem[r].doc, c),
                               !.dirty = Changes(mem[r].doc, Extracted(mem[r].doc, c))])
        PROVE  Loads(r)
    <3> DEFINE new == Extracted(mem[r].doc, c)
               m == [mem[r] EXCEPT !.doc = new, !.dirty = Changes(mem[r].doc, new)]
    <3>1. new.v = mem[r].doc.v
      BY <1>0 DEF Extracted, ProfileDoc
    <3>2. m.doc = new /\ m.dirty = Changes(mem[r].doc, new) /\ m.pid = mem[r].pid
          /\ m.id = mem[r].id /\ m.res = mem[r].res
      BY <1>0 DEF Mem
    <3> HIDE DEF m, new
    <3>3. pc'[r] = "save_extracted" /\ mem'[r] = m
      BY <1>0, <2>2, GotoEffect DEF m, new
    <3>4. Agrees(profiles[mem[r].pid], new, {} \cup Changes(mem[r].doc, new))
      BY <2>1, <3>1, AssignedAgrees
    <3>5. QED
      BY <2>1, <3>2, <3>3, <3>4 DEF Loads, Found, Removing
  <2>3. CASE Goto(r, "save_failed", mem[r])
    BY <1>0, <2>1, <2>3, GotoEffect DEF Loads, Found, Removing
  <2>4. QED
    BY <1>2, <2>2, <2>3 DEF Extract
<1>3. CASE EditProfile(r)
  <2> DEFINE i == mem[r].id
  <2>1. /\ i = mem[r].pid /\ i \in Ids /\ UNCHANGED <<profiles, resumes>> /\ resumes[i] = mem[r].res
    BY <1>0, <1>3 DEF EditProfile, At, OpInv, LoadedInv, HoldingResume, stores
  <2>2. ASSUME CanEdit(i), NEW c \in Content,
               Goto(r, "edit_save", [mem[r] EXCEPT !.doc = Edited(profiles[i], c),
                               !.dirty = Changes(profiles[i], Edited(profiles[i], c))])
        PROVE  Loads(r)
    <3> DEFINE new == Edited(profiles[i], c)
               m == [mem[r] EXCEPT !.doc = new, !.dirty = Changes(profiles[i], new)]
    <3>1. profiles[i] \in ProfileDoc /\ new.v = profiles[i].v
      BY <1>0, <2>2, CanEditDoc, EditedDoc
    <3>2. m.doc = new /\ m.dirty = Changes(profiles[i], new) /\ m.pid = mem[r].pid
          /\ m.id = mem[r].id /\ m.res = mem[r].res
      BY <1>0 DEF Mem
    <3> HIDE DEF m, new
    <3>3. pc'[r] = "edit_save" /\ mem'[r] = m
      BY <1>0, <2>2, GotoEffect DEF m, new
    <3>4. Agrees(profiles[i], new, {} \cup Changes(profiles[i], new))
      BY <3>1, AssignedAgrees, SameAgrees
    <3>5. QED
      BY <2>1, <3>1, <3>2, <3>3, <3>4, FreshTypes DEF Loads, Found, Removing
  <2>3. CASE Finish(r)
    BY <1>0, <2>3, FinishEffect DEF Loads, Holding, HoldingResume, Found, Removing, Extracting
  <2>4. QED
    BY <1>3, <2>2, <2>3 DEF EditProfile
<1>4. CASE BeginConfirm(r)
  <2>1. PICK i \in Existing(profiles), c \in Content :
           Goto(r, "confirm_save", [NoMem EXCEPT !.op = "confirm", !.pid = i,
                        !.doc = Confirmed(profiles[i], c),
                        !.dirty = Changes(profiles[i], Confirmed(profiles[i], c))])
    BY <1>4 DEF BeginConfirm
  <2> DEFINE new == Confirmed(profiles[i], c)
             m == [NoMem EXCEPT !.op = "confirm", !.pid = i, !.doc = new,
                                !.dirty = Changes(profiles[i], new)]
  <2>2. profiles[i] \in ProfileDoc /\ profiles[i] # None /\ UNCHANGED profiles
    BY <1>0, <1>4 DEF Existing, BeginConfirm, stores
  <2>3. new.v = profiles[i].v
    BY <2>2 DEF Confirmed, Apply, ProfileDoc
  <2>4. m.doc = new /\ m.dirty = Changes(profiles[i], new) /\ m.pid = i
    BY DEF NoMem
  <2> HIDE DEF m, new
  <2>5. pc'[r] = "confirm_save" /\ mem'[r] = m
    BY <1>0, <2>1, GotoEffect DEF m, new
  <2>6. Agrees(profiles[i], new, {} \cup Changes(profiles[i], new))
    BY <2>3, AssignedAgrees, SameAgrees
  <2>7. QED
    BY <2>2, <2>4, <2>5, <2>6 DEF Loads, Found, Removing, HoldingResume, Extracting
<1>5. CASE SaveSkills(r)
  <2>1. pc'[r] = "idle" \/ mem'[r] = mem[r]
    BY <1>0, <1>5, GotoEffect, FinishEffect DEF SaveSkills
  <2>2. pc'[r] \notin HoldingResume \cup Found
    BY <1>0, <1>5, GotoEffect, FinishEffect
       DEF SaveSkills, AfterSkills, SyncStart, HoldingResume, Found, Removing, Extracting
  <2>3. UNCHANGED profiles /\ pc[r] \in Holding
    BY <1>5 DEF SaveSkills, At, Holding
  <2>4. QED
    BY <2>1, <2>2, <2>3 DEF Loads, LoadedInv, Holding, Extracting
<1>6. CASE ConfirmResume(r)
  <2>1. /\ UNCHANGED <<profiles, resumes>> /\ pc[r] \in Holding /\ profiles[mem[r].pid] # None
        /\ Agrees(profiles[mem[r].pid], mem[r].doc, mem[r].dirty) /\ mem[r].pid \in Ids
    BY <1>0, <1>6 DEF ConfirmResume, At, Holding, LoadedInv, stores, OpInv
  <2>2. resumes[mem[r].pid] # None
    BY <2>1 DEF OwnerInv, ProfileHasResume
  <2>3. PICK i \in FindByUser(resumes) :
           IF i = NoId THEN Goto(r, SyncStart(mem[r].doc), mem[r])
           ELSE Goto(r, "save_skills", [mem[r] EXCEPT !.id = i, !.res = resumes[i]])
    BY <1>6 DEF ConfirmResume
  <2>4. i # NoId /\ i = mem[r].pid
    <3>1. i # NoId
      BY <2>1, <2>2, <2>3 DEF FindByUser, Existing, NoId, Ids
    <3>2. QED
      BY <2>1, <2>2, <2>3, <3>1, FindByUserType DEF OneResume
  <2> DEFINE m == [mem[r] EXCEPT !.id = i, !.res = resumes[i]]
  <2>5. m.doc = mem[r].doc /\ m.dirty = mem[r].dirty /\ m.pid = mem[r].pid /\ m.id = i
        /\ m.res = resumes[i]
    BY <1>0 DEF Mem
  <2> HIDE DEF m
  <2>6. pc'[r] = "save_skills" /\ mem'[r] = m
    BY <1>0, <2>3, <2>4, GotoEffect DEF m
  <2>7. QED
    BY <2>1, <2>4, <2>5, <2>6 DEF Loads, Found, Removing
<1>7. CASE UpsertPoint(r)
  <2>1. /\ UNCHANGED <<profiles, resumes>> /\ profiles[mem[r].pid] # None
        /\ Agrees(profiles[mem[r].pid], mem[r].doc, mem[r].dirty)
    BY <1>7 DEF UpsertPoint, At, Holding, LoadedInv, stores
  <2> DEFINE new == Synced(mem[r].doc)
             m == [mem[r] EXCEPT !.doc = new, !.dirty = mem[r].dirty \cup Changes(mem[r].doc, new)]
  <2>2. m.doc = new /\ m.dirty = mem[r].dirty \cup Changes(mem[r].doc, new) /\ m.pid = mem[r].pid
        /\ new.v = mem[r].doc.v
    BY <1>0 DEF Mem, Synced, ProfileDoc
  <2> HIDE DEF m, new
  <2>3. \/ pc'[r] = "save_synced" /\ mem'[r] = m
        \/ pc'[r] = "record_failure" /\ mem'[r] = mem[r]
    BY <1>0, <1>7, GotoEffect DEF UpsertPoint, m, new
  <2>4. Agrees(profiles[mem[r].pid], new, mem[r].dirty \cup Changes(mem[r].doc, new))
    BY <2>1, <2>2, AssignedAgrees
  <2>5. QED
    BY <2>1, <2>2, <2>3, <2>4 DEF Loads, Found, Removing, HoldingResume, Extracting
<1>8. CASE CreateResume(r)
  <2>1. mem[r].id = mem[r].pid /\ mem[r].id \in Ids
    BY <1>0, <1>8 DEF CreateResume, At, OpInv, Owning
  <2>2. CASE /\ resumes' = [resumes EXCEPT ![mem[r].id] = FreshResume]
             /\ Goto(r, "upsert_profile", [mem[r] EXCEPT !.res = FreshResume])
    <3>1. pc'[r] = "upsert_profile" /\ mem'[r] = [mem[r] EXCEPT !.res = FreshResume]
      BY <1>0, <2>2, GotoEffect
    <3>2. mem'[r].res = FreshResume /\ mem'[r].pid = mem[r].pid /\ mem'[r].id = mem[r].id
      BY <1>0, <3>1 DEF Mem
    <3>3. resumes'[mem[r].id] = FreshResume
      BY <1>0, <2>1, <2>2
    <3>4. QED
      BY <2>1, <3>1, <3>2, <3>3 DEF Loads, Holding, Found, Removing, Extracting
  <2>3. CASE Finish(r)
    BY <1>0, <2>3, FinishEffect DEF Loads, Holding, HoldingResume, Found, Removing, Extracting
  <2>4. QED
    BY <1>8, <2>2, <2>3 DEF CreateResume
<1>9. CASE BeginEdit(r)
  <2>1. PICK i \in Existing(resumes) :
           Goto(r, "edit_profile", [NoMem EXCEPT !.op = "edit", !.id = i,
                                                !.pid = i, !.res = resumes[i]])
    BY <1>9 DEF BeginEdit
  <2> DEFINE m == [NoMem EXCEPT !.op = "edit", !.id = i, !.pid = i, !.res = resumes[i]]
  <2>a. m.id = i /\ m.pid = i /\ m.res = resumes[i]
    BY DEF NoMem
  <2> HIDE DEF m
  <2>b. pc'[r] = "edit_profile" /\ mem'[r] = m
    BY <1>0, <2>1, GotoEffect DEF m
  <2>2. pc'[r] = "edit_profile" /\ mem'[r].id = i /\ mem'[r].pid = i /\ mem'[r].res = resumes[i]
    BY <2>a, <2>b
  <2>3. QED
    BY <1>9, <2>2 DEF Loads, Holding, Found, Removing, Extracting, Existing, BeginEdit, stores
<1>10. ASSUME pc'[r] \in Found
       PROVE  Loads(r)
  <2>1. resumes'[mem'[r].id] # None
    <3>1. CASE BeginDelete(r)
      <4>1. PICK i \in Existing(resumes) :
               Goto(r, "delete_file", [NoMem EXCEPT !.op = "delete", !.id = i])
        BY <3>1 DEF BeginDelete
      <4> DEFINE m == [NoMem EXCEPT !.op = "delete", !.id = i]
      <4>a. m.id = i
        BY DEF NoMem
      <4> HIDE DEF m
      <4>b. pc'[r] = "delete_file" /\ mem'[r] = m
        BY <1>0, <4>1, GotoEffect DEF m
      <4>2. mem'[r].id = i
        BY <4>a, <4>b
      <4>3. QED
        BY <3>1, <4>2 DEF BeginDelete, stores, Existing
    <3>2. CASE FindExisting(r)
      <4>1. PICK i \in FindByUser(resumes) :
               Goto(r, IF i # NoId THEN "find_existing_profile"
                  ELSE IF CanUpload(mem[r].count, FALSE) THEN "save_file" ELSE "idle",
               [mem[r] EXCEPT !.id = i])
        BY <3>2 DEF FindExisting
      <4> DEFINE m == [mem[r] EXCEPT !.id = i]
      <4>a. m.id = i
        BY <1>0 DEF Mem
      <4> HIDE DEF m
      <4>b. i # NoId
        BY <1>0, <1>10, <4>1, GotoEffect DEF Found, Removing
      <4>c. pc'[r] = "find_existing_profile" /\ mem'[r] = m
        BY <1>0, <4>1, <4>b, <1>10, GotoEffect DEF m, Found, Removing
      <4>2. i # NoId /\ mem'[r].id = i
        BY <4>a, <4>b, <4>c
      <4>3. QED
        BY <3>2, <4>2, FindByUserType DEF FindExisting, stores
    <3>3. CASE FindExistingProfile(r) \/ DeleteFile(r) \/ DeleteVector(r) \/ DeleteProfile(r)
      <4>1. pc[r] \in Found /\ UNCHANGED resumes
        BY <3>3 DEF FindExistingProfile, DeleteFile, DeleteVector, DeleteProfile, At, Found,
                    Removing, stores
      <4>2. mem'[r] = mem[r]
        BY <1>0, <1>10, <3>3, GotoEffect, FinishEffect
           DEF FindExistingProfile, DeleteFile, DeleteVector, DeleteProfile, Found, Removing
      <4>3. QED
        BY <4>1, <4>2 DEF LoadedInv
    <3>4. pc'[r] = "find_existing_profile" => FindExisting(r)
      BY <1>0, FoundArrives
    <3>5. QED
      BY <1>0, <1>10, <3>1, <3>2, <3>3, <3>4 DEF Arrival, Found, Removing
  <2>2. QED
    BY <1>10, <2>1 DEF Loads, Found, Removing, Holding, HoldingResume, Extracting
<1>11. CASE SaveExtracted(r) \/ SaveFailed(r) \/ EditSave(r) \/ ConfirmSave(r) \/ SaveSynced(r)
            \/ RecordFailure(r)
  BY <1>11, SavesLoad
<1>12. pc'[r] = "edit_profile" => BeginEdit(r)
  BY <1>0, FoundArrives
<1>13. CASE pc'[r] \notin Found /\ pc'[r] \in Holding \cup HoldingResume
  BY <1>0, <1>1, <1>2, <1>3, <1>4, <1>5, <1>6, <1>7, <1>8, <1>9, <1>11, <1>12, <1>13
     DEF Arrival, LateArrival, Holding, HoldingResume, Extracting
<1>14. QED
  BY <1>10, <1>13 DEF Loads

LEMMA LoadedKeeps ==
    ASSUME GroundInv, LoadedInv, OwnerInv, OneResume, WorkApart,
           NEW r \in Requests, Request(r) \/ Step(r)
    PROVE  LoadedInv'
<1>1. OthersStay(r) /\ Loads(r) /\ \A q \in Requests : OpInv(pc[q], mem[q])
  BY StepArrival, StepsLoad DEF GroundInv, LocalsInv, LocalInv
<1>2. ASSUME NEW q \in Requests \ {r}, NEW i \in Ids, WorksOn(q, i)
      PROVE  profiles'[i] = profiles[i] /\ resumes'[i] = resumes[i]
  BY <1>2, OthersWorkStays DEF WorkApart
<1>3. ASSUME NEW q \in Requests \ {r}, pc[q] \in Holding
      PROVE  mem[q].pid \in Ids /\ WorksOn(q, mem[q].pid)
  BY <1>1, <1>3 DEF Holding, OpInv, WorksOn, Owning, Extracting
<1>4. ASSUME NEW q \in Requests \ {r}, pc[q] \in HoldingResume
      PROVE  mem[q].id \in Ids /\ WorksOn(q, mem[q].id)
  BY <1>1, <1>4 DEF HoldingResume, LoadedInv, OpInv, WorksOn, Owning, Extracting
<1>5. ASSUME NEW q \in Requests \ {r}, pc[q] \in Found
      PROVE  mem[q].id \in Ids /\ WorksOn(q, mem[q].id)
  BY <1>1, <1>5 DEF Found, OpInv, WorksOn
<1>6. ASSUME NEW q \in Requests \ {r}
      PROVE  /\ pc'[q] \in Holding =>
                   /\ profiles'[mem'[q].pid] # None
                   /\ Agrees(profiles'[mem'[q].pid], mem'[q].doc, mem'[q].dirty)
             /\ pc'[q] \in HoldingResume =>
                   /\ mem'[q].id = mem'[q].pid /\ mem'[q].id \in Ids
                   /\ resumes'[mem'[q].id] = mem'[q].res
             /\ pc'[q] \in Found => resumes'[mem'[q].id] # None
  <2>1. pc'[q] = pc[q] /\ mem'[q] = mem[q]
    BY <1>1 DEF OthersStay
  <2>2. pc[q] \in Holding => profiles'[mem[q].pid] = profiles[mem[q].pid]
    BY <1>2, <1>3
  <2>3. pc[q] \in HoldingResume \cup Found => resumes'[mem[q].id] = resumes[mem[q].id]
    BY <1>2, <1>4, <1>5
  <2>4. QED
    BY <2>1, <2>2, <2>3 DEF LoadedInv
<1>7. QED
  BY <1>1, <1>6 DEF LoadedInv, Loads

LEMMA WorkApartAlways ==
    Spec /\ []WorkApart => []ExtractsApart /\ []RemovalsApart /\ []DeletesApart /\ []EditsApart
<1>1. GroundInv /\ WorkApart => ExtractsApart /\ RemovalsApart /\ DeletesApart /\ EditsApart
  BY WorkApartImplies DEF GroundInv
<1>2. QED
  BY <1>1, GroundInvHolds, PTL

LEMMA LoadedInvHolds == Spec /\ []WorkApart /\ []ProfilesApart => []LoadedInv
<1>1. Init => LoadedInv
  BY DEF Init, LoadedInv, Holding, HoldingResume, Found, Removing, Extracting
<1>2. /\ GroundInv /\ OwnerInv /\ OneResume /\ LoadedInv /\ WorkApart /\ [Next]_vars
      => LoadedInv'
  <2> SUFFICES ASSUME GroundInv, OwnerInv, OneResume, LoadedInv, WorkApart, [Next]_vars
               PROVE  LoadedInv'
    OBVIOUS
  <2>1. CASE Crash
    BY <2>1 DEF Crash, LoadedInv, Holding, HoldingResume, Found, Removing, Extracting
  <2>2. CASE UNCHANGED vars
    BY <2>2 DEF vars, stores, LoadedInv
  <2>3. QED
    BY <2>1, <2>2, LoadedKeeps DEF Next
<1>3. QED
  BY <1>1, <1>2, GroundInvHolds, OwnerInvHolds, OneResumeHolds, WorkApartAlways, PTL DEF Spec

----------------------------------------------------------------------------
(* skillsExtracted follows the profile *)

\* confirm finds the resume of the profile it has saved.
LEMMA ConfirmFinds ==
    ASSUME GroundInv, LoadedInv, OwnerInv, OneResume, NEW r \in Requests, ConfirmResume(r)
    PROVE  /\ mem[r].pid \in Ids /\ resumes[mem[r].pid] # None
           /\ Goto(r, "save_skills", [mem[r] EXCEPT !.id = mem[r].pid, !.res = resumes[mem[r].pid]])
           /\ pc'[r] = "save_skills" /\ mem'[r].pid = mem[r].pid
<1>0. TypeOK /\ LocalsInv /\ OpInv(pc[r], mem[r]) /\ mem[r] \in Mem
  BY MemType DEF GroundInv, LocalsInv, LocalInv
<1>1. mem[r].pid \in Ids /\ resumes[mem[r].pid] # None
  BY <1>0 DEF ConfirmResume, At, Holding, LoadedInv, OpInv, OwnerInv, ProfileHasResume
<1>2. PICK i \in FindByUser(resumes) :
         IF i = NoId THEN Goto(r, SyncStart(mem[r].doc), mem[r])
         ELSE Goto(r, "save_skills", [mem[r] EXCEPT !.id = i, !.res = resumes[i]])
  BY DEF ConfirmResume
<1>3. i # NoId
  BY <1>1, <1>2 DEF FindByUser, Existing, NoId, Ids
<1>4. i = mem[r].pid
  BY <1>1, <1>2, <1>3, FindByUserType DEF OneResume
<1> DEFINE m == [mem[r] EXCEPT !.id = i, !.res = resumes[i]]
<1>5. Goto(r, "save_skills", m)
  BY <1>2, <1>3
<1>6. m.pid = mem[r].pid
  BY <1>0 DEF Mem
<1>7. pc'[r] = "save_skills" /\ mem'[r].pid = m.pid
  <2> HIDE DEF m
  <2>1. pc'[r] = "save_skills" /\ mem'[r] = m
    BY <1>0, <1>5, GotoEffect
  <2>2. QED
    BY <2>1
<1>8. QED
  BY <1>1, <1>4, <1>5, <1>6, <1>7

\* resume.save() goes through, and skillsExtracted is then what the profile gives.
LEMMA SkillsSaved ==
    ASSUME GroundInv, LoadedInv, OwnerInv, NEW r \in Requests, SaveSkills(r)
    PROVE  /\ mem[r].pid \in Ids /\ UNCHANGED profiles
           /\ resumes'[mem[r].pid].skills = SkillsOf(profiles[mem[r].pid].lists)
           /\ Goto(r, AfterSkills(mem[r]), mem[r])
<1> DEFINE i == mem[r].pid
<1>0. /\ TypeOK /\ OpInv(pc[r], mem[r]) /\ DocInv(pc[r], mem[r]) /\ pc[r] = "save_skills"
      /\ mem[r] \in Mem /\ mem[r].res \in ResumeDoc
      /\ resumes \in [Ids -> ResumeDoc \cup {None}]
  BY MemType DEF GroundInv, LocalsInv, LocalInv, SaveSkills, At, Mem, TypeOK
<1>1. mem[r].id = i /\ i \in Ids /\ resumes[i] = mem[r].res /\ resumes[i] # None
  BY <1>0, FreshTypes DEF LoadedInv, HoldingResume
<1>2. mem[r].doc.lists = profiles[i].lists
  BY <1>0 DEF LoadedInv, Holding, DocInv, Agrees, SavedFields
<1>3. QED
  BY <1>0, <1>1, <1>2 DEF SaveSkills

\* What a step does to a profile that was extracted, while MongoDB answers.
LEMMA ListsStep ==
    ASSUME GroundInv, LoadedInv, OwnerInv, StageInv, NEW r \in Requests, Request(r) \/ Step(r),
           calm', NEW i \in Ids, Reviewable(i), Reviewable(i)'
    PROVE  \/ profiles'[i].lists = profiles[i].lists /\ resumes'[i] = resumes[i]
           \/ MirrorOwed(r, i)'
           \/ resumes'[i].skills = SkillsOf(profiles'[i].lists)
<1>0. /\ TypeOK /\ LocalsInv /\ OpInv(pc[r], mem[r]) /\ DocInv(pc[r], mem[r]) /\ IdsInv
      /\ profiles \in [Ids -> ProfileDoc \cup {None}] /\ profiles[i] # None
      /\ resumes \in [Ids -> ResumeDoc \cup {None}]
  BY NoStatus DEF GroundInv, LocalsInv, LocalInv, TypeOK, Reviewable
<1>1. CASE SaveExtracted(r) \/ EditSave(r) \/ ConfirmSave(r)
  <2>1. PICK ok \in {"save_skills", "confirm_resume"}, failed \in Labels :
              Outcome(r, mem[r].doc, ok, failed)
    BY <1>1, SaveOutcomes DEF Labels
  <2>2. UNCHANGED resumes
    BY <1>1 DEF SaveExtracted, EditSave, ConfirmSave, SaveProfile
  <2>3. CASE UNCHANGED profiles
    BY <2>2, <2>3
  <2>4. CASE ~UNCHANGED profiles
    <3>1. PICK new : /\ profiles' = [profiles EXCEPT ![mem[r].pid] = new] /\ pc'[r] = ok
                     /\ SameButDoc(mem[r], mem'[r])
      BY <2>1, <2>4 DEF Outcome
    <3>2. CASE mem[r].pid = i
      BY <2>1, <3>1, <3>2 DEF MirrorOwed, SameButDoc
    <3>3. CASE mem[r].pid # i
      BY <1>0, <2>2, <3>1, <3>3
    <3>4. QED
      BY <3>2, <3>3
  <2>5. QED
    BY <2>3, <2>4
<1>2. CASE SaveSynced(r) \/ RecordFailure(r)
  <2>1. PICK doc, ok, failed : Outcome(r, doc, ok, failed) /\ doc.lists = mem[r].doc.lists
    <3>1. [mem[r].doc EXCEPT !.syncError = TRUE].lists = mem[r].doc.lists
      BY <1>0, MemType DEF ProfileDoc
    <3>2. QED
      BY <1>2, <3>1, SaveOutcomes
  <2>2. UNCHANGED resumes
    BY <1>2 DEF SaveSynced, RecordFailure, SaveProfile
  <2>3. profiles[mem[r].pid].lists = mem[r].doc.lists
    BY <1>0, <1>2 DEF SaveSynced, RecordFailure, At, DocInv, LoadedInv, Holding, Agrees, SavedFields
  <2>4. UNCHANGED profiles
        \/ \E new : profiles' = [profiles EXCEPT ![mem[r].pid] = new] /\ new.lists = doc.lists
    BY <2>1 DEF Outcome, SavedFields
  <2>5. QED
    BY <1>0, <2>1, <2>2, <2>3, <2>4
<1>3. CASE SaveFailed(r)
  <2>1. mem[r].pid # i
    BY <1>3 DEF SaveFailed, At, StageInv, Extracting, Reviewable
  <2>2. /\ UNCHANGED resumes
        /\ UNCHANGED profiles \/ \E d : profiles' = [profiles EXCEPT ![mem[r].pid] = d]
    BY <1>3 DEF SaveFailed, SaveProfile
  <2>3. QED
    BY <1>0, <2>1, <2>2
<1>4. CASE DeleteProfile(r) \/ DeleteResume(r) \/ CreateResume(r) \/ UpsertProfile(r)
  <2>1. mem[r].id # i
    <3>1. CASE DeleteProfile(r) /\ mem[r].id = i
      <4>1. profiles'[i] = None
        BY <1>0, <3>1 DEF DeleteProfile
      <4>2. QED
        BY <4>1 DEF Reviewable, StatusOf
    <3>2. CASE DeleteResume(r) \/ CreateResume(r) \/ UpsertProfile(r)
      BY <1>0, <3>2 DEF DeleteResume, CreateResume, UpsertProfile, At, OwnerInv, IdsInv, Creating
    <3>3. QED
      BY <1>4, <3>1, <3>2
  <2>2. /\ UNCHANGED profiles \/ \E d : profiles' = [profiles EXCEPT ![mem[r].id] = d]
        /\ UNCHANGED resumes \/ \E d : resumes' = [resumes EXCEPT ![mem[r].id] = d]
    BY <1>4 DEF DeleteProfile, DeleteResume, CreateResume, UpsertProfile
  <2>3. QED
    BY <1>0, <2>1, <2>2
<1>5. CASE SaveSkills(r)
  <2>1. CASE mem[r].pid = i
    BY <1>5, <2>1, SkillsSaved
  <2>2. CASE mem[r].pid # i
    <3>1. mem[r].id # i
      BY <1>5, <2>2 DEF SaveSkills, At, LoadedInv, HoldingResume
    <3>2. UNCHANGED resumes \/ \E d : resumes' = [resumes EXCEPT ![mem[r].id] = d]
      BY <1>5 DEF SaveSkills
    <3>3. QED
      BY <1>0, <1>5, <3>1, <3>2, SkillsSaved
  <2>3. QED
    BY <2>1, <2>2
<1>6. CASE Request(r)
  BY <1>6 DEF Request, BeginUpload, BeginQuota, BeginDelete, BeginEdit, BeginConfirm, stores
<1>7. CASE SyncResume(r) \/ SyncProfile(r) \/ SyncReset(r) \/ FindExisting(r)
           \/ FindExistingProfile(r) \/ DeleteFile(r) \/ DeleteVector(r)
  BY <1>7 DEF SyncResume, SyncProfile, SyncReset, FindExisting, FindExistingProfile,
              DeleteFile, DeleteVector, stores
<1>8. CASE SaveFile(r) \/ Extract(r) \/ Charge(r) \/ EditProfile(r)
           \/ ConfirmResume(r) \/ UpsertPoint(r) \/ MongoError(r)
  BY <1>8 DEF SaveFile, Extract, Charge, EditProfile, ConfirmResume, UpsertPoint, MongoError, stores
<1>9. QED
  BY <1>1, <1>2, <1>3, <1>4, <1>5, <1>6, <1>7, <1>8 DEF Step

\* The request that owes the resume its skills goes on to save them.
LEMMA MirrorOwedGoesOn ==
    ASSUME GroundInv, LoadedInv, OwnerInv, OneResume, NEW r \in Requests, Request(r) \/ Step(r),
           calm', NEW i \in Ids, MirrorOwed(r, i)
    PROVE  MirrorOwed(r, i)' \/ resumes'[i].skills = SkillsOf(profiles'[i].lists)
<1>1. ConfirmResume(r) \/ SaveSkills(r)
  BY CalmStep DEF MirrorOwed, Request, BeginUpload, BeginQuota, BeginDelete, BeginEdit,
         BeginConfirm, Begin, Step, SyncResume, SyncProfile, SyncReset, FindExisting,
         FindExistingProfile, DeleteFile, DeleteVector, DeleteProfile, DeleteResume, SaveFile,
         CreateResume, UpsertProfile, Extract, SaveExtracted, SaveFailed, Charge, EditProfile,
         EditSave, ConfirmSave, UpsertPoint, SaveSynced, RecordFailure, At
<1>2. CASE ConfirmResume(r)
  BY <1>2, ConfirmFinds DEF MirrorOwed
<1>3. CASE SaveSkills(r)
  BY <1>3, SkillsSaved DEF MirrorOwed
<1>4. QED
  BY <1>1, <1>2, <1>3

LEMMA MirrorKeeps ==
    ASSUME GroundInv, LoadedInv, OwnerInv, StageInv, OneResume, MirrorInv,
           NEW r \in Requests, Request(r) \/ Step(r)
    PROVE  MirrorInv'
<1>0. TypeOK /\ LocalsInv /\ OthersStay(r) /\ Arrival(r)
  BY StepArrival DEF GroundInv
<1>1. SUFFICES ASSUME calm', NEW i \in Ids, Reviewable(i)'
               PROVE  \/ resumes'[i].skills = SkillsOf(profiles'[i].lists)
                      \/ \E q \in Requests : MirrorOwed(q, i)'
  BY DEF MirrorInv
<1>2. calm
  BY <1>1, CalmStep
<1>3. CASE ~Reviewable(i)
  <2>1. StatusOf(i)' # StatusOf(i) /\ StatusOf(i)' \notin {"processing", "none", "failed"}
    BY <1>1, <1>3 DEF Reviewable
  <2>2. /\ i = mem[r].pid
        /\ \/ SaveExtracted(r) /\ pc'[r] = "save_skills"
           \/ ConfirmSave(r) /\ pc'[r] = "confirm_resume"
    BY <1>0, <2>1, StatusStep DEF StatusChange
  <2>3. mem'[r].pid = i
    BY <1>0, <2>2 DEF Arrival, Passes, SaveExtracted, ConfirmSave, EditSave, ConfirmResume, At
  <2>4. MirrorOwed(r, i)'
    BY <2>2, <2>3 DEF MirrorOwed
  <2>5. QED
    BY <2>4
<1>4. CASE Reviewable(i)
  <2>1. resumes[i].skills = SkillsOf(profiles[i].lists) \/ \E q \in Requests : MirrorOwed(q, i)
    BY <1>2, <1>4 DEF MirrorInv
  <2>2. CASE resumes[i].skills = SkillsOf(profiles[i].lists)
    BY <1>1, <1>4, <2>2, ListsStep
  <2>3. ASSUME NEW q \in Requests, MirrorOwed(q, i)
        PROVE  MirrorOwed(q, i)' \/ resumes'[i].skills = SkillsOf(profiles'[i].lists)
    <3>1. CASE q # r
      BY <1>0, <2>3, <3>1 DEF OthersStay, MirrorOwed
    <3>2. CASE q = r
      BY <1>1, <2>3, <3>2, MirrorOwedGoesOn
    <3>3. QED
      BY <3>1, <3>2
  <2>4. QED
    BY <2>1, <2>2, <2>3
<1>5. QED
  BY <1>3, <1>4

\* Theorem: while MongoDB answers and the process lives, the skills of a resume
\* are those of its extracted profile once no request is running: under any
\* overlap in which one request at a time works on a resume.
THEOREM SkillsFollowProfile ==
    Spec /\ []WorkApart /\ []ProfilesApart => []SkillsMirrorProfile
<1>1. Init => MirrorInv
  <2> SUFFICES ASSUME Init, NEW i \in Ids PROVE ~Reviewable(i)
    BY DEF MirrorInv
  <2>1. QED
    BY FreshTypes
       DEF Init, NewAccount, LegacyFailure, Reviewable, StatusOf, ExtractionFailed, FreshProfile
<1>2. /\ GroundInv /\ OwnerInv /\ StageInv /\ OneResume /\ LoadedInv /\ MirrorInv /\ [Next]_vars
      => MirrorInv'
  <2> SUFFICES ASSUME GroundInv, OwnerInv, StageInv, OneResume, LoadedInv, MirrorInv, [Next]_vars
               PROVE  MirrorInv'
    OBVIOUS
  <2>1. CASE Crash
    BY <2>1 DEF Crash, MirrorInv
  <2>2. CASE UNCHANGED vars
    <3>1. \A i \in Ids : StatusOf(i)' = StatusOf(i)
      BY <2>2 DEF vars, stores, StatusOf
    <3>2. QED
      BY <2>2, <3>1 DEF vars, stores, MirrorInv, Reviewable, MirrorOwed
  <2>3. QED
    BY <2>1, <2>2, MirrorKeeps DEF Next
<1>3. MirrorInv => SkillsMirrorProfile
  BY DEF MirrorInv, SkillsMirrorProfile, AllIdle, MirrorOwed, At
<1>4. QED
  BY <1>1, <1>2, <1>3, GroundInvHolds, OwnerInvHolds, OneResumeHolds, WorkApartAlways,
     StageInvHolds, LoadedInvHolds, PTL DEF Spec

----------------------------------------------------------------------------
(* The vector follows the profile *)

LEMMA SyncFieldsKeep ==
    ASSUME GroundInv, SyncFieldsInv, NEW r \in Requests, Request(r) \/ Step(r)
    PROVE  SyncFieldsInv'
<1>0. /\ TypeOK /\ LocalsInv /\ OpInv(pc[r], mem[r]) /\ DocInv(pc[r], mem[r]) /\ mem[r] \in Mem
      /\ Arrival(r) /\ OthersStay(r) /\ mem[r].doc \in ProfileDoc
      /\ mem[r].dirty \in SUBSET SavedFields
      /\ profiles \in [Ids -> ProfileDoc \cup {None}]
  BY StepArrival, MemType DEF GroundInv, LocalsInv, LocalInv, TypeOK
<1>1. ASSUME pc'[r] \in {"extract", "confirm_resume", "save_skills", "upsert_point"}
      PROVE  mem'[r].dirty = {}
  BY <1>0, <1>1, LocalsKeep DEF LocalsInv, LocalInv, DocInv
<1>2. ASSUME pc'[r] = "save_extracted"
      PROVE  mem'[r].dirty \cap SyncFields = {}
  <2>1. PICK c \in Content :
           Goto(r, "save_extracted", [mem[r] EXCEPT !.doc = Extracted(mem[r].doc, c),
                           !.dirty = Changes(mem[r].doc, Extracted(mem[r].doc, c))])
    <3>1. Extract(r)
      BY <1>0, <1>2 DEF Arrival
    <3>2. ~Goto(r, "save_failed", mem[r])
      BY <1>0, <1>2, GotoEffect
    <3>3. QED
      BY <3>1, <3>2 DEF Extract
  <2> DEFINE new == Extracted(mem[r].doc, c)
             m == [mem[r] EXCEPT !.doc = new, !.dirty = Changes(mem[r].doc, new)]
  <2>2. new.hash = mem[r].doc.hash /\ new.syncError = mem[r].doc.syncError
    BY <1>0 DEF Extracted, ProfileDoc
  <2>3. m.dirty = Changes(mem[r].doc, new)
    BY <1>0 DEF Mem
  <2> HIDE DEF m, new
  <2>4. pc'[r] = "save_extracted" /\ mem'[r] = m
    BY <1>0, <2>1, GotoEffect DEF m, new
  <2>5. QED
    BY <2>2, <2>3, <2>4 DEF Changes, SyncFields
<1>3. ASSUME pc'[r] = "save_failed"
      PROVE  mem'[r].dirty \cap SyncFields = {}
  <2>1. CASE Extract(r)
    <3>0. \A m : ~Goto(r, "save_extracted", m)
      BY <1>0, <1>3, GotoEffect
    <3>1. Goto(r, "save_failed", mem[r])
      BY <2>1, <3>0 DEF Extract
    <3>2. mem'[r] = mem[r]
      BY <1>0, <3>1, GotoEffect
    <3>3. QED
      BY <2>1, <3>2 DEF Extract, At, SyncFieldsInv, Holding, Extracting
  <2>2. CASE SaveExtracted(r)
    <3> DEFINE kept == [mem[r] EXCEPT !.doc = mem[r].doc, !.dirty = mem[r].dirty]
    <3>0. kept.dirty = mem[r].dirty
      BY <1>0 DEF Mem
    <3>a. \A m : ~Goto(r, "save_skills", m)
      BY <1>0, <1>3, GotoEffect
    <3>b. Goto(r, "save_failed", kept)
      BY <2>2, <3>a DEF SaveExtracted, SaveProfile
    <3> HIDE DEF kept
    <3>c. pc'[r] = "save_failed" /\ mem'[r] = kept
      BY <1>0, <3>b, GotoEffect
    <3>1. mem'[r].dirty = mem[r].dirty
      BY <3>0, <3>c
    <3>2. QED
      BY <2>2, <3>1 DEF SaveExtracted, At, SyncFieldsInv, Holding, Extracting
  <2>3. QED
    BY <1>0, <1>3, <2>1, <2>2 DEF Arrival
<1>4. ASSUME pc'[r] = "edit_save"
      PROVE  mem'[r].dirty \cap SyncFields = {}
  <2>1. EditProfile(r) /\ CanEdit(mem[r].id)
    BY <1>0, <1>4 DEF Arrival
  <2>2. PICK c \in Content :
           Goto(r, "edit_save", [mem[r] EXCEPT !.doc = Edited(profiles[mem[r].id], c),
                   !.dirty = Changes(profiles[mem[r].id], Edited(profiles[mem[r].id], c))])
    BY <2>1 DEF EditProfile
  <2> DEFINE old == profiles[mem[r].id]
             new == Edited(old, c)
             m == [mem[r] EXCEPT !.doc = new, !.dirty = Changes(old, new)]
  <2>3. old \in ProfileDoc
    BY <1>0, <2>1, CanEditDoc
  <2>4. new.hash = old.hash /\ new.syncError = old.syncError
    <3> HIDE DEF old
    <3> SUFFICES Edited(old, c).hash = old.hash /\ Edited(old, c).syncError = old.syncError
      BY DEF new
    <3>1. QED
      BY <2>3 DEF Edited, Apply, ProfileDoc
  <2>5. m.dirty = Changes(old, new)
    BY <1>0 DEF Mem
  <2> HIDE DEF m, new
  <2>6. pc'[r] = "edit_save" /\ mem'[r] = m
    BY <1>0, <2>2, GotoEffect DEF m, new
  <2>7. QED
    BY <2>4, <2>5, <2>6 DEF Changes, SyncFields
<1>5. ASSUME pc'[r] = "confirm_save"
      PROVE  mem'[r].dirty \cap SyncFields = {}
  <2>1. BeginConfirm(r)
    BY <1>0, <1>5 DEF Arrival
  <2>2. PICK i \in Existing(profiles), c \in Content :
           Goto(r, "confirm_save", [NoMem EXCEPT !.op = "confirm", !.pid = i,
                        !.doc = Confirmed(profiles[i], c),
                        !.dirty = Changes(profiles[i], Confirmed(profiles[i], c))])
    BY <2>1 DEF BeginConfirm
  <2> DEFINE new == Confirmed(profiles[i], c)
             m == [NoMem EXCEPT !.op = "confirm", !.pid = i, !.doc = new,
                                !.dirty = Changes(profiles[i], new)]
  <2>3. profiles[i] \in ProfileDoc
    BY <1>0 DEF Existing
  <2>4. new.hash = profiles[i].hash /\ new.syncError = profiles[i].syncError
    BY <2>3 DEF Confirmed, Apply, ProfileDoc
  <2>5. m.dirty = Changes(profiles[i], new)
    BY DEF NoMem
  <2> HIDE DEF m, new
  <2>6. pc'[r] = "confirm_save" /\ mem'[r] = m
    BY <1>0, <2>2, GotoEffect DEF m, new
  <2>7. QED
    BY <2>4, <2>5, <2>6 DEF Changes, SyncFields
<1>6. pc'[r] \in Holding \ {"save_synced", "record_failure"} => mem'[r].dirty \cap SyncFields = {}
  BY <1>1, <1>2, <1>3, <1>4, <1>5 DEF Holding, Extracting
<1>7. QED
  BY <1>0, <1>6 DEF SyncFieldsInv, OthersStay

LEMMA SyncFieldsInvHolds == Spec => []SyncFieldsInv
<1>1. Init => SyncFieldsInv
  BY DEF Init, SyncFieldsInv, Holding, Extracting
<1>2. GroundInv /\ SyncFieldsInv /\ [Next]_vars => SyncFieldsInv'
  <2> SUFFICES ASSUME GroundInv, SyncFieldsInv, [Next]_vars PROVE SyncFieldsInv'
    OBVIOUS
  <2>1. CASE Crash
    BY <2>1 DEF Crash, SyncFieldsInv, Holding, Extracting
  <2>2. CASE UNCHANGED vars
    BY <2>2 DEF vars, SyncFieldsInv
  <2>3. QED
    BY <2>1, <2>2, SyncFieldsKeep DEF Next
<1>3. QED
  BY <1>1, <1>2, GroundInvHolds, PTL DEF Spec

\* What a step does to the part of a profile that its vector depends on, while
\* calls fail without effect.
VectorChange(r, i) ==
    \/ \A f \in SavedFields \ {"edits"} : profiles'[i][f] = profiles[i][f]
    \/ /\ i = mem[r].pid /\ SameButDoc(mem[r], mem'[r])
       /\ \A f \in SyncFields : profiles'[i][f] = profiles[i][f]
       /\ \/ SaveExtracted(r) /\ At(r, "save_extracted")
          \/ /\ EditSave(r) /\ pc'[r] = "save_skills" /\ mem'[r].doc = profiles'[i]
             /\ profiles'[i].status = profiles[i].status
          \/ ConfirmSave(r) /\ pc'[r] = "confirm_resume"
    \/ /\ i = mem[r].pid /\ At(r, "save_failed")
       /\ \A f \in SyncFields : profiles'[i][f] = profiles[i][f]
    \/ /\ i = mem[r].pid /\ SaveSynced(r) /\ At(r, "save_synced")
       /\ \A f \in SavedFields : profiles'[i][f] = mem[r].doc[f]
    \/ /\ i = mem[r].pid /\ RecordFailure(r)
       /\ profiles'[i].syncError = TRUE /\ profiles'[i].hash = profiles[i].hash

LEMMA VectorChanges ==
    ASSUME GroundInv, LoadedInv, SyncFieldsInv, VectorInv, NEW r \in Requests,
           Request(r) \/ Step(r), calm', calm,
           NEW i \in Ids, profiles[i] # None, profiles'[i] # None
    PROVE  VectorChange(r, i)
<1>0. /\ TypeOK /\ LocalsInv /\ OpInv(pc[r], mem[r]) /\ DocInv(pc[r], mem[r]) /\ IdsInv
      /\ profiles \in [Ids -> ProfileDoc \cup {None}] /\ mem[r].doc \in ProfileDoc
  BY MemType DEF GroundInv, LocalsInv, LocalInv, TypeOK
<1>1. CASE UNCHANGED profiles
  BY <1>1 DEF VectorChange
<1>2. ASSUME pc[r] \in Saving \ {"save_synced", "record_failure"}
      PROVE  mem[r].doc.hash = profiles[mem[r].pid].hash
             /\ mem[r].doc.syncError = profiles[mem[r].pid].syncError
  BY <1>2 DEF LoadedInv, SyncFieldsInv, Agrees, SyncFields, SavedFields, Saving, Holding, Extracting
<1>3. ASSUME NEW doc, NEW ok, NEW failed, Outcome(r, doc, ok, failed), ~UNCHANGED profiles,
             mem[r].pid = i
      PROVE  /\ pc'[r] = ok /\ \A f \in SavedFields : profiles'[i][f] = doc[f]
             /\ ok # "idle" => SameButDoc(mem[r], mem'[r]) /\ mem'[r].doc = profiles'[i]
  BY <1>0, <1>3 DEF Outcome
<1>4. CASE SaveExtracted(r) /\ ~UNCHANGED profiles /\ mem[r].pid = i
  <2>1. Outcome(r, mem[r].doc, "save_skills", "save_failed") /\ At(r, "save_extracted")
    BY <1>4, SaveOutcomes DEF SaveExtracted
  <2>2. \A f \in SyncFields : profiles'[i][f] = profiles[i][f]
    BY <1>2, <1>3, <1>4, <2>1 DEF SyncFields, SavedFields, Saving, At
  <2>3. QED
    BY <1>3, <1>4, <2>1, <2>2 DEF VectorChange
<1>5. CASE EditSave(r) /\ ~UNCHANGED profiles /\ mem[r].pid = i
  <2>1. Outcome(r, mem[r].doc, "save_skills", "idle") /\ At(r, "edit_save")
    BY <1>5, SaveOutcomes DEF EditSave
  <2>2. \A f \in SyncFields : profiles'[i][f] = profiles[i][f]
    BY <1>2, <1>3, <1>5, <2>1 DEF SyncFields, SavedFields, Saving, At
  <2>3. mem[r].doc.status = profiles[i].status
    BY <1>0, <1>5, <2>1 DEF LoadedInv, Holding, Agrees, SavedFields, DocInv, At
  <2>4. QED
    BY <1>3, <1>5, <2>1, <2>2, <2>3 DEF VectorChange, SavedFields
<1>6. CASE ConfirmSave(r) /\ ~UNCHANGED profiles /\ mem[r].pid = i
  <2>1. Outcome(r, mem[r].doc, "confirm_resume", "idle") /\ At(r, "confirm_save")
    BY <1>6, SaveOutcomes DEF ConfirmSave
  <2>2. \A f \in SyncFields : profiles'[i][f] = profiles[i][f]
    BY <1>2, <1>3, <1>6, <2>1 DEF SyncFields, SavedFields, Saving, At
  <2>3. QED
    BY <1>3, <1>6, <2>1, <2>2 DEF VectorChange
<1>7. CASE SaveFailed(r) /\ ~UNCHANGED profiles /\ mem[r].pid = i
  <2>1. Outcome(r, ExtractionFailed(mem[r].doc), "idle", "idle") /\ At(r, "save_failed")
    BY <1>7, SaveOutcomes DEF SaveFailed
  <2>2. ExtractionFailed(mem[r].doc).hash = mem[r].doc.hash
        /\ ExtractionFailed(mem[r].doc).syncError = mem[r].doc.syncError
    BY <1>0 DEF ExtractionFailed, ProfileDoc
  <2>3. \A f \in SavedFields : profiles'[i][f] = ExtractionFailed(mem[r].doc)[f]
    BY <1>3, <1>7, <2>1
  <2>4. \A f \in SyncFields : profiles'[i][f] = profiles[i][f]
    BY <1>2, <1>7, <2>1, <2>2, <2>3 DEF SyncFields, SavedFields, Saving, At
  <2>5. QED
    BY <1>7, <2>1, <2>4 DEF VectorChange
<1>8. CASE SaveSynced(r) /\ ~UNCHANGED profiles /\ mem[r].pid = i
  <2>1. Outcome(r, mem[r].doc, "idle", "record_failure") /\ At(r, "save_synced")
    BY <1>8, SaveOutcomes DEF SaveSynced
  <2>2. QED
    BY <1>3, <1>8, <2>1 DEF VectorChange
<1>9. CASE RecordFailure(r) /\ ~UNCHANGED profiles /\ mem[r].pid = i
  <2> DEFINE doc == [mem[r].doc EXCEPT !.syncError = TRUE]
  <2>1. Outcome(r, doc, "idle", "idle") /\ At(r, "record_failure")
    BY <1>9, SaveOutcomes DEF RecordFailure
  <2>2. doc.hash = mem[r].doc.hash /\ doc.syncError = TRUE
    BY <1>0 DEF ProfileDoc
  <2>3. mem[r].doc.hash = profiles[i].hash
    BY <1>9, <2>1 DEF LoadedInv, VectorInv, VectorHeld, Holding, Agrees, SavedFields, At
  <2> HIDE DEF doc
  <2>4. \A f \in SavedFields : profiles'[i][f] = doc[f]
    BY <1>3, <1>9, <2>1
  <2>5. QED
    BY <1>9, <2>2, <2>3, <2>4 DEF VectorChange, SavedFields
<1>10. CASE /\ SaveExtracted(r) \/ SaveFailed(r) \/ EditSave(r) \/ ConfirmSave(r)
               \/ SaveSynced(r) \/ RecordFailure(r)
            /\ mem[r].pid # i
  <2>1. UNCHANGED profiles \/ \E d : profiles' = [profiles EXCEPT ![mem[r].pid] = d]
    BY <1>10 DEF SaveExtracted, SaveFailed, EditSave, ConfirmSave, SaveSynced, RecordFailure,
                 SaveProfile
  <2>2. QED
    BY <1>0, <1>10, <2>1 DEF VectorChange
<1>11. CASE DeleteProfile(r) \/ UpsertProfile(r)
  <2>1. mem[r].id # i \/ UNCHANGED profiles
    BY <1>0, <1>11 DEF DeleteProfile, UpsertProfile, At, IdsInv, Creating
  <2>2. UNCHANGED profiles \/ \E d : profiles' = [profiles EXCEPT ![mem[r].id] = d]
    BY <1>11 DEF DeleteProfile, UpsertProfile
  <2>3. QED
    BY <1>0, <2>1, <2>2 DEF VectorChange
<1>12. CASE Request(r)
  BY <1>1, <1>12 DEF Request, BeginUpload, BeginQuota, BeginDelete, BeginEdit, BeginConfirm, stores
<1>13. CASE SyncResume(r) \/ SyncProfile(r) \/ SyncReset(r) \/ FindExisting(r)
           \/ FindExistingProfile(r) \/ DeleteFile(r) \/ DeleteVector(r) \/ DeleteResume(r)
           \/ CreateResume(r)
  BY <1>1, <1>13 DEF SyncResume, SyncProfile, SyncReset, FindExisting, FindExistingProfile,
              DeleteFile, DeleteVector, DeleteResume, CreateResume, stores
<1>14. CASE SaveFile(r) \/ Extract(r) \/ Charge(r) \/ EditProfile(r) \/ SaveSkills(r)
           \/ ConfirmResume(r) \/ UpsertPoint(r) \/ MongoError(r)
  BY <1>1, <1>14 DEF SaveFile, Extract, Charge, EditProfile, ConfirmResume, UpsertPoint, MongoError,
                     SaveSkills, stores
<1>15. QED
  BY <1>1, <1>4, <1>5, <1>6, <1>7, <1>8, <1>9, <1>10, <1>11, <1>12, <1>13, <1>14 DEF Step

\* Where UpsertPoint leads, and with what.
LEMMA PointUpserted ==
    ASSUME TypeOK, NEW r \in Requests, UpsertPoint(r)
    PROVE  /\ \/ /\ pc'[r] = "save_synced" /\ mem'[r].pid = mem[r].pid
                 /\ Text(mem'[r].doc) = Text(mem[r].doc) /\ mem'[r].doc.hash = Text(mem[r].doc)
                 /\ IsPointOf(point', mem[r].pid, Text(mem[r].doc))
              \/ pc'[r] = "record_failure" /\ mem'[r] = mem[r] /\ (calm' => UNCHANGED point)
<1> DEFINE new == Synced(mem[r].doc)
           m == [mem[r] EXCEPT !.doc = new, !.dirty = mem[r].dirty \cup Changes(mem[r].doc, new)]
           written == [resume |-> mem[r].pid, content |-> ContentOf(mem[r].doc)]
<1>0. Text(new) = Text(mem[r].doc) /\ new.hash = Text(mem[r].doc)
  BY MemType DEF Synced, Text, ContentOf, ProfileDoc
<1>w. IsPointOf(written, mem[r].pid, Text(mem[r].doc))
  <2>1. written \in Point
    BY MemType, SyncedType DEF Mem, Point
  <2>2. QED
    BY <2>1, FreshTypes DEF IsPointOf, Text
<1>1. m.doc = new /\ m.pid = mem[r].pid
  BY MemType DEF Mem
<1>2. CASE point' = written /\ Goto(r, "save_synced", m)
  <2> HIDE DEF m, new, written
  <2>1. pc'[r] = "save_synced" /\ mem'[r] = m
    BY <1>2, GotoEffect
  <2>2. QED
    BY <1>0, <1>w, <1>1, <1>2, <2>1
<1>3. CASE Goto(r, "record_failure", mem[r]) /\ (calm' => UNCHANGED point)
  BY <1>3, GotoEffect
<1>4. QED
  BY <1>2, <1>3 DEF UpsertPoint

\* While a request is between the upsert and the save of the metadata, nobody
\* else deletes or overwrites the user's one point.
LEMMA PointIsHeld ==
    ASSUME GroundInv, LoadedInv, OwnerInv, OneResume, WorkApart,
           NEW q \in Requests, At(q, "save_synced"), NEW r \in Requests, Request(r) \/ Step(r)
    PROVE  UNCHANGED point
<1>0. TypeOK /\ LocalsInv /\ OpInv(pc[r], mem[r]) /\ OpInv(pc[q], mem[q])
  BY DEF GroundInv, LocalsInv, LocalInv
<1>1. mem[q].pid \in Ids /\ resumes[mem[q].pid] # None /\ WorksOn(q, mem[q].pid)
  BY <1>0 DEF At, OpInv, LoadedInv, Holding, OwnerInv, ProfileHasResume, WorksOn
<1>2. SUFFICES ASSUME PointChange(r) PROVE FALSE
  BY <1>0, PointStep
<1>3. CASE DeleteVector(r)
  <2>1. mem[r].id \in Ids /\ resumes[mem[r].id] # None /\ WorksOn(r, mem[r].id) /\ q # r
    BY <1>0, <1>3 DEF DeleteVector, At, OpInv, LoadedInv, Found, Removing, WorksOn
  <2>2. QED
    BY <1>1, <2>1 DEF OneResume, WorkApart
<1>4. CASE At(r, "upsert_point")
  <2>1. mem[r].pid \in Ids /\ resumes[mem[r].pid] # None /\ WorksOn(r, mem[r].pid) /\ q # r
    BY <1>0, <1>4 DEF At, OpInv, LoadedInv, Holding, OwnerInv, ProfileHasResume, WorksOn
  <2>2. QED
    BY <1>1, <2>1 DEF OneResume, WorkApart
<1>5. QED
  BY <1>2, <1>3, <1>4 DEF PointChange

LEMMA VectorHeldKeeps ==
    ASSUME GroundInv, LoadedInv, OwnerInv, OneResume, WorkApart, VectorInv,
           NEW r \in Requests, Request(r) \/ Step(r)
    PROVE  VectorHeld'
<1>0. /\ TypeOK /\ LocalsInv /\ OpInv(pc[r], mem[r]) /\ DocInv(pc[r], mem[r])
      /\ Arrival(r) /\ LateArrival(r) /\ OthersStay(r)
  BY StepArrival, LateArrives DEF GroundInv, LocalsInv, LocalInv
<1>1. pc'[r] \in {"upsert_point", "save_synced", "record_failure"} => ~ConfirmResume(r)
  BY ConfirmFinds
<1>2. ASSUME calm', pc'[r] = "record_failure"
      PROVE  "hash" \notin mem'[r].dirty
  <2>1. CASE UpsertPoint(r)
    BY <1>0, <1>2, <2>1, PointUpserted DEF UpsertPoint, At, DocInv
  <2>2. CASE SaveSkills(r)
    <3>1. mem'[r] = mem[r]
      BY <1>0, <1>2, <2>2, SkillsSaved, GotoEffect
    <3>2. QED
      BY <1>0, <2>2, <3>1 DEF SaveSkills, At, DocInv
  <2>3. ~SaveSynced(r)
    <3>1. SaveSynced(r) => Outcome(r, mem[r].doc, "idle", "record_failure")
      BY SaveOutcomes
    <3>2. QED
      BY <1>2, <3>1 DEF Outcome
  <2>4. QED
    BY <1>0, <1>1, <1>2, <2>1, <2>2, <2>3 DEF LateArrival
<1>3. ASSUME pc'[r] \in {"upsert_point", "save_synced"}
      PROVE  QdrantEnabled /\ Text(mem'[r].doc) # NoText
  <2>1. CASE pc'[r] = "upsert_point"
    <3>1. SaveSkills(r) /\ mem[r].op # "upload" /\ mem[r].doc.status = "confirmed"
      BY <1>0, <1>1, <2>1 DEF Arrival
    <3>2. Goto(r, AfterSkills(mem[r]), mem[r])
      BY <3>1, SkillsSaved
    <3>3. mem'[r] = mem[r] /\ AfterSkills(mem[r]) = "upsert_point"
      BY <1>0, <2>1, <3>2, GotoEffect
    <3>4. QED
      BY <3>1, <3>3 DEF AfterSkills, SyncStart
  <2>2. CASE pc'[r] = "save_synced"
    BY <1>0, <2>2, PointUpserted DEF LateArrival, UpsertPoint, At, VectorInv, VectorHeld
  <2>3. QED
    BY <1>3, <2>1, <2>2
<1>4. ASSUME NEW q \in Requests, pc'[q] = "save_synced"
      PROVE  /\ IsPointOf(point', mem'[q].pid, Text(mem'[q].doc))
             /\ mem'[q].doc.hash = Text(mem'[q].doc)
  <2>1. CASE q = r
    BY <1>0, <1>4, <2>1, PointUpserted DEF LateArrival
  <2>2. CASE q # r
    <3>1. At(q, "save_synced") /\ mem'[q] = mem[q]
      BY <1>0, <1>4, <2>2 DEF OthersStay, At
    <3>2. UNCHANGED point
      BY <3>1, PointIsHeld
    <3>3. QED
      BY <3>1, <3>2 DEF VectorInv, VectorHeld
  <2>3. QED
    BY <2>1, <2>2
<1>5. calm' => calm
  BY CalmStep
<1>6. calm' => \A q \in Requests : At(q, "record_failure")' => "hash" \notin mem'[q].dirty
  BY <1>0, <1>2, <1>5 DEF VectorInv, VectorHeld, OthersStay, At
<1>7. \A q \in Requests : pc'[q] \in {"upsert_point", "save_synced"} =>
          QdrantEnabled /\ Text(mem'[q].doc) # NoText
  BY <1>0, <1>3 DEF VectorInv, VectorHeld, OthersStay
<1>8. \A q \in Requests : At(q, "save_synced")' =>
          /\ IsPointOf(point', mem'[q].pid, Text(mem'[q].doc))
          /\ mem'[q].doc.hash = Text(mem'[q].doc)
  BY <1>4 DEF At
<1>9. QED
  BY <1>6, <1>7, <1>8 DEF VectorHeld, Text

\* Which step a request takes where the vector is in its hands.
LEMMA LateStep ==
    ASSUME NEW r \in Requests, Request(r) \/ Step(r), ~MongoError(r)
    PROVE  /\ At(r, "save_synced") => SaveSynced(r)
           /\ At(r, "delete_profile") => DeleteProfile(r)
           /\ At(r, "record_failure") => RecordFailure(r)
           /\ At(r, "upsert_point") => UpsertPoint(r)
           /\ At(r, "confirm_resume") => ConfirmResume(r)
           /\ At(r, "save_skills") => SaveSkills(r)
BY DEF Request, BeginUpload, BeginQuota, BeginDelete, BeginEdit,
       BeginConfirm, Begin, Step, SyncResume, SyncProfile, SyncReset, FindExisting,
       FindExistingProfile, DeleteFile, DeleteVector, DeleteProfile, DeleteResume, SaveFile,
       CreateResume, UpsertProfile, Extract, SaveExtracted, SaveFailed, Charge, EditProfile,
       EditSave, ConfirmSave, ConfirmResume, SaveSkills, UpsertPoint, SaveSynced,
       RecordFailure, At

LEMMA DeleteVectorGoesOn ==
    ASSUME TypeOK, NEW r \in Requests, DeleteVector(r), calm', QdrantEnabled
    PROVE  \/ pc'[r] = "delete_profile" /\ mem'[r] = mem[r] /\ point' = None
           \/ UNCHANGED point
<1>1. (Goto(r, "delete_profile", mem[r]) /\ point' = None) \/ UNCHANGED point
  BY DEF DeleteVector
<1>2. QED
  BY <1>1, GotoEffect

LEMMA HashIsStoredKeeps ==
    ASSUME GroundInv, LoadedInv, OwnerInv, OneResume, OneProfile, OneProfile', WorkApart,
           SyncFieldsInv, VectorInv, NEW r \in Requests, Request(r) \/ Step(r)
    PROVE  HashIsStored'
<1>0. /\ TypeOK /\ LocalsInv /\ OpInv(pc[r], mem[r]) /\ DocInv(pc[r], mem[r]) /\ IdsInv
      /\ OthersStay(r) /\ profiles \in [Ids -> ProfileDoc \cup {None}]
  BY StepArrival DEF GroundInv, LocalsInv, LocalInv, TypeOK
<1>1. SUFFICES ASSUME calm', QdrantEnabled, NEW i \in Ids, profiles'[i] # None,
                      profiles'[i].hash # NoText
               PROVE  \/ IsPointOf(point', i, profiles'[i].hash)
                      \/ \E q \in Requests : PointHeld(q, i)'
  BY DEF HashIsStored
<1>2. calm /\ ~MongoError(r)
  BY <1>1, CalmStep
<1>3. profiles[i] # None
  <2> SUFFICES ASSUME profiles[i] = None PROVE FALSE
    OBVIOUS
  <2>a. TypeOK'
    BY <1>0, TypeKeeps
  <2>b. profiles'[i] \in ProfileDoc /\ i # NoId
    BY <1>1, <2>a DEF TypeOK, NoId, Ids
  <2>1. StatusOf(i)' # "none" /\ StatusOf(i) = "none"
    BY <1>1, <2>b DEF StatusOf, ProfileDoc, Status
  <2>2. UpsertProfile(r) /\ i = mem[r].id
    BY <1>0, <2>1, StatusStep DEF StatusChange
  <2>3. profiles'[i] = FreshProfile
    BY <1>0, <1>1, <2>2 DEF UpsertProfile
  <2>4. QED
    BY <1>1, <2>3 DEF FreshProfile
<1>4. VectorChange(r, i)
  BY <1>1, <1>2, <1>3, VectorChanges
<1>5. CASE SaveSynced(r) /\ i = mem[r].pid
  <2>1. Outcome(r, mem[r].doc, "idle", "record_failure") /\ At(r, "save_synced") /\ UNCHANGED point
    BY <1>5, SaveOutcomes DEF SaveSynced, SaveProfile
  <2>2. profiles'[i].hash = mem[r].doc.hash
    BY <1>0, <1>1, <1>5, <2>1 DEF Outcome, SavedFields
  <2>3. QED
    BY <1>5, <2>1, <2>2 DEF VectorInv, VectorHeld
<1>6. CASE ~(SaveSynced(r) /\ i = mem[r].pid)
  <2>1. profiles'[i].hash = profiles[i].hash
    BY <1>4, <1>6 DEF VectorChange, SyncFields, SavedFields
  <2>h. \/ IsPointOf(point, i, profiles'[i].hash)
        \/ \E q \in Requests : PointHeld(q, i)
    BY <1>1, <1>2, <1>3, <2>1 DEF VectorInv, HashIsStored
  <2>2. CASE UpsertPoint(r)
    <3>1. mem[r].pid = i
      BY <1>0, <1>3, <2>2 DEF UpsertPoint, At, OpInv, LoadedInv, Holding, OneProfile
    <3>2. CASE pc'[r] = "save_synced" /\ mem'[r].pid = mem[r].pid
      BY <3>1, <3>2 DEF PointHeld, At
    <3>3. CASE pc'[r] = "record_failure" /\ mem'[r] = mem[r] /\ UNCHANGED point
      <4>1. ASSUME NEW q \in Requests, PointHeld(q, i)
            PROVE  PointHeld(q, i)'
        BY <1>0, <2>2, <4>1 DEF UpsertPoint, At, OthersStay, PointHeld
      <4>2. QED
        BY <2>h, <3>3, <4>1
    <3>4. QED
      BY <1>0, <1>1, <2>2, <3>2, <3>3, PointUpserted
  <2>3. CASE DeleteVector(r)
    <3>2. mem[r].id = i
      BY <1>0, <1>3, <2>3
         DEF DeleteVector, At, LoadedInv, Found, Removing, OneResume, OpInv, OwnerInv,
             ProfileHasResume
    <3>3. CASE pc'[r] = "delete_profile" /\ mem'[r] = mem[r]
      BY <3>2, <3>3 DEF PointHeld, At
    <3>4. CASE UNCHANGED point
      <4>1. ASSUME NEW q \in Requests, PointHeld(q, i)
            PROVE  PointHeld(q, i)'
        BY <1>0, <2>3, <4>1 DEF DeleteVector, At, OthersStay, PointHeld
      <4>2. QED
        BY <2>h, <3>4, <4>1
    <3>5. QED
      BY <1>0, <1>1, <2>3, <3>3, <3>4, DeleteVectorGoesOn
  <2>4. CASE ~UpsertPoint(r) /\ ~DeleteVector(r)
    <3>1. UNCHANGED point
      BY <1>0, <2>4, PointStep DEF PointChange
    <3>2. ASSUME NEW q \in Requests, PointHeld(q, i)
          PROVE  q # r
      <4> SUFFICES ASSUME q = r PROVE FALSE
        OBVIOUS
      <4>1. SaveSynced(r) \/ (DeleteProfile(r) /\ mem[r].id = i)
        BY <1>2, <3>2, LateStep DEF PointHeld
      <4>2. ~DeleteProfile(r) \/ mem[r].id # i
        BY <1>0, <1>1 DEF DeleteProfile
      <4>3. mem[r].pid = i
        BY <3>2, <4>1, <4>2 DEF SaveSynced, At, PointHeld
      <4>4. QED
        BY <1>6, <4>1, <4>2, <4>3
    <3>3. ASSUME NEW q \in Requests, PointHeld(q, i)
          PROVE  PointHeld(q, i)'
      BY <1>0, <3>2, <3>3 DEF OthersStay, PointHeld, At
    <3>4. QED
      BY <2>h, <3>1, <3>3
  <2>5. QED
    BY <2>2, <2>3, <2>4
<1>7. QED
  BY <1>5, <1>6

\* The hash is that of the text, and there is a text.
Hashed(doc) == Text(doc) # NoText /\ doc.hash = Text(doc)

\* The request that has the vector in its hands goes on with it to the end.
LEMMA VectorOwedGoesOn ==
    ASSUME GroundInv, LoadedInv, OwnerInv, OneResume, VectorInv, QdrantEnabled,
           NEW r \in Requests, Request(r) \/ Step(r), calm',
           NEW i \in Ids, VectorOwed(r, i), profiles'[i] # None, ~profiles'[i].syncError
    PROVE  VectorOwed(r, i)' \/ Hashed(profiles'[i])
<1>0. /\ TypeOK /\ LocalsInv /\ OpInv(pc[r], mem[r]) /\ DocInv(pc[r], mem[r])
      /\ mem[r].pid = i /\ ~MongoError(r) /\ TypeOK' /\ LocalsInv'
      /\ profiles \in [Ids -> ProfileDoc \cup {None}]
  BY CalmStep, TypeKeeps, LocalsKeep DEF GroundInv, LocalsInv, LocalInv, VectorOwed, TypeOK
<1>1. CASE ConfirmResume(r)
  <2>1. pc'[r] = "save_skills" /\ mem'[r].pid = i /\ Arrival(r)
    BY <1>0, <1>1, ConfirmFinds, StepArrival
  <2>2. mem'[r].op = "confirm"
    BY <1>1, <2>1 DEF Arrival, Passes, ConfirmResume, SaveExtracted, EditSave, At
  <2>3. mem'[r].doc.status = "confirmed"
    BY <1>0, <2>1, <2>2 DEF LocalsInv, LocalInv, DocInv
  <2>4. QED
    BY <2>1, <2>2, <2>3 DEF VectorOwed, Vectoring
<1>2. CASE SaveSkills(r)
  <2>1. /\ Goto(r, AfterSkills(mem[r]), mem[r]) /\ UNCHANGED profiles
        /\ mem[r].op # "upload" /\ mem[r].doc.status = "confirmed"
    BY <1>2, SkillsSaved DEF VectorOwed, Vectoring, SaveSkills, At
  <2>2. AfterSkills(mem[r]) = SyncStart(mem[r].doc)
    BY <2>1 DEF AfterSkills
  <2>3. CASE SyncStart(mem[r].doc) # "idle"
    <3>1. pc'[r] = SyncStart(mem[r].doc) /\ mem'[r] = mem[r]
      BY <1>0, <2>1, <2>2, <2>3, GotoEffect
    <3>2. QED
      BY <1>0, <2>3, <3>1 DEF SyncStart, VectorOwed, Vectoring
  <2>4. CASE SyncStart(mem[r].doc) = "idle"
    <3>1. Text(mem[r].doc) # NoText /\ mem[r].doc.hash = Text(mem[r].doc)
      BY <2>4 DEF SyncStart
    <3>2. Agrees(profiles[i], mem[r].doc, {})
      BY <1>0, <1>2 DEF LoadedInv, Holding, SaveSkills, At, DocInv
    <3>3. profiles[i].hash = mem[r].doc.hash /\ Text(profiles[i]) = Text(mem[r].doc)
      BY <3>2 DEF Agrees, SavedFields, Text, ContentOf
    <3>4. QED
      BY <2>1, <3>1, <3>3 DEF Hashed, Text
  <2>5. QED
    BY <2>3, <2>4
<1>3. CASE UpsertPoint(r)
  BY <1>0, <1>3, PointUpserted DEF VectorOwed
<1>4. CASE SaveSynced(r)
  <2>1. Outcome(r, mem[r].doc, "idle", "record_failure") /\ At(r, "save_synced")
    BY <1>4, SaveOutcomes DEF SaveSynced
  <2>2. \A f \in SavedFields : profiles'[i][f] = mem[r].doc[f]
    BY <1>0, <2>1 DEF Outcome
  <2>3. profiles'[i].hash = mem[r].doc.hash /\ Text(profiles'[i]) = Text(mem[r].doc)
    BY <2>2 DEF SavedFields, Text, ContentOf
  <2>4. QED
    BY <2>1, <2>3 DEF VectorInv, VectorHeld, Hashed, At, Text
<1>5. CASE RecordFailure(r)
  <2> DEFINE doc == [mem[r].doc EXCEPT !.syncError = TRUE]
  <2>1. Outcome(r, doc, "idle", "idle")
    BY <1>5, SaveOutcomes
  <2>2. doc.syncError = TRUE
    BY <1>0, MemType DEF ProfileDoc
  <2> HIDE DEF doc
  <2>3. profiles'[i].syncError = TRUE
    BY <1>0, <2>1, <2>2 DEF Outcome, SavedFields
  <2>4. QED
    BY <2>3
<1>6. QED
  BY <1>0, <1>1, <1>2, <1>3, <1>4, <1>5, LateStep DEF VectorOwed, Vectoring, At

LEMMA ContentIsHashedKeeps ==
    ASSUME GroundInv, LoadedInv, OwnerInv, OneResume, StageInv,
           SyncFieldsInv, VectorInv, NEW r \in Requests, Request(r) \/ Step(r)
    PROVE  ContentIsHashed'
<1>0. /\ TypeOK /\ LocalsInv /\ OpInv(pc[r], mem[r]) /\ DocInv(pc[r], mem[r])
      /\ OthersStay(r) /\ Arrival(r) /\ profiles \in [Ids -> ProfileDoc \cup {None}]
  BY StepArrival DEF GroundInv, LocalsInv, LocalInv, TypeOK
<1>1. SUFFICES ASSUME calm', QdrantEnabled, NEW i \in Ids, StatusOf(i)' = "confirmed",
                      ~profiles'[i].syncError
               PROVE  Hashed(profiles'[i]) \/ \E q \in Requests : VectorOwed(q, i)'
  BY DEF ContentIsHashed, Hashed, Text
<1>2. calm /\ profiles'[i] # None
  BY <1>1, CalmStep DEF StatusOf
<1>3. CASE StatusOf(i) # "confirmed"
  <2>1. i = mem[r].pid /\ ConfirmSave(r) /\ pc'[r] = "confirm_resume"
    BY <1>0, <1>1, <1>3, StatusStep DEF StatusChange
  <2>2. mem'[r].pid = i
    BY <1>0, <2>1 DEF Arrival, Passes
  <2>3. VectorOwed(r, i)'
    BY <2>1, <2>2 DEF VectorOwed, Vectoring
  <2>4. QED
    BY <2>3
<1>4. CASE StatusOf(i) = "confirmed"
  <2>0. profiles[i] # None /\ VectorChange(r, i) /\ profiles[i].status = "confirmed"
    BY <1>0, <1>1, <1>2, <1>4, NoStatus, VectorChanges
  <2>1. CASE \A f \in SavedFields \ {"edits"} : profiles'[i][f] = profiles[i][f]
    <3>1. Text(profiles'[i]) = Text(profiles[i]) /\ profiles'[i].hash = profiles[i].hash
          /\ ~profiles[i].syncError
      BY <1>1, <2>1 DEF Text, ContentOf, SavedFields
    <3>2. Hashed(profiles[i]) \/ \E q \in Requests : VectorOwed(q, i)
      BY <1>1, <1>2, <1>4, <3>1 DEF VectorInv, ContentIsHashed, Hashed
    <3>3. ASSUME NEW q \in Requests, VectorOwed(q, i)
          PROVE  VectorOwed(q, i)' \/ Hashed(profiles'[i])
      <4>1. CASE q = r
        BY <1>1, <1>2, <3>3, <4>1, VectorOwedGoesOn
      <4>2. CASE q # r
        BY <1>0, <3>3, <4>2 DEF OthersStay, VectorOwed, Vectoring
      <4>3. QED
        BY <4>1, <4>2
    <3>4. QED
      BY <3>1, <3>2, <3>3 DEF Hashed
  <2>2. CASE /\ i = mem[r].pid /\ SameButDoc(mem[r], mem'[r])
             /\ EditSave(r) /\ pc'[r] = "save_skills" /\ mem'[r].doc = profiles'[i]
             /\ profiles'[i].status = profiles[i].status
    <3>1. mem'[r].pid = i /\ mem'[r].op = "edit" /\ mem'[r].doc.status = "confirmed"
      BY <1>0, <2>0, <2>2 DEF SameButDoc, EditSave, At, OpInv
    <3>2. VectorOwed(r, i)'
      BY <2>2, <3>1 DEF VectorOwed, Vectoring
    <3>3. QED
      BY <3>2
  <2>3. CASE /\ i = mem[r].pid /\ SameButDoc(mem[r], mem'[r])
             /\ ConfirmSave(r) /\ pc'[r] = "confirm_resume"
    <3>1. VectorOwed(r, i)'
      BY <2>3 DEF VectorOwed, Vectoring, SameButDoc
    <3>2. QED
      BY <3>1
  <2>4. CASE i = mem[r].pid /\ (At(r, "save_extracted") \/ At(r, "save_failed"))
    BY <1>4, <2>4 DEF StageInv, Extracting, At
  <2>5. CASE i = mem[r].pid /\ (SaveSynced(r) \/ RecordFailure(r))
    <3>1. VectorOwed(r, i)
      BY <2>5 DEF VectorOwed, SaveSynced, RecordFailure, At
    <3>2. QED
      BY <1>1, <1>2, <3>1, VectorOwedGoesOn
  <2>6. QED
    BY <2>0, <2>1, <2>2, <2>3, <2>4, <2>5 DEF VectorChange
<1>5. QED
  BY <1>3, <1>4

LEMMA VectorInvHolds == Spec /\ []WorkApart /\ []ProfilesApart => []VectorInv
<1>1. Init => VectorInv
  <2> SUFFICES ASSUME Init PROVE VectorInv
    OBVIOUS
  <2>1. ASSUME NEW i \in Ids
        PROVE  /\ profiles[i] # None => profiles[i].hash = NoText
               /\ StatusOf(i) # "confirmed"
    BY FreshTypes DEF Init, NewAccount, LegacyFailure, StatusOf, ExtractionFailed, FreshProfile
  <2>2. QED
    BY <2>1 DEF Init, VectorInv, VectorHeld, HashIsStored, ContentIsHashed, At
<1>2. /\ GroundInv /\ OwnerInv /\ StageInv /\ OneResume /\ OneProfile /\ OneProfile'
      /\ LoadedInv /\ SyncFieldsInv /\ WorkApart /\ VectorInv /\ [Next]_vars
      => VectorInv'
  <2> SUFFICES ASSUME GroundInv, OwnerInv, StageInv, OneResume, OneProfile, OneProfile',
                      LoadedInv, SyncFieldsInv, WorkApart, VectorInv, [Next]_vars
               PROVE  VectorInv'
    OBVIOUS
  <2>1. CASE Crash
    BY <2>1 DEF Crash, VectorInv, VectorHeld, HashIsStored, ContentIsHashed, At
  <2>2. CASE UNCHANGED vars
    <3>1. \A i \in Ids : StatusOf(i)' = StatusOf(i)
      BY <2>2 DEF vars, stores, StatusOf
    <3>2. QED
      BY <2>2, <3>1 DEF vars, stores, VectorInv, VectorHeld, HashIsStored, ContentIsHashed, At,
                        PointHeld, VectorOwed, Text
  <2>3. QED
    BY <2>1, <2>2, VectorHeldKeeps, HashIsStoredKeeps, ContentIsHashedKeeps DEF Next, VectorInv
<1>3. OneProfileInv => OneProfile
  BY OneProfileHolds
<1>4. QED
  BY <1>1, <1>2, <1>3, GroundInvHolds, OwnerInvHolds, OneResumeHolds, WorkApartAlways,
     StageInvHolds, LoadedInvHolds, SyncFieldsInvHolds, OneProfileInvHolds, PTL DEF Spec

\* Theorem: while calls fail without effect, MongoDB answers and the process
\* lives, the vector in Qdrant is that of the present embedding text of a
\* confirmed profile, or the profile carries the sync error, once no request is
\* running: under any overlap in which one request at a time works on a resume,
\* and whichever contents have one text.
THEOREM VectorFollowsProfile ==
    Spec /\ []WorkApart /\ []ProfilesApart => []VectorCurrentOrFlagged
<1>1. GroundInv /\ VectorInv => VectorCurrentOrFlagged
  <2> SUFFICES ASSUME GroundInv, VectorInv, calm, AllIdle, QdrantEnabled, NEW i \in Ids,
                      StatusOf(i) = "confirmed", ~profiles[i].syncError
               PROVE  IsPointOf(point, i, Text(profiles[i]))
    BY DEF VectorCurrentOrFlagged
  <2>1. \A r \in Requests : ~VectorOwed(r, i) /\ ~PointHeld(r, i)
    BY DEF AllIdle, VectorOwed, Vectoring, PointHeld, At
  <2>2. profiles[i] # None
    BY NoStatus DEF GroundInv
  <2>3. Text(profiles[i]) # NoText /\ profiles[i].hash = Text(profiles[i])
    BY <2>1 DEF VectorInv, ContentIsHashed
  <2>4. QED
    BY <2>1, <2>2, <2>3 DEF VectorInv, HashIsStored
<1>2. QED
  BY <1>1, GroundInvHolds, VectorInvHolds, PTL

----------------------------------------------------------------------------
(* The handlers implement the promise of ResumeLifecycle *)

\* r has saved its extraction and is still to charge it.
ToCharge(r) == mem[r].op = "upload" /\ pc[r] \in {"save_skills", "charge"}

EditsOf(i) == IF profiles[i] = None THEN 0 ELSE profiles[i].edits

\* A set whose members are all the same has one, or none.
LEMMA AtMostOne ==
    ASSUME NEW S, \A x, y \in S : x = y
    PROVE  Cardinality(S) = IF S = {} THEN 0 ELSE 1
<1>1. CASE S = {}
  BY <1>1, FS_EmptySet
<1>2. CASE S # {}
  <2>1. PICK x : S = {x}
    BY <1>2
  <2>2. QED
    BY <1>2, <2>1, FS_Singleton
<1>3. QED
  BY <1>1, <1>2

LEMMA OwedCount ==
    ASSUME OneUpload, OneUpload'
    PROVE  /\ Owed = IF \E r \in Requests : ToCharge(r) THEN 1 ELSE 0
           /\ Owed' = IF \E r \in Requests : ToCharge(r)' THEN 1 ELSE 0
<1> DEFINE S == {r \in Requests : mem[r].op = "upload" /\ pc[r] \in {"save_skills", "charge"}}
<1>1. Owed = Cardinality(S) /\ Owed' = Cardinality(S')
  BY DEF Owed
<1>2. \A q, r \in S : q = r
  BY DEF OneUpload
<1>3. \A q, r \in S' : q = r
  BY DEF OneUpload
<1>4. S = {} <=> ~ \E r \in Requests : ToCharge(r)
  BY DEF ToCharge
<1>5. S' = {} <=> ~ \E r \in Requests : ToCharge(r)'
  BY DEF ToCharge
<1> HIDE DEF S
<1>6. QED
  BY <1>1, <1>2, <1>3, <1>4, <1>5, AtMostOne

\* How an extraction comes to be charged, and how it goes on.
LEMMA ChargeMoves ==
    ASSUME TypeOK, LocalsInv, NEW r \in Requests, Request(r) \/ Step(r)
    PROVE  /\ ToCharge(r)' =>
                 \/ ToCharge(r)
                 \/ /\ SaveExtracted(r) /\ At(r, "save_extracted") /\ pc'[r] = "save_skills"
                    /\ Stored(r, mem[r].doc, mem[r].dirty)
           /\ ToCharge(r) /\ ~ToCharge(r)' => SaveSkills(r) \/ Charge(r) \/ MongoError(r)
<1>0. Arrival(r) /\ OpInv(pc[r], mem[r])
  BY StepArrival DEF LocalsInv, LocalInv
<1>1. ToCharge(r) => SaveSkills(r) \/ Charge(r) \/ MongoError(r)
  BY DEF ToCharge, Request, BeginUpload, BeginQuota, BeginDelete, BeginEdit,
       BeginConfirm, Begin, Step, SyncResume, SyncProfile, SyncReset, FindExisting,
       FindExistingProfile, DeleteFile, DeleteVector, DeleteProfile, DeleteResume, SaveFile,
       CreateResume, UpsertProfile, Extract, SaveExtracted, SaveFailed, EditProfile,
       EditSave, ConfirmSave, ConfirmResume, UpsertPoint, SaveSynced, RecordFailure, At
<1>2. CASE mem'[r].op = "upload" /\ pc'[r] = "save_skills"
  BY <1>0, <1>1, <1>2 DEF Arrival, Passes, OpInv, At
<1>3. CASE mem'[r].op = "upload" /\ pc'[r] = "charge"
  BY <1>0, <1>1, <1>3 DEF Arrival, Passes, ToCharge, At
<1>4. QED
  BY <1>1, <1>2, <1>3 DEF ToCharge

\* An edit that is about to be saved is one of a reviewable profile.
EditedInv ==
    \A r \in Requests, i \in Ids :
        At(r, "edit_save") /\ mem[r].pid = i =>
            StatusOf(i) \in {"ready_for_review", "confirmed", "none"}

LEMMA EditedKeeps ==
    ASSUME GroundInv, StageInv, EditedInv, NEW r \in Requests, Request(r) \/ Step(r)
    PROVE  EditedInv'
<1>0. TypeOK /\ LocalsInv /\ OthersStay(r) /\ Arrival(r)
  BY StepArrival DEF GroundInv
<1>1. SUFFICES ASSUME NEW q \in Requests, NEW i \in Ids, pc'[q] = "edit_save", mem'[q].pid = i
               PROVE  StatusOf(i)' \in {"ready_for_review", "confirmed", "none"}
  BY DEF EditedInv, At
<1>2. CASE q = r
  <2>1. /\ EditProfile(r) /\ Passes(r, "edit_profile", "edit_save") /\ CanEdit(mem[r].id)
    BY <1>0, <1>1, <1>2 DEF Arrival
  <2>2. mem[r].id = i
    BY <1>0, <1>1, <1>2, <2>1 DEF Passes, LocalsInv, LocalInv, OpInv, At
  <2>3. StatusOf(i)' = StatusOf(i)
    BY <2>1 DEF EditProfile, stores, StatusOf
  <2>4. QED
    BY <2>1, <2>2, <2>3 DEF CanEdit
<1>3. CASE q # r
  <2>1. At(q, "edit_save") /\ mem[q].pid = i
    BY <1>0, <1>1, <1>3 DEF OthersStay, At
  <2>2. StatusOf(i) \in {"ready_for_review", "confirmed", "none"}
    BY <2>1 DEF EditedInv
  <2>3. ~(UpsertProfile(r) /\ i = mem[r].id)
    BY <2>1 DEF GroundInv, EditInv, UpsertProfile, At, Creating
  <2>4. QED
    BY <2>2, <2>3, StageSteps DEF StageStep
<1>4. QED
  BY <1>2, <1>3

LEMMA EditedInvHolds == Spec /\ []ExtractsApart => []EditedInv
<1>1. Init => EditedInv
  BY DEF Init, EditedInv, At
<1>2. GroundInv /\ StageInv /\ EditedInv /\ [Next]_vars => EditedInv'
  <2> SUFFICES ASSUME GroundInv, StageInv, EditedInv, [Next]_vars PROVE EditedInv'
    OBVIOUS
  <2>1. CASE Crash
    BY <2>1 DEF Crash, EditedInv, At
  <2>2. CASE UNCHANGED vars
    <3>1. \A i \in Ids : StatusOf(i)' = StatusOf(i)
      BY <2>2 DEF vars, stores, StatusOf
    <3>2. QED
      BY <2>2, <3>1 DEF vars, EditedInv, At
  <2>3. QED
    BY <2>1, <2>2, EditedKeeps DEF Next
<1>3. QED
  BY <1>1, <1>2, GroundInvHolds, StageInvHolds, PTL DEF Spec

\* What a step does to the stage of an upload and to its edits.
Frame(i) == StatusOf(i)' = StatusOf(i) /\ EditsOf(i)' = EditsOf(i)

LifecycleChange(r, i) ==
    \/ /\ UpsertProfile(r) /\ At(r, "upsert_profile") /\ i = mem[r].id
       /\ StatusOf(i) = "none" /\ StatusOf(i)' = "processing" /\ EditsOf(i) = 0 /\ EditsOf(i)' = 0
    \/ /\ DeleteProfile(r) /\ At(r, "delete_profile") /\ i = mem[r].id
       /\ StatusOf(i) # "none" /\ StatusOf(i)' = "none" /\ EditsOf(i)' = 0
    \/ /\ At(r, "save_extracted") /\ i = mem[r].pid /\ SaveExtracted(r) /\ pc'[r] = "save_skills"
       /\ StatusOf(i) = "processing" /\ StatusOf(i)' = "ready_for_review"
       /\ EditsOf(i)' = EditsOf(i)
    \/ /\ At(r, "save_failed") /\ i = mem[r].pid
       /\ StatusOf(i) = "processing" /\ StatusOf(i)' = "failed" /\ EditsOf(i)' = EditsOf(i)
    \/ /\ At(r, "edit_save") /\ i = mem[r].pid
       /\ StatusOf(i) \in {"ready_for_review", "confirmed"} /\ StatusOf(i)' = StatusOf(i)
       /\ EditsOf(i) < EditLimit /\ EditsOf(i)' = EditsOf(i) + 1
    \/ /\ At(r, "confirm_save") /\ i = mem[r].pid
       /\ StatusOf(i) \in {"processing", "ready_for_review"} /\ StatusOf(i)' = "confirmed"
       /\ EditsOf(i)' = EditsOf(i)

LEMMA LifecycleChanges ==
    ASSUME GroundInv, StageInv, EditsInv, CountInv, EditedInv,
           NEW r \in Requests, Request(r) \/ Step(r), NEW i \in Ids
    PROVE  Frame(i) \/ LifecycleChange(r, i)
<1>0. /\ TypeOK /\ LocalsInv /\ TypeOK' /\ mem[r] \in Mem /\ mem[r].doc \in ProfileDoc
      /\ profiles \in [Ids -> ProfileDoc \cup {None}]
      /\ profiles' \in [Ids -> ProfileDoc \cup {None}]
  BY TypeKeeps, MemType DEF GroundInv, TypeOK
<1>1. (StatusOf(i) = "none" <=> profiles[i] = None) /\ i # NoId
  BY <1>0, NoStatus DEF NoId, Ids
<1>2. /\ StatusOf(i)' = "none" <=> profiles'[i] = None
      /\ profiles'[i] # None => StatusOf(i)' = profiles'[i].status
  BY <1>0, <1>1 DEF StatusOf, ProfileDoc, Status
<1>3. StageStep(r, i) /\ (StatusOf(i)' = StatusOf(i) \/ StatusChange(r, i))
  BY <1>0, StageSteps, StatusStep
<1>4. CASE profiles[i] = None /\ profiles'[i] = None
  BY <1>1, <1>2, <1>4 DEF Frame, EditsOf
<1>5. CASE profiles[i] = None /\ profiles'[i] # None
  <2>1. UpsertProfile(r) /\ i = mem[r].id /\ StatusOf(i)' = "processing"
    BY <1>1, <1>2, <1>3, <1>5 DEF StatusChange
  <2>2. profiles'[i] = FreshProfile
    BY <1>0, <1>5, <2>1 DEF UpsertProfile
  <2>3. EditsOf(i) = 0 /\ EditsOf(i)' = 0
    BY <1>5, <2>2 DEF EditsOf, FreshProfile
  <2>4. QED
    BY <1>1, <1>5, <2>1, <2>3 DEF LifecycleChange, UpsertProfile
<1>6. CASE profiles[i] # None /\ profiles'[i] = None
  <2>1. DeleteProfile(r) /\ i = mem[r].id
    BY <1>1, <1>2, <1>3, <1>6 DEF StatusChange
  <2>2. QED
    BY <1>1, <1>2, <1>6, <2>1 DEF LifecycleChange, DeleteProfile, EditsOf
<1>7. CASE profiles[i] # None /\ profiles'[i] # None
  <2>0. EditsOf(i) = profiles[i].edits /\ EditsOf(i)' = profiles'[i].edits
    BY <1>7 DEF EditsOf
  <2>1. CASE EditSave(r) /\ At(r, "edit_save") /\ i = mem[r].pid /\ EditsOf(i)' # EditsOf(i)
    <3>1. profiles'[i].edits = mem[r].doc.edits
      BY <1>0, <1>7, <2>0, <2>1, CountStep DEF GroundInv
    <3>2. mem[r].doc.edits = profiles[i].edits + 1 /\ mem[r].doc.edits <= EditLimit
      BY <1>7, <2>1 DEF CountInv, EditsInv, LocalEditsWithinLimit
    <3>3. profiles[i].edits \in Nat /\ EditLimit \in Nat
      BY <1>0, <1>7, ConstantsAssumption DEF ProfileDoc
    <3>4. StatusOf(i) \in {"ready_for_review", "confirmed"}
      BY <1>1, <1>7, <2>1 DEF EditedInv
    <3>5. StatusOf(i)' = StatusOf(i)
      BY <1>3, <2>1 DEF StatusChange, UpsertProfile, DeleteProfile, SaveExtracted, SaveFailed,
                        ConfirmSave, At
    <3>6. QED
      BY <2>0, <2>1, <3>1, <3>2, <3>3, <3>4, <3>5 DEF LifecycleChange
  <2>2. CASE EditsOf(i)' = EditsOf(i)
    <3>1. CASE StatusOf(i)' = StatusOf(i)
      BY <2>2, <3>1 DEF Frame
    <3>2. CASE StatusOf(i)' # StatusOf(i)
      <4>1. /\ i = mem[r].pid
            /\ \/ SaveExtracted(r) /\ StatusOf(i)' = "ready_for_review" /\ pc'[r] = "save_skills"
               \/ SaveFailed(r) /\ StatusOf(i)' = "failed"
               \/ ConfirmSave(r) /\ StatusOf(i)' = "confirmed"
        BY <1>1, <1>2, <1>3, <1>7, <3>2 DEF StatusChange, UpsertProfile, Duplicate, GroundInv,
                                            IdsInv, Creating, At
      <4>2. /\ SaveExtracted(r) => At(r, "save_extracted")
            /\ SaveFailed(r) => At(r, "save_failed")
            /\ ConfirmSave(r) => At(r, "confirm_save")
        BY DEF SaveExtracted, SaveFailed, ConfirmSave
      <4>3. StatusOf(i) \in Status \cup {"none"}
        BY <1>0, NoStatus
      <4>4. At(r, "save_extracted") \/ At(r, "save_failed") => StatusOf(i) = "processing"
        BY <1>1, <1>7, <4>1 DEF StageInv, Extracting, At
      <4>5. At(r, "confirm_save") => StatusOf(i) \in {"processing", "ready_for_review"}
        BY <1>1, <1>7, <3>2, <4>1, <4>2, <4>3 DEF StageInv, At, Status
      <4>6. QED
        BY <2>2, <4>1, <4>2, <4>4, <4>5 DEF LifecycleChange
    <3>3. QED
      BY <3>1, <3>2
  <2>3. QED
    BY <1>0, <1>7, <2>0, <2>1, <2>2, CountStep DEF GroundInv
<1>8. QED
  BY <1>4, <1>5, <1>6, <1>7

LifecycleInv == GroundInv /\ StageInv /\ EditsInv /\ CountInv /\ EditedInv /\ QuotaInv /\ SyncInv

\* A step that changes no stage and no edit count: the charge, its loss, the
\* reset, or nothing.
LEMMA CountIsPromised ==
    ASSUME LifecycleInv, OneUpload, OneUpload', NEW r \in Requests, Request(r) \/ Step(r),
           \A i \in Ids : Frame(i)
    PROVE  [Lifecycle!Next]_(Lifecycle!vars)
<1>0. TypeOK /\ LocalsInv /\ OthersStay(r) /\ Arrival(r)
  BY StepArrival DEF LifecycleInv, GroundInv
<1>1. /\ [i \in Ids |-> StatusOf(i)'] = [i \in Ids |-> StatusOf(i)]
      /\ [i \in Ids |-> IF profiles'[i] = None THEN 0 ELSE profiles'[i].edits]
         = [i \in Ids |-> IF profiles[i] = None THEN 0 ELSE profiles[i].edits]
  BY DEF Frame, EditsOf
<1>2. ToCharge(r)' => ToCharge(r)
  <2> SUFFICES ASSUME SaveExtracted(r), At(r, "save_extracted"), Stored(r, mem[r].doc, mem[r].dirty)
               PROVE  FALSE
    BY <1>0, ChargeMoves
  <2>1. /\ mem[r].pid \in Ids /\ mem[r].doc \in ProfileDoc /\ mem[r].doc.status = "ready_for_review"
        /\ "status" \in mem[r].dirty
    BY <1>0, SavingIds, MemType DEF At, Saving, LocalsInv, LocalInv, DocInv
  <2>2. PICK i \in Ids : i = mem[r].pid
    BY <2>1
  <2>3. StatusOf(i)' = "ready_for_review"
    BY <1>0, <2>1, <2>2, StoredStatus
  <2>4. StatusOf(i) \in {"processing", "none"}
    BY <2>2 DEF LifecycleInv, StageInv, Extracting, At
  <2>5. QED
    BY <2>3, <2>4 DEF Frame
<1>3. ASSUME ToCharge(r) <=> ToCharge(r)'
      PROVE  Owed' = Owed
  <2>1. (\E q \in Requests : ToCharge(q)) <=> (\E q \in Requests : ToCharge(q)')
    BY <1>0, <1>3 DEF ToCharge, OthersStay
  <2>2. QED
    BY <2>1, OwedCount
<1>4. ASSUME ToCharge(r), ~ToCharge(r)'
      PROVE  Owed = 1 /\ Owed' = 0
  <2>1. \A q \in Requests : ~ToCharge(q)'
    BY <1>0, <1>4 DEF ToCharge, OthersStay, OneUpload
  <2>2. QED
    BY <1>4, <2>1, OwedCount
<1>5. CASE UNCHANGED uploadCount
  <2>1. CASE ToCharge(r) <=> ToCharge(r)'
    BY <1>1, <1>3, <1>5, <2>1 DEF Lifecycle!vars
  <2>2. CASE ToCharge(r) /\ ~ToCharge(r)'
    <3>1. Lifecycle!Forgo
      BY <1>1, <1>4, <1>5, <2>2 DEF Lifecycle!Forgo
    <3>2. QED
      BY <3>1 DEF Lifecycle!Next
  <2>3. QED
    BY <1>2, <2>1, <2>2
<1>6. CASE SyncReset(r) /\ At(r, "sync_reset") /\ uploadCount' = 0
  <2>1. Owed' = Owed
    BY <1>2, <1>3, <1>6 DEF ToCharge, At
  <2>2. \A i \in Ids : StatusOf(i) \in {"failed", "none"}
    BY <1>6 DEF LifecycleInv, SyncInv
  <2>3. Lifecycle!Reset
    BY <1>1, <1>6, <2>1, <2>2 DEF Lifecycle!Reset, Lifecycle!Reviewed
  <2>4. QED
    BY <2>3 DEF Lifecycle!Next
<1>7. CASE /\ Charge(r) /\ At(r, "charge") /\ uploadCount' = uploadCount + 1
           /\ pc'[r] = "idle" /\ mem'[r] = NoMem
  <2>1. ToCharge(r) /\ ~ToCharge(r)'
    BY <1>0, <1>7 DEF ToCharge, At, LocalsInv, LocalInv, OpInv, Owning, NoMem
  <2>2. Lifecycle!Charge
    BY <1>1, <1>4, <1>7, <2>1 DEF Lifecycle!Charge
  <2>3. QED
    BY <2>2 DEF Lifecycle!Next
<1>8. QED
  BY <1>0, <1>5, <1>6, <1>7, QuotaStep DEF CountChange

\* A step that changes the stage or the edits of an upload.
LEMMA StageIsPromised ==
    ASSUME LifecycleInv, OneProfile, OneProfile', OneUpload, OneUpload',
           NEW r \in Requests, Request(r) \/ Step(r), NEW i \in Ids, LifecycleChange(r, i)
    PROVE  [Lifecycle!Next]_(Lifecycle!vars)
<1>0. TypeOK /\ LocalsInv /\ OthersStay(r) /\ Arrival(r)
  BY StepArrival DEF LifecycleInv, GroundInv
<1>1. \A j \in Ids \ {i} : StatusOf(j)' = StatusOf(j) /\ EditsOf(j)' = EditsOf(j)
  <2> SUFFICES ASSUME NEW j \in Ids \ {i}, LifecycleChange(r, j) PROVE FALSE
    BY LifecycleChanges DEF LifecycleInv, Frame
  <2>1. QED
    BY DEF LifecycleChange, At
<1>2. UNCHANGED uploadCount
  BY <1>0, QuotaStep DEF CountChange, LifecycleChange, At
<1>3. ~ToCharge(r)
  BY DEF LifecycleChange, ToCharge, At
<1>4. CASE ~At(r, "save_extracted")
  <2>1. Owed' = Owed
    <3>1. ~ToCharge(r)'
      BY <1>0, <1>3, <1>4, ChargeMoves
    <3>2. (\E q \in Requests : ToCharge(q)) <=> (\E q \in Requests : ToCharge(q)')
      BY <1>0, <1>3, <3>1 DEF ToCharge, OthersStay
    <3>3. QED
      BY <3>2, OwedCount
  <2>2. CASE /\ UpsertProfile(r) /\ At(r, "upsert_profile")
             /\ StatusOf(i) = "none" /\ StatusOf(i)' = "processing"
             /\ EditsOf(i) = 0 /\ EditsOf(i)' = 0
    <3>1. \A j \in Ids : StatusOf(j) = "none"
      <4> SUFFICES ASSUME NEW j \in Ids, StatusOf(j) # "none", j # i PROVE FALSE
        BY <2>2
      <4>1. StatusOf(j)' # "none"
        BY <1>1
      <4>2. profiles'[i] # None /\ profiles'[j] # None
        BY <2>2, <4>1 DEF StatusOf
      <4>3. QED
        BY <4>2 DEF OneProfile
    <3>2. Below(uploadCount)
      <4>1. mem[r].op = "upload" /\ pc[r] \in Admitted
        BY <1>0, <2>2 DEF LocalsInv, LocalInv, OpInv, Owning, At, Admitted, Creating
      <4>2. Below(mem[r].count) /\ uploadCount <= mem[r].count
        BY <4>1 DEF LifecycleInv, QuotaInv
      <4>3. QED
        BY <1>0, <4>2, CountTypes DEF Below
    <3>3. Lifecycle!Upload(i)
      BY <1>1, <1>2, <2>1, <2>2, <3>1, <3>2 DEF Lifecycle!Upload, Below, EditsOf
    <3>4. QED
      BY <3>3 DEF Lifecycle!Next
  <2>3. CASE StatusOf(i) # "none" /\ StatusOf(i)' = "none" /\ EditsOf(i)' = 0
    <3>1. Lifecycle!Remove(i)
      BY <1>1, <1>2, <2>1, <2>3 DEF Lifecycle!Remove, EditsOf
    <3>2. QED
      BY <3>1 DEF Lifecycle!Next
  <2>4. CASE /\ StatusOf(i) = "processing" /\ StatusOf(i)' = "failed"
             /\ EditsOf(i)' = EditsOf(i)
    <3>1. Lifecycle!ExtractionFailed(i)
      BY <1>1, <1>2, <2>1, <2>4 DEF Lifecycle!ExtractionFailed, EditsOf
    <3>2. QED
      BY <3>1 DEF Lifecycle!Next
  <2>5. CASE /\ StatusOf(i) \in {"ready_for_review", "confirmed"} /\ StatusOf(i)' = StatusOf(i)
             /\ EditsOf(i) < EditLimit /\ EditsOf(i)' = EditsOf(i) + 1
    <3>1. Lifecycle!Edit(i)
      BY <1>1, <1>2, <2>1, <2>5 DEF Lifecycle!Edit, Lifecycle!Reviewed, EditsOf
    <3>2. QED
      BY <3>1 DEF Lifecycle!Next
  <2>6. CASE /\ StatusOf(i) \in {"processing", "ready_for_review"} /\ StatusOf(i)' = "confirmed"
             /\ EditsOf(i)' = EditsOf(i)
    <3>1. Lifecycle!Confirm(i)
      BY <1>1, <1>2, <2>1, <2>6 DEF Lifecycle!Confirm, EditsOf
    <3>2. QED
      BY <3>1 DEF Lifecycle!Next
  <2>7. QED
    BY <1>4, <2>2, <2>3, <2>4, <2>5, <2>6 DEF LifecycleChange
<1>5. CASE At(r, "save_extracted")
  <2>1. /\ SaveExtracted(r) /\ pc'[r] = "save_skills"
        /\ StatusOf(i) = "processing" /\ StatusOf(i)' = "ready_for_review"
        /\ EditsOf(i)' = EditsOf(i)
    BY <1>5 DEF LifecycleChange, At
  <2>2. mem[r].op = "upload" /\ mem'[r].op = "upload"
    BY <1>0, <1>5, <2>1 DEF LocalsInv, LocalInv, OpInv, Owning, Extracting, At, Arrival, Passes,
                            EditSave, ConfirmResume
  <2>3. \A q \in Requests : ~ToCharge(q)
    BY <1>3, <2>2 DEF OneUpload, ToCharge
  <2>4. ToCharge(r)'
    BY <2>1, <2>2 DEF ToCharge
  <2>5. Owed = 0 /\ Owed' = 1
    BY <2>3, <2>4, OwedCount
  <2>6. /\ [j \in Ids |-> StatusOf(j)']
           = [[j \in Ids |-> StatusOf(j)] EXCEPT ![i] = "ready_for_review"]
        /\ [j \in Ids |-> IF profiles'[j] = None THEN 0 ELSE profiles'[j].edits]
           = [j \in Ids |-> IF profiles[j] = None THEN 0 ELSE profiles[j].edits]
    BY <1>1, <2>1 DEF EditsOf
  <2>7. Owed' = Owed + 1
    BY <2>5
  <2>8. Lifecycle!Extracted(i)
    BY <1>2, <2>1, <2>6, <2>7 DEF Lifecycle!Extracted
  <2>9. QED
    BY <2>8 DEF Lifecycle!Next
<1>6. QED
  BY <1>4, <1>5

LEMMA CrashIsPromised ==
    ASSUME OneUpload, OneUpload', Crash
    PROVE  [Lifecycle!Next]_(Lifecycle!vars)
<1>1. UNCHANGED <<uploadCount, profiles>>
  BY DEF Crash, stores
<1>2. \A i \in Ids : StatusOf(i)' = StatusOf(i) /\ EditsOf(i)' = EditsOf(i)
  BY <1>1 DEF StatusOf, EditsOf
<1>3. Owed' = 0 /\ Owed \in {0, 1}
  BY OwedCount DEF Crash, ToCharge
<1>4. CASE Owed = 0
  BY <1>1, <1>2, <1>3, <1>4 DEF Lifecycle!vars, EditsOf
<1>5. CASE Owed = 1
  <2>1. Lifecycle!Forgo
    BY <1>1, <1>2, <1>3, <1>5 DEF Lifecycle!Forgo, EditsOf
  <2>2. QED
    BY <2>1 DEF Lifecycle!Next
<1>6. QED
  BY <1>3, <1>4, <1>5

LEMMA InitIsPromised == Init => Lifecycle!Init
<1> SUFFICES ASSUME Init PROVE Lifecycle!Init
  OBVIOUS
<1>1. Owed = 0
  <2>1. {r \in Requests : mem[r].op = "upload" /\ pc[r] \in {"save_skills", "charge"}} = {}
    BY DEF Init, NoMem
  <2>2. QED
    BY <2>1, FS_EmptySet DEF Owed
<1>2. uploadCount \in 0..UploadLimit
  BY ConstantsAssumption DEF Init, NewAccount, LegacyFailure
<1>3. CASE NewAccount
  <2>1. \A i \in Ids : StatusOf(i) = "none" /\ EditsOf(i) = 0
    BY <1>3 DEF NewAccount, StatusOf, EditsOf
  <2>2. QED
    BY <1>1, <1>2, <2>1 DEF Lifecycle!Init, EditsOf
<1>4. CASE LegacyFailure
  <2> DEFINE failed == ExtractionFailed(FreshProfile)
  <2>1. failed.status = "failed" /\ failed.edits = 0 /\ failed # None
    BY FreshTypes, ExtractionFailedType DEF ExtractionFailed, FreshProfile
  <2>2. profiles = [i \in Ids |-> IF i = 1 THEN failed ELSE None]
    BY <1>4 DEF LegacyFailure
  <2> HIDE DEF failed
  <2>3. \A i \in Ids : /\ StatusOf(i) = (IF i = 1 THEN "failed" ELSE "none")
                       /\ EditsOf(i) = 0
    BY <2>1, <2>2 DEF StatusOf, EditsOf, NoId
  <2>4. QED
    BY <1>1, <1>2, <2>3 DEF Lifecycle!Init, EditsOf
<1>5. QED
  BY <1>3, <1>4 DEF Init

LEMMA NextIsPromised ==
    ASSUME LifecycleInv, OneProfile, OneProfile', OneUpload, OneUpload', [Next]_vars
    PROVE  [Lifecycle!Next]_(Lifecycle!vars)
<1>1. CASE UNCHANGED vars
  <2>1. Owed' = Owed /\ \A i \in Ids : StatusOf(i)' = StatusOf(i) /\ EditsOf(i)' = EditsOf(i)
    BY <1>1 DEF vars, stores, Owed, StatusOf, EditsOf
  <2>2. QED
    BY <1>1, <2>1 DEF vars, Lifecycle!vars, EditsOf
<1>2. CASE Crash
  BY <1>2, CrashIsPromised
<1>3. ASSUME NEW r \in Requests, Request(r) \/ Step(r)
      PROVE  [Lifecycle!Next]_(Lifecycle!vars)
  <2>1. CASE \A i \in Ids : Frame(i)
    BY <1>3, <2>1, CountIsPromised
  <2>2. ASSUME NEW i \in Ids, ~Frame(i)
        PROVE  [Lifecycle!Next]_(Lifecycle!vars)
    BY <1>3, <2>2, LifecycleChanges, StageIsPromised DEF LifecycleInv
  <2>3. QED
    BY <2>1, <2>2
<1>4. QED
  BY <1>1, <1>2, <1>3 DEF Next

\* Theorem: the handlers implement the promise of ResumeLifecycle. Whatever
\* fails and wherever the process dies, each step of a request is a step of
\* the promise or leaves it alone, as long as no two requests upload, sync the
\* quota, extract, remove or edit at a time.
THEOREM ImplementsResumeLifecycle ==
    ASSUME UploadLimit > 0
    PROVE  /\ Spec /\ []OneUpload /\ []SyncsApart
           /\ []ExtractsApart /\ []RemovalsApart /\ []EditsApart
           => ImplementsLifecycle
<1>1. OneUpload /\ RemovalsApart => ProfilesApart
  BY DEF ProfilesApart
<1>2. OneProfileInv => OneProfile
  BY OneProfileHolds
<1>3. GroundInv /\ StageInv /\ EditsInv /\ CountInv /\ EditedInv /\ QuotaInv /\ SyncInv
      => LifecycleInv
  BY DEF LifecycleInv
<1>4. /\ LifecycleInv /\ OneProfile /\ OneProfile' /\ OneUpload /\ OneUpload' /\ [Next]_vars
      => [Lifecycle!Next]_(Lifecycle!vars)
  BY NextIsPromised
<1>5. QED
  BY <1>1, <1>2, <1>3, <1>4, InitIsPromised, GroundInvHolds, StageInvHolds, EditsInvHolds,
     CountInvHolds, EditedInvHolds, QuotaInvHolds, SyncInvHolds, OneProfileInvHolds, PTL
     DEF Spec, Lifecycle!Spec, ImplementsLifecycle

----------------------------------------------------------------------------
(* One request at a time *)

\* Theorem: when the user's requests follow one another, each property holds
\* without a condition on overlaps, whatever fails and wherever the process
\* dies, for every limit, every content and any number of requests in a row.
THEOREM SerialRequests ==
    ASSUME \A q, r \in Requests : q = r, UploadLimit > 0
    PROVE  Spec => /\ []ProfileHasResume
                   /\ []PointHasConfirmedProfile
                   /\ []UploadCountWithinLimit
                   /\ []FailedUploadCanBeReplaced
                   /\ []CountCoversResume
                   /\ ResetOnlyWithoutSuccessfulUpload
                   /\ FailedIsNotConfirmed
                   /\ EveryEditIsCounted
                   /\ []SkillsMirrorProfile
                   /\ []VectorCurrentOrFlagged
                   /\ ImplementsLifecycle
<1>1. OneUpload /\ EditsApart
  BY DEF OneUpload, EditsApart
<1>2. RemovalsApart /\ ExtractsApart
  BY DEF RemovalsApart, ExtractsApart, Extracting, At
<1>3. DeletesApart
  BY DEF DeletesApart, Vectoring, At
<1>4. SyncsApart /\ SkillsApart
  BY DEF SyncsApart, SkillsApart, Owning, Extracting, At
<1>5. ProfilesApart
  BY <1>1, <1>2 DEF ProfilesApart
<1>6. WorkApart
  BY DEF WorkApart
<1>7. QED
  BY <1>1, <1>2, <1>3, <1>4, <1>5, <1>6, NoOrphanProfile, PointIsOfConfirmed, CountWithinLimit,
     FailedUploadIsReplaceable, SuccessIsCharged, ResetIsDeserved, FailureStays,
     SavedEditsAreCounted, SkillsFollowProfile, VectorFollowsProfile, ImplementsResumeLifecycle,
     PTL

=============================================================================
