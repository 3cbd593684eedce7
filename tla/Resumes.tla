------------------------------ MODULE Resumes ------------------------------
(***************************************************************************)
(* One user's resume, its extracted profile, the stored PDF and the vector *)
(* point, under the endpoints of the resumes module.  A handler is a       *)
(* sequence of steps, one per call it awaits (MongoDB, object storage,     *)
(* Gemini, Qdrant): the code between two awaits runs in one piece, and     *)
(* other requests run between two steps.                                   *)
(***************************************************************************)
EXTENDS Naturals, FiniteSets

CONSTANTS
    Requests,       \* request slots: how many requests can be in flight
    MaxUploads,     \* bound: how many files are ever stored
    UploadLimit,    \* DEFAULT_RESUME_UPLOAD_LIMIT or RESUME_UPLOAD_LIMIT_PRO
    Unlimited,      \* the enterprise plan: getUploadLimit returns null
    EditLimit,      \* PROFILE_EDIT_LIMIT
    Values,         \* non-empty contents of a field
    Blank,          \* the empty text or the empty list
    None,           \* no document, no point
    EmbeddingText(_),  \* build: the text a content is embedded as
    SkillsOf(_),    \* dedupeSkills: the entries of skills and technologies
    UniqueIndex,    \* the unique indexes of the schemas exist (autoIndex)
    QdrantEnabled,  \* QDRANT_ENABLED
    Faults,         \* the services whose calls may fail
    Crashes,        \* the process may die and be restarted
    Ops             \* the endpoints clients call

VARIABLES
    uploadCount,    \* users.resumeUploadCount
    resumes,        \* collection resumes, by resume id
    profiles,       \* collection resume_profiles, by resumeId
    files,          \* the ids whose PDF is in storage
    point,          \* the user's point in the Qdrant collection
    lastId,         \* ids up to this one have been given to an upload
    calm,           \* no MongoDB call has failed, no call has failed after its
                    \* effect, and no restart was due yet: not kept by the code
    pc,             \* the next step of each request
    mem             \* the local variables of each request

stores == <<resumes, profiles, files, point>>
vars == <<uploadCount, stores, lastId, calm, pc, mem>>

----------------------------------------------------------------------------
(* The data *)

\* One id stands for an upload's resume _id, its storage path and the
\* resumeId of its profile.
Ids == 1..MaxUploads
NoId == 0

\* The fields of a profile, in two groups: the scalars (summary, years) and
\* the arrays (skills, technologies, experience, ...).  Mongoose checks a
\* document's version when a save writes a whole array, and only then.
Field == Values \cup {Blank}
Content == [text: Field, lists: Field]
BlankContent == [text |-> Blank, lists |-> Blank]

Status == {"processing", "ready_for_review", "confirmed", "failed"}

\* Neither function has to tell two contents apart: build merges skills with
\* technologies, as dedupeSkills does, and cuts the text at 12,000 characters.
Texts == {EmbeddingText(c) : c \in Content}
NoText == EmbeddingText(BlankContent)
Skills == {SkillsOf(l) : l \in Field}

ResumeDoc == [skills: Skills, v: Nat]
FreshResume == [skills |-> SkillsOf(Blank), v |-> 0]

\* hash: embeddingTextHash, as the text it is the SHA-256 of.  It is set
\* together with qdrantSyncedAt; NoText when both are unset, which is never
\* hashed because an empty text is not embedded.
ProfileDoc == [status: Status, text: Field, lists: Field, edits: Nat,
               syncError: BOOLEAN, hash: Texts, v: Nat]
FreshProfile == [status |-> "processing", text |-> Blank, lists |-> Blank,
                 edits |-> 0, syncError |-> FALSE, hash |-> NoText, v |-> 0]

\* content: the profile as it was when its vector was computed.  The vector is
\* that of its text; the payload holds some of its fields as they are.
Point == [resume: Ids \cup {NoId}, content: Content]

ASSUME ConstantsAssumption ==
    /\ MaxUploads \in Nat \ {0}
    /\ UploadLimit \in Nat
    /\ EditLimit \in Nat
    /\ None \notin ResumeDoc \cup ProfileDoc \cup Point

Existing(docs) == {i \in Ids : docs[i] # None}

\* findOne({ userId }): any document of the user, or none.
FindByUser(docs) == IF Existing(docs) = {} THEN {NoId} ELSE Existing(docs)

ContentOf(doc) == [text |-> doc.text, lists |-> doc.lists]
Text(doc) == EmbeddingText(ContentOf(doc))

----------------------------------------------------------------------------
(* Requests *)

Labels == {"idle", "sync_resume", "sync_profile", "sync_reset",
           "find_existing", "find_existing_profile", "delete_file",
           "delete_vector", "delete_profile", "delete_resume", "save_file",
           "create_resume", "upsert_profile", "extract", "save_extracted",
           "save_failed", "save_skills", "charge", "edit_profile",
           "edit_save", "confirm_save", "confirm_resume", "upsert_point",
           "save_synced", "record_failure"}

SavedFields == {"status", "text", "lists", "edits", "syncError", "hash"}

\* id: the resume the handler works on; pid: the profile it has loaded; count:
\* the upload count it has read; res and doc: the loaded documents; dirty: the
\* paths of doc assigned since it was loaded or saved.
Mem == [op: {"none", "upload", "quota", "delete", "edit", "confirm"},
        id: Ids \cup {NoId}, pid: Ids \cup {NoId}, count: Nat,
        res: ResumeDoc, doc: ProfileDoc, dirty: SUBSET SavedFields]
NoMem == [op |-> "none", id |-> NoId, pid |-> NoId, count |-> 0,
          res |-> FreshResume, doc |-> FreshProfile, dirty |-> {}]

At(r, label) == pc[r] = label

\* The request goes on with its next step, or ends and forgets its locals.
Goto(r, label, m) ==
    /\ pc' = [pc EXCEPT ![r] = label]
    /\ mem' = [mem EXCEPT ![r] = IF label = "idle" THEN NoMem ELSE m]

Finish(r) == Goto(r, "idle", NoMem)

Begin(r, op) == At(r, "idle") /\ op \in Ops

----------------------------------------------------------------------------
(* Mongoose documents: save() writes the assigned paths, fails when the    *)
(* document is gone, and, when it writes a whole array, when the stored    *)
(* version is no longer the loaded one.                                    *)

Changes(old, new) ==
    {f \in SavedFields : new[f] # old[f]}

CanSave(i, doc, dirty) ==
    /\ profiles[i] # None
    /\ "lists" \in dirty => profiles[i].v = doc.v

NextVersion(v, dirty) == IF "lists" \in dirty THEN v + 1 ELSE v

Written(stored, doc, dirty) ==
    [status    |-> IF "status" \in dirty THEN doc.status ELSE stored.status,
     text      |-> IF "text" \in dirty THEN doc.text ELSE stored.text,
     lists     |-> IF "lists" \in dirty THEN doc.lists ELSE stored.lists,
     edits     |-> IF "edits" \in dirty THEN doc.edits ELSE stored.edits,
     syncError |-> IF "syncError" \in dirty THEN doc.syncError ELSE stored.syncError,
     hash      |-> IF "hash" \in dirty THEN doc.hash ELSE stored.hash,
     v         |-> NextVersion(stored.v, dirty)]

\* profile.save(): the request goes on at label ok, or at label failed with
\* its assignments still to be saved.
SaveProfile(r, doc, dirty, ok, failed) ==
    LET m == mem[r] IN
    /\ \/ /\ CanSave(m.pid, doc, dirty)
          /\ profiles' = [profiles EXCEPT
                             ![m.pid] = Written(profiles[m.pid], doc, dirty)]
          /\ Goto(r, ok, [m EXCEPT !.doc = [doc EXCEPT !.v = NextVersion(doc.v, dirty)],
                                   !.dirty = {}])
          /\ UNCHANGED calm
       \/ /\ \/ ~CanSave(m.pid, doc, dirty) /\ UNCHANGED calm
             \/ "mongo" \in Faults /\ calm' = FALSE
          /\ Goto(r, failed, [m EXCEPT !.doc = doc, !.dirty = dirty])
          /\ UNCHANGED profiles
    /\ UNCHANGED <<uploadCount, resumes, files, point, lastId>>

----------------------------------------------------------------------------
(* Quota: getUploadLimit, canUpload, syncUploadCountWithResumeState        *)

\* Mutant: the last upload is counted as still free.
CanUpload_OffByOne(count, allowRetryAfterFailure) ==
    allowRetryAfterFailure \/ Unlimited \/ count <= UploadLimit

CanUpload(count, allowRetryAfterFailure) ==
    allowRetryAfterFailure \/ Unlimited \/ count < UploadLimit

\* upload and getQuotaForUser begin by reading the user.
BeginUpload(r) ==
    /\ Begin(r, "upload")
    /\ lastId + Cardinality({q \in Requests : mem[q].op = "upload"}) < MaxUploads
    /\ Goto(r, "sync_resume", [NoMem EXCEPT !.op = "upload", !.count = uploadCount])
    /\ UNCHANGED <<uploadCount, lastId, stores, calm>>

BeginQuota(r) ==
    /\ Begin(r, "quota")
    /\ Goto(r, "sync_resume", [NoMem EXCEPT !.op = "quota", !.count = uploadCount])
    /\ UNCHANGED <<uploadCount, lastId, stores, calm>>

AfterSync(op) == IF op = "quota" THEN "idle" ELSE "find_existing"

\* id is the resume the sync has found; upload looks it up again afterwards.
SyncResume(r) ==
    /\ At(r, "sync_resume")
    /\ \E i \in FindByUser(resumes) : Goto(r, "sync_profile", [mem[r] EXCEPT !.id = i])
    /\ UNCHANGED <<uploadCount, lastId, stores, calm>>

\* Mutant: the reset at the limit does not look at the extraction.
ShouldReset_AnyStatus(count, id, status) ==
    /\ count # 0
    /\ \/ id = NoId
       \/ ~Unlimited /\ count >= UploadLimit

\* Mutant: a failed extraction at the limit no longer resets the count.
ShouldReset_OnlyWhenDeleted(count, id, status) == count # 0 /\ id = NoId

ShouldReset(count, id, status) ==
    /\ count # 0
    /\ \/ id = NoId
       \/ status = "failed" /\ ~Unlimited /\ count >= UploadLimit

StatusOf(i) ==
    IF i = NoId \/ profiles[i] = None THEN "none" ELSE profiles[i].status

SyncProfile(r) ==
    /\ At(r, "sync_profile")
    /\ \E i \in FindByUser(profiles) :
          Goto(r, IF ShouldReset(mem[r].count, mem[r].id, StatusOf(i))
                  THEN "sync_reset" ELSE AfterSync(mem[r].op), mem[r])
    /\ UNCHANGED <<uploadCount, lastId, stores, calm>>

SyncReset(r) ==
    /\ At(r, "sync_reset")
    /\ uploadCount' = 0
    /\ Goto(r, AfterSync(mem[r].op), [mem[r] EXCEPT !.count = 0])
    /\ UNCHANGED <<lastId, stores, calm>>

----------------------------------------------------------------------------
(* upload: find the old resume, remove it, store the new one, extract      *)

FindExisting(r) ==
    /\ At(r, "find_existing")
    /\ \E i \in FindByUser(resumes) :
          Goto(r, IF i # NoId THEN "find_existing_profile"
                  ELSE IF CanUpload(mem[r].count, FALSE) THEN "save_file" ELSE "idle",
               [mem[r] EXCEPT !.id = i])
    /\ UNCHANGED <<uploadCount, lastId, stores, calm>>

FindExistingProfile(r) ==
    /\ At(r, "find_existing_profile")
    /\ Goto(r, IF CanUpload(mem[r].count, StatusOf(mem[r].id) = "failed")
               THEN "delete_file" ELSE "idle", mem[r])
    /\ UNCHANGED <<uploadCount, lastId, stores, calm>>

\* deleteForUser, and upload when there is an old resume.  The storage back
\* ends log a failed delete and return.
BeginDelete(r) ==
    /\ Begin(r, "delete")
    /\ \E i \in Existing(resumes) :
          Goto(r, "delete_file", [NoMem EXCEPT !.op = "delete", !.id = i])
    /\ UNCHANGED <<uploadCount, lastId, stores, calm>>

\* Mutant: the user's whole directory is removed.
DeleteFile_Directory(r) ==
    /\ At(r, "delete_file")
    /\ files' = {}
    /\ Goto(r, "delete_vector", mem[r])
    /\ UNCHANGED <<uploadCount, lastId, resumes, profiles, point, calm>>

DeleteFile(r) ==
    /\ At(r, "delete_file")
    /\ \/ files' = files \ {mem[r].id}
       \/ "storage" \in Faults /\ UNCHANGED files
    /\ Goto(r, "delete_vector", mem[r])
    /\ UNCHANGED <<uploadCount, lastId, resumes, profiles, point, calm>>

\* Mutant: a failed delete in Qdrant is logged and passed over.
DeleteVector_Swallowed(r) ==
    /\ At(r, "delete_vector")
    /\ \/ point' = None
       \/ "qdrant" \in Faults /\ UNCHANGED point
    /\ Goto(r, "delete_profile", mem[r])
    /\ UNCHANGED <<uploadCount, lastId, resumes, profiles, files, calm>>

\* Qdrant may fail before or after it has deleted the point.
DeleteVector(r) ==
    /\ At(r, "delete_vector")
    /\ \/ /\ \/ ~QdrantEnabled /\ Goto(r, "delete_profile", mem[r]) /\ UNCHANGED point
             \/ QdrantEnabled /\ Goto(r, "delete_profile", mem[r]) /\ point' = None
             \/ QdrantEnabled /\ "qdrant" \in Faults /\ Finish(r) /\ UNCHANGED point
          /\ UNCHANGED calm
       \/ /\ QdrantEnabled /\ "qdrant_late" \in Faults
          /\ Finish(r) /\ point' = None /\ calm' = FALSE
    /\ UNCHANGED <<uploadCount, lastId, resumes, profiles, files>>

\* Mutant: the profile is forgotten when its resume is deleted.
DeleteProfile_Forgotten(r) ==
    /\ At(r, "delete_profile")
    /\ Goto(r, "delete_resume", mem[r])
    /\ UNCHANGED <<uploadCount, lastId, stores, calm>>

DeleteProfile(r) ==
    /\ At(r, "delete_profile")
    /\ profiles' = [profiles EXCEPT ![mem[r].id] = None]
    /\ Goto(r, "delete_resume", mem[r])
    /\ UNCHANGED <<uploadCount, lastId, resumes, files, point, calm>>

DeleteResume(r) ==
    /\ At(r, "delete_resume")
    /\ resumes' = [resumes EXCEPT ![mem[r].id] = None]
    /\ Goto(r, IF mem[r].op = "upload" THEN "save_file" ELSE "idle", mem[r])
    /\ UNCHANGED <<uploadCount, lastId, profiles, files, point, calm>>

SaveFile(r) ==
    /\ At(r, "save_file")
    /\ \/ /\ lastId < MaxUploads
          /\ lastId' = lastId + 1
          /\ files' = files \cup {lastId'}
          /\ Goto(r, "create_resume", [mem[r] EXCEPT !.id = lastId', !.pid = lastId'])
       \/ "storage" \in Faults /\ Finish(r) /\ UNCHANGED <<lastId, files>>
    /\ UNCHANGED <<uploadCount, resumes, profiles, point, calm>>

\* An insert fails on a unique index when another document has the userId.
Duplicate(docs, i) == UniqueIndex /\ Existing(docs) \ {i} # {}

CreateResume(r) ==
    /\ At(r, "create_resume")
    /\ \/ /\ ~Duplicate(resumes, mem[r].id)
          /\ resumes' = [resumes EXCEPT ![mem[r].id] = FreshResume]
          /\ Goto(r, "upsert_profile", [mem[r] EXCEPT !.res = FreshResume])
       \/ Duplicate(resumes, mem[r].id) /\ Finish(r) /\ UNCHANGED resumes
    /\ UNCHANGED <<uploadCount, lastId, profiles, files, point, calm>>

\* extractAndSave.  An error from here on is caught by upload, which responds
\* with whatever profile is stored.
UpsertProfile(r) ==
    /\ At(r, "upsert_profile")
    /\ \/ /\ ~Duplicate(profiles, mem[r].id)
          /\ profiles' = [profiles EXCEPT ![mem[r].id] = FreshProfile]
          /\ Goto(r, "extract", [mem[r] EXCEPT !.doc = FreshProfile])
       \/ Duplicate(profiles, mem[r].id) /\ Finish(r) /\ UNCHANGED profiles
    /\ UNCHANGED <<uploadCount, lastId, resumes, files, point, calm>>

\* The outcome of reading the PDF and asking Gemini, put into the document.
Extracted(doc, c) ==
    [doc EXCEPT !.text = c.text, !.lists = c.lists,
                !.status = "ready_for_review", !.edits = 0]

\* Mutant: a failed extraction goes back to the schema's default.
ExtractionFailed_Pending(doc) == [doc EXCEPT !.status = "pending"]

ExtractionFailed(doc) == [doc EXCEPT !.status = "failed"]

\* Mutant: the error leaves extractAndSave without its catch block.
Extract_Uncaught(r) ==
    /\ At(r, "extract")
    /\ "gemini" \in Faults
    /\ Finish(r)
    /\ UNCHANGED <<uploadCount, lastId, stores, calm>>

Extract(r) ==
    /\ At(r, "extract")
    /\ \/ \E c \in Content :
             LET new == Extracted(mem[r].doc, c) IN
             Goto(r, "save_extracted", [mem[r] EXCEPT !.doc = new,
                                            !.dirty = Changes(mem[r].doc, new)])
       \/ /\ "gemini" \in Faults
          /\ Goto(r, "save_failed", mem[r])
    /\ UNCHANGED <<uploadCount, lastId, stores, calm>>

\* Mutant: a save that fails is tried again until it goes through.
SaveExtracted_Retried(r) ==
    /\ At(r, "save_extracted")
    /\ SaveProfile(r, mem[r].doc, mem[r].dirty, "save_skills", "save_extracted")

SaveExtracted(r) ==
    /\ At(r, "save_extracted")
    /\ SaveProfile(r, mem[r].doc, mem[r].dirty, "save_skills", "save_failed")

\* The catch block of extractAndSave; it rethrows, and upload ends.
SaveFailed(r) ==
    /\ At(r, "save_failed")
    /\ LET doc == ExtractionFailed(mem[r].doc)
       IN  SaveProfile(r, doc, mem[r].dirty \cup Changes(mem[r].doc, doc), "idle", "idle")

\* The extraction is charged only once the profile and the skills are saved.
Charge(r) ==
    /\ At(r, "charge")
    /\ uploadCount' = uploadCount + 1
    /\ Finish(r)
    /\ UNCHANGED <<lastId, stores, calm>>

----------------------------------------------------------------------------
(* The vector: syncConfirmedProfile and recordSyncFailure                  *)

\* What syncConfirmedProfile does first with the document it is given.
\* Contents with one text are the same to it, whatever their payloads.
SyncStart(doc) ==
    IF ~QdrantEnabled THEN "idle"
    ELSE IF Text(doc) = NoText THEN "record_failure"
    ELSE IF doc.hash = Text(doc) THEN "idle"
    ELSE "upsert_point"

Synced(doc) == [doc EXCEPT !.syncError = FALSE, !.hash = Text(doc)]

\* embed and upsertResumePoint.  Qdrant may fail after it has stored the point.
UpsertPoint(r) ==
    LET new == Synced(mem[r].doc)
        written == [resume |-> mem[r].pid, content |-> ContentOf(mem[r].doc)]
    IN
    /\ At(r, "upsert_point")
    /\ \/ /\ point' = written
          /\ Goto(r, "save_synced", [mem[r] EXCEPT !.doc = new,
                        !.dirty = mem[r].dirty \cup Changes(mem[r].doc, new)])
          /\ UNCHANGED calm
       \/ /\ {"gemini", "qdrant"} \cap Faults # {}
          /\ Goto(r, "record_failure", mem[r])
          /\ UNCHANGED <<point, calm>>
       \/ /\ "qdrant_late" \in Faults
          /\ point' = written /\ calm' = FALSE
          /\ Goto(r, "record_failure", mem[r])
    /\ UNCHANGED <<uploadCount, lastId, resumes, profiles, files>>

SaveSynced(r) ==
    /\ At(r, "save_synced")
    /\ SaveProfile(r, mem[r].doc, mem[r].dirty, "idle", "record_failure")

RecordFailure(r) ==
    /\ At(r, "record_failure")
    /\ LET doc == [mem[r].doc EXCEPT !.syncError = TRUE]
       IN  SaveProfile(r, doc, mem[r].dirty \cup Changes(mem[r].doc, doc), "idle", "idle")

\* Mutant: only confirm embeds, an edit of a confirmed profile does not.
AfterSkills_NoResync(m) ==
    IF m.op = "upload" THEN "charge"
    ELSE IF m.op = "edit" THEN "idle"
    ELSE SyncStart(m.doc)

\* After resume.save(): upload charges, confirm and an edit of a confirmed
\* profile bring the vector up to date.
AfterSkills(m) ==
    IF m.op = "upload" THEN "charge"
    ELSE IF m.op = "edit" /\ m.doc.status # "confirmed" THEN "idle"
    ELSE SyncStart(m.doc)

\* resume.skillsExtracted = dedupeSkills(profile); resume.save()
SaveSkills(r) ==
    LET m == mem[r]
        skills == SkillsOf(m.doc.lists)
        changed == m.res.skills # skills
        ok == resumes[m.id] # None /\ (changed => resumes[m.id].v = m.res.v)
    IN
    /\ At(r, "save_skills")
    /\ \/ /\ ok
          /\ resumes' = IF changed
                        THEN [resumes EXCEPT ![m.id] =
                                 [skills |-> skills, v |-> m.res.v + 1]]
                        ELSE resumes
          /\ Goto(r, AfterSkills(m), m)
       \/ ~ok /\ Finish(r) /\ UNCHANGED resumes
    /\ UNCHANGED <<uploadCount, lastId, profiles, files, point, calm>>

----------------------------------------------------------------------------
(* updateProfileForUser *)

BeginEdit(r) ==
    /\ Begin(r, "edit")
    /\ \E i \in Existing(resumes) :
          Goto(r, "edit_profile", [NoMem EXCEPT !.op = "edit", !.id = i,
                                                !.pid = i, !.res = resumes[i]])
    /\ UNCHANGED <<uploadCount, lastId, stores, calm>>

\* Mutant: one edit more than the limit.
CanEdit_OffByOne(i) ==
    /\ StatusOf(i) \in {"confirmed", "ready_for_review"}
    /\ profiles[i].edits <= EditLimit

CanEdit(i) ==
    /\ StatusOf(i) \in {"confirmed", "ready_for_review"}
    /\ profiles[i].edits < EditLimit

\* applyProfileUpdates: the dto leaves c in the document.
Apply(doc, c) == [doc EXCEPT !.text = c.text, !.lists = c.lists]

\* Mutant: an edit puts the profile back under review.
Edited_Reopens(doc, c) ==
    [Apply(doc, c) EXCEPT !.edits = doc.edits + 1, !.status = "ready_for_review"]

\* Mutant: the edit is not counted.
Edited_Uncounted(doc, c) == Apply(doc, c)

Edited(doc, c) == [Apply(doc, c) EXCEPT !.edits = doc.edits + 1]

EditProfile(r) ==
    LET i == mem[r].id IN
    /\ At(r, "edit_profile")
    /\ \/ /\ CanEdit(i)
          /\ \E c \in Content :
                LET new == Edited(profiles[i], c) IN
                Goto(r, "edit_save", [mem[r] EXCEPT !.doc = new,
                                          !.dirty = Changes(profiles[i], new)])
       \/ ~CanEdit(i) /\ Finish(r)
    /\ UNCHANGED <<uploadCount, lastId, stores, calm>>

\* Mutant: skillsExtracted is not recomputed.
EditSave_NoSkills(r) ==
    /\ At(r, "edit_save")
    /\ SaveProfile(r, mem[r].doc, mem[r].dirty, "idle", "idle")

EditSave(r) ==
    /\ At(r, "edit_save")
    /\ SaveProfile(r, mem[r].doc, mem[r].dirty, "save_skills", "idle")

----------------------------------------------------------------------------
(* confirmProfileForUser *)

\* Mutant: a failed extraction can be confirmed.
CanConfirm_Failed(doc) == doc.status # "confirmed"

\* A confirmed profile is turned down when the dto has keys, and it always
\* has: the build (target ES2023) defines every field of the dto class on
\* the instance the validation pipe passes on.
CanConfirm(doc) == doc.status \notin {"failed", "confirmed"}

Confirmed(doc, c) == [Apply(doc, c) EXCEPT !.status = "confirmed"]

BeginConfirm(r) ==
    /\ Begin(r, "confirm")
    /\ \E i \in Existing(profiles), c \in Content :
          LET new == Confirmed(profiles[i], c) IN
          /\ CanConfirm(profiles[i])
          /\ Goto(r, "confirm_save", [NoMem EXCEPT !.op = "confirm", !.pid = i,
                        !.doc = new, !.dirty = Changes(profiles[i], new)])
    /\ UNCHANGED <<uploadCount, lastId, stores, calm>>

ConfirmSave(r) ==
    /\ At(r, "confirm_save")
    /\ SaveProfile(r, mem[r].doc, mem[r].dirty, "confirm_resume", "idle")

ConfirmResume(r) ==
    /\ At(r, "confirm_resume")
    /\ \E i \in FindByUser(resumes) :
          IF i = NoId THEN Goto(r, SyncStart(mem[r].doc), mem[r])
          ELSE Goto(r, "save_skills", [mem[r] EXCEPT !.id = i, !.res = resumes[i]])
    /\ UNCHANGED <<uploadCount, lastId, stores, calm>>

----------------------------------------------------------------------------
(* Failures *)

\* Every label but those whose call is not a MongoDB call, and those where
\* SaveProfile already says where an error leads.
MongoLabels ==
    Labels \ {"idle", "delete_file", "delete_vector", "save_file", "extract",
              "upsert_point", "save_extracted", "save_failed", "edit_save",
              "confirm_save", "save_synced", "record_failure"}

\* A MongoDB call fails: the request ends, with a 500 or in upload's catch.
MongoError(r) ==
    /\ "mongo" \in Faults
    /\ pc[r] \in MongoLabels
    /\ Finish(r)
    /\ calm' = FALSE
    /\ UNCHANGED <<uploadCount, lastId, stores>>

\* The process dies and PM2 starts it again: every request is cut short.
Crash ==
    /\ Crashes
    /\ \E r \in Requests : pc[r] # "idle"
    /\ pc' = [r \in Requests |-> "idle"]
    /\ mem' = [r \in Requests |-> NoMem]
    /\ calm' = FALSE
    /\ UNCHANGED <<uploadCount, lastId, stores>>

----------------------------------------------------------------------------

\* A new account, or one from the time when failed extractions were charged,
\* which syncUploadCountWithResumeState is there to repair.
NewAccount ==
    /\ uploadCount = 0
    /\ resumes = [i \in Ids |-> None]
    /\ profiles = [i \in Ids |-> None]
    /\ files = {}
    /\ lastId = 0

LegacyFailure ==
    /\ uploadCount \in 0..UploadLimit
    /\ resumes = [i \in Ids |-> IF i = 1 THEN FreshResume ELSE None]
    /\ profiles = [i \in Ids |-> IF i = 1 THEN ExtractionFailed(FreshProfile) ELSE None]
    /\ files = {1}
    /\ lastId = 1

Init ==
    /\ NewAccount \/ LegacyFailure
    /\ point = None
    /\ calm = TRUE
    /\ pc = [r \in Requests |-> "idle"]
    /\ mem = [r \in Requests |-> NoMem]

\* A client sends a request.
Request(r) ==
    \/ BeginUpload(r) \/ BeginQuota(r) \/ BeginDelete(r)
    \/ BeginEdit(r) \/ BeginConfirm(r)

\* The server goes on with one.
Step(r) ==
    \/ SyncResume(r) \/ SyncProfile(r) \/ SyncReset(r)
    \/ FindExisting(r) \/ FindExistingProfile(r)
    \/ DeleteFile(r) \/ DeleteVector(r) \/ DeleteProfile(r) \/ DeleteResume(r)
    \/ SaveFile(r) \/ CreateResume(r) \/ UpsertProfile(r) \/ Extract(r)
    \/ SaveExtracted(r) \/ SaveFailed(r) \/ SaveSkills(r) \/ Charge(r)
    \/ EditProfile(r) \/ EditSave(r) \/ ConfirmSave(r) \/ ConfirmResume(r)
    \/ UpsertPoint(r) \/ SaveSynced(r) \/ RecordFailure(r)
    \/ MongoError(r)

Next == (\E r \in Requests : Request(r) \/ Step(r)) \/ Crash

Spec == Init /\ [][Next]_vars

\* The event loop runs every request it has accepted; clients may stop.
Fairness == \A r \in Requests : WF_vars(Step(r))
FairSpec == Spec /\ Fairness

----------------------------------------------------------------------------
(* Properties *)

\* Every variable has its type.
TypeOK ==
    /\ uploadCount \in Nat
    /\ resumes \in [Ids -> ResumeDoc \cup {None}]
    /\ profiles \in [Ids -> ProfileDoc \cup {None}]
    /\ files \subseteq Ids
    /\ point \in Point \cup {None}
    /\ lastId \in 0..MaxUploads
    /\ calm \in BOOLEAN
    /\ pc \in [Requests -> Labels]
    /\ mem \in [Requests -> Mem]

AllIdle == \A r \in Requests : At(r, "idle")

Reviewable(i) == StatusOf(i) \in {"ready_for_review", "confirmed"}

\* A profile never outlives its resume: upload and deleteForUser remove the
\* profile first and create it last, wherever they are cut short.  (An orphan
\* profile blocks every later extraction through the unique index on userId.)
ProfileHasResume ==
    \A i \in Ids : profiles[i] # None => resumes[i] # None

\* A point in Qdrant belongs to a confirmed profile that is still stored:
\* matching never sees a resume that was not confirmed, replaced or deleted.
PointHasConfirmedProfile ==
    point # None => StatusOf(point.resume) = "confirmed"

\* Uploads, retries after a failed extraction and resets by the sync never
\* leave a count above the plan's limit.
UploadCountWithinLimit == Unlimited \/ uploadCount <= UploadLimit

\* The sync gives the quota back only when there is no successful upload on
\* file, as its log message says.
ResetOnlyWithoutSuccessfulUpload ==
    [][uploadCount' < uploadCount => \A i \in Ids : ~Reviewable(i)]_vars

\* p is the point of resume i, with the vector of text t.
IsPointOf(p, i, t) ==
    p # None /\ p.resume = i /\ EmbeddingText(p.content) = t

\* When no request is running, a confirmed profile has a point in Qdrant whose
\* vector is that of its present embedding text, or carries the error of the
\* sync that failed: as long as calls fail without effect, whichever they are.
\* (Of the payload it says only that it is that of a content with that text.)
VectorCurrentOrFlagged ==
    calm /\ AllIdle /\ QdrantEnabled =>
        \A i \in Ids :
            StatusOf(i) = "confirmed" /\ ~profiles[i].syncError =>
                IsPointOf(point, i, Text(profiles[i]))

\* When no request is running, skillsExtracted of the resume is what the
\* arrays of its profile give.
SkillsMirrorProfile ==
    calm /\ AllIdle =>
        \A i \in Ids : Reviewable(i) => resumes[i].skills = SkillsOf(profiles[i].lists)

\* When no request is running, a resume with a successful extraction has been
\* charged: the sync has not taken the charge back.
CountCoversResume ==
    calm /\ AllIdle /\ (\E i \in Ids : Reviewable(i)) => uploadCount > 0

\* Each edit that is saved uses one of the edits the user has, also when a
\* later call of the request fails.
EveryEditIsCounted ==
    [][\A r \in Requests : At(r, "edit_save") /\ At(r, "save_skills")' =>
          profiles'[mem[r].pid].edits = profiles[mem[r].pid].edits + 1]_vars

\* The profile of a failed extraction is never confirmed, as the error message
\* of confirmProfileForUser has it: an extraction that fails is not followed by
\* the save of a confirmation that found the profile in another state.
FailedIsNotConfirmed ==
    [][\A i \in Ids : StatusOf(i) = "failed" => StatusOf(i)' # "confirmed"]_vars

\* A failed extraction can be made good by hand, as that message and the
\* documented editor offer: while edits are left, an edit of it gets as far as
\* its save.
FailedProfileIsEditable ==
    [][\A r \in Requests :
          At(r, "edit_profile") /\ ~At(r, "edit_profile")' =>
              LET i == mem[r].id IN
              StatusOf(i) = "failed" /\ profiles[i].edits < EditLimit =>
                  At(r, "edit_save")']_vars

\* A user whose extraction came to nothing can upload again, without deleting
\* the resume first: also when a restart has left the profile "processing".
FailedUploadCanBeReplaced ==
    AllIdle =>
        \A i \in Ids : StatusOf(i) \in {"processing", "failed"} =>
            \/ CanUpload(uploadCount, StatusOf(i) = "failed")
            \/ ShouldReset(uploadCount, i, StatusOf(i))

\* A profile is "processing" only while an upload is extracting it: whatever
\* fails or interferes, the upload that ends leaves an outcome behind.
NoStuckProcessing ==
    \A i \in Ids : StatusOf(i) = "processing" =>
        \E r \in Requests :
            /\ pc[r] \in {"extract", "save_extracted", "save_failed"}
            /\ mem[r].pid = i

\* A resume document has its file, except while a request is removing it, so a
\* download fails only then.
FileMissingOnlyDuringRemoval ==
    \A i \in Ids : resumes[i] # None /\ i \notin files =>
        \E r \in Requests :
            /\ pc[r] \in {"delete_vector", "delete_profile", "delete_resume"}
            /\ mem[r].id = i

\* The stored edit count stays within the limit, whichever edits, confirmations
\* and uploads overlap.
EditsWithinLimit ==
    \A i \in Ids : profiles[i] # None => profiles[i].edits <= EditLimit

\* The uploads whose extraction is saved and which are still to be charged.
Owed == Cardinality({r \in Requests : mem[r].op = "upload" /\ pc[r] \in {"save_skills", "charge"}})

Lifecycle == INSTANCE ResumeLifecycle WITH
    stage <- [i \in Ids |-> StatusOf(i)],
    edits <- [i \in Ids |-> IF profiles[i] = None THEN 0 ELSE profiles[i].edits],
    count <- uploadCount,
    owed <- Owed

\* Whatever call fails and wherever the process dies, the user gets what
\* ResumeLifecycle promises: stages in their order, one edit at a time within
\* the limit, and a charge for each successful extraction at most.
ImplementsLifecycle == Lifecycle!Spec

\* After everything about the resume is deleted, nothing of it is in Qdrant.
DeletedResumeHasNoPoint ==
    AllIdle /\ Existing(resumes) = {} => point = None

\* canConfirmProfile of buildProfilePermissions: what the profile editor is
\* told it may do.
CanConfirmProfile(doc) ==
    \/ doc.status = "ready_for_review"
    \/ doc.status = "confirmed" /\ doc.syncError

\* When the response offers to confirm, also to retry a failed vector sync,
\* the confirm endpoint takes the request.
OfferedConfirmIsAccepted ==
    \A i \in Ids : profiles[i] # None /\ CanConfirmProfile(profiles[i]) =>
        CanConfirm(profiles[i])

\* An extraction that is under way comes to an outcome, so the editor that
\* polls for it stops polling.
ExtractionSettles ==
    \A i \in Ids : StatusOf(i) = "processing" ~> StatusOf(i) # "processing"

\* Every request that is accepted is answered.
EveryRequestEnds == \A r \in Requests : ~At(r, "idle") ~> At(r, "idle")

=============================================================================
