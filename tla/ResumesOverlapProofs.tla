------------------------ MODULE ResumesOverlapProofs ------------------------
(***************************************************************************)
(* What holds of Resumes while any number of requests overlap, and which   *)
(* overlaps each property cannot do with.                                  *)
(***************************************************************************)
EXTENDS ResumesProofs

----------------------------------------------------------------------------
(* The locals of a request at each of its steps *)

Extracting == {"extract", "save_extracted", "save_failed"}
Removing == {"delete_file", "delete_vector", "delete_profile", "delete_resume"}
Looking == {"sync_resume", "sync_profile", "sync_reset", "find_existing",
            "find_existing_profile"}

\* An upload from the file it has stored to its charge.
Owning(label, m) ==
    \/ label \in Extracting \cup {"create_resume", "upsert_profile", "charge"}
    \/ label = "save_skills" /\ m.op = "upload"

\* Which requests come to a label, and the ids they have by then.
OpInv(label, m) ==
    /\ label \in {"sync_resume", "sync_profile", "sync_reset"} => m.op \in {"upload", "quota"}
    /\ label \in {"find_existing", "find_existing_profile", "save_file"} => m.op = "upload"
    /\ label \in Removing => m.op \in {"upload", "delete"}
    /\ label \in Removing \cup {"find_existing_profile"} => m.id \in Ids
    /\ Owning(label, m) => m.op = "upload" /\ m.id = m.pid /\ m.id \in Ids
    /\ label \in {"edit_profile", "edit_save"} => m.op = "edit" /\ m.id = m.pid
    /\ label \in {"confirm_save", "confirm_resume"} => m.op = "confirm"
    /\ label = "save_skills" => m.op \in {"upload", "edit", "confirm"}
    /\ label \in {"upsert_point", "save_synced", "record_failure"} => m.op \in {"edit", "confirm"}
    /\ m.op \in {"edit", "confirm"} => m.pid \in Ids

\* The document a request holds, and what of it is still to be saved.
DocInv(label, m) ==
    /\ label \in Removing \cup Looking \cup {"save_file", "create_resume", "upsert_profile"} =>
          m.dirty = {}
    /\ label = "extract" => m.doc = FreshProfile /\ m.dirty = {}
    /\ Owning(label, m) /\ label # "create_resume" => m.res = FreshResume
    /\ label = "save_extracted" =>
          /\ m.doc.status = "ready_for_review" /\ m.doc.v = 0
          /\ "status" \in m.dirty /\ "edits" \notin m.dirty
    /\ label = "save_failed" =>
          /\ m.doc.status \in {"processing", "ready_for_review"} /\ m.doc.v = 0
          /\ "edits" \notin m.dirty
    /\ label = "edit_save" =>
          /\ m.doc.status \in {"ready_for_review", "confirmed"}
          /\ "edits" \in m.dirty /\ "status" \notin m.dirty
    /\ label = "confirm_save" =>
          /\ m.doc.status = "confirmed"
          /\ "status" \in m.dirty /\ "edits" \notin m.dirty
    /\ label = "save_skills" /\ m.op = "upload" => m.doc.status = "ready_for_review"
    /\ label = "confirm_resume" \/ (label = "save_skills" /\ m.op = "confirm") =>
          m.doc.status = "confirmed"
    /\ label = "save_skills" /\ m.op = "edit" =>
          m.doc.status \in {"ready_for_review", "confirmed"}
    /\ label \in {"confirm_resume", "save_skills", "upsert_point"} => m.dirty = {}
    /\ label \in {"upsert_point", "save_synced", "record_failure"} =>
          m.doc.status = "confirmed" /\ m.dirty \subseteq {"hash", "syncError"}

LocalInv(label, m) == OpInv(label, m) /\ DocInv(label, m)

LocalsInv == \A r \in Requests : LocalInv(pc[r], mem[r])

OthersStay(r) == \A q \in Requests \ {r} : pc'[q] = pc[q] /\ mem'[q] = mem[q]

LEMMA GotoEffect ==
    ASSUME TypeOK, NEW r \in Requests, NEW label, NEW m, Goto(r, label, m)
    PROVE  /\ pc'[r] = label /\ mem'[r] = (IF label = "idle" THEN NoMem ELSE m)
           /\ OthersStay(r)
BY DEF TypeOK, Goto, OthersStay

LEMMA FinishEffect ==
    ASSUME TypeOK, NEW r \in Requests, Finish(r)
    PROVE  pc'[r] = "idle" /\ mem'[r] = NoMem /\ OthersStay(r)
BY DEF TypeOK, Goto, Finish, OthersStay

LEMMA IdleLocal == LocalInv("idle", NoMem)
BY DEF LocalInv, OpInv, DocInv, NoMem, Owning, Extracting, Removing, Looking

\* A step of r keeps the locals of all, if those of r fit its new label.
LEMMA GotoLocal ==
    ASSUME TypeOK, LocalsInv, NEW r \in Requests, NEW label, NEW m, Goto(r, label, m),
           label = "idle" \/ LocalInv(label, m)
    PROVE  LocalsInv'
BY IdleLocal, GotoEffect DEF LocalsInv, OthersStay

LEMMA FinishLocal ==
    ASSUME TypeOK, LocalsInv, NEW r \in Requests, Finish(r)
    PROVE  LocalsInv'
BY IdleLocal, FinishEffect DEF LocalsInv, OthersStay

\* profile.save() of doc: what is stored, and the locals n the request has then.
Stored(r, doc, dirty) ==
    /\ CanSave(mem[r].pid, doc, dirty)
    /\ profiles' = [profiles EXCEPT ![mem[r].pid] = Written(profiles[mem[r].pid], doc, dirty)]
NotStored(r, doc, dirty) ==
    /\ UNCHANGED profiles
    /\ ~CanSave(mem[r].pid, doc, dirty) \/ ("mongo" \in Faults /\ calm' = FALSE)

SameButDoc(m, n) ==
    n.op = m.op /\ n.id = m.id /\ n.pid = m.pid /\ n.count = m.count /\ n.res = m.res

LEMMA SaveEffect ==
    ASSUME TypeOK, NEW r \in Requests, NEW doc \in ProfileDoc, NEW dirty \in SUBSET SavedFields,
           NEW ok, NEW failed, SaveProfile(r, doc, dirty, ok, failed)
    PROVE  /\ UNCHANGED <<uploadCount, resumes, files, point, lastId>>
           /\ \E n \in Mem :
                 /\ SameButDoc(mem[r], n) /\ n.doc.status = doc.status
                 /\ \/ /\ Stored(r, doc, dirty) /\ UNCHANGED calm
                       /\ Goto(r, ok, n) /\ n.dirty = {} /\ Text(n.doc) = Text(doc)
                       /\ n.doc.hash = doc.hash /\ n.doc.syncError = doc.syncError
                    \/ /\ NotStored(r, doc, dirty)
                       /\ Goto(r, failed, n) /\ n.dirty = dirty /\ n.doc = doc
<1> DEFINE m == mem[r]
           new == [doc EXCEPT !.v = NextVersion(doc.v, dirty)]
           saved == [m EXCEPT !.doc = new, !.dirty = {}]
           kept == [m EXCEPT !.doc = doc, !.dirty = dirty]
<1>1. m \in Mem /\ new \in ProfileDoc
  BY SavedDocType DEF TypeOK
<1>2. /\ new.status = doc.status /\ Text(new) = Text(doc)
      /\ new.hash = doc.hash /\ new.syncError = doc.syncError
  BY DEF ProfileDoc, Text, ContentOf
<1> HIDE DEF new
<1>3. saved \in Mem /\ SameButDoc(m, saved) /\ saved.doc = new /\ saved.dirty = {}
  BY <1>1 DEF Mem, SameButDoc
<1>4. kept \in Mem /\ SameButDoc(m, kept) /\ kept.doc = doc /\ kept.dirty = dirty
  BY <1>1 DEF Mem, SameButDoc
<1>5. \/ Stored(r, doc, dirty) /\ UNCHANGED calm /\ Goto(r, ok, saved)
      \/ NotStored(r, doc, dirty) /\ Goto(r, failed, kept)
  BY DEF SaveProfile, Stored, NotStored, new
<1> HIDE DEF saved, kept
<1>6. QED
  BY <1>2, <1>3, <1>4, <1>5 DEF SaveProfile

\* A save leads on to locals that fit the label.
LEMMA SaveLocal ==
    ASSUME TypeOK, LocalsInv, NEW r \in Requests, NEW doc \in ProfileDoc,
           NEW dirty \in SUBSET SavedFields, NEW ok, NEW failed,
           SaveProfile(r, doc, dirty, ok, failed),
           ok = "idle" \/ \A n \in Mem :
               SameButDoc(mem[r], n) /\ n.doc.status = doc.status /\ n.dirty = {}
               => LocalInv(ok, n),
           failed = "idle" \/ \A n \in Mem :
               SameButDoc(mem[r], n) /\ n.doc = doc /\ n.dirty = dirty => LocalInv(failed, n)
    PROVE  LocalsInv'
<1>1. PICK n \in Mem :
          /\ SameButDoc(mem[r], n) /\ n.doc.status = doc.status
          /\ \/ /\ Stored(r, doc, dirty) /\ UNCHANGED calm
                /\ Goto(r, ok, n) /\ n.dirty = {} /\ Text(n.doc) = Text(doc)
                /\ n.doc.hash = doc.hash /\ n.doc.syncError = doc.syncError
             \/ /\ NotStored(r, doc, dirty)
                /\ Goto(r, failed, n) /\ n.dirty = dirty /\ n.doc = doc
  BY SaveEffect
<1>2. QED
  BY <1>1, GotoLocal

\* What a confirmation, an edit and an extraction assign to a document.
LEMMA ConfirmedDoc ==
    ASSUME NEW doc \in ProfileDoc, NEW c \in Content
    PROVE  /\ Confirmed(doc, c).status = "confirmed"
           /\ "status" \in Changes(doc, Confirmed(doc, c)) <=> doc.status # "confirmed"
           /\ "edits" \notin Changes(doc, Confirmed(doc, c))
BY DEF Confirmed, Apply, Changes, SavedFields, ProfileDoc

LEMMA EditedDoc ==
    ASSUME NEW doc \in ProfileDoc, NEW c \in Content
    PROVE  /\ Edited(doc, c) \in ProfileDoc
           /\ Edited(doc, c).status = doc.status /\ Edited(doc, c).edits = doc.edits + 1
           /\ Edited(doc, c).v = doc.v
           /\ "edits" \in Changes(doc, Edited(doc, c))
           /\ "status" \notin Changes(doc, Edited(doc, c))
<1>1. /\ Apply(doc, c) \in ProfileDoc /\ Apply(doc, c).status = doc.status
      /\ Apply(doc, c).v = doc.v
  BY DEF Apply, ProfileDoc, Content
<1>2. Edited(doc, c) = [Apply(doc, c) EXCEPT !.edits = doc.edits + 1]
  BY DEF Edited
<1>3. /\ Edited(doc, c).status = doc.status /\ Edited(doc, c).edits = doc.edits + 1
      /\ Edited(doc, c).v = doc.v
  BY <1>1, <1>2 DEF ProfileDoc
<1>4. doc.edits + 1 # doc.edits
  BY DEF ProfileDoc
<1>5. QED
  BY <1>3, <1>4, EditedType DEF Changes, SavedFields

LEMMA ExtractedDoc ==
    ASSUME NEW c \in Content
    PROVE  /\ Extracted(FreshProfile, c) \in ProfileDoc
           /\ Extracted(FreshProfile, c).status = "ready_for_review"
           /\ Extracted(FreshProfile, c).v = 0
           /\ "status" \in Changes(FreshProfile, Extracted(FreshProfile, c))
           /\ "edits" \notin Changes(FreshProfile, Extracted(FreshProfile, c))
<1>1. Extracted(FreshProfile, c).v = 0
  BY DEF Extracted, FreshProfile
<1>2. /\ Extracted(FreshProfile, c).status = "ready_for_review"
      /\ Extracted(FreshProfile, c).edits = 0
  BY DEF Extracted, FreshProfile
<1>3. QED
  BY <1>1, <1>2, ExtractedType, FreshTypes DEF Changes, SavedFields, FreshProfile

LEMMA ExtractionFailedDoc ==
    ASSUME NEW doc \in ProfileDoc, doc.status \in {"processing", "ready_for_review"}
    PROVE  /\ ExtractionFailed(doc).status = "failed"
           /\ ExtractionFailed(doc).v = doc.v
           /\ "status" \in Changes(doc, ExtractionFailed(doc))
           /\ "edits" \notin Changes(doc, ExtractionFailed(doc))
BY DEF ExtractionFailed, Changes, SavedFields, ProfileDoc

LEMMA SyncedDoc ==
    ASSUME NEW doc \in ProfileDoc
    PROVE  /\ Synced(doc).status = doc.status
           /\ Changes(doc, Synced(doc)) \subseteq {"hash", "syncError"}
           /\ [doc EXCEPT !.syncError = TRUE].status = doc.status
           /\ Changes(doc, [doc EXCEPT !.syncError = TRUE]) \subseteq {"syncError"}
BY DEF Synced, Changes, SavedFields, ProfileDoc

\* The profile an edit loads.
LEMMA CanEditDoc ==
    ASSUME TypeOK, NEW r \in Requests, CanEdit(mem[r].id)
    PROVE  /\ mem[r].id \in Ids /\ profiles[mem[r].id] \in ProfileDoc
           /\ profiles[mem[r].id].status = StatusOf(mem[r].id)
           /\ StatusOf(mem[r].id) \in {"confirmed", "ready_for_review"}
<1>1. mem[r].id \in Ids \cup {NoId}
  BY DEF TypeOK, Mem
<1>2. mem[r].id # NoId /\ profiles[mem[r].id] # None
  BY DEF CanEdit, StatusOf
<1>3. QED
  BY <1>1, <1>2 DEF TypeOK, CanEdit, StatusOf

LEMMA RequestLocals ==
    ASSUME TypeOK, LocalsInv, NEW r \in Requests, Request(r)
    PROVE  LocalsInv'
<1> USE DEF LocalInv, OpInv, DocInv, Owning, Extracting, Removing, Looking
<1>1. CASE BeginUpload(r) \/ BeginQuota(r)
  <2>1. LocalInv("sync_resume", [NoMem EXCEPT !.op = "upload", !.count = uploadCount])
    BY DEF NoMem
  <2>2. LocalInv("sync_resume", [NoMem EXCEPT !.op = "quota", !.count = uploadCount])
    BY DEF NoMem
  <2>3. QED
    BY <1>1, <2>1, <2>2, GotoLocal DEF BeginUpload, BeginQuota
<1>2. CASE BeginDelete(r)
  <2>1. PICK i \in Existing(resumes) :
           Goto(r, "delete_file", [NoMem EXCEPT !.op = "delete", !.id = i])
    BY <1>2 DEF BeginDelete
  <2>2. LocalInv("delete_file", [NoMem EXCEPT !.op = "delete", !.id = i])
    BY DEF NoMem, Existing
  <2>3. QED
    BY <2>1, <2>2, GotoLocal
<1>3. CASE BeginEdit(r)
  <2>1. PICK i \in Existing(resumes) :
           Goto(r, "edit_profile", [NoMem EXCEPT !.op = "edit", !.id = i,
                                                 !.pid = i, !.res = resumes[i]])
    BY <1>3 DEF BeginEdit
  <2>2. LocalInv("edit_profile", [NoMem EXCEPT !.op = "edit", !.id = i,
                                                !.pid = i, !.res = resumes[i]])
    BY DEF NoMem, Existing
  <2>3. QED
    BY <2>1, <2>2, GotoLocal
<1>4. CASE BeginConfirm(r)
  <2>1. PICK i \in Existing(profiles), c \in Content :
           /\ CanConfirm(profiles[i])
           /\ Goto(r, "confirm_save", [NoMem EXCEPT !.op = "confirm", !.pid = i,
                    !.doc = Confirmed(profiles[i], c),
                    !.dirty = Changes(profiles[i], Confirmed(profiles[i], c))])
    BY <1>4 DEF BeginConfirm
  <2> DEFINE doc == Confirmed(profiles[i], c)
             dirty == Changes(profiles[i], doc)
             m == [NoMem EXCEPT !.op = "confirm", !.pid = i, !.doc = doc, !.dirty = dirty]
  <2>2. i \in Ids /\ profiles[i] \in ProfileDoc
    BY DEF Existing, TypeOK
  <2>3. doc.status = "confirmed" /\ "status" \in dirty /\ "edits" \notin dirty
    BY <2>1, <2>2, ConfirmedDoc DEF CanConfirm
  <2>4. Goto(r, "confirm_save", m)
    BY <2>1
  <2> HIDE DEF doc, dirty
  <2>5. m.op = "confirm" /\ m.pid = i /\ m.doc = doc /\ m.dirty = dirty
    BY DEF NoMem
  <2>6. LocalInv("confirm_save", m)
    BY <2>2, <2>3, <2>5
  <2>7. QED
    BY <2>4, <2>6, GotoLocal
<1>5. QED
  BY <1>1, <1>2, <1>3, <1>4 DEF Request

LEMMA SyncStepsLocals ==
    ASSUME TypeOK, LocalsInv, NEW r \in Requests,
           \/ SyncResume(r) \/ SyncProfile(r) \/ SyncReset(r)
           \/ FindExisting(r) \/ FindExistingProfile(r)
    PROVE  LocalsInv'
<1> USE DEF LocalInv, OpInv, DocInv, Owning, Extracting, Removing, Looking
<1>0. mem[r] \in Mem /\ LocalInv(pc[r], mem[r])
  BY MemType DEF LocalsInv
<1>1. CASE SyncResume(r)
  <2>1. PICK i \in FindByUser(resumes) : Goto(r, "sync_profile", [mem[r] EXCEPT !.id = i])
    BY <1>1 DEF SyncResume
  <2>2. LocalInv("sync_profile", [mem[r] EXCEPT !.id = i])
    BY <1>0, <1>1 DEF SyncResume, At, Mem
  <2>3. QED
    BY <2>1, <2>2, GotoLocal
<1>2. CASE SyncProfile(r)
  <2> DEFINE label(i) == IF ShouldReset(mem[r].count, mem[r].id, StatusOf(i))
                         THEN "sync_reset" ELSE AfterSync(mem[r].op)
  <2>1. PICK i \in FindByUser(profiles) : Goto(r, label(i), mem[r])
    BY <1>2 DEF SyncProfile
  <2>2. label(i) = "idle" \/ LocalInv(label(i), mem[r])
    BY <1>0, <1>2 DEF SyncProfile, At, AfterSync
  <2>3. QED
    BY <2>1, <2>2, GotoLocal
<1>3. CASE SyncReset(r)
  <2> DEFINE m == [mem[r] EXCEPT !.count = 0]
  <2>1. m.op = mem[r].op /\ m.pid = mem[r].pid /\ m.dirty = mem[r].dirty
    BY <1>0 DEF Mem
  <2>2. Goto(r, AfterSync(mem[r].op), m)
    BY <1>3 DEF SyncReset
  <2> HIDE DEF m
  <2>3. AfterSync(mem[r].op) = "idle" \/ LocalInv(AfterSync(mem[r].op), m)
    BY <1>0, <1>3, <2>1 DEF SyncReset, At, AfterSync
  <2>4. QED
    BY <2>2, <2>3, GotoLocal
<1>4. CASE FindExisting(r)
  <2> DEFINE m(i) == [mem[r] EXCEPT !.id = i]
             label(i) == IF i # NoId THEN "find_existing_profile"
                         ELSE IF CanUpload(mem[r].count, FALSE) THEN "save_file" ELSE "idle"
  <2>1. PICK i \in FindByUser(resumes) : Goto(r, label(i), m(i))
    BY <1>4 DEF FindExisting
  <2>2. /\ m(i).op = mem[r].op /\ m(i).pid = mem[r].pid /\ m(i).id = i
        /\ m(i).dirty = mem[r].dirty
    BY <1>0 DEF Mem
  <2>3. i # NoId => i \in Ids
    BY FindByUserType
  <2> HIDE DEF m
  <2>4. label(i) = "idle" \/ LocalInv(label(i), m(i))
    BY <1>0, <1>4, <2>2, <2>3 DEF FindExisting, At
  <2>5. QED
    BY <2>1, <2>4, GotoLocal
<1>5. CASE FindExistingProfile(r)
  BY <1>0, <1>5, GotoLocal DEF FindExistingProfile, At
<1>6. QED
  BY <1>1, <1>2, <1>3, <1>4, <1>5

LEMMA RemovalStepsLocals ==
    ASSUME TypeOK, LocalsInv, NEW r \in Requests,
           DeleteFile(r) \/ DeleteVector(r) \/ DeleteProfile(r) \/ DeleteResume(r) \/ MongoError(r)
    PROVE  LocalsInv'
<1> USE DEF LocalInv, OpInv, DocInv, Owning, Extracting, Removing, Looking
<1>0. LocalInv(pc[r], mem[r])
  BY DEF LocalsInv
<1>1. CASE DeleteFile(r)
  BY <1>0, <1>1, GotoLocal DEF DeleteFile, At
<1>2. CASE DeleteVector(r)
  BY <1>0, <1>2, GotoLocal, FinishLocal DEF DeleteVector, At
<1>3. CASE DeleteProfile(r)
  BY <1>0, <1>3, GotoLocal DEF DeleteProfile, At
<1>4. CASE DeleteResume(r)
  BY <1>0, <1>4, GotoLocal DEF DeleteResume, At
<1>5. CASE MongoError(r)
  BY <1>5, FinishLocal DEF MongoError
<1>6. QED
  BY <1>1, <1>2, <1>3, <1>4, <1>5

LEMMA CreationStepsLocals ==
    ASSUME TypeOK, LocalsInv, NEW r \in Requests,
           \/ SaveFile(r) \/ CreateResume(r) \/ UpsertProfile(r)
           \/ Extract(r) \/ Charge(r)
    PROVE  LocalsInv'
<1> USE DEF LocalInv, OpInv, DocInv, Owning, Extracting, Removing, Looking
<1>0. mem[r] \in Mem /\ LocalInv(pc[r], mem[r])
  BY MemType DEF LocalsInv
<1>1. CASE SaveFile(r)
  <2>1. CASE Finish(r)
    BY <2>1, FinishLocal
  <2>2. CASE /\ lastId < MaxUploads /\ lastId' = lastId + 1
             /\ Goto(r, "create_resume", [mem[r] EXCEPT !.id = lastId', !.pid = lastId'])
    <3> DEFINE m == [mem[r] EXCEPT !.id = lastId', !.pid = lastId']
    <3>1. lastId' \in Ids
      BY <2>2, ConstantsAssumption DEF TypeOK, Ids
    <3>2. m.op = mem[r].op /\ m.id = lastId' /\ m.pid = lastId' /\ m.dirty = mem[r].dirty
      BY <1>0 DEF Mem
    <3> HIDE DEF m
    <3>3. LocalInv("create_resume", m)
      BY <1>0, <1>1, <3>1, <3>2 DEF SaveFile, At
    <3>4. QED
      BY <2>2, <3>3, GotoLocal DEF m
  <2>3. QED
    BY <1>1, <2>1, <2>2 DEF SaveFile
<1>2. CASE CreateResume(r)
  <2> DEFINE m == [mem[r] EXCEPT !.res = FreshResume]
  <2>1. /\ m.op = mem[r].op /\ m.id = mem[r].id /\ m.pid = mem[r].pid
        /\ m.dirty = mem[r].dirty
    BY <1>0 DEF Mem
  <2>0. m.res = FreshResume
    BY <1>0 DEF Mem
  <2>2. Goto(r, "upsert_profile", m) \/ Finish(r)
    BY <1>2 DEF CreateResume
  <2> HIDE DEF m
  <2>3. LocalInv("upsert_profile", m)
    BY <1>0, <1>2, <2>1, <2>0 DEF CreateResume, At
  <2>4. QED
    BY <2>2, <2>3, GotoLocal, FinishLocal
<1>3. CASE UpsertProfile(r)
  <2> DEFINE m == [mem[r] EXCEPT !.doc = FreshProfile]
  <2>1. /\ m.op = mem[r].op /\ m.id = mem[r].id /\ m.pid = mem[r].pid
        /\ m.doc = FreshProfile /\ m.dirty = mem[r].dirty /\ m.res = mem[r].res
    BY <1>0 DEF Mem
  <2>2. Goto(r, "extract", m) \/ Finish(r)
    BY <1>3 DEF UpsertProfile
  <2> HIDE DEF m
  <2>3. LocalInv("extract", m)
    BY <1>0, <1>3, <2>1 DEF UpsertProfile, At
  <2>4. QED
    BY <2>2, <2>3, GotoLocal, FinishLocal
<1>4. CASE Extract(r)
  <2>1. /\ mem[r].doc = FreshProfile /\ mem[r].dirty = {} /\ mem[r].op = "upload"
        /\ mem[r].id = mem[r].pid /\ mem[r].id \in Ids /\ mem[r].res = FreshResume
    BY <1>0, <1>4 DEF Extract, At
  <2>2. CASE Goto(r, "save_failed", mem[r])
    <3>1. LocalInv("save_failed", mem[r])
      BY <2>1 DEF FreshProfile
    <3>2. QED
      BY <2>2, <3>1, GotoLocal
  <2>3. ASSUME NEW c \in Content,
               Goto(r, "save_extracted",
                    [mem[r] EXCEPT !.doc = Extracted(mem[r].doc, c),
                        !.dirty = Changes(mem[r].doc, Extracted(mem[r].doc, c))])
        PROVE  LocalsInv'
    <3> DEFINE doc == Extracted(mem[r].doc, c)
               dirty == Changes(mem[r].doc, Extracted(mem[r].doc, c))
               m == [mem[r] EXCEPT !.doc = doc, !.dirty = dirty]
    <3>1. /\ doc.status = "ready_for_review" /\ doc.v = 0
          /\ "status" \in dirty /\ "edits" \notin dirty
      BY <2>1, ExtractedDoc
    <3>2. Goto(r, "save_extracted", m)
      BY <2>3
    <3> HIDE DEF doc, dirty
    <3>3. /\ m.op = mem[r].op /\ m.id = mem[r].id /\ m.pid = mem[r].pid
          /\ m.doc = doc /\ m.dirty = dirty /\ m.res = mem[r].res
      BY <1>0 DEF Mem
    <3>4. LocalInv("save_extracted", m)
      BY <2>1, <3>1, <3>3
    <3>5. QED
      BY <3>2, <3>4, GotoLocal
  <2>4. QED
    BY <1>4, <2>2, <2>3 DEF Extract
<1>5. CASE Charge(r)
  BY <1>5, FinishLocal DEF Charge
<1>6. QED
  BY <1>1, <1>2, <1>3, <1>4, <1>5

\* The document of a failed extraction, and what the catch block saves of it.
LEMMA SaveFailedDoc ==
    ASSUME TypeOK, LocalsInv, NEW r \in Requests, At(r, "save_failed")
    PROVE  /\ ExtractionFailed(mem[r].doc) \in ProfileDoc
           /\ ExtractionFailed(mem[r].doc).status = "failed"
           /\ ExtractionFailed(mem[r].doc).v = 0
           /\ mem[r].dirty \cup Changes(mem[r].doc, ExtractionFailed(mem[r].doc))
                 \in SUBSET SavedFields
           /\ "status" \in mem[r].dirty \cup Changes(mem[r].doc, ExtractionFailed(mem[r].doc))
           /\ "edits" \notin mem[r].dirty \cup Changes(mem[r].doc, ExtractionFailed(mem[r].doc))
<1>1. /\ mem[r].doc \in ProfileDoc /\ mem[r].dirty \in SUBSET SavedFields
      /\ mem[r].doc.status \in {"processing", "ready_for_review"}
      /\ mem[r].doc.v = 0 /\ "edits" \notin mem[r].dirty
  BY MemType DEF LocalsInv, LocalInv, DocInv, At
<1>2. Changes(mem[r].doc, ExtractionFailed(mem[r].doc)) \in SUBSET SavedFields
  BY DEF Changes
<1>3. QED
  BY <1>1, <1>2, ExtractionFailedDoc, ExtractionFailedType

LEMMA RecordFailureDoc ==
    ASSUME TypeOK, LocalsInv, NEW r \in Requests, At(r, "record_failure")
    PROVE  /\ [mem[r].doc EXCEPT !.syncError = TRUE] \in ProfileDoc
           /\ [mem[r].doc EXCEPT !.syncError = TRUE].status = "confirmed"
           /\ mem[r].dirty \cup Changes(mem[r].doc, [mem[r].doc EXCEPT !.syncError = TRUE])
                 \in SUBSET SavedFields
           /\ mem[r].dirty \cup Changes(mem[r].doc, [mem[r].doc EXCEPT !.syncError = TRUE])
                 \subseteq {"hash", "syncError"}
<1>1. /\ mem[r].doc \in ProfileDoc /\ mem[r].doc.status = "confirmed"
      /\ mem[r].dirty \subseteq {"hash", "syncError"}
  BY MemType DEF LocalsInv, LocalInv, DocInv, At
<1>2. QED
  BY <1>1, SyncedDoc, SyncedType DEF SavedFields

LEMMA SavingStepsLocals ==
    ASSUME TypeOK, LocalsInv, NEW r \in Requests,
           \/ SaveExtracted(r) \/ SaveFailed(r) \/ EditSave(r)
           \/ ConfirmSave(r) \/ SaveSynced(r) \/ RecordFailure(r)
    PROVE  LocalsInv'
<1> USE DEF LocalInv, OpInv, DocInv, Owning, Extracting, Removing, Looking
<1>0. /\ mem[r].doc \in ProfileDoc /\ mem[r].dirty \in SUBSET SavedFields
      /\ LocalInv(pc[r], mem[r])
  BY MemType DEF LocalsInv
<1>1. CASE SaveExtracted(r)
  <2>1. \A n \in Mem :
            /\ SameButDoc(mem[r], n) /\ n.doc.status = mem[r].doc.status /\ n.dirty = {}
            => LocalInv("save_skills", n)
    BY <1>0, <1>1 DEF SaveExtracted, At, SameButDoc
  <2>2. \A n \in Mem :
            /\ SameButDoc(mem[r], n) /\ n.doc = mem[r].doc /\ n.dirty = mem[r].dirty
            => LocalInv("save_failed", n)
    BY <1>0, <1>1 DEF SaveExtracted, At, SameButDoc
  <2>3. SaveProfile(r, mem[r].doc, mem[r].dirty, "save_skills", "save_failed")
    BY <1>1 DEF SaveExtracted
  <2> HIDE DEF LocalInv
  <2>4. QED
    BY <1>0, <2>1, <2>2, <2>3, SaveLocal
<1>2. CASE EditSave(r)
  <2>1. \A n \in Mem :
            /\ SameButDoc(mem[r], n) /\ n.doc.status = mem[r].doc.status /\ n.dirty = {}
            => LocalInv("save_skills", n)
    BY <1>0, <1>2 DEF EditSave, At, SameButDoc
  <2>2. SaveProfile(r, mem[r].doc, mem[r].dirty, "save_skills", "idle")
    BY <1>2 DEF EditSave
  <2> HIDE DEF LocalInv
  <2>3. QED
    BY <1>0, <2>1, <2>2, SaveLocal
<1>3. CASE ConfirmSave(r)
  <2>1. \A n \in Mem :
            /\ SameButDoc(mem[r], n) /\ n.doc.status = mem[r].doc.status /\ n.dirty = {}
            => LocalInv("confirm_resume", n)
    BY <1>0, <1>3 DEF ConfirmSave, At, SameButDoc
  <2>2. SaveProfile(r, mem[r].doc, mem[r].dirty, "confirm_resume", "idle")
    BY <1>3 DEF ConfirmSave
  <2> HIDE DEF LocalInv
  <2>3. QED
    BY <1>0, <2>1, <2>2, SaveLocal
<1>4. CASE SaveSynced(r)
  <2>1. \A n \in Mem :
            /\ SameButDoc(mem[r], n) /\ n.doc = mem[r].doc /\ n.dirty = mem[r].dirty
            => LocalInv("record_failure", n)
    BY <1>0, <1>4 DEF SaveSynced, At, SameButDoc
  <2>2. SaveProfile(r, mem[r].doc, mem[r].dirty, "idle", "record_failure")
    BY <1>4 DEF SaveSynced
  <2> HIDE DEF LocalInv
  <2>3. QED
    BY <1>0, <2>1, <2>2, SaveLocal
<1>5. CASE SaveFailed(r)
  <2>1. At(r, "save_failed")
    BY <1>5 DEF SaveFailed
  <2> HIDE DEF LocalInv
  <2>2. QED
    BY <1>5, <2>1, SaveFailedDoc, SaveLocal DEF SaveFailed
<1>6. CASE RecordFailure(r)
  <2>1. At(r, "record_failure")
    BY <1>6 DEF RecordFailure
  <2> HIDE DEF LocalInv
  <2>2. QED
    BY <1>6, <2>1, RecordFailureDoc, SaveLocal DEF RecordFailure
<1>7. QED
  BY <1>1, <1>2, <1>3, <1>4, <1>5, <1>6

LEMMA OtherStepsLocals ==
    ASSUME TypeOK, LocalsInv, NEW r \in Requests,
           SaveSkills(r) \/ EditProfile(r) \/ ConfirmResume(r) \/ UpsertPoint(r)
    PROVE  LocalsInv'
<1> USE DEF LocalInv, OpInv, DocInv, Owning, Extracting, Removing, Looking
<1>0. mem[r] \in Mem /\ mem[r].doc \in ProfileDoc /\ LocalInv(pc[r], mem[r])
  BY MemType DEF LocalsInv
<1>1. CASE SaveSkills(r)
  <2>1. AfterSkills(mem[r]) = "idle" \/ LocalInv(AfterSkills(mem[r]), mem[r])
    BY <1>0, <1>1 DEF SaveSkills, At, AfterSkills, SyncStart
  <2>2. QED
    BY <1>1, <2>1, GotoLocal, FinishLocal DEF SaveSkills
<1>2. CASE EditProfile(r)
  <2>1. CASE Finish(r)
    BY <2>1, FinishLocal
  <2>2. ASSUME CanEdit(mem[r].id), NEW c \in Content,
               Goto(r, "edit_save", [mem[r] EXCEPT !.doc = Edited(profiles[mem[r].id], c),
                        !.dirty = Changes(profiles[mem[r].id], Edited(profiles[mem[r].id], c))])
        PROVE  LocalsInv'
    <3> DEFINE doc == Edited(profiles[mem[r].id], c)
               dirty == Changes(profiles[mem[r].id], Edited(profiles[mem[r].id], c))
               m == [mem[r] EXCEPT !.doc = doc, !.dirty = dirty]
    <3>1. /\ doc.status \in {"confirmed", "ready_for_review"}
          /\ "edits" \in dirty /\ "status" \notin dirty
      BY <2>2, CanEditDoc, EditedDoc
    <3>2. Goto(r, "edit_save", m)
      BY <2>2
    <3> HIDE DEF doc, dirty
    <3>3. /\ m.op = mem[r].op /\ m.id = mem[r].id /\ m.pid = mem[r].pid
          /\ m.doc = doc /\ m.dirty = dirty
      BY <1>0 DEF Mem
    <3>4. LocalInv("edit_save", m)
      BY <1>0, <1>2, <3>1, <3>3 DEF EditProfile, At
    <3>5. QED
      BY <3>2, <3>4, GotoLocal
  <2>3. QED
    BY <1>2, <2>1, <2>2 DEF EditProfile
<1>3. CASE ConfirmResume(r)
  <2> DEFINE m(i) == [mem[r] EXCEPT !.id = i, !.res = resumes[i]]
  <2>1. PICK i \in FindByUser(resumes) :
            IF i = NoId THEN Goto(r, SyncStart(mem[r].doc), mem[r])
            ELSE Goto(r, "save_skills", m(i))
    BY <1>3 DEF ConfirmResume
  <2>2. SyncStart(mem[r].doc) = "idle" \/ LocalInv(SyncStart(mem[r].doc), mem[r])
    BY <1>0, <1>3 DEF ConfirmResume, At, SyncStart
  <2>3. /\ m(i).op = mem[r].op /\ m(i).pid = mem[r].pid
        /\ m(i).doc = mem[r].doc /\ m(i).dirty = mem[r].dirty
    BY <1>0 DEF Mem
  <2> HIDE DEF m
  <2>4. LocalInv("save_skills", m(i))
    BY <1>0, <1>3, <2>3 DEF ConfirmResume, At
  <2>5. QED
    BY <2>1, <2>2, <2>4, GotoLocal
<1>4. CASE UpsertPoint(r)
  <2> DEFINE doc == Synced(mem[r].doc)
             dirty == mem[r].dirty \cup Changes(mem[r].doc, doc)
             m == [mem[r] EXCEPT !.doc = doc, !.dirty = dirty]
  <2>1. /\ mem[r].op \in {"edit", "confirm"} /\ mem[r].pid \in Ids
        /\ mem[r].dirty = {} /\ mem[r].doc.status = "confirmed"
    BY <1>0, <1>4 DEF UpsertPoint, At
  <2>2. doc.status = "confirmed" /\ dirty \subseteq {"hash", "syncError"}
    BY <1>0, <2>1, SyncedDoc
  <2>3. Goto(r, "save_synced", m) \/ Goto(r, "record_failure", mem[r])
    BY <1>4 DEF UpsertPoint
  <2> HIDE DEF doc, dirty
  <2>4. m.op = mem[r].op /\ m.pid = mem[r].pid /\ m.doc = doc /\ m.dirty = dirty
    BY <1>0 DEF Mem
  <2>5. LocalInv("save_synced", m) /\ LocalInv("record_failure", mem[r])
    BY <2>1, <2>2, <2>4
  <2>6. QED
    BY <2>3, <2>5, GotoLocal
<1>5. QED
  BY <1>1, <1>2, <1>3, <1>4

LEMMA LocalsInvHolds == Spec => []LocalsInv
<1>1. Init => LocalsInv
  BY IdleLocal DEF Init, LocalsInv
<1>2. TypeOK /\ LocalsInv /\ [Next]_vars => LocalsInv'
  <2> SUFFICES ASSUME TypeOK, LocalsInv, [Next]_vars PROVE LocalsInv'
    OBVIOUS
  <2>1. ASSUME NEW r \in Requests, Request(r) \/ Step(r) PROVE LocalsInv'
    BY <2>1, RequestLocals, SyncStepsLocals, RemovalStepsLocals, CreationStepsLocals,
       SavingStepsLocals, OtherStepsLocals DEF Step
  <2>2. CASE Crash
    BY <2>2, IdleLocal DEF Crash, LocalsInv
  <2>3. CASE UNCHANGED vars
    BY <2>3 DEF vars, LocalsInv
  <2>4. QED
    BY <2>1, <2>2, <2>3 DEF Next
<1>3. QED
  BY <1>1, <1>2, TypeCorrect, PTL DEF Spec

----------------------------------------------------------------------------
(* How a step changes the status of a profile *)

Saving == {"save_extracted", "save_failed", "edit_save", "confirm_save", "save_synced",
           "record_failure"}

LEMMA SavingIds ==
    ASSUME LocalsInv, NEW r \in Requests, pc[r] \in Saving
    PROVE  mem[r].pid \in Ids
BY DEF LocalsInv, LocalInv, OpInv, Owning, Extracting, Saving

\* Storing doc changes the status of its profile if the status was assigned.
LEMMA StoredStatus ==
    ASSUME TypeOK, NEW r \in Requests, mem[r].pid \in Ids, NEW doc \in ProfileDoc, NEW dirty,
           Stored(r, doc, dirty), NEW i \in Ids
    PROVE  /\ profiles[i] # None <=> profiles'[i] # None
           /\ i # mem[r].pid => profiles'[i] = profiles[i]
           /\ i = mem[r].pid =>
                 /\ profiles[i] \in ProfileDoc
                 /\ profiles'[i] = Written(profiles[i], doc, dirty)
                 /\ profiles'[i] \in ProfileDoc
           /\ StatusOf(i)' = IF i = mem[r].pid /\ "status" \in dirty THEN doc.status
                             ELSE StatusOf(i)
<1>1. i # NoId
  BY DEF Ids, NoId
<1>2. CASE i # mem[r].pid
  BY <1>1, <1>2 DEF Stored, StatusOf, TypeOK
<1>3. CASE i = mem[r].pid
  <2>1. /\ profiles[i] \in ProfileDoc
        /\ profiles'[i] = Written(profiles[i], doc, dirty)
    BY <1>3 DEF Stored, CanSave, TypeOK
  <2>2. Written(profiles[i], doc, dirty) \in ProfileDoc
    BY <2>1, WrittenType
  <2>3. Written(profiles[i], doc, dirty).status =
            IF "status" \in dirty THEN doc.status ELSE profiles[i].status
    BY DEF Written
  <2>4. QED
    BY <1>1, <1>3, <2>1, <2>2, <2>3, FreshTypes DEF StatusOf
<1>4. QED
  BY <1>2, <1>3

\* The steps of r that may change the status of a profile i, and to what.
StatusChange(r, i) ==
    \/ UpsertProfile(r) /\ i = mem[r].id /\ StatusOf(i)' = "processing"
    \/ DeleteProfile(r) /\ i = mem[r].id /\ StatusOf(i)' = "none"
    \/ /\ i = mem[r].pid /\ profiles[i] # None
       /\ \/ SaveExtracted(r) /\ StatusOf(i)' = "ready_for_review" /\ pc'[r] = "save_skills"
          \/ SaveFailed(r) /\ StatusOf(i)' = "failed" /\ pc'[r] = "idle"
          \/ ConfirmSave(r) /\ StatusOf(i)' = "confirmed" /\ pc'[r] = "confirm_resume"

LEMMA SaveStatus ==
    ASSUME TypeOK, LocalsInv, NEW r \in Requests, NEW i \in Ids,
           \/ SaveExtracted(r) \/ SaveFailed(r) \/ EditSave(r)
           \/ ConfirmSave(r) \/ SaveSynced(r) \/ RecordFailure(r)
    PROVE  StatusOf(i)' = StatusOf(i) \/ StatusChange(r, i)
<1>0. /\ mem[r].doc \in ProfileDoc /\ mem[r].dirty \in SUBSET SavedFields
      /\ DocInv(pc[r], mem[r])
  BY MemType DEF LocalsInv, LocalInv
<1>1. mem[r].pid \in Ids
  BY SavingIds DEF SaveExtracted, SaveFailed, EditSave, ConfirmSave, SaveSynced, RecordFailure,
                   Saving, At
<1>2. CASE UNCHANGED profiles
  BY <1>2 DEF StatusOf
<1>3. CASE SaveExtracted(r) \/ ConfirmSave(r)
  <2>1. CASE Stored(r, mem[r].doc, mem[r].dirty)
    <3>1. StatusOf(i)' = IF i = mem[r].pid THEN mem[r].doc.status ELSE StatusOf(i)
      BY <1>0, <1>1, <1>3, <2>1, StoredStatus DEF SaveExtracted, ConfirmSave, At, DocInv
    <3>2. i = mem[r].pid => profiles[i] # None
      BY <2>1 DEF Stored, CanSave
    <3>3. ~UNCHANGED profiles => pc'[r] = IF SaveExtracted(r) THEN "save_skills" ELSE "confirm_resume"
      <4>1. PICK ok \in Labels, failed \in Labels :
                /\ ok = IF SaveExtracted(r) THEN "save_skills" ELSE "confirm_resume"
                /\ SaveProfile(r, mem[r].doc, mem[r].dirty, ok, failed)
        BY <1>3 DEF SaveExtracted, ConfirmSave, At, Labels
      <4>2. ~UNCHANGED profiles => \E n : Goto(r, ok, n)
        BY <4>1 DEF SaveProfile
      <4>3. QED
        BY <4>1, <4>2, GotoEffect
    <3>4. QED
      BY <1>0, <1>2, <1>3, <3>1, <3>2, <3>3
         DEF StatusChange, SaveExtracted, ConfirmSave, At, DocInv
  <2>2. QED
    BY <1>0, <1>2, <1>3, <2>1 DEF SaveExtracted, ConfirmSave, SaveProfile, Stored
<1>4. CASE SaveFailed(r)
  <2> DEFINE doc == ExtractionFailed(mem[r].doc)
             dirty == mem[r].dirty \cup Changes(mem[r].doc, doc)
  <2>1. /\ doc \in ProfileDoc /\ doc.status = "failed" /\ dirty \in SUBSET SavedFields
        /\ "status" \in dirty
    BY <1>4, SaveFailedDoc DEF SaveFailed
  <2>2. SaveProfile(r, doc, dirty, "idle", "idle")
    BY <1>4 DEF SaveFailed
  <2> HIDE DEF doc, dirty
  <2>3. pc'[r] = "idle" /\ (UNCHANGED profiles \/ Stored(r, doc, dirty))
    <3>1. (\E n : Goto(r, "idle", n)) /\ (UNCHANGED profiles \/ Stored(r, doc, dirty))
      BY <2>2 DEF SaveProfile, Stored
    <3>2. QED
      BY <3>1, GotoEffect
  <2>4. CASE Stored(r, doc, dirty)
    <3>1. StatusOf(i)' = IF i = mem[r].pid THEN "failed" ELSE StatusOf(i)
      BY <1>1, <2>1, <2>4, StoredStatus
    <3>2. i = mem[r].pid => profiles[i] # None
      BY <2>4 DEF Stored, CanSave
    <3>3. QED
      BY <1>4, <2>3, <3>1, <3>2 DEF StatusChange
  <2>5. QED
    BY <1>2, <2>3, <2>4
<1>5. CASE EditSave(r) \/ SaveSynced(r)
  <2>1. UNCHANGED profiles \/ Stored(r, mem[r].doc, mem[r].dirty)
    BY <1>5 DEF EditSave, SaveSynced, SaveProfile, Stored
  <2>2. "status" \notin mem[r].dirty
    BY <1>0, <1>5 DEF EditSave, SaveSynced, At, DocInv
  <2>3. QED
    BY <1>0, <1>1, <1>2, <2>1, <2>2, StoredStatus
<1>6. CASE RecordFailure(r)
  <2> DEFINE doc == [mem[r].doc EXCEPT !.syncError = TRUE]
             dirty == mem[r].dirty \cup Changes(mem[r].doc, doc)
  <2>1. doc \in ProfileDoc /\ "status" \notin dirty
    BY <1>6, RecordFailureDoc DEF RecordFailure
  <2>2. UNCHANGED profiles \/ Stored(r, doc, dirty)
    BY <1>6 DEF RecordFailure, SaveProfile, Stored
  <2> HIDE DEF doc, dirty
  <2>3. QED
    BY <1>1, <1>2, <2>1, <2>2, StoredStatus
<1>7. QED
  BY <1>3, <1>4, <1>5, <1>6

LEMMA StatusStep ==
    ASSUME TypeOK, LocalsInv, NEW r \in Requests, NEW i \in Ids, Request(r) \/ Step(r)
    PROVE  StatusOf(i)' = StatusOf(i) \/ StatusChange(r, i)
<1>0. i # NoId
  BY DEF Ids, NoId
<1>1. CASE \/ SaveExtracted(r) \/ SaveFailed(r) \/ EditSave(r)
           \/ ConfirmSave(r) \/ SaveSynced(r) \/ RecordFailure(r)
  BY <1>1, SaveStatus
<1>2. CASE UpsertProfile(r)
  <2>1. CASE UNCHANGED profiles
    BY <2>1 DEF StatusOf
  <2>2. CASE profiles' = [profiles EXCEPT ![mem[r].id] = FreshProfile]
    <3>1. profiles'[i] = IF i = mem[r].id THEN FreshProfile ELSE profiles[i]
      BY <2>2 DEF TypeOK
    <3>2. FreshProfile # None /\ FreshProfile.status = "processing"
      BY FreshTypes DEF FreshProfile
    <3>3. QED
      BY <1>0, <1>2, <3>1, <3>2 DEF StatusOf, StatusChange
  <2>3. QED
    BY <1>2, <2>1, <2>2 DEF UpsertProfile
<1>3. CASE DeleteProfile(r)
  <2>1. profiles'[i] = IF i = mem[r].id THEN None ELSE profiles[i]
    BY <1>3 DEF DeleteProfile, TypeOK
  <2>2. QED
    BY <1>0, <1>3, <2>1 DEF StatusOf, StatusChange
<1>4. CASE UNCHANGED profiles
  BY <1>4 DEF StatusOf
<1>5. CASE Request(r)
  BY <1>4, <1>5 DEF Request, BeginUpload, BeginQuota, BeginDelete, BeginEdit, BeginConfirm, stores
<1>6. QED
  BY <1>1, <1>2, <1>3, <1>4, <1>5
     DEF Step, SyncResume, SyncProfile, SyncReset, FindExisting, FindExistingProfile, DeleteFile,
         DeleteVector, DeleteResume, SaveFile, CreateResume, Extract, SaveSkills, Charge,
         EditProfile, ConfirmResume, UpsertPoint, MongoError, stores

----------------------------------------------------------------------------
(* Ids: each upload has one of its own, and nobody refers to one not given *)

Creating == {"create_resume", "upsert_profile"}
Found == Removing \cup {"find_existing_profile"}

IdsInv ==
    /\ \A i \in Ids : i > lastId => profiles[i] = None /\ resumes[i] = None /\ i \notin files
    /\ \A r \in Requests : mem[r].id <= lastId /\ mem[r].pid <= lastId
    /\ \A q, r \in Requests :
          Owning(pc[q], mem[q]) /\ Owning(pc[r], mem[r]) /\ mem[q].id = mem[r].id => q = r
    /\ \A r \in Requests : At(r, "create_resume") => resumes[mem[r].id] = None
    /\ \A r \in Requests : pc[r] \in Creating => profiles[mem[r].id] = None
    /\ \A q, r \in Requests :
          At(r, "create_resume") /\ pc[q] \in Found => mem[q].id # mem[r].id

\* A step of r that makes no document and gives no id.
Quiet(r) ==
    /\ OthersStay(r) /\ UNCHANGED lastId /\ files' \subseteq files
    /\ \A i \in Ids : (profiles[i] = None => profiles'[i] = None) /\ (resumes[i] = None => resumes'[i] = None)
    /\ mem'[r].id \in {mem[r].id, NoId} \cup Existing(resumes)
    /\ mem'[r].pid \in {mem[r].pid, NoId} \cup Existing(resumes) \cup Existing(profiles)
    /\ Owning(pc'[r], mem'[r]) => Owning(pc[r], mem[r]) /\ mem'[r].id = mem[r].id
    /\ pc'[r] \notin Creating
    /\ pc'[r] \in Found =>
          mem'[r].id \in Existing(resumes) \/ (pc[r] \in Found /\ mem'[r].id = mem[r].id)

LEMMA QuietKeepsIds ==
    ASSUME TypeOK, LocalsInv, IdsInv, NEW r \in Requests, Quiet(r)
    PROVE  IdsInv'
<1>2. \A i \in Existing(resumes) \cup Existing(profiles) : i <= lastId
  BY DEF Existing, IdsInv, TypeOK, Ids
<1>3. \A q \in Requests : mem'[q].id <= lastId' /\ mem'[q].pid <= lastId'
  BY <1>2 DEF IdsInv, Quiet, OthersStay, NoId, TypeOK
<1>4. \A q \in Requests : pc'[q] \in Creating =>
          q # r /\ pc'[q] = pc[q] /\ mem'[q] = mem[q] /\ mem[q].id \in Ids
  BY DEF Quiet, OthersStay, LocalsInv, LocalInv, OpInv, Owning, Creating
<1>5. \A q, p \in Requests :
          Owning(pc'[q], mem'[q]) /\ Owning(pc'[p], mem'[p]) /\ mem'[q].id = mem'[p].id => q = p
  BY DEF Quiet, OthersStay, IdsInv
<1>6. \A q \in Requests : pc'[q] \in Creating => profiles'[mem'[q].id] = None
  BY <1>4 DEF Quiet, IdsInv
<1>7. \A q \in Requests : pc'[q] = "create_resume" => resumes'[mem'[q].id] = None
  BY <1>4 DEF Quiet, IdsInv, Creating, At
<1>8. ASSUME NEW q \in Requests, NEW p \in Requests, pc'[p] = "create_resume", pc'[q] \in Found
      PROVE  mem'[q].id # mem'[p].id
  <2>1. pc[p] = "create_resume" /\ mem'[p] = mem[p] /\ mem[p].id \in Ids
        /\ resumes[mem[p].id] = None
    BY <1>4, <1>8 DEF Creating, IdsInv, At
  <2>2. mem'[q].id \in Existing(resumes) \/ (pc[q] \in Found /\ mem'[q].id = mem[q].id)
    BY <1>8 DEF Quiet, OthersStay
  <2>3. QED
    BY <2>1, <2>2 DEF Existing, IdsInv, At
<1>9. \A i \in Ids : i > lastId' => profiles'[i] = None /\ resumes'[i] = None /\ i \notin files'
  BY DEF IdsInv, Quiet
<1>10. QED
  BY <1>3, <1>5, <1>6, <1>7, <1>8, <1>9 DEF IdsInv, At

\* The steps that are quiet.
LEMMA RequestsQuiet ==
    ASSUME TypeOK, LocalsInv, NEW r \in Requests, Request(r)
    PROVE  Quiet(r)
<1> USE DEF Owning, Extracting, Creating, Found, Removing
<1>1. UNCHANGED <<uploadCount, lastId, stores>>
  BY DEF Request, BeginUpload, BeginQuota, BeginDelete, BeginEdit, BeginConfirm
<1>2. ASSUME NEW label \in {"sync_resume", "delete_file", "edit_profile", "confirm_save"}, NEW m,
             Goto(r, label, m),
             m.id \in {NoId} \cup Existing(resumes),
             m.pid \in {NoId} \cup Existing(resumes) \cup Existing(profiles),
             label = "delete_file" => m.id # NoId
      PROVE  Quiet(r)
  <2>1. OthersStay(r) /\ pc'[r] = label /\ mem'[r] = m
    BY <1>2, GotoEffect
  <2>2. QED
    BY <1>1, <1>2, <2>1 DEF Quiet, stores
<1>3. CASE BeginUpload(r) \/ BeginQuota(r)
  <2>1. /\ [NoMem EXCEPT !.op = "upload", !.count = uploadCount].id = NoId
        /\ [NoMem EXCEPT !.op = "upload", !.count = uploadCount].pid = NoId
        /\ [NoMem EXCEPT !.op = "quota", !.count = uploadCount].id = NoId
        /\ [NoMem EXCEPT !.op = "quota", !.count = uploadCount].pid = NoId
    BY DEF NoMem
  <2>2. QED
    BY <1>2, <1>3, <2>1 DEF BeginUpload, BeginQuota
<1>4. CASE BeginDelete(r)
  <2> DEFINE m(i) == [NoMem EXCEPT !.op = "delete", !.id = i]
  <2>1. PICK i \in Existing(resumes) : Goto(r, "delete_file", m(i))
    BY <1>4 DEF BeginDelete
  <2>2. m(i).id = i /\ m(i).pid = NoId /\ i # NoId
    BY DEF NoMem, Existing, Ids, NoId
  <2> HIDE DEF m
  <2>3. QED
    BY <1>2, <2>1, <2>2
<1>5. CASE BeginEdit(r)
  <2> DEFINE m(i) == [NoMem EXCEPT !.op = "edit", !.id = i, !.pid = i, !.res = resumes[i]]
  <2>1. PICK i \in Existing(resumes) : Goto(r, "edit_profile", m(i))
    BY <1>5 DEF BeginEdit
  <2>2. m(i).id = i /\ m(i).pid = i
    BY DEF NoMem
  <2> HIDE DEF m
  <2>3. QED
    BY <1>2, <2>1, <2>2
<1>6. CASE BeginConfirm(r)
  <2> DEFINE m(i, c) == [NoMem EXCEPT !.op = "confirm", !.pid = i,
                              !.doc = Confirmed(profiles[i], c),
                              !.dirty = Changes(profiles[i], Confirmed(profiles[i], c))]
  <2>1. PICK i \in Existing(profiles), c \in Content : Goto(r, "confirm_save", m(i, c))
    BY <1>6 DEF BeginConfirm
  <2>2. m(i, c).id = NoId /\ m(i, c).pid = i
    BY DEF NoMem
  <2> HIDE DEF m
  <2>3. QED
    BY <1>2, <2>1, <2>2
<1>7. QED
  BY <1>3, <1>4, <1>5, <1>6 DEF Request

\* A step of r that keeps its ids and its documents, or ends it.
LEMMA QuietGoto ==
    ASSUME TypeOK, NEW r \in Requests, NEW label, NEW m,
           Goto(r, label, m) \/ Finish(r),
           m.id = mem[r].id, m.pid = mem[r].pid, UNCHANGED lastId, files' \subseteq files,
           \A i \in Ids : /\ profiles[i] = None => profiles'[i] = None
                          /\ resumes[i] = None => resumes'[i] = None,
           label # "idle" /\ Owning(label, m) => Owning(pc[r], mem[r]),
           label \notin Creating,
           label \in Found => pc[r] \in Found
    PROVE  Quiet(r)
<1>1. CASE Goto(r, label, m) /\ label # "idle"
  BY <1>1, GotoEffect DEF Quiet
<1>2. CASE Finish(r) \/ (Goto(r, label, m) /\ label = "idle")
  <2>1. OthersStay(r) /\ pc'[r] = "idle" /\ mem'[r] = NoMem
    BY <1>2, GotoEffect, FinishEffect
  <2>2. NoMem.id = NoId /\ NoMem.pid = NoId /\ ~Owning("idle", NoMem)
    BY DEF NoMem, Owning, Extracting
  <2>3. "idle" \notin Creating \cup Found
    BY DEF Creating, Found, Removing
  <2>4. QED
    BY <2>1, <2>2, <2>3 DEF Quiet
<1>3. QED
  BY <1>1, <1>2

LEMMA SavesQuiet ==
    ASSUME TypeOK, LocalsInv, NEW r \in Requests,
           \/ SaveExtracted(r) \/ SaveFailed(r) \/ EditSave(r)
           \/ ConfirmSave(r) \/ SaveSynced(r) \/ RecordFailure(r)
    PROVE  Quiet(r)
<1>1. PICK doc \in ProfileDoc, dirty \in SUBSET SavedFields, ok \in Labels, failed \in Labels :
          /\ SaveProfile(r, doc, dirty, ok, failed)
          /\ {ok, failed} \subseteq
                {"idle", "save_skills", "save_failed", "confirm_resume", "record_failure"}
          /\ ok = "save_skills" => At(r, "save_extracted") \/ At(r, "edit_save")
          /\ failed = "save_failed" => At(r, "save_extracted")
          /\ ok # "save_failed" /\ failed # "save_skills"
  <2>1. mem[r].doc \in ProfileDoc /\ mem[r].dirty \in SUBSET SavedFields
    BY MemType
  <2>2. CASE SaveExtracted(r) \/ EditSave(r) \/ ConfirmSave(r) \/ SaveSynced(r)
    BY <2>1, <2>2 DEF SaveExtracted, EditSave, ConfirmSave, SaveSynced, Labels
  <2>3. CASE SaveFailed(r)
    BY <2>3, SaveFailedDoc DEF SaveFailed, Labels
  <2>4. CASE RecordFailure(r)
    BY <2>4, RecordFailureDoc DEF RecordFailure, Labels
  <2>5. QED
    BY <2>2, <2>3, <2>4
<1>2. pc[r] \in Saving /\ mem[r].pid \in Ids
  BY SavingIds DEF SaveExtracted, SaveFailed, EditSave, ConfirmSave, SaveSynced, RecordFailure,
                   Saving, At
<1>3. PICK n \in Mem :
          /\ SameButDoc(mem[r], n) /\ n.doc.status = doc.status
          /\ \/ /\ Stored(r, doc, dirty) /\ UNCHANGED calm
                /\ Goto(r, ok, n) /\ n.dirty = {} /\ Text(n.doc) = Text(doc)
                /\ n.doc.hash = doc.hash /\ n.doc.syncError = doc.syncError
             \/ /\ NotStored(r, doc, dirty)
                /\ Goto(r, failed, n) /\ n.dirty = dirty /\ n.doc = doc
  BY <1>1, SaveEffect
<1>4. UNCHANGED <<uploadCount, resumes, files, point, lastId>>
  BY <1>1 DEF SaveProfile
<1>5. \A i \in Ids : profiles[i] = None => profiles'[i] = None
  BY <1>2, <1>3, StoredStatus DEF NotStored
<1>6. Goto(r, ok, n) \/ Goto(r, failed, n)
  BY <1>3
<1>7. /\ Owning(ok, n) => Owning(pc[r], mem[r])
      /\ Owning(failed, n) => Owning(pc[r], mem[r])
  <2>1. OpInv(pc[r], mem[r])
    BY DEF LocalsInv, LocalInv
  <2>2. n.op = mem[r].op
    BY <1>3 DEF SameButDoc
  <2>3. At(r, "edit_save") => mem[r].op = "edit"
    BY <2>1 DEF OpInv, At
  <2>4. ok # "save_skills" => ~Owning(ok, n)
    BY <1>1 DEF Owning, Extracting
  <2>5. Owning(failed, n) => failed \in {"save_failed", "save_skills"}
    BY <1>1 DEF Owning, Extracting
  <2>6. QED
    BY <1>1, <2>2, <2>3, <2>4, <2>5 DEF Owning, Extracting, At
<1>8. {ok, failed} \cap (Creating \cup Found) = {}
  BY <1>1 DEF Creating, Found, Removing
<1>9. n.id = mem[r].id /\ n.pid = mem[r].pid
  BY <1>3 DEF SameButDoc
<1>10. QED
  BY <1>4, <1>5, <1>6, <1>7, <1>8, <1>9, QuietGoto

\* Steps that keep the ids of the request.
LEMMA SameIdsQuiet ==
    ASSUME TypeOK, LocalsInv, NEW r \in Requests,
           \/ SyncProfile(r) \/ SyncReset(r) \/ FindExistingProfile(r) \/ DeleteFile(r)
           \/ DeleteVector(r) \/ DeleteProfile(r) \/ DeleteResume(r) \/ Extract(r)
           \/ SaveSkills(r) \/ Charge(r) \/ EditProfile(r) \/ UpsertPoint(r) \/ MongoError(r)
    PROVE  Quiet(r)
<1>1. PICK label, m :
          /\ Goto(r, label, m) \/ Finish(r)
          /\ m.id = mem[r].id /\ m.pid = mem[r].pid /\ m.op = mem[r].op
          /\ label \notin {"create_resume", "upsert_profile", "extract"}
          /\ label \in Found => pc[r] \in Found
          /\ label \in {"save_extracted", "save_failed"} => At(r, "extract")
          /\ label = "charge" => At(r, "save_skills") /\ mem[r].op = "upload"
          /\ label # "save_skills"
  <2> USE DEF Found, Removing, At
  <2>0. mem[r] \in Mem
    BY MemType
  <2>1. CASE SyncProfile(r)
    <3> DEFINE label(i) == IF ShouldReset(mem[r].count, mem[r].id, StatusOf(i))
                           THEN "sync_reset" ELSE AfterSync(mem[r].op)
    <3>1. PICK i : Goto(r, label(i), mem[r])
      BY <2>1 DEF SyncProfile
    <3>2. label(i) \in {"sync_reset", "idle", "find_existing"}
      BY DEF AfterSync
    <3> HIDE DEF label
    <3>3. QED
      BY <3>1, <3>2
  <2>2. CASE SyncReset(r)
    <3> DEFINE m == [mem[r] EXCEPT !.count = 0]
    <3>1. Goto(r, AfterSync(mem[r].op), m) /\ AfterSync(mem[r].op) \in {"idle", "find_existing"}
      BY <2>2 DEF SyncReset, AfterSync
    <3>2. m.id = mem[r].id /\ m.pid = mem[r].pid /\ m.op = mem[r].op
      BY <2>0 DEF Mem
    <3> HIDE DEF m
    <3>3. QED
      BY <3>1, <3>2
  <2>3. CASE FindExistingProfile(r)
    BY <2>3 DEF FindExistingProfile
  <2>4. CASE DeleteFile(r) \/ DeleteVector(r) \/ DeleteProfile(r) \/ DeleteResume(r)
    BY <2>4 DEF DeleteFile, DeleteVector, DeleteProfile, DeleteResume
  <2>5. CASE Extract(r)
    <3> DEFINE m(c) == [mem[r] EXCEPT !.doc = Extracted(mem[r].doc, c),
                            !.dirty = Changes(mem[r].doc, Extracted(mem[r].doc, c))]
    <3>1. \/ Goto(r, "save_failed", mem[r])
          \/ \E c \in Content : Goto(r, "save_extracted", m(c))
      BY <2>5 DEF Extract
    <3>2. \A c : m(c).id = mem[r].id /\ m(c).pid = mem[r].pid /\ m(c).op = mem[r].op
      BY <2>0 DEF Mem
    <3>3. pc[r] = "extract"
      BY <2>5 DEF Extract
    <3> HIDE DEF m
    <3>4. CASE Goto(r, "save_failed", mem[r])
      BY <3>3, <3>4
    <3>5. ASSUME NEW c \in Content, Goto(r, "save_extracted", m(c)) 
          PROVE  \E label, n :
                    /\ label = "save_extracted" /\ Goto(r, label, n)
                    /\ n.id = mem[r].id /\ n.pid = mem[r].pid /\ n.op = mem[r].op
      BY <3>2, <3>5
    <3>6. QED
      BY <3>1, <3>3, <3>4, <3>5
  <2>6. CASE SaveSkills(r)
    <3>1. Goto(r, AfterSkills(mem[r]), mem[r]) \/ Finish(r)
      BY <2>6 DEF SaveSkills
    <3>2. /\ AfterSkills(mem[r]) \in {"charge", "idle", "record_failure", "upsert_point"}
          /\ AfterSkills(mem[r]) = "charge" => mem[r].op = "upload"
      BY DEF AfterSkills, SyncStart
    <3>3. pc[r] = "save_skills"
      BY <2>6 DEF SaveSkills
    <3>4. QED
      BY <3>1, <3>2, <3>3
  <2>7. CASE Charge(r) \/ MongoError(r)
    <3>1. Finish(r)
      BY <2>7 DEF Charge, MongoError
    <3>2. QED
      BY <3>1
  <2>8. CASE EditProfile(r)
    <3> DEFINE m(c) == [mem[r] EXCEPT !.doc = Edited(profiles[mem[r].id], c),
                            !.dirty = Changes(profiles[mem[r].id], Edited(profiles[mem[r].id], c))]
    <3>1. Finish(r) \/ \E c \in Content : Goto(r, "edit_save", m(c))
      BY <2>8 DEF EditProfile
    <3>2. \A c : m(c).id = mem[r].id /\ m(c).pid = mem[r].pid /\ m(c).op = mem[r].op
      BY <2>0 DEF Mem
    <3> HIDE DEF m
    <3>3. QED
      BY <3>1, <3>2
  <2>9. CASE UpsertPoint(r)
    <3> DEFINE m == [mem[r] EXCEPT !.doc = Synced(mem[r].doc),
                        !.dirty = mem[r].dirty \cup Changes(mem[r].doc, Synced(mem[r].doc))]
    <3>1. Goto(r, "save_synced", m) \/ Goto(r, "record_failure", mem[r])
      BY <2>9 DEF UpsertPoint
    <3>2. m.id = mem[r].id /\ m.pid = mem[r].pid /\ m.op = mem[r].op
      BY <2>0 DEF Mem
    <3> HIDE DEF m
    <3>3. QED
      BY <3>1, <3>2
  <2>10. QED
    BY <2>1, <2>2, <2>3, <2>4, <2>5, <2>6, <2>7, <2>8, <2>9
<1>2. UNCHANGED lastId /\ files' \subseteq files
  BY DEF SyncProfile, SyncReset, FindExistingProfile, DeleteFile, DeleteVector, DeleteProfile,
         DeleteResume, Extract, SaveSkills, Charge, EditProfile, UpsertPoint, MongoError, stores
<1>3. ASSUME NEW i \in Ids
      PROVE  /\ profiles[i] = None => profiles'[i] = None
             /\ resumes[i] = None => resumes'[i] = None
  BY DEF SyncProfile, SyncReset, FindExistingProfile, DeleteFile, DeleteVector, DeleteProfile,
         DeleteResume, Extract, SaveSkills, Charge, EditProfile, UpsertPoint, MongoError, stores,
         TypeOK
<1>4. Owning(label, m) => Owning(pc[r], mem[r])
  BY <1>1 DEF Owning, Extracting, At
<1>5. label \notin Creating
  BY <1>1 DEF Creating
<1>6. QED
  BY <1>1, <1>2, <1>3, <1>4, <1>5, QuietGoto

\* Steps that look a resume up.
LEMMA LookupsQuiet ==
    ASSUME TypeOK, LocalsInv, NEW r \in Requests,
           SyncResume(r) \/ FindExisting(r) \/ ConfirmResume(r)
    PROVE  Quiet(r)
<1> USE DEF Owning, Extracting, Creating, Found, Removing
<1>0. mem[r] \in Mem /\ OpInv(pc[r], mem[r])
  BY MemType DEF LocalsInv, LocalInv
<1>1. UNCHANGED <<uploadCount, lastId, stores>>
  BY DEF SyncResume, FindExisting, ConfirmResume
<1>2. ASSUME NEW i \in FindByUser(resumes), NEW label, NEW m,
             label \in {"idle", "sync_profile", "save_file", "find_existing_profile", "save_skills"},
             Goto(r, label, m), m.id = i, m.pid = mem[r].pid,
             label = "find_existing_profile" => i # NoId,
             label = "save_skills" => m.op # "upload"
      PROVE  Quiet(r)
  <2>1. i \in {NoId} \cup Existing(resumes) /\ (i # NoId => i \in Existing(resumes))
    BY DEF FindByUser
  <2>2. OthersStay(r) /\ pc'[r] = label /\ mem'[r] = IF label = "idle" THEN NoMem ELSE m
    BY <1>2, GotoEffect
  <2>3. NoMem.id = NoId /\ NoMem.pid = NoId
    BY DEF NoMem
  <2>4. QED
    BY <1>1, <1>2, <2>1, <2>2, <2>3 DEF Quiet, stores
<1>3. CASE SyncResume(r)
  <2> DEFINE m(i) == [mem[r] EXCEPT !.id = i]
  <2>1. PICK i \in FindByUser(resumes) : Goto(r, "sync_profile", m(i))
    BY <1>3 DEF SyncResume
  <2>2. m(i).id = i /\ m(i).pid = mem[r].pid
    BY <1>0 DEF Mem
  <2> HIDE DEF m
  <2>3. QED
    BY <1>2, <2>1, <2>2
<1>4. CASE FindExisting(r)
  <2> DEFINE m(i) == [mem[r] EXCEPT !.id = i]
             label(i) == IF i # NoId THEN "find_existing_profile"
                         ELSE IF CanUpload(mem[r].count, FALSE) THEN "save_file" ELSE "idle"
  <2>1. PICK i \in FindByUser(resumes) : Goto(r, label(i), m(i))
    BY <1>4 DEF FindExisting
  <2>2. m(i).id = i /\ m(i).pid = mem[r].pid
    BY <1>0 DEF Mem
  <2>3. /\ label(i) \in {"idle", "save_file", "find_existing_profile"}
        /\ label(i) = "find_existing_profile" => i # NoId
    OBVIOUS
  <2> HIDE DEF m, label
  <2>4. QED
    BY <1>2, <2>1, <2>2, <2>3
<1>5. CASE ConfirmResume(r)
  <2> DEFINE m(i) == [mem[r] EXCEPT !.id = i, !.res = resumes[i]]
  <2>1. PICK i \in FindByUser(resumes) :
            IF i = NoId THEN Goto(r, SyncStart(mem[r].doc), mem[r])
            ELSE Goto(r, "save_skills", m(i))
    BY <1>5 DEF ConfirmResume
  <2>2. /\ m(i).id = i /\ m(i).pid = mem[r].pid /\ m(i).op = mem[r].op
        /\ mem[r].op = "confirm"
    BY <1>0, <1>5 DEF Mem, OpInv, ConfirmResume, At
  <2> HIDE DEF m
  <2>3. CASE i # NoId
    BY <1>2, <2>1, <2>2, <2>3
  <2>4. CASE i = NoId
    <3>1. SyncStart(mem[r].doc) \in {"idle", "record_failure", "upsert_point"}
      BY DEF SyncStart
    <3>2. QED
      BY <1>1, <2>1, <2>4, <3>1, QuietGoto DEF stores
  <2>5. QED
    BY <2>3, <2>4
<1>6. QED
  BY <1>3, <1>4, <1>5

\* The steps that make a file, a resume or a profile.
LEMMA MakersKeepIds ==
    ASSUME TypeOK, LocalsInv, IdsInv, NEW r \in Requests,
           SaveFile(r) \/ CreateResume(r) \/ UpsertProfile(r)
    PROVE  IdsInv'
<1>0. mem[r] \in Mem /\ OpInv(pc[r], mem[r])
  BY MemType DEF LocalsInv, LocalInv
<1>1. CASE Finish(r) /\ UNCHANGED stores
  <2>1. UNCHANGED lastId
    <3>1. SaveFile(r) => UNCHANGED lastId \/ (\E m : Goto(r, "create_resume", m))
      BY DEF SaveFile
    <3>2. pc'[r] = "idle"
      BY <1>1, FinishEffect
    <3>3. ~\E m : Goto(r, "create_resume", m)
      BY <3>2, GotoEffect
    <3>4. QED
      BY <3>1, <3>3 DEF CreateResume, UpsertProfile
  <2>2. Finish(r) /\ "idle" \notin Creating \cup Found
    BY <1>1 DEF Creating, Found, Removing
  <2>3. files' \subseteq files /\ UNCHANGED <<profiles, resumes>>
    BY <1>1 DEF stores
  <2>4. mem[r].id = mem[r].id /\ mem[r].pid = mem[r].pid
    OBVIOUS
  <2>5. Quiet(r)
    BY <2>1, <2>2, <2>3, <2>4, QuietGoto
  <2>6. QED
    BY <2>5, QuietKeepsIds
<1>2. ASSUME SaveFile(r), lastId < MaxUploads, lastId' = lastId + 1, files' = files \cup {lastId'},
             Goto(r, "create_resume", [mem[r] EXCEPT !.id = lastId', !.pid = lastId'])
      PROVE  IdsInv'
  <2> DEFINE m == [mem[r] EXCEPT !.id = lastId', !.pid = lastId']
  <2>1. m.id = lastId' /\ m.pid = lastId'
    BY <1>0 DEF Mem
  <2>2. Goto(r, "create_resume", m)
    BY <1>2
  <2> HIDE DEF m
  <2>3. OthersStay(r) /\ pc'[r] = "create_resume" /\ mem'[r] = m
    BY <2>2, GotoEffect
  <2>4. UNCHANGED <<profiles, resumes>>
    BY <1>2 DEF SaveFile
  <2>5. lastId' \in Ids /\ lastId \in Nat
    BY <1>2, ConstantsAssumption DEF TypeOK, Ids
  <2>6. ASSUME NEW q \in Requests PROVE mem[q].id \in Nat /\ mem[q].pid \in Nat
    <3>1. mem[q] \in Mem
      BY MemType
    <3>2. mem[q].id \in Ids \cup {NoId} /\ mem[q].pid \in Ids \cup {NoId}
      BY <3>1 DEF Mem
    <3>3. QED
      BY <3>2 DEF Ids, NoId
  <2>7. \A q \in Requests : mem'[q].id <= lastId' /\ mem'[q].pid <= lastId'
    BY <1>2, <2>1, <2>3, <2>5, <2>6 DEF IdsInv, OthersStay
  <2>8. \A q \in Requests \ {r} :
            mem'[q].id = mem[q].id /\ mem'[q].id # lastId' /\ pc'[q] = pc[q] /\ mem'[q] = mem[q]
    BY <1>2, <2>3, <2>5, <2>6 DEF IdsInv, OthersStay
  <2>9. \A q, p \in Requests :
          Owning(pc'[q], mem'[q]) /\ Owning(pc'[p], mem'[p]) /\ mem'[q].id = mem'[p].id => q = p
    BY <2>1, <2>3, <2>8 DEF IdsInv
  <2>10. resumes[lastId'] = None /\ profiles[lastId'] = None
    BY <1>2, <2>5 DEF IdsInv
  <2>11. \A q \in Requests :
            /\ pc'[q] \in Creating => profiles'[mem'[q].id] = None
            /\ pc'[q] = "create_resume" => resumes'[mem'[q].id] = None
    BY <2>1, <2>3, <2>4, <2>8, <2>10 DEF IdsInv, At
  <2>12. \A q, p \in Requests :
            pc'[p] = "create_resume" /\ pc'[q] \in Found => mem'[q].id # mem'[p].id
    BY <2>1, <2>3, <2>8 DEF IdsInv, At, Found, Removing
  <2>13. \A i \in Ids : i > lastId' => profiles'[i] = None /\ resumes'[i] = None /\ i \notin files'
    BY <1>2, <2>4, <2>5 DEF IdsInv, Ids
  <2>14. QED
    BY <2>7, <2>9, <2>11, <2>12, <2>13 DEF IdsInv, At
<1>3. ASSUME CreateResume(r), resumes' = [resumes EXCEPT ![mem[r].id] = FreshResume],
             Goto(r, "upsert_profile", [mem[r] EXCEPT !.res = FreshResume])
      PROVE  IdsInv'
  <2> DEFINE m == [mem[r] EXCEPT !.res = FreshResume]
  <2>1. m.id = mem[r].id /\ m.pid = mem[r].pid /\ m.op = mem[r].op
    BY <1>0 DEF Mem
  <2>2. Goto(r, "upsert_profile", m)
    BY <1>3
  <2> HIDE DEF m
  <2>3. OthersStay(r) /\ pc'[r] = "upsert_profile" /\ mem'[r] = m
    BY <2>2, GotoEffect
  <2>4. UNCHANGED <<lastId, profiles, files>> /\ pc[r] = "create_resume" /\ mem[r].id \in Ids
    BY <1>0, <1>3 DEF CreateResume, At, OpInv, Owning
  <2>5. \A i \in Ids : i # mem[r].id => resumes'[i] = resumes[i]
    BY <1>3 DEF TypeOK
  <2>6. \A q \in Requests : Owning(pc'[q], mem'[q]) => Owning(pc[q], mem[q])
    BY <2>1, <2>3, <2>4 DEF OthersStay, Owning
  <2>7. \A q \in Requests : mem'[q].id = mem[q].id /\ mem'[q].pid = mem[q].pid
    BY <2>1, <2>3 DEF OthersStay
  <2>8. \A q \in Requests : pc'[q] = "create_resume" =>
            q # r /\ pc[q] = "create_resume" /\ mem[q].id \in Ids /\ mem[q].id # mem[r].id
    BY <2>3, <2>4 DEF OthersStay, IdsInv, Owning, LocalsInv, LocalInv, OpInv
  <2>9. \A q \in Requests : pc'[q] \in Creating => pc[q] \in Creating
    BY <2>3, <2>4 DEF OthersStay, Creating
  <2>10. \A q \in Requests : pc'[q] \in Found => pc[q] \in Found
    BY <2>3, <2>4 DEF OthersStay, Found, Removing
  <2>11. mem[r].id <= lastId
    BY DEF IdsInv
  <2>12. \A i \in Ids : i > lastId' => resumes'[i] = None
    BY <2>4, <2>5, <2>11 DEF IdsInv, Ids, TypeOK
  <2>13. QED
    BY <2>4, <2>5, <2>6, <2>7, <2>8, <2>9, <2>10, <2>12 DEF IdsInv, At
<1>4. ASSUME UpsertProfile(r), profiles' = [profiles EXCEPT ![mem[r].id] = FreshProfile],
             Goto(r, "extract", [mem[r] EXCEPT !.doc = FreshProfile])
      PROVE  IdsInv'
  <2> DEFINE m == [mem[r] EXCEPT !.doc = FreshProfile]
  <2>1. m.id = mem[r].id /\ m.pid = mem[r].pid /\ m.op = mem[r].op
    BY <1>0 DEF Mem
  <2>2. Goto(r, "extract", m)
    BY <1>4
  <2> HIDE DEF m
  <2>3. OthersStay(r) /\ pc'[r] = "extract" /\ mem'[r] = m
    BY <2>2, GotoEffect
  <2>4. UNCHANGED <<lastId, resumes, files>> /\ pc[r] = "upsert_profile" /\ mem[r].id \in Ids
    BY <1>0, <1>4 DEF UpsertProfile, At, OpInv, Owning
  <2>5. \A i \in Ids : i # mem[r].id => profiles'[i] = profiles[i]
    BY <1>4 DEF TypeOK
  <2>6. \A q \in Requests : Owning(pc'[q], mem'[q]) => Owning(pc[q], mem[q])
    BY <2>1, <2>3, <2>4 DEF OthersStay, Owning, Extracting
  <2>7. \A q \in Requests : mem'[q].id = mem[q].id /\ mem'[q].pid = mem[q].pid
    BY <2>1, <2>3 DEF OthersStay
  <2>8. \A q \in Requests : pc'[q] \in Creating =>
            q # r /\ pc[q] \in Creating /\ mem[q].id \in Ids /\ mem[q].id # mem[r].id
    BY <2>3, <2>4 DEF OthersStay, IdsInv, Owning, LocalsInv, LocalInv, OpInv, Creating
  <2>9. \A q \in Requests : pc'[q] = "create_resume" => pc[q] = "create_resume"
    BY <2>3, <2>4 DEF OthersStay
  <2>10. \A q \in Requests : pc'[q] \in Found => pc[q] \in Found
    BY <2>3, <2>4 DEF OthersStay, Found, Removing
  <2>11. mem[r].id <= lastId
    BY DEF IdsInv
  <2>12. \A i \in Ids : i > lastId' => profiles'[i] = None
    BY <2>4, <2>5, <2>11 DEF IdsInv, Ids, TypeOK
  <2>13. QED
    BY <2>4, <2>5, <2>6, <2>7, <2>8, <2>9, <2>10, <2>12 DEF IdsInv, At
<1>5. QED
  BY <1>1, <1>2, <1>3, <1>4 DEF SaveFile, CreateResume, UpsertProfile, stores

LEMMA IdsInvHolds == Spec => []IdsInv
<1>1. Init => IdsInv
  <2> SUFFICES ASSUME Init PROVE IdsInv
    OBVIOUS
  <2>1. \A r \in Requests : pc[r] = "idle" /\ mem[r] = NoMem
    BY DEF Init
  <2>2. NoMem.id = 0 /\ NoMem.pid = 0 /\ ~Owning("idle", NoMem)
    BY DEF NoMem, NoId, Owning, Extracting
  <2>3. "idle" \notin Creating \cup Found /\ "idle" # "create_resume"
    BY DEF Creating, Found, Removing
  <2>4. lastId \in Nat
    BY DEF Init, NewAccount, LegacyFailure
  <2>5. \A i \in Ids : i > lastId => profiles[i] = None /\ resumes[i] = None /\ i \notin files
    <3>1. CASE NewAccount
      BY <3>1 DEF NewAccount
    <3>2. CASE LegacyFailure
      <4>1. \A i \in Ids : i > lastId => i # 1
        BY <3>2 DEF LegacyFailure, Ids
      <4>2. QED
        BY <3>2, <4>1 DEF LegacyFailure
    <3>3. QED
      BY <3>1, <3>2 DEF Init
  <2>6. QED
    BY <2>1, <2>2, <2>3, <2>4, <2>5 DEF IdsInv, At
<1>2. TypeOK /\ LocalsInv /\ IdsInv /\ [Next]_vars => IdsInv'
  <2> SUFFICES ASSUME TypeOK, LocalsInv, IdsInv, [Next]_vars PROVE IdsInv'
    OBVIOUS
  <2>1. ASSUME NEW r \in Requests, Request(r) \/ Step(r) PROVE IdsInv'
    BY <2>1, RequestsQuiet, SavesQuiet, SameIdsQuiet, LookupsQuiet, QuietKeepsIds, MakersKeepIds
       DEF Step
  <2>2. CASE Crash
    <3>1. \A r \in Requests : pc'[r] = "idle" /\ mem'[r] = NoMem
      BY <2>2 DEF Crash
    <3>2. NoMem.id = 0 /\ NoMem.pid = 0 /\ ~Owning("idle", NoMem)
      BY DEF NoMem, NoId, Owning, Extracting
    <3>3. "idle" \notin Creating \cup Found /\ "idle" # "create_resume"
      BY DEF Creating, Found, Removing
    <3>4. UNCHANGED <<lastId, profiles, resumes, files>> /\ lastId \in Nat
      BY <2>2 DEF Crash, stores, TypeOK
    <3>5. QED
      BY <3>1, <3>2, <3>3, <3>4 DEF IdsInv, At
  <2>3. CASE UNCHANGED vars
    BY <2>3 DEF vars, stores, IdsInv, At
  <2>4. QED
    BY <2>1, <2>2, <2>3 DEF Next
<1>3. QED
  BY <1>1, <1>2, TypeCorrect, LocalsInvHolds, PTL DEF Spec

----------------------------------------------------------------------------
(* The next label of a request, and how it got there *)

\* r goes from one label to another with its ids.
Passes(r, from, to) ==
    /\ At(r, from) /\ pc'[r] = to
    /\ mem'[r].op = mem[r].op /\ mem'[r].id = mem[r].id /\ mem'[r].pid = mem[r].pid

\* Only one handler brings a request to each label but "idle".
Arrival(r) ==
    /\ pc'[r] = "delete_file" =>
          \/ BeginDelete(r) /\ mem'[r].op = "delete"
          \/ FindExistingProfile(r) /\ Passes(r, "find_existing_profile", "delete_file")
    /\ pc'[r] = "delete_vector" => DeleteFile(r) /\ Passes(r, "delete_file", "delete_vector")
    /\ pc'[r] = "delete_profile" => DeleteVector(r) /\ Passes(r, "delete_vector", "delete_profile")
    /\ pc'[r] = "delete_resume" => DeleteProfile(r) /\ Passes(r, "delete_profile", "delete_resume")
    /\ pc'[r] = "create_resume" => SaveFile(r) /\ mem'[r].id = lastId' /\ mem'[r].pid = lastId'
    /\ pc'[r] = "upsert_profile" =>
          CreateResume(r) /\ Passes(r, "create_resume", "upsert_profile")
    /\ pc'[r] = "extract" => UpsertProfile(r) /\ Passes(r, "upsert_profile", "extract")
    /\ pc'[r] = "save_extracted" => Extract(r) /\ Passes(r, "extract", "save_extracted")
    /\ pc'[r] = "save_failed" =>
          \/ Extract(r) /\ Passes(r, "extract", "save_failed")
          \/ /\ SaveExtracted(r) /\ Passes(r, "save_extracted", "save_failed")
             /\ NotStored(r, mem[r].doc, mem[r].dirty)
    /\ pc'[r] = "charge" => SaveSkills(r) /\ Passes(r, "save_skills", "charge")
    /\ pc'[r] = "edit_save" =>
          /\ EditProfile(r) /\ Passes(r, "edit_profile", "edit_save") /\ CanEdit(mem[r].id)
          /\ mem'[r].doc.status = profiles[mem[r].id].status
          /\ mem'[r].doc.edits = profiles[mem[r].id].edits + 1
    /\ pc'[r] = "confirm_save" =>
          /\ BeginConfirm(r)
          /\ mem'[r].pid \in Ids /\ StatusOf(mem'[r].pid) \in {"processing", "ready_for_review"}
    /\ pc'[r] = "confirm_resume" =>
          /\ ConfirmSave(r) /\ Passes(r, "confirm_save", "confirm_resume")
          /\ Stored(r, mem[r].doc, mem[r].dirty)
    /\ pc'[r] = "save_skills" =>
          \/ /\ SaveExtracted(r) /\ Passes(r, "save_extracted", "save_skills")
             /\ Stored(r, mem[r].doc, mem[r].dirty)
          \/ /\ EditSave(r) /\ Passes(r, "edit_save", "save_skills")
             /\ mem'[r].doc.status = mem[r].doc.status
             /\ Stored(r, mem[r].doc, mem[r].dirty)
          \/ /\ ConfirmResume(r) /\ At(r, "confirm_resume")
             /\ mem'[r].op = "confirm" /\ mem'[r].pid = mem[r].pid
    /\ pc'[r] = "upsert_point" =>
          /\ QdrantEnabled
          /\ \/ /\ SaveSkills(r) /\ Passes(r, "save_skills", "upsert_point")
                /\ mem[r].op # "upload" /\ mem[r].doc.status = "confirmed"
             \/ ConfirmResume(r) /\ Passes(r, "confirm_resume", "upsert_point")

Untracked == {"idle", "sync_resume", "sync_profile", "sync_reset", "find_existing",
              "find_existing_profile", "save_file", "edit_profile", "save_synced",
              "record_failure"}

LEMMA UntrackedArrival ==
    ASSUME NEW r \in Requests, pc'[r] \in Untracked
    PROVE  Arrival(r)
BY DEF Arrival, Untracked

\* A step on to label, with the ids kept.
LEMMA PassesOn ==
    ASSUME TypeOK, NEW r \in Requests, NEW from, At(r, from), NEW label, label # "idle",
           NEW m, Goto(r, label, m),
           m.op = mem[r].op, m.id = mem[r].id, m.pid = mem[r].pid
    PROVE  Passes(r, from, label) /\ mem'[r] = m
BY GotoEffect DEF Passes

LEMMA RequestArrival ==
    ASSUME TypeOK, LocalsInv, NEW r \in Requests, Request(r)
    PROVE  Arrival(r)
<1>1. CASE BeginUpload(r) \/ BeginQuota(r) \/ BeginEdit(r)
  <2>1. (\E m : Goto(r, "sync_resume", m)) \/ (\E m : Goto(r, "edit_profile", m))
    BY <1>1 DEF BeginUpload, BeginQuota, BeginEdit
  <2>2. QED
    BY <2>1, GotoEffect, UntrackedArrival DEF Untracked
<1>2. CASE BeginDelete(r)
  <2> DEFINE m(i) == [NoMem EXCEPT !.op = "delete", !.id = i]
  <2>1. PICK i \in Existing(resumes) : Goto(r, "delete_file", m(i))
    BY <1>2 DEF BeginDelete
  <2>2. m(i).op = "delete"
    BY DEF NoMem
  <2> HIDE DEF m
  <2>3. pc'[r] = "delete_file" /\ mem'[r] = m(i)
    BY <2>1, GotoEffect
  <2>4. QED
    BY <1>2, <2>2, <2>3 DEF Arrival
<1>3. CASE BeginConfirm(r)
  <2> DEFINE m(i, c) == [NoMem EXCEPT !.op = "confirm", !.pid = i,
                              !.doc = Confirmed(profiles[i], c),
                              !.dirty = Changes(profiles[i], Confirmed(profiles[i], c))]
  <2>1. PICK i \in Existing(profiles), c \in Content :
            CanConfirm(profiles[i]) /\ Goto(r, "confirm_save", m(i, c))
    BY <1>3 DEF BeginConfirm
  <2>2. m(i, c).pid = i
    BY DEF NoMem
  <2> HIDE DEF m
  <2>3. pc'[r] = "confirm_save" /\ mem'[r] = m(i, c)
    BY <2>1, GotoEffect
  <2>4. i \in Ids /\ i # NoId /\ profiles[i] \in ProfileDoc /\ profiles[i] # None
    BY DEF Existing, TypeOK, Ids, NoId
  <2>5. StatusOf(i) \in {"processing", "ready_for_review"}
    BY <2>1, <2>4 DEF CanConfirm, StatusOf, ProfileDoc, Status
  <2>6. QED
    BY <1>3, <2>2, <2>3, <2>4, <2>5 DEF Arrival
<1>4. QED
  BY <1>1, <1>2, <1>3 DEF Request

LEMMA UploadArrival ==
    ASSUME TypeOK, LocalsInv, NEW r \in Requests,
           \/ SyncResume(r) \/ SyncProfile(r) \/ SyncReset(r)
           \/ FindExisting(r) \/ FindExistingProfile(r) \/ DeleteFile(r) \/ DeleteVector(r)
           \/ DeleteProfile(r) \/ DeleteResume(r) \/ SaveFile(r) \/ CreateResume(r)
           \/ UpsertProfile(r) \/ Extract(r) \/ Charge(r) \/ MongoError(r)
    PROVE  Arrival(r)
<1>0. mem[r] \in Mem
  BY MemType
<1>1. CASE Finish(r)
  BY <1>1, FinishEffect, UntrackedArrival DEF Untracked
<1>2. CASE SyncResume(r) \/ SyncProfile(r) \/ SyncReset(r) \/ FindExisting(r) \/ DeleteResume(r)
  <2>1. \E label \in Untracked : \E m : Goto(r, label, m)
    <3>1. \A op : AfterSync(op) \in Untracked
      BY DEF AfterSync, Untracked
    <3>2. QED
      BY <1>2, <3>1
         DEF SyncResume, SyncProfile, SyncReset, FindExisting, DeleteResume, Untracked
  <2>2. QED
    BY <2>1, GotoEffect, UntrackedArrival
<1>3. CASE FindExistingProfile(r)
  <2>1. CASE Goto(r, "idle", mem[r])
    BY <2>1, GotoEffect, UntrackedArrival DEF Untracked
  <2>2. CASE Goto(r, "delete_file", mem[r])
    BY <1>3, <2>2, PassesOn DEF Arrival, Passes, FindExistingProfile
  <2>3. QED
    BY <1>3, <2>1, <2>2 DEF FindExistingProfile
<1>4. CASE DeleteFile(r)
  BY <1>4, PassesOn DEF Arrival, Passes, DeleteFile
<1>5. CASE DeleteVector(r) /\ Goto(r, "delete_profile", mem[r])
  BY <1>5, PassesOn DEF Arrival, Passes, DeleteVector
<1>6. CASE DeleteProfile(r)
  BY <1>6, PassesOn DEF Arrival, Passes, DeleteProfile
<1>7. CASE SaveFile(r) /\ ~Finish(r)
  <2> DEFINE m == [mem[r] EXCEPT !.id = lastId', !.pid = lastId']
  <2>1. m.id = lastId' /\ m.pid = lastId'
    BY <1>0 DEF Mem
  <2>2. Goto(r, "create_resume", m)
    BY <1>7 DEF SaveFile
  <2> HIDE DEF m
  <2>3. pc'[r] = "create_resume" /\ mem'[r] = m
    BY <2>2, GotoEffect
  <2>4. QED
    BY <1>7, <2>1, <2>3 DEF Arrival
<1>8. CASE CreateResume(r) /\ ~Finish(r)
  <2> DEFINE m == [mem[r] EXCEPT !.res = FreshResume]
  <2>1. m.op = mem[r].op /\ m.id = mem[r].id /\ m.pid = mem[r].pid
    BY <1>0 DEF Mem
  <2>2. Goto(r, "upsert_profile", m) /\ At(r, "create_resume")
    BY <1>8 DEF CreateResume
  <2> HIDE DEF m
  <2>3. Passes(r, "create_resume", "upsert_profile")
    BY <2>1, <2>2, PassesOn
  <2>4. QED
    BY <1>8, <2>3 DEF Arrival, Passes
<1>9. CASE UpsertProfile(r) /\ ~Finish(r)
  <2> DEFINE m == [mem[r] EXCEPT !.doc = FreshProfile]
  <2>1. m.op = mem[r].op /\ m.id = mem[r].id /\ m.pid = mem[r].pid
    BY <1>0 DEF Mem
  <2>2. Goto(r, "extract", m) /\ At(r, "upsert_profile")
    BY <1>9 DEF UpsertProfile
  <2> HIDE DEF m
  <2>3. Passes(r, "upsert_profile", "extract")
    BY <2>1, <2>2, PassesOn
  <2>4. QED
    BY <1>9, <2>3 DEF Arrival, Passes
<1>10. CASE Extract(r)
  <2> DEFINE m(c) == [mem[r] EXCEPT !.doc = Extracted(mem[r].doc, c),
                          !.dirty = Changes(mem[r].doc, Extracted(mem[r].doc, c))]
  <2>1. At(r, "extract") /\ (Goto(r, "save_failed", mem[r])
                             \/ \E c \in Content : Goto(r, "save_extracted", m(c)))
    BY <1>10 DEF Extract
  <2>2. \A c : m(c).op = mem[r].op /\ m(c).id = mem[r].id /\ m(c).pid = mem[r].pid
    BY <1>0 DEF Mem
  <2> HIDE DEF m
  <2>3. Passes(r, "extract", "save_failed") \/ Passes(r, "extract", "save_extracted")
    BY <2>1, <2>2, PassesOn
  <2>4. QED
    BY <1>10, <2>3 DEF Arrival, Passes
<1>11. QED
  BY <1>1, <1>2, <1>3, <1>4, <1>5, <1>6, <1>7, <1>8, <1>9, <1>10
     DEF Charge, MongoError, DeleteVector

LEMMA SaveArrival ==
    ASSUME TypeOK, LocalsInv, NEW r \in Requests,
           \/ SaveExtracted(r) \/ SaveFailed(r) \/ EditSave(r)
           \/ ConfirmSave(r) \/ SaveSynced(r) \/ RecordFailure(r)
    PROVE  Arrival(r)
<1>0. mem[r].doc \in ProfileDoc /\ mem[r].dirty \in SUBSET SavedFields
  BY MemType
<1>1. ASSUME NEW doc \in ProfileDoc, NEW dirty \in SUBSET SavedFields,
             NEW from, At(r, from), NEW ok, NEW failed,
             SaveProfile(r, doc, dirty, ok, failed), ok # "idle", ok # failed
      PROVE  \/ /\ pc'[r] = ok /\ Passes(r, from, ok) /\ mem'[r].doc.status = doc.status
                /\ Stored(r, doc, dirty)
             \/ /\ pc'[r] = failed /\ (failed # "idle" => Passes(r, from, failed))
                /\ NotStored(r, doc, dirty)
  <2>1. PICK n \in Mem :
          /\ SameButDoc(mem[r], n) /\ n.doc.status = doc.status
          /\ \/ /\ Stored(r, doc, dirty) /\ UNCHANGED calm
                /\ Goto(r, ok, n) /\ n.dirty = {} /\ Text(n.doc) = Text(doc)
                /\ n.doc.hash = doc.hash /\ n.doc.syncError = doc.syncError
             \/ /\ NotStored(r, doc, dirty)
                /\ Goto(r, failed, n) /\ n.dirty = dirty /\ n.doc = doc
    BY <1>1, SaveEffect
  <2>2. n.op = mem[r].op /\ n.id = mem[r].id /\ n.pid = mem[r].pid
    BY <2>1 DEF SameButDoc
  <2>3. CASE Stored(r, doc, dirty) /\ Goto(r, ok, n)
    BY <1>1, <2>1, <2>2, <2>3, PassesOn DEF Passes
  <2>4. CASE NotStored(r, doc, dirty) /\ Goto(r, failed, n)
    BY <1>1, <2>2, <2>4, PassesOn, GotoEffect DEF Passes
  <2>5. QED
    BY <2>1, <2>3, <2>4
<1>2. CASE SaveExtracted(r)
  <2>1. \/ Passes(r, "save_extracted", "save_skills") /\ Stored(r, mem[r].doc, mem[r].dirty)
        \/ Passes(r, "save_extracted", "save_failed") /\ NotStored(r, mem[r].doc, mem[r].dirty)
    BY <1>0, <1>1, <1>2 DEF SaveExtracted
  <2>2. QED
    BY <1>2, <2>1 DEF Arrival, Passes
<1>3. CASE EditSave(r)
  <2>1. At(r, "edit_save") /\ SaveProfile(r, mem[r].doc, mem[r].dirty, "save_skills", "idle")
    BY <1>3 DEF EditSave
  <2>2. \/ /\ Passes(r, "edit_save", "save_skills") /\ mem'[r].doc.status = mem[r].doc.status
           /\ Stored(r, mem[r].doc, mem[r].dirty)
        \/ pc'[r] = "idle" /\ NotStored(r, mem[r].doc, mem[r].dirty)
    BY <1>0, <1>1, <2>1, SMTT(30)
  <2>3. QED
    BY <1>3, <2>2 DEF Arrival, Passes
<1>4. CASE ConfirmSave(r)
  <2>1. \/ Passes(r, "confirm_save", "confirm_resume") /\ Stored(r, mem[r].doc, mem[r].dirty)
        \/ pc'[r] = "idle"
    BY <1>0, <1>1, <1>4 DEF ConfirmSave
  <2>2. QED
    BY <1>4, <2>1 DEF Arrival, Passes
<1>5. CASE SaveFailed(r) \/ SaveSynced(r) \/ RecordFailure(r)
  <2>1. \E label \in {"idle", "record_failure"} : \E m : Goto(r, label, m)
    BY <1>5 DEF SaveFailed, SaveSynced, RecordFailure, SaveProfile
  <2>2. QED
    BY <2>1, GotoEffect, UntrackedArrival DEF Untracked
<1>6. QED
  BY <1>2, <1>3, <1>4, <1>5

LEMMA OtherArrival ==
    ASSUME TypeOK, LocalsInv, NEW r \in Requests,
           SaveSkills(r) \/ EditProfile(r) \/ ConfirmResume(r) \/ UpsertPoint(r)
    PROVE  Arrival(r)
<1>0. mem[r] \in Mem /\ OpInv(pc[r], mem[r])
  BY MemType DEF LocalsInv, LocalInv
<1>1. CASE SaveSkills(r)
  <2>1. CASE Finish(r)
    BY <2>1, FinishEffect, UntrackedArrival DEF Untracked
  <2>2. CASE AfterSkills(mem[r]) \in {"idle", "record_failure"} /\ Goto(r, AfterSkills(mem[r]), mem[r])
    BY <2>2, GotoEffect, UntrackedArrival DEF Untracked
  <2>3. CASE AfterSkills(mem[r]) \in {"charge", "upsert_point"} /\ Goto(r, AfterSkills(mem[r]), mem[r])
    <3>1. Passes(r, "save_skills", AfterSkills(mem[r]))
      BY <1>1, <2>3, PassesOn DEF SaveSkills
    <3>2. DocInv(pc[r], mem[r]) /\ pc[r] = "save_skills"
      BY <1>1 DEF SaveSkills, At, LocalsInv, LocalInv
    <3>3. AfterSkills(mem[r]) = "upsert_point" =>
              QdrantEnabled /\ mem[r].op # "upload" /\ mem[r].doc.status = "confirmed"
      BY <1>0, <3>2 DEF AfterSkills, SyncStart, OpInv, DocInv
    <3>4. QED
      BY <1>1, <2>3, <3>1, <3>3 DEF Arrival, Passes
  <2>4. QED
    BY <1>1, <2>1, <2>2, <2>3 DEF SaveSkills, AfterSkills, SyncStart
<1>2. CASE EditProfile(r)
  <2> DEFINE doc(c) == Edited(profiles[mem[r].id], c)
             m(c) == [mem[r] EXCEPT !.doc = doc(c), !.dirty = Changes(profiles[mem[r].id], doc(c))]
  <2>1. CASE Finish(r)
    BY <2>1, FinishEffect, UntrackedArrival DEF Untracked
  <2>2. ASSUME CanEdit(mem[r].id), NEW c \in Content, Goto(r, "edit_save", m(c))
        PROVE  Arrival(r)
    <3>1. /\ m(c).op = mem[r].op /\ m(c).id = mem[r].id /\ m(c).pid = mem[r].pid
          /\ m(c).doc = doc(c)
      BY <1>0 DEF Mem
    <3>2. /\ doc(c).status = profiles[mem[r].id].status
          /\ doc(c).edits = profiles[mem[r].id].edits + 1
      BY <2>2, CanEditDoc, EditedDoc
    <3>3. Goto(r, "edit_save", m(c)) /\ At(r, "edit_profile")
      BY <1>2, <2>2 DEF EditProfile
    <3> HIDE DEF m, doc
    <3>4. Passes(r, "edit_profile", "edit_save") /\ mem'[r] = m(c)
      BY <3>1, <3>3, PassesOn
    <3>5. QED
      BY <1>2, <2>2, <3>1, <3>2, <3>4 DEF Arrival, Passes
  <2>3. QED
    BY <1>2, <2>1, <2>2 DEF EditProfile
<1>3. CASE ConfirmResume(r)
  <2> DEFINE m(i) == [mem[r] EXCEPT !.id = i, !.res = resumes[i]]
  <2>1. PICK i \in FindByUser(resumes) :
            IF i = NoId THEN Goto(r, SyncStart(mem[r].doc), mem[r])
            ELSE Goto(r, "save_skills", m(i))
    BY <1>3 DEF ConfirmResume
  <2>2. m(i).op = mem[r].op /\ m(i).pid = mem[r].pid /\ mem[r].op = "confirm"
    BY <1>0, <1>3 DEF Mem, ConfirmResume, At, OpInv
  <2> HIDE DEF m
  <2>3. CASE i # NoId
    <3>1. pc'[r] = "save_skills" /\ mem'[r] = m(i)
      BY <2>1, <2>3, GotoEffect
    <3>2. QED
      BY <1>3, <2>2, <3>1 DEF Arrival, ConfirmResume
  <2>4. CASE i = NoId
    <3>1. CASE SyncStart(mem[r].doc) = "upsert_point"
      <4>1. Passes(r, "confirm_resume", "upsert_point")
        BY <1>3, <2>1, <2>4, <3>1, PassesOn DEF ConfirmResume
      <4>2. QdrantEnabled
        BY <3>1 DEF SyncStart
      <4>3. QED
        BY <1>3, <4>1, <4>2 DEF Arrival, Passes
    <3>2. CASE SyncStart(mem[r].doc) # "upsert_point"
      <4>1. SyncStart(mem[r].doc) \in Untracked
        BY <3>2 DEF SyncStart, Untracked
      <4>2. QED
        BY <2>1, <2>4, <4>1, GotoEffect, UntrackedArrival DEF Untracked
    <3>3. QED
      BY <3>1, <3>2
  <2>5. QED
    BY <2>3, <2>4
<1>4. CASE UpsertPoint(r)
  <2>1. \E label \in {"save_synced", "record_failure"} : \E m : Goto(r, label, m)
    BY <1>4 DEF UpsertPoint
  <2>2. QED
    BY <2>1, GotoEffect, UntrackedArrival DEF Untracked
<1>5. QED
  BY <1>1, <1>2, <1>3, <1>4

LEMMA StepArrival ==
    ASSUME TypeOK, LocalsInv, NEW r \in Requests, Request(r) \/ Step(r)
    PROVE  OthersStay(r) /\ Arrival(r)
<1>1. Arrival(r)
  BY RequestArrival, UploadArrival, SaveArrival, OtherArrival DEF Step
<1>2. CASE SaveFile(r) \/ CreateResume(r) \/ UpsertProfile(r)
  <2>1. Finish(r) \/ \E label, m : Goto(r, label, m)
    BY <1>2 DEF SaveFile, CreateResume, UpsertProfile
  <2>2. QED
    BY <1>1, <2>1, GotoEffect, FinishEffect
<1>3. CASE ~(SaveFile(r) \/ CreateResume(r) \/ UpsertProfile(r))
  <2>1. Quiet(r)
    BY <1>3, RequestsQuiet, SavesQuiet, SameIdsQuiet, LookupsQuiet DEF Step
  <2>2. QED
    BY <1>1, <2>1 DEF Quiet
<1>4. QED
  BY <1>2, <1>3

LEMMA NoStatus ==
    ASSUME TypeOK, NEW i \in Ids
    PROVE  /\ StatusOf(i) = "none" <=> profiles[i] = None
           /\ profiles[i] # None => profiles[i] \in ProfileDoc /\ StatusOf(i) = profiles[i].status
           /\ StatusOf(i) \in Status \cup {"none"}
BY DEF TypeOK, StatusOf, ProfileDoc, Status, Ids, NoId

----------------------------------------------------------------------------
(* How a step changes the resumes, the files, the point and the edit counts *)

ResumeChange(r, i) ==
    /\ i = mem[r].id
    /\ \/ CreateResume(r) /\ Passes(r, "create_resume", "upsert_profile") /\ resumes'[i] # None
       \/ DeleteResume(r) /\ At(r, "delete_resume") /\ resumes'[i] = None

LEMMA ResumeStep ==
    ASSUME TypeOK, LocalsInv, NEW r \in Requests, NEW i \in Ids, Request(r) \/ Step(r)
    PROVE  (resumes'[i] = None <=> resumes[i] = None) \/ ResumeChange(r, i)
<1>1. CASE UNCHANGED resumes
  BY <1>1
<1>2. CASE CreateResume(r)
  <2>1. CASE Goto(r, "upsert_profile", [mem[r] EXCEPT !.res = FreshResume])
             /\ resumes' = [resumes EXCEPT ![mem[r].id] = FreshResume]
    <3>1. pc'[r] = "upsert_profile"
      BY <2>1, GotoEffect
    <3>2. Passes(r, "create_resume", "upsert_profile")
      BY <3>1, StepArrival DEF Arrival
    <3>3. resumes'[i] = IF i = mem[r].id THEN FreshResume ELSE resumes[i]
      BY <2>1 DEF TypeOK
    <3>4. QED
      BY <1>2, <3>2, <3>3, FreshTypes DEF ResumeChange
  <2>2. QED
    BY <1>1, <1>2, <2>1 DEF CreateResume
<1>3. CASE DeleteResume(r)
  <2>1. resumes'[i] = IF i = mem[r].id THEN None ELSE resumes[i]
    BY <1>3 DEF DeleteResume, TypeOK
  <2>2. QED
    BY <1>3, <2>1 DEF ResumeChange, DeleteResume
<1>4. CASE SaveSkills(r)
  <2>1. CASE UNCHANGED resumes
    BY <2>1
  <2>2. CASE /\ resumes[mem[r].id] # None
             /\ resumes' = [resumes EXCEPT ![mem[r].id] =
                               [skills |-> SkillsOf(mem[r].doc.lists), v |-> mem[r].res.v + 1]]
    <3>1. [skills |-> SkillsOf(mem[r].doc.lists), v |-> mem[r].res.v + 1] \in ResumeDoc
      <4>1. mem[r] \in Mem
        BY MemType
      <4>2. mem[r].doc \in ProfileDoc /\ mem[r].res \in ResumeDoc
        BY <4>1 DEF Mem
      <4>3. mem[r].res.v + 1 \in Nat
        BY <4>2 DEF ResumeDoc
      <4>4. QED
        BY <4>2, <4>3, SkillsType
    <3>2. [skills |-> SkillsOf(mem[r].doc.lists), v |-> mem[r].res.v + 1] # None
      BY <3>1, FreshTypes
    <3>3. QED
      BY <2>2, <3>2 DEF TypeOK
  <2>3. QED
    BY <1>4, <2>1, <2>2 DEF SaveSkills
<1>5. CASE Request(r)
  BY <1>1, <1>5 DEF Request, BeginUpload, BeginQuota, BeginDelete, BeginEdit, BeginConfirm, stores
<1>6. CASE \/ SaveExtracted(r) \/ SaveFailed(r) \/ EditSave(r)
           \/ ConfirmSave(r) \/ SaveSynced(r) \/ RecordFailure(r)
  BY <1>1, <1>6 DEF SaveExtracted, SaveFailed, EditSave, ConfirmSave, SaveSynced, RecordFailure,
                    SaveProfile
<1>7. QED
  BY <1>1, <1>2, <1>3, <1>4, <1>5, <1>6
     DEF Step, SyncResume, SyncProfile, SyncReset, FindExisting, FindExistingProfile, DeleteFile,
         DeleteVector, DeleteProfile, SaveFile, UpsertProfile, Extract, Charge,
         EditProfile, ConfirmResume, UpsertPoint, MongoError, stores

FileChange(r) ==
    \/ SaveFile(r) /\ pc'[r] = "create_resume" /\ files' = files \cup {lastId'}
    \/ DeleteFile(r) /\ At(r, "delete_file") /\ files' = files \ {mem[r].id}

LEMMA FileStep ==
    ASSUME TypeOK, LocalsInv, NEW r \in Requests, Request(r) \/ Step(r)
    PROVE  UNCHANGED files \/ FileChange(r)
<1>1. CASE SaveFile(r)
  BY <1>1, GotoEffect DEF SaveFile, FileChange
<1>2. CASE DeleteFile(r)
  BY <1>2 DEF DeleteFile, FileChange
<1>3. CASE Request(r)
  BY <1>3 DEF Request, BeginUpload, BeginQuota, BeginDelete, BeginEdit, BeginConfirm, stores
<1>4. CASE \/ SaveExtracted(r) \/ SaveFailed(r) \/ EditSave(r)
           \/ ConfirmSave(r) \/ SaveSynced(r) \/ RecordFailure(r)
  BY <1>4 DEF SaveExtracted, SaveFailed, EditSave, ConfirmSave, SaveSynced, RecordFailure,
              SaveProfile
<1>5. QED
  BY <1>1, <1>2, <1>3, <1>4
     DEF Step, SyncResume, SyncProfile, SyncReset, FindExisting, FindExistingProfile,
         DeleteVector, DeleteProfile, DeleteResume, CreateResume, UpsertProfile, Extract,
         SaveSkills, Charge, EditProfile, ConfirmResume, UpsertPoint, MongoError, stores

PointChange(r) ==
    \/ DeleteVector(r) /\ point' = None
    \/ /\ UpsertPoint(r) /\ At(r, "upsert_point")
       /\ point' = [resume |-> mem[r].pid, content |-> ContentOf(mem[r].doc)]

LEMMA PointStep ==
    ASSUME TypeOK, LocalsInv, NEW r \in Requests, Request(r) \/ Step(r)
    PROVE  UNCHANGED point \/ PointChange(r)
<1>1. CASE DeleteVector(r) \/ UpsertPoint(r)
  BY <1>1 DEF DeleteVector, UpsertPoint, PointChange
<1>2. CASE Request(r)
  BY <1>2 DEF Request, BeginUpload, BeginQuota, BeginDelete, BeginEdit, BeginConfirm, stores
<1>3. CASE \/ SaveExtracted(r) \/ SaveFailed(r) \/ EditSave(r)
           \/ ConfirmSave(r) \/ SaveSynced(r) \/ RecordFailure(r)
  BY <1>3 DEF SaveExtracted, SaveFailed, EditSave, ConfirmSave, SaveSynced, RecordFailure,
              SaveProfile
<1>4. QED
  BY <1>1, <1>2, <1>3
     DEF Step, SyncResume, SyncProfile, SyncReset, FindExisting, FindExistingProfile, DeleteFile,
         DeleteProfile, DeleteResume, SaveFile, CreateResume, UpsertProfile, Extract,
         SaveSkills, Charge, EditProfile, ConfirmResume, MongoError, stores

\* A profile that stays keeps its edit count and its version, but for a save.
LEMMA CountStep ==
    ASSUME TypeOK, LocalsInv, IdsInv, NEW r \in Requests, NEW i \in Ids, Request(r) \/ Step(r),
           profiles[i] # None, profiles'[i] # None
    PROVE  /\ \/ profiles'[i].edits = profiles[i].edits
              \/ /\ EditSave(r) /\ At(r, "edit_save") /\ i = mem[r].pid
                 /\ profiles'[i].edits = mem[r].doc.edits
           /\ \/ profiles'[i].v = profiles[i].v
              \/ EditSave(r) /\ At(r, "edit_save") /\ i = mem[r].pid
              \/ StatusOf(i)' # "processing"
<1>0. /\ mem[r].doc \in ProfileDoc /\ mem[r].dirty \in SUBSET SavedFields
      /\ DocInv(pc[r], mem[r])
  BY MemType DEF LocalsInv, LocalInv
<1>1. CASE UNCHANGED profiles
  BY <1>1
<1>2. CASE \/ SaveExtracted(r) \/ SaveFailed(r) \/ EditSave(r)
           \/ ConfirmSave(r) \/ SaveSynced(r) \/ RecordFailure(r)
  <2>1. PICK doc \in ProfileDoc, dirty \in SUBSET SavedFields :
            /\ UNCHANGED profiles \/ Stored(r, doc, dirty)
            /\ EditSave(r) => doc = mem[r].doc /\ dirty = mem[r].dirty
            /\ ~EditSave(r) => "edits" \notin dirty
            /\ ~EditSave(r) => "lists" \notin dirty
                               \/ ("status" \in dirty /\ doc.status # "processing")
    <3>1. CASE SaveExtracted(r) \/ EditSave(r) \/ ConfirmSave(r) \/ SaveSynced(r)
      <4>1. UNCHANGED profiles \/ Stored(r, mem[r].doc, mem[r].dirty)
        BY <3>1 DEF SaveExtracted, EditSave, ConfirmSave, SaveSynced, SaveProfile, Stored
      <4>2. ~EditSave(r) => /\ "edits" \notin mem[r].dirty
                            /\ \/ "lists" \notin mem[r].dirty
                               \/ "status" \in mem[r].dirty /\ mem[r].doc.status # "processing"
        BY <1>0, <3>1 DEF SaveExtracted, ConfirmSave, SaveSynced, At, DocInv
      <4>3. QED
        BY <1>0, <4>1, <4>2
    <3>2. CASE SaveFailed(r)
      <4>1. ~EditSave(r)
        BY <3>2 DEF SaveFailed, EditSave, At
      <4>2. QED
        BY <3>2, <4>1, SaveFailedDoc DEF SaveFailed, SaveProfile, Stored
    <3>3. CASE RecordFailure(r)
      <4>1. ~EditSave(r)
        BY <3>3 DEF RecordFailure, EditSave, At
      <4>2. QED
        BY <3>3, <4>1, RecordFailureDoc DEF RecordFailure, SaveProfile, Stored
    <3>4. QED
      BY <1>2, <3>1, <3>2, <3>3
  <2>2. mem[r].pid \in Ids
    BY <1>2, SavingIds DEF SaveExtracted, SaveFailed, EditSave, ConfirmSave, SaveSynced,
                           RecordFailure, Saving, At
  <2>3. CASE Stored(r, doc, dirty)
    <3>1. CASE i # mem[r].pid
      BY <2>2, <2>3, <3>1, StoredStatus
    <3>2. CASE i = mem[r].pid
      <4>1. profiles'[i] = Written(profiles[i], doc, dirty)
        BY <2>2, <2>3, <3>2, StoredStatus
      <4>2. /\ profiles'[i].edits = IF "edits" \in dirty THEN doc.edits ELSE profiles[i].edits
            /\ profiles'[i].v = IF "lists" \in dirty THEN profiles[i].v + 1 ELSE profiles[i].v
        BY <4>1 DEF Written, NextVersion
      <4>3. EditSave(r) => At(r, "edit_save") /\ "edits" \in dirty
        BY <1>0, <2>1 DEF EditSave, At, DocInv
      <4>4. "status" \in dirty => StatusOf(i)' = doc.status
        BY <2>2, <2>3, <3>2, StoredStatus
      <4>5. QED
        BY <2>1, <3>2, <4>2, <4>3, <4>4
    <3>3. QED
      BY <3>1, <3>2
  <2>4. QED
    BY <1>1, <2>1, <2>3
<1>3. CASE DeleteProfile(r)
  <2>1. profiles'[i] = IF i = mem[r].id THEN None ELSE profiles[i]
    BY <1>3 DEF DeleteProfile, TypeOK
  <2>2. QED
    BY <2>1
<1>4. CASE UpsertProfile(r)
  <2>1. profiles[mem[r].id] = None
    BY <1>4 DEF UpsertProfile, At, IdsInv, Creating
  <2>2. CASE profiles' = [profiles EXCEPT ![mem[r].id] = FreshProfile]
    <3>1. profiles'[i] = IF i = mem[r].id THEN FreshProfile ELSE profiles[i]
      BY <2>2 DEF TypeOK
    <3>2. QED
      BY <2>1, <3>1
  <2>3. QED
    BY <1>1, <1>4, <2>2 DEF UpsertProfile
<1>5. CASE Request(r)
  BY <1>1, <1>5 DEF Request, BeginUpload, BeginQuota, BeginDelete, BeginEdit, BeginConfirm, stores
<1>6. QED
  BY <1>1, <1>2, <1>3, <1>4, <1>5
     DEF Step, SyncResume, SyncProfile, SyncReset, FindExisting, FindExistingProfile, DeleteFile,
         DeleteVector, DeleteResume, SaveFile, CreateResume, Extract, SaveSkills, Charge,
         EditProfile, ConfirmResume, UpsertPoint, MongoError, stores

----------------------------------------------------------------------------
(* The profile an edit has loaded is older than every one being created *)

EditInv ==
    /\ \A q, r \in Requests :
          At(q, "edit_save") /\ pc[r] \in Creating => mem[q].pid # mem[r].id
    /\ \A r \in Requests, i \in Ids :
          At(r, "edit_save") /\ mem[r].pid = i => StatusOf(i) # "processing"

\* Everything about a state that needs no hypothesis.
GroundInv == TypeOK /\ LocalsInv /\ IdsInv /\ EditInv

LEMMA EditKeeps ==
    ASSUME TypeOK, LocalsInv, IdsInv, EditInv, NEW r \in Requests, Request(r) \/ Step(r)
    PROVE  EditInv'
<1>1. OthersStay(r) /\ Arrival(r)
  BY StepArrival
<1>2. \A q \in Requests : q # r => pc'[q] = pc[q] /\ mem'[q] = mem[q]
  BY <1>1 DEF OthersStay
<1>3. pc'[r] = "edit_save" =>
          /\ mem[r].id \in Ids /\ mem'[r].pid = mem[r].id /\ profiles[mem[r].id] # None
          /\ StatusOf(mem[r].id) # "processing" /\ ~UpsertProfile(r) /\ UNCHANGED profiles
  <2>1. SUFFICES ASSUME pc'[r] = "edit_save"
                 PROVE  /\ mem[r].id \in Ids /\ mem'[r].pid = mem[r].id
                        /\ profiles[mem[r].id] # None
                        /\ StatusOf(mem[r].id) # "processing"
                        /\ ~UpsertProfile(r) /\ UNCHANGED profiles
    OBVIOUS
  <2>2. EditProfile(r) /\ Passes(r, "edit_profile", "edit_save") /\ CanEdit(mem[r].id)
    BY <1>1, <2>1 DEF Arrival
  <2>3. mem[r].id \in Ids /\ StatusOf(mem[r].id) \in {"confirmed", "ready_for_review"}
    BY <2>2, CanEditDoc
  <2>4. profiles[mem[r].id] # None
    BY <2>3, NoStatus
  <2>5. mem[r].id = mem[r].pid
    BY <2>2 DEF Passes, At, LocalsInv, LocalInv, OpInv
  <2>6. ~UpsertProfile(r) /\ UNCHANGED profiles
    BY <2>2 DEF Passes, At, UpsertProfile, EditProfile, stores
  <2>7. QED
    BY <2>2, <2>3, <2>4, <2>5, <2>6 DEF Passes
<1>4. ASSUME NEW q \in Requests, NEW p \in Requests, pc'[q] = "edit_save", pc'[p] \in Creating
      PROVE  mem'[q].pid # mem'[p].id
  <2>1. q # p
    BY <1>4 DEF Creating
  <2>2. CASE q = r
    <3>1. pc[p] \in Creating /\ mem'[p].id = mem[p].id
      BY <1>2, <1>4, <2>1, <2>2
    <3>2. profiles[mem[p].id] = None
      BY <3>1 DEF IdsInv
    <3>3. QED
      BY <1>3, <1>4, <2>2, <3>1, <3>2
  <2>3. CASE q # r /\ p # r
    BY <1>2, <1>4, <2>3 DEF EditInv, At
  <2>4. CASE q # r /\ p = r
    <3>1. pc[q] = "edit_save" /\ mem'[q].pid = mem[q].pid
      BY <1>2, <1>4, <2>4
    <3>2. CASE pc'[r] = "upsert_profile"
      BY <1>1, <2>4, <3>1, <3>2 DEF Arrival, Passes, EditInv, At, Creating
    <3>3. CASE pc'[r] = "create_resume"
      <4>1. SaveFile(r) /\ mem'[r].id = lastId'
        BY <1>1, <3>3 DEF Arrival
      <4>2. lastId' = lastId + 1
        BY <3>3, <4>1, FinishEffect DEF SaveFile
      <4>3. mem[q].pid <= lastId /\ mem[q].pid \in Nat /\ lastId \in Nat
        <5>1. mem[q].pid \in Ids
          BY <3>1 DEF LocalsInv, LocalInv, OpInv
        <5>2. QED
          BY <5>1 DEF IdsInv, TypeOK, Ids
      <4>4. QED
        BY <2>4, <3>1, <4>1, <4>2, <4>3
    <3>4. QED
      BY <1>4, <2>4, <3>2, <3>3 DEF Creating
  <2>5. QED
    BY <2>1, <2>2, <2>3, <2>4
<1>5. ASSUME NEW q \in Requests, NEW i \in Ids, pc'[q] = "edit_save", mem'[q].pid = i
      PROVE  StatusOf(i)' # "processing"
  <2>1. CASE q = r
    BY <1>3, <1>5, <2>1 DEF StatusOf
  <2>2. CASE q # r
    <3>1. pc[q] = "edit_save" /\ mem[q].pid = i
      BY <1>2, <1>5, <2>2
    <3>2. StatusOf(i) # "processing"
      BY <3>1 DEF EditInv, At
    <3>3. ~(UpsertProfile(r) /\ i = mem[r].id)
      BY <3>1 DEF UpsertProfile, At, EditInv, Creating
    <3>4. StatusOf(i)' = StatusOf(i) \/ StatusChange(r, i)
      BY StatusStep
    <3>5. QED
      BY <3>2, <3>3, <3>4 DEF StatusChange
  <2>3. QED
    BY <2>1, <2>2
<1>6. QED
  BY <1>4, <1>5 DEF EditInv, At

\* A restart or a stutter leaves the documents alone, and nobody at a new label.
LEMMA NoStep ==
    ASSUME NEW r \in Requests, Crash \/ UNCHANGED vars
    PROVE  /\ UNCHANGED <<uploadCount, lastId, resumes, profiles, files, point>>
           /\ \/ pc'[r] = "idle" /\ mem'[r] = NoMem
              \/ UNCHANGED vars
BY DEF Crash, vars, stores

LEMMA GroundInvHolds == Spec => []GroundInv
<1>1. Init => EditInv
  BY DEF Init, EditInv, At, Creating
<1>2. TypeOK /\ LocalsInv /\ IdsInv /\ EditInv /\ [Next]_vars => EditInv'
  <2> SUFFICES ASSUME TypeOK, LocalsInv, IdsInv, EditInv, [Next]_vars PROVE EditInv'
    OBVIOUS
  <2>1. CASE Crash
    BY <2>1 DEF Crash, EditInv, At
  <2>2. CASE UNCHANGED vars
    BY <2>2 DEF vars, stores, EditInv, At, StatusOf
  <2>3. QED
    BY <2>1, <2>2, EditKeeps DEF Next
<1>3. QED
  BY <1>1, <1>2, TypeCorrect, LocalsInvHolds, IdsInvHolds, PTL DEF Spec, GroundInv

----------------------------------------------------------------------------
(* An upload that ends leaves an outcome behind *)

HasExtractor(i) == \E r \in Requests : pc[r] \in Extracting /\ mem[r].pid = i

\* The owner's save cannot fail on the version: while the profile is
\* "processing" nobody has written its arrays.
OutcomeInv == \A i \in Ids : StatusOf(i) = "processing" => profiles[i].v = 0 /\ HasExtractor(i)

LEMMA ProcessingCanSave ==
    ASSUME TypeOK, LocalsInv, OutcomeInv, NEW r \in Requests,
           pc[r] \in {"save_extracted", "save_failed"}, StatusOf(mem[r].pid) = "processing",
           NEW doc, doc.v = 0, NEW dirty
    PROVE  CanSave(mem[r].pid, doc, dirty)
<1>1. mem[r].pid \in Ids
  BY SavingIds DEF Saving
<1>2. profiles[mem[r].pid] # None /\ profiles[mem[r].pid].v = 0
  BY <1>1, NoStatus DEF OutcomeInv
<1>3. QED
  BY <1>2 DEF CanSave

\* While MongoDB answers, a request stays with the profile it extracts until
\* the profile has its outcome.
LEMMA ExtractorStays ==
    ASSUME "mongo" \notin Faults \/ calm', TypeOK, LocalsInv, OutcomeInv,
           NEW r \in Requests, pc[r] \in Extracting,
           NEW i \in Ids, i = mem[r].pid, StatusOf(i) = "processing", Step(r)
    PROVE  StatusOf(i)' # "processing" \/ (pc'[r] \in Extracting /\ mem'[r].pid = i)
<1>0. /\ mem[r] \in Mem /\ mem[r].doc \in ProfileDoc /\ mem[r].dirty \in SUBSET SavedFields
      /\ DocInv(pc[r], mem[r])
  BY MemType DEF LocalsInv, LocalInv
<1>1. CASE Extract(r)
  <2>1. pc'[r] \in {"save_extracted", "save_failed"}
    BY <1>1, GotoEffect DEF Extract
  <2>2. mem'[r].pid = mem[r].pid
    BY <2>1, StepArrival DEF Arrival, Passes
  <2>3. QED
    BY <2>1, <2>2 DEF Extracting
<1>2. CASE SaveExtracted(r)
  <2>1. At(r, "save_extracted")
        /\ SaveProfile(r, mem[r].doc, mem[r].dirty, "save_skills", "save_failed")
    BY <1>2 DEF SaveExtracted
  <2>2. /\ mem[r].doc.v = 0 /\ mem[r].doc.status = "ready_for_review"
        /\ "status" \in mem[r].dirty
    BY <1>0, <2>1 DEF At, DocInv
  <2>3. CanSave(mem[r].pid, mem[r].doc, mem[r].dirty)
    BY <2>1, <2>2, ProcessingCanSave DEF At
  <2>4. Stored(r, mem[r].doc, mem[r].dirty)
    BY <2>1, <2>3 DEF SaveProfile, Stored
  <2>5. QED
    BY <1>0, <2>2, <2>4, StoredStatus
<1>3. CASE SaveFailed(r)
  <2> DEFINE doc == ExtractionFailed(mem[r].doc)
             dirty == mem[r].dirty \cup Changes(mem[r].doc, doc)
  <2>1. /\ At(r, "save_failed") /\ doc \in ProfileDoc /\ doc.status = "failed" /\ doc.v = 0
        /\ dirty \in SUBSET SavedFields /\ "status" \in dirty
    BY <1>3, SaveFailedDoc DEF SaveFailed
  <2>2. SaveProfile(r, doc, dirty, "idle", "idle")
    BY <1>3 DEF SaveFailed
  <2> HIDE DEF doc, dirty
  <2>3. CanSave(mem[r].pid, doc, dirty)
    BY <2>1, ProcessingCanSave DEF At
  <2>4. Stored(r, doc, dirty)
    BY <2>2, <2>3 DEF SaveProfile, Stored
  <2>5. QED
    BY <2>1, <2>4, StoredStatus
<1>4. QED
  BY <1>1, <1>2, <1>3
     DEF Extracting, Step, SyncResume, SyncProfile, SyncReset, FindExisting,
         FindExistingProfile, DeleteFile, DeleteVector, DeleteProfile, DeleteResume, SaveFile,
         CreateResume, UpsertProfile, SaveSkills, Charge, EditProfile, EditSave, ConfirmSave,
         ConfirmResume, UpsertPoint, SaveSynced, RecordFailure, MongoError, At

LEMMA OutcomeKeeps ==
    ASSUME "mongo" \notin Faults \/ calm', GroundInv, OutcomeInv, NEW r \in Requests,
           Request(r) \/ Step(r)
    PROVE  OutcomeInv'
<1> USE DEF GroundInv
<1>1. OthersStay(r) /\ Arrival(r)
  BY StepArrival
<1>2. SUFFICES ASSUME NEW i \in Ids, StatusOf(i)' = "processing"
               PROVE  /\ profiles'[i].v = 0
                      /\ \E q \in Requests : pc'[q] \in Extracting /\ mem'[q].pid = i
  BY DEF OutcomeInv, HasExtractor
<1>3. TypeOK'
  BY RequestType, SyncStepsType, RemovalStepsType, CreationStepsType, SavingStepsType,
     OtherStepsType DEF Step
<1>4. profiles'[i] # None
  BY <1>2, <1>3, NoStatus DEF StatusOf
<1>5. CASE UpsertProfile(r) /\ i = mem[r].id /\ ~UNCHANGED profiles
  <2>1. /\ profiles' = [profiles EXCEPT ![mem[r].id] = FreshProfile]
        /\ \E m : Goto(r, "extract", m)
    BY <1>5 DEF UpsertProfile
  <2>2. profiles'[i] = FreshProfile /\ FreshProfile.v = 0
    BY <1>5, <2>1 DEF TypeOK, FreshProfile
  <2>3. pc'[r] = "extract"
    BY <2>1, GotoEffect
  <2>4. mem'[r].pid = mem[r].pid /\ pc[r] = "upsert_profile"
    BY <1>1, <2>3 DEF Arrival, Passes, At
  <2>5. mem[r].pid = mem[r].id
    BY <2>4 DEF LocalsInv, LocalInv, OpInv, Owning
  <2>6. QED
    BY <1>5, <2>2, <2>3, <2>4, <2>5 DEF Extracting
<1>6. CASE StatusOf(i) = "processing"
  <2>1. profiles[i] # None /\ profiles[i].v = 0 /\ HasExtractor(i)
    BY <1>6, NoStatus DEF OutcomeInv
  <2>2. ~(EditSave(r) /\ At(r, "edit_save") /\ i = mem[r].pid)
    BY <1>6 DEF EditInv
  <2>3. profiles'[i].v = 0
    BY <1>2, <1>4, <2>1, <2>2, CountStep
  <2>4. PICK q \in Requests : pc[q] \in Extracting /\ mem[q].pid = i
    BY <2>1 DEF HasExtractor
  <2>5. CASE q # r
    BY <1>1, <2>3, <2>4, <2>5 DEF OthersStay
  <2>6. CASE q = r
    <3>1. Step(r)
      BY <2>4, <2>6 DEF Request, BeginUpload, BeginQuota, BeginDelete, BeginEdit, BeginConfirm,
                        Begin, At, Extracting
    <3>2. QED
      BY <1>2, <1>6, <2>3, <2>4, <2>6, <3>1, ExtractorStays
  <2>7. QED
    BY <2>5, <2>6
<1>7. QED
  <2>1. StatusOf(i)' = StatusOf(i) \/ StatusChange(r, i)
    BY StatusStep
  <2>2. StatusOf(i) = "processing" \/ (UpsertProfile(r) /\ i = mem[r].id)
    BY <1>2, <2>1 DEF StatusChange
  <2>3. UNCHANGED profiles => StatusOf(i) = "processing"
    BY <1>2 DEF StatusOf
  <2>4. QED
    BY <1>5, <1>6, <2>2, <2>3

\* Theorem: while MongoDB answers and the process lives, a profile is
\* "processing" only as long as an upload is extracting it, whichever requests
\* overlap: the save of the outcome cannot fail on the document's version,
\* because nobody writes the arrays of a profile before it has its outcome, and
\* a delete that gets in between takes the profile away.
THEOREM OutcomeIsSaved ==
    ASSUME "mongo" \notin Faults, ~Crashes
    PROVE  Spec => []NoStuckProcessing
<1>1. Init => OutcomeInv
  <2> SUFFICES ASSUME Init, NEW i \in Ids PROVE StatusOf(i) # "processing"
    BY DEF OutcomeInv
  <2>1. CASE NewAccount
    BY <2>1 DEF NewAccount, StatusOf
  <2>2. CASE LegacyFailure
    <3>1. ExtractionFailed(FreshProfile).status = "failed"
      BY FreshTypes DEF ExtractionFailed, FreshProfile
    <3>2. QED
      BY <2>2, <3>1 DEF LegacyFailure, StatusOf
  <2>3. QED
    BY <2>1, <2>2 DEF Init
<1>2. GroundInv /\ OutcomeInv /\ [Next]_vars => OutcomeInv'
  <2> SUFFICES ASSUME GroundInv, OutcomeInv, [Next]_vars PROVE OutcomeInv'
    OBVIOUS
  <2>1. CASE UNCHANGED vars
    BY <2>1 DEF vars, stores, OutcomeInv, HasExtractor, StatusOf
  <2>2. QED
    BY <2>1, OutcomeKeeps DEF Next, Crash
<1>3. OutcomeInv => NoStuckProcessing
  BY DEF OutcomeInv, HasExtractor, NoStuckProcessing, Extracting
<1>4. QED
  BY <1>1, <1>2, <1>3, GroundInvHolds, PTL DEF Spec

----------------------------------------------------------------------------
(* A resume has its file *)

\* The requests that have removed the file of i and not yet its resume.
Remover(r, i) == pc[r] \in {"delete_vector", "delete_profile", "delete_resume"} /\ mem[r].id = i

FileInv ==
    /\ \A i \in Ids : resumes[i] # None /\ i \notin files => \E r \in Requests : Remover(r, i)
    /\ \A r \in Requests : At(r, "create_resume") => mem[r].id \in files

LEMMA RemoverStays ==
    ASSUME "mongo" \notin Faults, QdrantEnabled => {"qdrant", "qdrant_late"} \cap Faults = {},
           TypeOK, LocalsInv, NEW r \in Requests, NEW i \in Ids, Remover(r, i), Step(r)
    PROVE  resumes'[i] = None \/ Remover(r, i)'
<1>1. CASE DeleteVector(r)
  <2>1. Goto(r, "delete_profile", mem[r])
    BY <1>1 DEF DeleteVector
  <2>2. QED
    BY <2>1, GotoEffect DEF Remover
<1>2. CASE DeleteProfile(r)
  BY <1>2, GotoEffect DEF DeleteProfile, Remover
<1>3. CASE DeleteResume(r)
  BY <1>3 DEF DeleteResume, Remover, TypeOK
<1>4. QED
  BY <1>1, <1>2, <1>3
     DEF Remover, Step, SyncResume, SyncProfile, SyncReset, FindExisting,
         FindExistingProfile, DeleteFile, SaveFile, CreateResume, UpsertProfile, Extract,
         SaveExtracted, SaveFailed, SaveSkills, Charge, EditProfile, EditSave, ConfirmSave,
         ConfirmResume, UpsertPoint, SaveSynced, RecordFailure, MongoError, At

LEMMA FileKeeps ==
    ASSUME "mongo" \notin Faults, QdrantEnabled => {"qdrant", "qdrant_late"} \cap Faults = {},
           GroundInv, FileInv, NEW r \in Requests, Request(r) \/ Step(r)
    PROVE  FileInv'
<1> USE DEF GroundInv
<1>1. OthersStay(r) /\ Arrival(r)
  BY StepArrival
<1>2. UNCHANGED files \/ FileChange(r)
  BY FileStep
<1>3. ASSUME NEW q \in Requests, pc'[q] = "create_resume" PROVE mem'[q].id \in files'
  <2>1. CASE q = r
    <3>1. SaveFile(r) /\ mem'[r].id = lastId'
      BY <1>1, <1>3, <2>1 DEF Arrival
    <3>2. files' = files \cup {lastId'}
      BY <1>3, <2>1, <3>1, FinishEffect DEF SaveFile
    <3>3. QED
      BY <2>1, <3>1, <3>2
  <2>2. CASE q # r
    <3>1. pc[q] = "create_resume" /\ mem'[q] = mem[q] /\ mem[q].id \in files
      BY <1>1, <1>3, <2>2 DEF OthersStay, FileInv, At
    <3>2. DeleteFile(r) => mem[r].id # mem[q].id
      BY <3>1 DEF DeleteFile, At, IdsInv, Found, Removing
    <3>3. QED
      BY <1>2, <3>1, <3>2 DEF FileChange
  <2>3. QED
    BY <2>1, <2>2
<1>4. ASSUME NEW i \in Ids, resumes'[i] # None, i \notin files'
      PROVE  \E q \in Requests : Remover(q, i)'
  <2>1. (resumes'[i] = None <=> resumes[i] = None) \/ ResumeChange(r, i)
    BY ResumeStep
  <2>2. CASE CreateResume(r) /\ i = mem[r].id
    <3>1. i \in files /\ UNCHANGED files
      BY <2>2 DEF CreateResume, FileInv
    <3>2. QED
      BY <1>4, <3>1
  <2>3. CASE DeleteFile(r) /\ i = mem[r].id
    <3>1. pc'[r] = "delete_vector" /\ mem'[r] = mem[r]
      BY <2>3, GotoEffect DEF DeleteFile
    <3>2. QED
      BY <2>3, <3>1 DEF Remover
  <2>4. CASE resumes[i] # None /\ i \notin files
    <3>1. PICK q \in Requests : Remover(q, i)
      BY <2>4 DEF FileInv
    <3>2. CASE q # r
      BY <1>1, <3>1, <3>2 DEF OthersStay, Remover
    <3>3. CASE q = r
      <4>1. Step(r)
        BY <3>1, <3>3 DEF Remover, Request, BeginUpload, BeginQuota, BeginDelete, BeginEdit,
                          BeginConfirm, Begin, At
      <4>2. QED
        BY <1>4, <3>1, <3>3, <4>1, RemoverStays
    <3>4. QED
      BY <3>2, <3>3
  <2>5. QED
    BY <1>2, <1>4, <2>1, <2>2, <2>3, <2>4 DEF ResumeChange, FileChange
<1>5. QED
  BY <1>3, <1>4 DEF FileInv, At

\* Theorem: while MongoDB and Qdrant answer and the process lives, a stored
\* resume lacks its file only while a request is removing both, whichever
\* requests overlap: the file is stored before the resume is inserted, and a
\* removal goes through to the resume.
THEOREM FileOutlivesResume ==
    ASSUME "mongo" \notin Faults, QdrantEnabled => {"qdrant", "qdrant_late"} \cap Faults = {},
           ~Crashes
    PROVE  Spec => []FileMissingOnlyDuringRemoval
<1>1. Init => FileInv
  <2> SUFFICES ASSUME Init PROVE FileInv
    OBVIOUS
  <2>1. \A r \in Requests : ~At(r, "create_resume")
    BY DEF Init, At
  <2>2. \A i \in Ids : resumes[i] # None => i \in files
    BY DEF Init, NewAccount, LegacyFailure
  <2>3. QED
    BY <2>1, <2>2 DEF FileInv
<1>2. GroundInv /\ FileInv /\ [Next]_vars => FileInv'
  <2> SUFFICES ASSUME GroundInv, FileInv, [Next]_vars PROVE FileInv'
    OBVIOUS
  <2>1. CASE UNCHANGED vars
    BY <2>1 DEF vars, stores, FileInv, Remover, At
  <2>2. QED
    BY <2>1, FileKeeps DEF Next, Crash
<1>3. FileInv => FileMissingOnlyDuringRemoval
  BY DEF FileInv, Remover, FileMissingOnlyDuringRemoval
<1>4. QED
  BY <1>1, <1>2, <1>3, GroundInvHolds, PTL DEF Spec

----------------------------------------------------------------------------
(* A profile has its resume *)

\* No request removes a resume while its upload is about to create the profile.
RemovalsApart ==
    \A q, r \in Requests :
        At(q, "delete_resume") /\ At(r, "upsert_profile") => mem[q].id # mem[r].id

OwnerInv ==
    /\ ProfileHasResume
    /\ \A r \in Requests : At(r, "delete_resume") => profiles[mem[r].id] = None
    /\ \A r \in Requests : At(r, "upsert_profile") => resumes[mem[r].id] # None

LEMMA OwnerKeeps ==
    ASSUME GroundInv, OwnerInv, RemovalsApart, NEW r \in Requests, Request(r) \/ Step(r)
    PROVE  OwnerInv'
<1> USE DEF GroundInv
<1>1. OthersStay(r) /\ Arrival(r)
  BY StepArrival
<1>2. \A i \in Ids : (resumes'[i] = None <=> resumes[i] = None) \/ ResumeChange(r, i)
  BY ResumeStep
<1>3. ASSUME NEW i \in Ids
      PROVE  \/ profiles'[i] = None <=> profiles[i] = None
             \/ UpsertProfile(r) /\ At(r, "upsert_profile") /\ i = mem[r].id
             \/ DeleteProfile(r) /\ i = mem[r].id /\ profiles'[i] = None
  <2>1. StatusOf(i)' = StatusOf(i) \/ StatusChange(r, i)
    BY StatusStep
  <2>2. TypeOK'
    BY RequestType, SyncStepsType, RemovalStepsType, CreationStepsType, SavingStepsType,
       OtherStepsType DEF Step
  <2>3. StatusOf(i)' = "none" <=> profiles'[i] = None
    BY <2>2 DEF TypeOK, StatusOf, ProfileDoc, Status, Ids, NoId
  <2>4. StatusOf(i) = "none" <=> profiles[i] = None
    BY NoStatus
  <2>5. QED
    BY <2>1, <2>3, <2>4 DEF StatusChange, UpsertProfile
<1>4. ASSUME NEW i \in Ids, profiles'[i] # None PROVE resumes'[i] # None
  <2>1. CASE UpsertProfile(r) /\ i = mem[r].id
    BY <2>1 DEF UpsertProfile, OwnerInv
  <2>2. CASE profiles[i] # None
    <3>1. resumes[i] # None
      BY <2>2 DEF OwnerInv, ProfileHasResume
    <3>2. ~(DeleteResume(r) /\ i = mem[r].id)
      BY <2>2 DEF DeleteResume, OwnerInv
    <3>3. QED
      BY <1>2, <3>1, <3>2 DEF ResumeChange
  <2>3. QED
    BY <1>3, <1>4, <2>1, <2>2
<1>5. ASSUME NEW q \in Requests, pc'[q] = "delete_resume" PROVE profiles'[mem'[q].id] = None
  <2>1. CASE q = r
    <3>1. DeleteProfile(r) /\ Passes(r, "delete_profile", "delete_resume")
      BY <1>1, <1>5, <2>1 DEF Arrival
    <3>2. mem[r].id \in Ids /\ mem'[r].id = mem[r].id
      BY <3>1 DEF Passes, At, LocalsInv, LocalInv, OpInv, Removing
    <3>3. QED
      BY <2>1, <3>1, <3>2 DEF DeleteProfile, TypeOK
  <2>2. CASE q # r
    <3>1. pc[q] = "delete_resume" /\ mem'[q] = mem[q] /\ profiles[mem[q].id] = None
      BY <1>1, <1>5, <2>2 DEF OthersStay, OwnerInv, At
    <3>2. mem[q].id \in Ids
      BY <3>1 DEF LocalsInv, LocalInv, OpInv, Removing
    <3>3. ~(At(r, "upsert_profile") /\ mem[q].id = mem[r].id)
      BY <3>1 DEF RemovalsApart, At
    <3>4. QED
      BY <1>3, <3>1, <3>2, <3>3
  <2>3. QED
    BY <2>1, <2>2
<1>6. ASSUME NEW q \in Requests, pc'[q] = "upsert_profile" PROVE resumes'[mem'[q].id] # None
  <2>1. CASE q = r
    <3>1. CreateResume(r) /\ Passes(r, "create_resume", "upsert_profile")
      BY <1>1, <1>6, <2>1 DEF Arrival
    <3>2. mem[r].id \in Ids /\ mem'[r].id = mem[r].id
      BY <3>1 DEF Passes, At, LocalsInv, LocalInv, OpInv, Owning
    <3>3. resumes' = [resumes EXCEPT ![mem[r].id] = FreshResume]
      BY <1>6, <2>1, <3>1, FinishEffect DEF CreateResume
    <3>4. QED
      BY <2>1, <3>2, <3>3, FreshTypes DEF TypeOK
  <2>2. CASE q # r
    <3>1. pc[q] = "upsert_profile" /\ mem'[q] = mem[q] /\ resumes[mem[q].id] # None
      BY <1>1, <1>6, <2>2 DEF OthersStay, OwnerInv, At
    <3>2. mem[q].id \in Ids
      BY <3>1 DEF LocalsInv, LocalInv, OpInv, Owning
    <3>3. ~(At(r, "delete_resume") /\ mem[q].id = mem[r].id)
      BY <3>1 DEF RemovalsApart, At
    <3>4. QED
      BY <1>2, <3>1, <3>2, <3>3 DEF ResumeChange
  <2>3. QED
    BY <2>1, <2>2
<1>7. QED
  BY <1>4, <1>5, <1>6 DEF OwnerInv, ProfileHasResume, At

LEMMA OwnerInvHolds == Spec /\ []RemovalsApart => []OwnerInv
<1>1. Init => OwnerInv
  <2> SUFFICES ASSUME Init PROVE OwnerInv
    OBVIOUS
  <2>1. \A r \in Requests : ~At(r, "delete_resume") /\ ~At(r, "upsert_profile")
    BY DEF Init, At
  <2>2. ProfileHasResume
    BY FreshTypes DEF Init, NewAccount, LegacyFailure, ProfileHasResume
  <2>3. QED
    BY <2>1, <2>2 DEF OwnerInv
<1>2. GroundInv /\ OwnerInv /\ RemovalsApart /\ [Next]_vars => OwnerInv'
  <2> SUFFICES ASSUME GroundInv, OwnerInv, RemovalsApart, [Next]_vars PROVE OwnerInv'
    OBVIOUS
  <2>1. CASE Crash
    BY <2>1 DEF Crash, stores, OwnerInv, ProfileHasResume, At
  <2>2. CASE UNCHANGED vars
    BY <2>2 DEF vars, stores, OwnerInv, ProfileHasResume, At
  <2>3. QED
    BY <2>1, <2>2, OwnerKeeps DEF Next
<1>3. QED
  BY <1>1, <1>2, GroundInvHolds, PTL DEF Spec

\* Theorem: whichever requests overlap, whatever fails and wherever the process
\* dies, a profile has its resume, as long as nobody deletes a resume between
\* its insertion and the upsert of its profile.
THEOREM NoOrphanProfile == Spec /\ []RemovalsApart => []ProfileHasResume
<1>1. OwnerInv => ProfileHasResume
  BY DEF OwnerInv
<1>2. QED
  BY <1>1, OwnerInvHolds, PTL

----------------------------------------------------------------------------
(* The stage of a profile *)

\* No profile is confirmed while its extraction is under way.
ExtractsApart ==
    \A q, r \in Requests :
        pc[q] \in Extracting /\ At(r, "confirm_save") => mem[q].pid # mem[r].pid

StageInv ==
    /\ \A r \in Requests, i \in Ids :
          pc[r] \in Extracting /\ mem[r].pid = i => StatusOf(i) \in {"processing", "none"}
    /\ \A r \in Requests, i \in Ids :
          At(r, "confirm_save") /\ mem[r].pid = i => StatusOf(i) # "failed"

\* What a step may do to the stage of i, and from which stage.
StageStep(r, i) ==
    \/ StatusOf(i)' = StatusOf(i)
    \/ UpsertProfile(r) /\ i = mem[r].id /\ StatusOf(i) = "none" /\ StatusOf(i)' = "processing"
    \/ DeleteProfile(r) /\ i = mem[r].id /\ StatusOf(i)' = "none"
    \/ /\ i = mem[r].pid /\ pc[r] \in {"save_extracted", "save_failed"}
       /\ StatusOf(i) = "processing" /\ StatusOf(i)' \in {"ready_for_review", "failed"}
       /\ pc'[r] \notin Extracting
    \/ /\ i = mem[r].pid /\ At(r, "confirm_save") /\ pc'[r] = "confirm_resume"
       /\ StatusOf(i) \notin {"none", "failed"} /\ StatusOf(i)' = "confirmed"

LEMMA StageSteps ==
    ASSUME GroundInv, StageInv, NEW r \in Requests, Request(r) \/ Step(r), NEW i \in Ids
    PROVE  StageStep(r, i)
<1> USE DEF GroundInv
<1>1. StatusOf(i)' = StatusOf(i) \/ StatusChange(r, i)
  BY StatusStep
<1>2. profiles[i] # None => StatusOf(i) # "none"
  BY NoStatus
<1>3. CASE UpsertProfile(r) /\ i = mem[r].id /\ StatusOf(i)' = "processing"
  <2>1. profiles[i] = None
    BY <1>3 DEF UpsertProfile, At, IdsInv, Creating
  <2>2. QED
    BY <1>3, <2>1, NoStatus DEF StageStep
<1>4. CASE DeleteProfile(r) /\ i = mem[r].id /\ StatusOf(i)' = "none"
  BY <1>4 DEF StageStep
<1>5. CASE /\ i = mem[r].pid /\ profiles[i] # None
           /\ \/ SaveExtracted(r) /\ StatusOf(i)' = "ready_for_review" /\ pc'[r] = "save_skills"
              \/ SaveFailed(r) /\ StatusOf(i)' = "failed" /\ pc'[r] = "idle"
  <2>1. pc[r] \in {"save_extracted", "save_failed"}
    BY <1>5 DEF SaveExtracted, SaveFailed, At
  <2>2. StatusOf(i) \in {"processing", "none"}
    BY <1>5, <2>1 DEF StageInv, Extracting
  <2>3. QED
    BY <1>2, <1>5, <2>1, <2>2 DEF StageStep, Extracting
<1>6. CASE /\ i = mem[r].pid /\ profiles[i] # None
           /\ ConfirmSave(r) /\ StatusOf(i)' = "confirmed" /\ pc'[r] = "confirm_resume"
  BY <1>2, <1>6 DEF StageStep, ConfirmSave, StageInv
<1>7. QED
  BY <1>1, <1>3, <1>4, <1>5, <1>6 DEF StageStep, StatusChange

LEMMA StageKeeps ==
    ASSUME GroundInv, StageInv, ExtractsApart, NEW r \in Requests, Request(r) \/ Step(r)
    PROVE  StageInv'
<1> USE DEF GroundInv
<1>1. OthersStay(r) /\ Arrival(r)
  BY StepArrival
<1>2. \A i \in Ids : StageStep(r, i)
  BY StageSteps
<1>3. ASSUME NEW q \in Requests, NEW i \in Ids, pc'[q] \in Extracting, mem'[q].pid = i
      PROVE  StatusOf(i)' \in {"processing", "none"}
  <2>1. CASE pc[q] \in Extracting /\ mem[q].pid = i
    <3>1. StatusOf(i) \in {"processing", "none"}
      BY <2>1 DEF StageInv
    <3>2. ~(i = mem[r].pid /\ At(r, "confirm_save"))
      BY <2>1 DEF ExtractsApart
    <3>3. i = mem[r].pid /\ pc[r] \in {"save_extracted", "save_failed"} => q = r
      BY <2>1 DEF IdsInv, Owning, LocalsInv, LocalInv, OpInv, Extracting
    <3>4. QED
      BY <1>2, <1>3, <3>1, <3>2, <3>3 DEF StageStep
  <2>2. CASE ~(pc[q] \in Extracting /\ mem[q].pid = i)
    <3>1. q = r
      BY <1>1, <1>3, <2>2 DEF OthersStay
    <3>2. CASE pc'[r] = "extract"
      <4>1. UpsertProfile(r) /\ Passes(r, "upsert_profile", "extract")
        BY <1>1, <3>2 DEF Arrival
      <4>2. mem[r].id = i
        BY <1>3, <3>1, <4>1 DEF Passes, At, LocalsInv, LocalInv, OpInv, Owning
      <4>3. profiles' = [profiles EXCEPT ![mem[r].id] = FreshProfile]
        BY <3>2, <4>1, FinishEffect DEF UpsertProfile
      <4>4. profiles'[i] = FreshProfile /\ i # NoId
        BY <4>2, <4>3 DEF TypeOK, Ids, NoId
      <4>5. FreshProfile # None /\ FreshProfile.status = "processing"
        BY FreshTypes DEF FreshProfile
      <4>6. QED
        BY <4>4, <4>5 DEF StatusOf
    <3>3. CASE pc'[r] \in {"save_extracted", "save_failed"}
      BY <1>1, <1>3, <2>2, <3>1, <3>3 DEF Arrival, Passes, At, Extracting
    <3>4. QED
      BY <1>3, <3>1, <3>2, <3>3 DEF Extracting
  <2>3. QED
    BY <2>1, <2>2
<1>4. ASSUME NEW q \in Requests, NEW i \in Ids, pc'[q] = "confirm_save", mem'[q].pid = i
      PROVE  StatusOf(i)' # "failed"
  <2>1. CASE q = r
    <3>1. BeginConfirm(r) /\ StatusOf(i) \in {"processing", "ready_for_review"}
      BY <1>1, <1>4, <2>1 DEF Arrival
    <3>2. UNCHANGED profiles
      BY <3>1 DEF BeginConfirm, stores
    <3>3. QED
      BY <3>1, <3>2 DEF StatusOf
  <2>2. CASE q # r
    <3>1. pc[q] = "confirm_save" /\ mem[q].pid = i
      BY <1>1, <1>4, <2>2 DEF OthersStay
    <3>2. ~(i = mem[r].pid /\ pc[r] \in {"save_extracted", "save_failed"})
      BY <3>1 DEF ExtractsApart, At, Extracting
    <3>3. StatusOf(i) # "failed"
      BY <3>1 DEF StageInv, At
    <3>4. QED
      BY <1>2, <3>2, <3>3 DEF StageStep
  <2>3. QED
    BY <2>1, <2>2
<1>5. QED
  BY <1>3, <1>4 DEF StageInv, At

LEMMA StageInvHolds == Spec /\ []ExtractsApart => []StageInv
<1>1. Init => StageInv
  BY DEF Init, StageInv, At, Extracting
<1>2. GroundInv /\ StageInv /\ ExtractsApart /\ [Next]_vars => StageInv'
  <2> SUFFICES ASSUME GroundInv, StageInv, ExtractsApart, [Next]_vars PROVE StageInv'
    OBVIOUS
  <2>1. CASE Crash
    BY <2>1 DEF Crash, StageInv, Extracting, At
  <2>2. CASE UNCHANGED vars
    BY <2>2 DEF vars, stores, StageInv, At, StatusOf
  <2>3. QED
    BY <2>1, <2>2, StageKeeps DEF Next
<1>3. QED
  BY <1>1, <1>2, GroundInvHolds, PTL DEF Spec

\* Theorem: whichever requests overlap, whatever fails and wherever the process
\* dies, the profile of a failed extraction is not confirmed, as long as nobody
\* confirms a profile whose extraction is still under way.
THEOREM FailureStays == Spec /\ []ExtractsApart => FailedIsNotConfirmed
<1>1. GroundInv /\ StageInv /\ [Next]_vars =>
          [\A i \in Ids : StatusOf(i) = "failed" => StatusOf(i)' # "confirmed"]_vars
  <2> SUFFICES ASSUME GroundInv, StageInv, Next, NEW i \in Ids, StatusOf(i) = "failed"
               PROVE  StatusOf(i)' \in {"failed", "none"}
    OBVIOUS
  <2>1. CASE Crash
    BY <2>1 DEF Crash, stores, StatusOf
  <2>2. ASSUME NEW r \in Requests, Request(r) \/ Step(r)
        PROVE  StatusOf(i)' \in {"failed", "none"}
    BY <2>2, StageSteps DEF StageStep
  <2>3. QED
    BY <2>1, <2>2 DEF Next
<1>2. QED
  BY <1>1, GroundInvHolds, StageInvHolds, PTL DEF Spec, FailedIsNotConfirmed

----------------------------------------------------------------------------
(* The point belongs to a confirmed profile *)

\* A request that is about to bring the vector of a confirmed profile up to date.
Vectoring(label, m) ==
    \/ label \in {"confirm_resume", "upsert_point"}
    \/ label = "save_skills" /\ m.op # "upload" /\ m.doc.status = "confirmed"

\* No profile is deleted between its confirmation, or an edit of it once it is
\* confirmed, and the upsert of its point.
DeletesApart ==
    \A q, r \in Requests :
        At(q, "delete_profile") /\ Vectoring(pc[r], mem[r]) => mem[q].id # mem[r].pid

PointInv ==
    /\ \A i \in Ids : point # None /\ point.resume = i => StatusOf(i) = "confirmed"
    /\ point # None => QdrantEnabled /\ point.resume \in Ids
    /\ \A r \in Requests : At(r, "upsert_point") => QdrantEnabled
    /\ \A r \in Requests, i \in Ids :
          Vectoring(pc[r], mem[r]) /\ mem[r].pid = i => StatusOf(i) = "confirmed"
    /\ \A r \in Requests, i \in Ids :
          At(r, "edit_save") /\ mem[r].doc.status = "confirmed" /\ mem[r].pid = i =>
              StatusOf(i) \in {"confirmed", "none"}
    /\ \A r \in Requests :
          At(r, "delete_profile") /\ point # None => point.resume # mem[r].id

\* A profile that is confirmed loses the stage only to a delete.
LEMMA ConfirmedStays ==
    ASSUME StageInv, NEW r \in Requests, NEW i \in Ids, StageStep(r, i),
           StatusOf(i) = "confirmed"
    PROVE  \/ StatusOf(i)' = "confirmed"
           \/ DeleteProfile(r) /\ At(r, "delete_profile") /\ i = mem[r].id /\ StatusOf(i)' = "none"
BY DEF StageStep, DeleteProfile

\* Whoever comes to bring the vector up to date has a confirmed profile.
LEMMA VectoringArrives ==
    ASSUME GroundInv, StageInv, PointInv, NEW r \in Requests, Request(r) \/ Step(r),
           Vectoring(pc'[r], mem'[r]), ~(Vectoring(pc[r], mem[r]) /\ mem'[r].pid = mem[r].pid),
           NEW i \in Ids, i = mem'[r].pid
    PROVE  StatusOf(i)' = "confirmed"
<1> USE DEF GroundInv
<1>1. Arrival(r)
  BY StepArrival
<1>2. /\ mem[r].doc \in ProfileDoc /\ mem[r].dirty \in SUBSET SavedFields
      /\ DocInv(pc[r], mem[r]) /\ OpInv(pc[r], mem[r])
  BY MemType DEF LocalsInv, LocalInv
<1>3. CASE pc'[r] = "confirm_resume"
  <2>1. At(r, "confirm_save") /\ mem'[r].pid = mem[r].pid /\ Stored(r, mem[r].doc, mem[r].dirty)
    BY <1>1, <1>3 DEF Arrival, Passes
  <2>2. "status" \in mem[r].dirty /\ mem[r].doc.status = "confirmed"
    BY <1>2, <2>1 DEF DocInv, At
  <2>3. QED
    BY <1>2, <2>1, <2>2, StoredStatus
<1>4. CASE pc'[r] = "upsert_point"
  BY <1>1, <1>4 DEF Arrival, Passes, Vectoring, At
<1>5. CASE pc'[r] = "save_skills"
  <2>1. mem'[r].op # "upload" /\ mem'[r].doc.status = "confirmed"
    BY <1>5 DEF Vectoring
  <2>2. CASE SaveExtracted(r) /\ Passes(r, "save_extracted", "save_skills")
    BY <1>2, <2>1, <2>2 DEF Passes, At, OpInv, Owning, Extracting
  <2>3. CASE ConfirmResume(r) /\ At(r, "confirm_resume") /\ mem'[r].pid = mem[r].pid
    BY <2>3 DEF Vectoring, At
  <2>4. CASE /\ EditSave(r) /\ Passes(r, "edit_save", "save_skills")
             /\ mem'[r].doc.status = mem[r].doc.status /\ Stored(r, mem[r].doc, mem[r].dirty)
    <3>1. i = mem[r].pid /\ At(r, "edit_save") /\ mem[r].doc.status = "confirmed"
      BY <2>1, <2>4 DEF Passes
    <3>2. StatusOf(i) \in {"confirmed", "none"} /\ profiles[i] # None
      BY <2>4, <3>1 DEF PointInv, Stored, CanSave
    <3>3. StatusOf(i) = "confirmed"
      BY <3>2, NoStatus
    <3>4. "status" \notin mem[r].dirty
      BY <1>2, <3>1 DEF DocInv, At
    <3>5. StatusOf(i)' = StatusOf(i)
      BY <1>2, <2>4, <3>1, <3>4, StoredStatus
    <3>6. QED
      BY <3>3, <3>5
  <2>5. QED
    BY <1>1, <1>5, <2>2, <2>3, <2>4 DEF Arrival
<1>6. QED
  BY <1>3, <1>4, <1>5 DEF Vectoring

LEMMA PointKeeps ==
    ASSUME GroundInv, StageInv, PointInv, ExtractsApart, DeletesApart,
           NEW r \in Requests, Request(r) \/ Step(r)
    PROVE  PointInv'
<1> USE DEF GroundInv
<1>1. OthersStay(r) /\ Arrival(r)
  BY StepArrival
<1>2. \A i \in Ids : StageStep(r, i)
  BY StageSteps
<1>3. UNCHANGED point \/ PointChange(r)
  BY PointStep
<1>4. UpsertPoint(r) => mem[r].pid \in Ids /\ Vectoring(pc[r], mem[r]) /\ At(r, "upsert_point")
  BY DEF UpsertPoint, At, LocalsInv, LocalInv, OpInv, Vectoring
<1>5. ASSUME NEW q \in Requests, pc'[q] = "upsert_point" PROVE QdrantEnabled
  BY <1>1, <1>5 DEF OthersStay, Arrival, PointInv, At
<1>6. ASSUME point' # None
      PROVE  \/ UNCHANGED point
             \/ UpsertPoint(r) /\ point'.resume = mem[r].pid /\ UNCHANGED profiles
  BY <1>3, <1>6 DEF PointChange, UpsertPoint
<1>7. point' # None => QdrantEnabled /\ point'.resume \in Ids
  BY <1>4, <1>6 DEF PointInv
<1>8. ASSUME NEW i \in Ids, point' # None, point'.resume = i PROVE StatusOf(i)' = "confirmed"
  <2>1. CASE UpsertPoint(r) /\ i = mem[r].pid /\ UNCHANGED profiles
    <3>1. StatusOf(i) = "confirmed"
      BY <1>4, <2>1 DEF PointInv
    <3>2. QED
      BY <2>1, <3>1 DEF StatusOf
  <2>2. CASE UNCHANGED point
    <3>1. StatusOf(i) = "confirmed"
      BY <1>8, <2>2 DEF PointInv
    <3>2. ~(At(r, "delete_profile") /\ i = mem[r].id)
      BY <1>8, <2>2 DEF PointInv
    <3>3. QED
      BY <1>2, <3>1, <3>2, ConfirmedStays
  <2>3. QED
    BY <1>6, <1>8, <2>1, <2>2
<1>9. ASSUME NEW q \in Requests, NEW i \in Ids, Vectoring(pc'[q], mem'[q]), mem'[q].pid = i
      PROVE  StatusOf(i)' = "confirmed"
  <2>1. CASE Vectoring(pc[q], mem[q]) /\ mem[q].pid = i
    <3>1. StatusOf(i) = "confirmed"
      BY <2>1 DEF PointInv
    <3>2. ~(At(r, "delete_profile") /\ i = mem[r].id)
      BY <2>1 DEF DeletesApart
    <3>3. QED
      BY <1>2, <3>1, <3>2, ConfirmedStays
  <2>2. CASE ~(Vectoring(pc[q], mem[q]) /\ mem[q].pid = i)
    <3>1. q = r
      BY <1>1, <1>9, <2>2 DEF OthersStay
    <3>2. QED
      BY <1>9, <2>2, <3>1, VectoringArrives
  <2>3. QED
    BY <2>1, <2>2
<1>10. ASSUME NEW q \in Requests, NEW i \in Ids, pc'[q] = "edit_save",
              mem'[q].doc.status = "confirmed", mem'[q].pid = i
       PROVE  StatusOf(i)' \in {"confirmed", "none"}
  <2>1. CASE q = r
    <3>1. /\ EditProfile(r) /\ mem'[r].pid = mem[r].pid /\ At(r, "edit_profile")
          /\ CanEdit(mem[r].id) /\ mem'[r].doc.status = profiles[mem[r].id].status
      BY <1>1, <1>10, <2>1 DEF Arrival, Passes
    <3>2. mem[r].id = mem[r].pid
      BY <3>1 DEF At, LocalsInv, LocalInv, OpInv
    <3>3. StatusOf(i) = "confirmed"
      BY <1>10, <2>1, <3>1, <3>2, CanEditDoc
    <3>4. UNCHANGED profiles
      BY <3>1 DEF EditProfile, stores
    <3>5. QED
      BY <3>3, <3>4 DEF StatusOf
  <2>2. CASE q # r
    <3>1. pc[q] = "edit_save" /\ mem[q].doc.status = "confirmed" /\ mem[q].pid = i
      BY <1>1, <1>10, <2>2 DEF OthersStay
    <3>2. StatusOf(i) \in {"confirmed", "none"}
      BY <3>1 DEF PointInv, At
    <3>3. ~(UpsertProfile(r) /\ i = mem[r].id)
      BY <3>1 DEF UpsertProfile, At, EditInv, Creating
    <3>4. QED
      BY <1>2, <3>2, <3>3 DEF StageStep
  <2>3. QED
    BY <2>1, <2>2
<1>11. ASSUME NEW q \in Requests, pc'[q] = "delete_profile", point' # None
       PROVE  point'.resume # mem'[q].id
  <2>1. CASE q = r
    <3>1. DeleteVector(r)
      BY <1>1, <1>11, <2>1 DEF Arrival
    <3>2. ~QdrantEnabled \/ point' = None
      BY <1>11, <2>1, <3>1, FinishEffect DEF DeleteVector
    <3>3. QED
      BY <1>7, <1>11, <3>2
  <2>2. CASE q # r
    <3>1. pc[q] = "delete_profile" /\ mem'[q] = mem[q]
      BY <1>1, <1>11, <2>2 DEF OthersStay
    <3>2. CASE UNCHANGED point
      BY <1>11, <3>1, <3>2 DEF PointInv, At
    <3>3. CASE UpsertPoint(r) /\ point'.resume = mem[r].pid
      BY <1>4, <3>1, <3>3 DEF DeletesApart, At
    <3>4. QED
      BY <1>6, <1>11, <3>2, <3>3
  <2>3. QED
    BY <2>1, <2>2
<1>12. QED
  BY <1>5, <1>7, <1>8, <1>9, <1>10, <1>11 DEF PointInv, At

\* Theorem: whichever requests overlap, whatever fails and wherever the process
\* dies, the point in Qdrant belongs to a stored, confirmed profile, as long as
\* nobody confirms a profile whose extraction is under way and nobody deletes a
\* profile whose vector is being brought up to date.
THEOREM PointIsOfConfirmed ==
    Spec /\ []ExtractsApart /\ []DeletesApart => []PointHasConfirmedProfile
<1>1. Init => PointInv
  BY DEF Init, PointInv, Vectoring, At
<1>2. GroundInv /\ StageInv /\ ExtractsApart /\ DeletesApart /\ PointInv /\ [Next]_vars => PointInv'
  <2> SUFFICES ASSUME GroundInv, StageInv, ExtractsApart, DeletesApart, PointInv, [Next]_vars
               PROVE  PointInv'
    OBVIOUS
  <2>1. CASE Crash
    BY <2>1 DEF Crash, stores, PointInv, Vectoring, At, StatusOf
  <2>2. CASE UNCHANGED vars
    BY <2>2 DEF vars, stores, PointInv, At, StatusOf
  <2>3. QED
    BY <2>1, <2>2, PointKeeps DEF Next
<1>3. PointInv => PointHasConfirmedProfile
  BY DEF PointInv, PointHasConfirmedProfile
<1>4. QED
  BY <1>1, <1>2, <1>3, GroundInvHolds, StageInvHolds, PTL DEF Spec

----------------------------------------------------------------------------
(* Every edit is counted *)

\* No profile is edited by two requests at a time.
EditsApart ==
    \A q, r \in Requests :
        At(q, "edit_save") /\ At(r, "edit_save") /\ mem[q].pid = mem[r].pid => q = r

CountInv ==
    \A r \in Requests, i \in Ids :
        At(r, "edit_save") /\ mem[r].pid = i /\ profiles[i] # None =>
            mem[r].doc.edits = profiles[i].edits + 1

LEMMA CountKeeps ==
    ASSUME GroundInv, CountInv, EditsApart, NEW r \in Requests, Request(r) \/ Step(r)
    PROVE  CountInv'
<1> USE DEF GroundInv
<1>1. OthersStay(r) /\ Arrival(r)
  BY StepArrival
<1>2. SUFFICES ASSUME NEW q \in Requests, NEW i \in Ids, pc'[q] = "edit_save",
                      mem'[q].pid = i, profiles'[i] # None
               PROVE  mem'[q].doc.edits = profiles'[i].edits + 1
  BY DEF CountInv, At
<1>3. CASE q = r
  <2>1. /\ EditProfile(r) /\ Passes(r, "edit_profile", "edit_save")
        /\ mem'[r].doc.edits = profiles[mem[r].id].edits + 1
    BY <1>1, <1>2, <1>3 DEF Arrival
  <2>2. mem[r].id = mem[r].pid /\ mem'[r].pid = mem[r].pid
    BY <2>1 DEF Passes, At, LocalsInv, LocalInv, OpInv
  <2>3. UNCHANGED profiles
    BY <2>1 DEF EditProfile, stores
  <2>4. QED
    BY <1>2, <1>3, <2>1, <2>2, <2>3
<1>4. CASE q # r
  <2>1. pc[q] = "edit_save" /\ mem'[q] = mem[q]
    BY <1>1, <1>2, <1>4 DEF OthersStay
  <2>2. ~(UpsertProfile(r) /\ i = mem[r].id)
    BY <1>2, <2>1 DEF UpsertProfile, At, EditInv, Creating
  <2>3. profiles[i] # None
    <3>1. StatusOf(i)' = StatusOf(i) \/ StatusChange(r, i)
      BY StatusStep
    <3>2. StatusOf(i)' # "none"
      <4>1. TypeOK'
        BY RequestType, SyncStepsType, RemovalStepsType, CreationStepsType, SavingStepsType,
           OtherStepsType DEF Step
      <4>2. QED
        BY <1>2, <4>1 DEF TypeOK, StatusOf, ProfileDoc, Status, Ids, NoId
    <3>3. QED
      BY <2>2, <3>1, <3>2, NoStatus DEF StatusChange
  <2>4. ~(At(r, "edit_save") /\ i = mem[r].pid)
    BY <1>2, <1>4, <2>1 DEF EditsApart, At
  <2>5. profiles'[i].edits = profiles[i].edits
    BY <1>2, <2>3, <2>4, CountStep
  <2>6. QED
    BY <1>2, <2>1, <2>3, <2>5 DEF CountInv, At
<1>5. QED
  BY <1>3, <1>4

LEMMA SavedEditIsCounted ==
    ASSUME GroundInv, CountInv, NEW r \in Requests, Request(r) \/ Step(r),
           NEW q \in Requests, At(q, "edit_save"), At(q, "save_skills")'
    PROVE  profiles'[mem[q].pid].edits = profiles[mem[q].pid].edits + 1
<1> USE DEF GroundInv
<1>1. OthersStay(r) /\ Arrival(r)
  BY StepArrival
<1>2. q = r
  BY <1>1 DEF OthersStay, At
<1>3. Stored(r, mem[r].doc, mem[r].dirty)
  BY <1>1, <1>2 DEF Arrival, Passes, At
<1>4. /\ mem[r].doc \in ProfileDoc /\ mem[r].pid \in Ids /\ "edits" \in mem[r].dirty
      /\ mem[r].dirty \in SUBSET SavedFields
  BY <1>2, MemType DEF LocalsInv, LocalInv, OpInv, DocInv, At
<1>5. profiles'[mem[r].pid] = Written(profiles[mem[r].pid], mem[r].doc, mem[r].dirty)
  BY <1>3, <1>4, StoredStatus
<1>6. profiles'[mem[r].pid].edits = mem[r].doc.edits
  BY <1>4, <1>5 DEF Written
<1>7. profiles[mem[r].pid] # None
  BY <1>3 DEF Stored, CanSave
<1>8. QED
  BY <1>2, <1>4, <1>6, <1>7 DEF CountInv

LEMMA CountInvHolds == Spec /\ []EditsApart => []CountInv
<1>1. Init => CountInv
  BY DEF Init, CountInv, At
<1>2. GroundInv /\ CountInv /\ EditsApart /\ [Next]_vars => CountInv'
  <2> SUFFICES ASSUME GroundInv, CountInv, EditsApart, [Next]_vars PROVE CountInv'
    OBVIOUS
  <2>1. CASE Crash
    BY <2>1 DEF Crash, CountInv, At
  <2>2. CASE UNCHANGED vars
    BY <2>2 DEF vars, stores, CountInv, At
  <2>3. QED
    BY <2>1, <2>2, CountKeeps DEF Next
<1>3. QED
  BY <1>1, <1>2, GroundInvHolds, PTL DEF Spec

\* Theorem: whichever requests overlap, whatever fails and wherever the process
\* dies, each edit that is saved uses one of the edits the user has, as long as
\* no two requests edit the same profile at a time.
THEOREM SavedEditsAreCounted == Spec /\ []EditsApart => EveryEditIsCounted
<1>1. GroundInv /\ CountInv /\ [Next]_vars =>
          [\A r \in Requests : At(r, "edit_save") /\ At(r, "save_skills")' =>
              profiles'[mem[r].pid].edits = profiles[mem[r].pid].edits + 1]_vars
  <2> SUFFICES ASSUME GroundInv, CountInv, Next, NEW q \in Requests, At(q, "edit_save"),
                      At(q, "save_skills")'
               PROVE  profiles'[mem[q].pid].edits = profiles[mem[q].pid].edits + 1
    OBVIOUS
  <2>1. ~Crash
    BY DEF Crash, At
  <2>2. QED
    BY <2>1, SavedEditIsCounted DEF Next
<1>2. QED
  BY <1>1, GroundInvHolds, CountInvHolds, PTL DEF Spec, EveryEditIsCounted

=============================================================================
