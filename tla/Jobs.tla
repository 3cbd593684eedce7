-------------------------------- MODULE Jobs --------------------------------
(***************************************************************************)
(* The job catalogue and the vectors of its active jobs, under the         *)
(* endpoints of the jobs module.  As in Resumes, a handler is a sequence   *)
(* of steps, one per call it awaits (MongoDB, Gemini with Qdrant).         *)
(***************************************************************************)
EXTENDS Naturals, FiniteSets, Sequences

CONSTANTS
    Requests,       \* request slots: how many requests can be in flight
    MaxJobs,        \* bound: how many jobs are ever created
    Sources,        \* values of (source, externalId), the key of a job
    Texts,          \* what the embedding text of a job may be
    None,           \* no job, no point, no hash
    UniqueIndex,    \* the unique index of the schema exists (autoIndex)
    QdrantEnabled,  \* QDRANT_ENABLED
    Faults,         \* the services whose calls may fail
    Crashes,        \* the process may die and be restarted
    Ops             \* the endpoints clients call

VARIABLES
    jobs,           \* collection jobs, by _id
    points,         \* the points in Qdrant by the job's _id: the text embedded
    lastId,         \* ids up to this one have been given to a job
    pc,             \* the next step of each request
    mem             \* the local variables of each request

vars == <<jobs, points, lastId, pc, mem>>

----------------------------------------------------------------------------
(* The data *)

Ids == 1..MaxJobs
NoId == 0

\* A draft is treated as a closed job is: both are inactive here.
Status == {"active", "inactive"}

\* text: what JobEmbeddingTextService makes of the fields, which is never
\* empty.  hash: embeddingTextHash, as the text it was computed from; it
\* is set and unset together with qdrantSyncedAt.
Job == [status: Status, text: Texts, source: Sources,
        hash: Texts \cup {None}, syncError: BOOLEAN]
NewJob(status, text, source) ==
    [status |-> status, text |-> text, source |-> source,
     hash |-> None, syncError |-> FALSE]

ASSUME ConstantsAssumption ==
    /\ MaxJobs \in Nat \ {0}
    /\ IsFiniteSet(Sources) /\ Sources # {} /\ Texts # {}
    /\ None \notin Job \cup Texts \cup Status \cup Sources

Existing == {i \in Ids : jobs[i] # None}
Active == {i \in Existing : jobs[i].status = "active"}

\* The order in which find returns documents, and the file lists records, is
\* any order.
Orders(S) ==
    {s \in [1..Cardinality(S) -> S] : \A i, j \in 1..Cardinality(S) :
        s[i] = s[j] => i = j}

----------------------------------------------------------------------------
(* Requests *)

Labels == {"idle", "upsert", "insert", "save_update", "next", "upsert_point",
           "save_synced", "record_failure", "delete_point", "save_removed",
           "delete_job"}
SavedFields == {"status", "text", "source", "hash", "syncError"}

\* id and doc: the job the handler works on, as it was loaded and assigned to;
\* dirty: the paths assigned since; todo: the jobs that are left of a batch,
\* with their ids (embed), or the records that are left of the file (seed).
Mem == [op: {"none", "create", "seed", "update", "remove", "embed"},
        id: Ids \cup {NoId}, doc: Job \cup {None}, dirty: SUBSET SavedFields,
        todo: Seq([id: Ids \cup {NoId}, doc: Job])]
NoMem == [op |-> "none", id |-> NoId, doc |-> None, dirty |-> {}, todo |-> <<>>]

At(r, label) == pc[r] = label

\* A request that ends forgets its locals, and a batch those of one job.
Goto(r, label, m) ==
    /\ pc' = [pc EXCEPT ![r] = label]
    /\ mem' = [mem EXCEPT ![r] =
                  IF label = "idle" THEN NoMem
                  ELSE IF label = "next" THEN [NoMem EXCEPT !.op = m.op, !.todo = m.todo]
                  ELSE m]

Begin(r, op) == At(r, "idle") /\ op \in Ops

\* A batch goes on with its next job, whether this one succeeded or not.
Done(m) == IF m.op \in {"seed", "embed"} THEN "next" ELSE "idle"

----------------------------------------------------------------------------
(* Mongoose: save() writes the assigned paths, and fails when the document *)
(* is gone or when the index tells that another has its key.               *)

Assigned(m, doc) ==
    [m EXCEPT !.doc = doc,
              !.dirty = @ \cup {f \in SavedFields : doc[f] # m.doc[f]}]

CanSave(m) ==
    /\ jobs[m.id] # None
    /\ UniqueIndex /\ "source" \in m.dirty =>
          \A i \in Existing \ {m.id} : jobs[i].source # m.doc.source

Written(stored, doc, dirty) ==
    [f \in SavedFields |-> IF f \in dirty THEN doc[f] ELSE stored[f]]

\* job.save() of m.doc.  A failed save keeps its assignments.
Save(r, m, ok, failed) ==
    /\ \/ /\ CanSave(m)
          /\ jobs' = [jobs EXCEPT ![m.id] = Written(jobs[m.id], m.doc, m.dirty)]
          /\ Goto(r, ok, [m EXCEPT !.dirty = {}])
       \/ /\ ~CanSave(m) \/ "mongo" \in Faults
          /\ Goto(r, failed, m)
          /\ UNCHANGED jobs
    /\ UNCHANGED <<points, lastId>>

----------------------------------------------------------------------------
(* syncActiveJob and removeJob: what they do before their first await      *)

RemoveLabel(m) ==
    IF ~QdrantEnabled THEN IF m.op = "remove" THEN "delete_job" ELSE Done(m)
    ELSE IF m.doc.hash # None THEN "delete_point" ELSE "save_removed"

\* Mutant: a job that has been synced once is not synced again.
SyncLabel_OnceOnly(m) ==
    IF m.doc.status # "active" THEN RemoveLabel(m)
    ELSE IF QdrantEnabled /\ m.doc.hash = None THEN "upsert_point" ELSE Done(m)

\* A text with the recorded hash is not embedded again.
SyncLabel(m) ==
    IF m.doc.status # "active" THEN RemoveLabel(m)
    ELSE IF QdrantEnabled /\ m.doc.hash # m.doc.text THEN "upsert_point" ELSE Done(m)

\* What removeJob assigns, whether or not the point was deleted.
Unsynced(doc) == [doc EXCEPT !.hash = None, !.syncError = FALSE]

\* removeJob starts, or is left at once, with its assignments made.
GotoRemoval(r, label, m) ==
    Goto(r, label,
         IF label = "save_removed" THEN Assigned(m, Unsynced(m.doc)) ELSE m)

----------------------------------------------------------------------------
(* create and seed                                                         *)

\* The bound: a request that may create jobs has the ids for them left.
IdsLeft(n) ==
    lastId + Cardinality({q \in Requests : mem[q].op = "create"})
           + Cardinality(Sources) * Cardinality({q \in Requests : mem[q].op = "seed"})
           + n <= MaxJobs

BeginCreate(r) ==
    /\ Begin(r, "create") /\ IdsLeft(1)
    /\ \E status \in Status, text \in Texts, source \in Sources :
          Goto(r, "upsert", [NoMem EXCEPT !.op = "create",
                                          !.doc = NewJob(status, text, source)])
    /\ UNCHANGED <<jobs, points, lastId>>

\* The file has a record per key.  The lookup before each create only serves
\* to count.
BeginSeed(r) ==
    /\ Begin(r, "seed") /\ IdsLeft(Cardinality(Sources))
    /\ \E order \in Orders(Sources), text \in Texts :
          Goto(r, "next", [NoMem EXCEPT !.op = "seed",
              !.todo = [k \in DOMAIN order |->
                  [id |-> NoId, doc |-> NewJob("active", text, order[k])]]])
    /\ UNCHANGED <<jobs, points, lastId>>

\* Mutant: the status is written without the default for a body that has none.
Upserted_NoDefault(stored, doc) ==
    [stored EXCEPT !.text = doc.text, !.status = None]

\* findOneAndUpdate with upsert: the job that has the key is updated, and
\* active again unless the request says otherwise; its sync metadata stay.
Upserted(stored, doc) ==
    [stored EXCEPT !.text = doc.text, !.status = doc.status]

\* The new job, and the sync of its vector.
Inserted(r) ==
    /\ lastId < MaxJobs
    /\ lastId' = lastId + 1
    /\ jobs' = [jobs EXCEPT ![lastId'] = mem[r].doc]
    /\ LET m == [mem[r] EXCEPT !.id = lastId']
       IN  GotoRemoval(r, SyncLabel(m), m)

\* The index makes one of two upserts of a key find the job of the other.
Upsert(r) ==
    LET doc == mem[r].doc
        found == {i \in Existing : jobs[i].source = doc.source}
    IN
    /\ At(r, "upsert")
    /\ \/ \E i \in found :
             LET stored == Upserted(jobs[i], doc)
                 m == [mem[r] EXCEPT !.id = i, !.doc = stored]
             IN  /\ jobs' = [jobs EXCEPT ![i] = stored]
                 /\ GotoRemoval(r, SyncLabel(m), m)
                 /\ UNCHANGED lastId
       \/ found = {} /\ UniqueIndex /\ Inserted(r)
       \/ found = {} /\ ~UniqueIndex /\ Goto(r, "insert", mem[r]) /\ UNCHANGED <<jobs, lastId>>
       \/ "mongo" \in Faults /\ Goto(r, Done(mem[r]), mem[r]) /\ UNCHANGED <<jobs, lastId>>
    /\ UNCHANGED points

\* Without it both insert, when neither has found a job.
Insert(r) ==
    /\ At(r, "insert")
    /\ Inserted(r)
    /\ UNCHANGED points

----------------------------------------------------------------------------
(* update, close and remove                                                *)

\* A field that the body leaves out stays as loaded.
BeginUpdate(r) ==
    /\ Begin(r, "update")
    /\ \E i \in Existing, s \in Status \cup {None}, t \in Texts \cup {None},
          k \in Sources \cup {None} :
          LET job == jobs[i]
              m == [NoMem EXCEPT !.op = "update", !.id = i, !.doc = job]
          IN  Goto(r, "save_update",
                   Assigned(m, [job EXCEPT !.status = IF s = None THEN @ ELSE s,
                                           !.text = IF t = None THEN @ ELSE t,
                                           !.source = IF k = None THEN @ ELSE k]))
    /\ UNCHANGED <<jobs, points, lastId>>

\* The vector follows the document in memory.  The save also fails when the
\* body has skills, which are an array, and another request has saved skills
\* since the job was loaded; the versions that tell are not kept here.
SaveUpdate(r) ==
    LET m == mem[r]
        label == SyncLabel(m)
        saved == [m EXCEPT !.dirty = {}]
    IN
    /\ At(r, "save_update")
    /\ \/ /\ CanSave(m)
          /\ jobs' = [jobs EXCEPT ![m.id] = Written(jobs[m.id], m.doc, m.dirty)]
          /\ GotoRemoval(r, label, saved)
       \/ /\ ~CanSave(m) \/ "text" \in m.dirty \/ "mongo" \in Faults
          /\ Goto(r, "idle", m)
          /\ UNCHANGED jobs
    /\ UNCHANGED <<points, lastId>>

BeginRemove(r) ==
    /\ Begin(r, "remove")
    /\ \E i \in Existing :
          LET m == [NoMem EXCEPT !.op = "remove", !.id = i, !.doc = jobs[i]]
          IN  GotoRemoval(r, RemoveLabel(m), m)
    /\ UNCHANGED <<jobs, points, lastId>>

\* deleteJobPoint.
WithoutPoint(i) == [points EXCEPT ![i] = None]

\* Mutant: the point is looked for under another id, and missed.
DeletePoint_Missed(r) ==
    /\ At(r, "delete_point")
    /\ GotoRemoval(r, "save_removed", mem[r])
    /\ UNCHANGED <<jobs, points, lastId>>

\* A failed delete is logged, and the metadata is unset all the same.
DeletePoint(r) ==
    /\ At(r, "delete_point")
    /\ \/ points' = WithoutPoint(mem[r].id)
       \/ "qdrant_delete" \in Faults /\ UNCHANGED points
    /\ GotoRemoval(r, "save_removed", mem[r])
    /\ UNCHANGED <<jobs, lastId>>

SaveRemoved(r) ==
    /\ At(r, "save_removed")
    /\ Save(r, mem[r], IF mem[r].op = "remove" THEN "delete_job" ELSE Done(mem[r]),
            Done(mem[r]))

DeleteJob(r) ==
    /\ At(r, "delete_job")
    /\ \/ jobs' = [jobs EXCEPT ![mem[r].id] = None]
       \/ "mongo" \in Faults /\ UNCHANGED jobs
    /\ Goto(r, "idle", mem[r])
    /\ UNCHANGED <<points, lastId>>

----------------------------------------------------------------------------
(* syncActiveJob: embed and upsert, and the two saves                      *)

\* upsertJobPoint.
WithPoint(i, text) == [points EXCEPT ![i] = text]

\* Gemini or Qdrant may fail; Qdrant also after it has stored the point.
UpsertPoint(r) ==
    LET m == mem[r]
        stored == WithPoint(m.id, m.doc.text)
    IN
    /\ At(r, "upsert_point")
    /\ \/ /\ points' = stored
          /\ Goto(r, "save_synced",
                  Assigned(m, [m.doc EXCEPT !.hash = m.doc.text, !.syncError = FALSE]))
       \/ /\ {"gemini", "qdrant"} \cap Faults # {}
          /\ Goto(r, "record_failure", m)
          /\ UNCHANGED points
       \/ /\ "qdrant_late" \in Faults
          /\ Goto(r, "record_failure", m)
          /\ points' = stored
    /\ UNCHANGED <<jobs, lastId>>

\* Mutant: an update of the whole document as it was loaded.
SaveSynced_Whole(r) ==
    /\ At(r, "save_synced")
    /\ Save(r, [mem[r] EXCEPT !.dirty = SavedFields], Done(mem[r]), "record_failure")

\* The catch block saves again what this save could not.
SaveSynced(r) ==
    /\ At(r, "save_synced")
    /\ Save(r, mem[r], Done(mem[r]), "record_failure")

\* recordSyncFailure, with the message it assigns.
RecordFailure(r) ==
    /\ At(r, "record_failure")
    /\ LET m == Assigned(mem[r], [mem[r].doc EXCEPT !.syncError = TRUE])
       IN  Save(r, m, Done(m), Done(m))

----------------------------------------------------------------------------
(* embedAllActive, and the loop of it and of seedRecords                   *)

BeginEmbed(r) ==
    /\ Begin(r, "embed")
    /\ \E order \in Orders(Active) :
          Goto(r, "next", [NoMem EXCEPT !.op = "embed",
              !.todo = [k \in DOMAIN order |-> [id |-> order[k], doc |-> jobs[order[k]]]]])
    /\ UNCHANGED <<jobs, points, lastId>>

NextOfBatch(r) ==
    LET m == mem[r]
        first == Head(m.todo)
        taken == [m EXCEPT !.id = first.id, !.doc = first.doc, !.todo = Tail(m.todo)]
    IN
    /\ At(r, "next")
    /\ \/ m.todo = <<>> /\ Goto(r, "idle", m)
       \/ m.todo # <<>> /\ m.op = "seed" /\ Goto(r, "upsert", taken)
       \/ m.todo # <<>> /\ m.op = "embed" /\ Goto(r, SyncLabel(taken), taken)
    /\ UNCHANGED <<jobs, points, lastId>>

----------------------------------------------------------------------------

Crash ==
    /\ Crashes
    /\ \E r \in Requests : ~At(r, "idle")
    /\ pc' = [r \in Requests |-> "idle"]
    /\ mem' = [r \in Requests |-> NoMem]
    /\ UNCHANGED <<jobs, points, lastId>>

Init ==
    /\ jobs = [i \in Ids |-> None]
    /\ points = [i \in Ids |-> None]
    /\ lastId = 0
    /\ pc = [r \in Requests |-> "idle"]
    /\ mem = [r \in Requests |-> NoMem]

Request(r) ==
    \/ BeginCreate(r) \/ BeginSeed(r) \/ BeginUpdate(r) \/ BeginRemove(r)
    \/ BeginEmbed(r)

Step(r) ==
    \/ Upsert(r) \/ Insert(r) \/ SaveUpdate(r) \/ DeletePoint(r)
    \/ SaveRemoved(r) \/ DeleteJob(r) \/ UpsertPoint(r) \/ SaveSynced(r) \/ RecordFailure(r)
    \/ NextOfBatch(r)

Next == (\E r \in Requests : Request(r) \/ Step(r)) \/ Crash

Spec == Init /\ [][Next]_vars

----------------------------------------------------------------------------
(* Properties *)

\* Every variable has its type.
TypeOK ==
    /\ jobs \in [Ids -> Job \cup {None}]
    /\ points \in [Ids -> Texts \cup {None}]
    /\ lastId \in 0..MaxJobs
    /\ pc \in [Requests -> Labels]
    /\ mem \in [Requests -> Mem]

AllIdle == \A r \in Requests : At(r, "idle")

\* Between requests, an active job has the vector of its present text in
\* Qdrant, or the error of the sync that failed; so no sequence of edits,
\* closings, reopenings, seeds and batches makes the comparison of hashes skip
\* a vector that has to be written.
ActiveJobHasItsVector ==
    AllIdle /\ QdrantEnabled =>
        \A i \in Active : ~jobs[i].syncError => points[i] = jobs[i].text

\* Between requests, a job that is closed, a draft or deleted has no point; so
\* removeJob takes no indexed job for one that is not.
InactiveJobHasNoPoint ==
    AllIdle => \A i \in Ids \ Active : points[i] = None

\* Two jobs never have one key, so that what comes again from a source updates
\* the job that is there: where the unique index exists, also when two requests
\* ask for a new key at once.
KeyHasOneJob == \A i, j \in Existing : jobs[i].source = jobs[j].source => i = j

\* Two requests for the same job, or a request and a batch that loaded the job
\* before, do not undo each other: the catalogue data of a job change only as
\* a request has asked, while the others go on saving their documents.
NoLostUpdate ==
    [][\A i \in Existing : i \in Existing' =>
          \A f \in {"status", "text", "source"} : jobs'[i][f] # jobs[i][f] =>
              \E r \in Requests :
                  \/ At(r, "save_update") /\ mem[r].id = i /\ f \in mem[r].dirty
                  \/ At(r, "upsert") /\ mem[r].doc.source = jobs[i].source]_vars

=============================================================================
