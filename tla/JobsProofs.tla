----------------------------- MODULE JobsProofs -----------------------------
(***************************************************************************)
(* Proofs about Jobs, for every number of requests, jobs, keys and texts,  *)
(* with the unique index of the keys and without it.                       *)
(***************************************************************************)
EXTENDS Jobs, TLAPS, FiniteSetTheorems, SequenceTheorems

----------------------------------------------------------------------------
(* The locals of a request at each of its steps *)

\* The labels at which a request has a job of its own.
Holding == {"save_update", "upsert_point", "save_synced", "record_failure",
            "delete_point", "save_removed", "delete_job"}

ActiveJob == {doc \in Job : doc.status = "active"}
FreshJob == {doc \in Job : doc.hash = None /\ ~doc.syncError}

\* Which requests come to a label, what of the document is still to be saved,
\* and what is left of a batch.
Local(label, m) ==
    /\ label \in Holding => m.op # "none" /\ m.id \in Ids /\ m.doc \in Job
    /\ label \notin Holding => m.id = NoId /\ m.dirty = {}
    /\ label \in {"upsert", "insert"} => m.op \in {"create", "seed"} /\ m.doc \in FreshJob
    /\ label = "next" => m.op \in {"seed", "embed"}
    /\ label = "save_update" => m.op = "update" /\ m.dirty \subseteq {"status", "text", "source"}
    /\ label \in {"upsert_point", "delete_point"} => m.dirty = {}
    /\ label \in {"save_synced", "save_removed", "record_failure"} =>
          m.dirty \subseteq {"hash", "syncError"}
    /\ label = "delete_job" => m.op = "remove"
    /\ label \in {"upsert_point", "save_synced", "record_failure"} => m.op # "remove"
    /\ m.op = "embed" => m.todo \in Seq([id: Ids, doc: ActiveJob])
    /\ m.op = "seed" => m.todo \in Seq([id: {NoId}, doc: FreshJob])

LocalsInv == \A r \in Requests : Local(pc[r], mem[r])

\* No job has an id that has not been given.
IdsInv == \A i \in Ids : i > lastId => jobs[i] = None

GroundInv == TypeOK /\ LocalsInv /\ IdsInv

\* What a request keeps of its locals on its way to label.
Kept(label, m) ==
    IF label = "idle" THEN NoMem
    ELSE IF label = "next" THEN [NoMem EXCEPT !.op = m.op, !.todo = m.todo]
    ELSE m

OthersStay(r) == \A q \in Requests \ {r} : pc'[q] = pc[q] /\ mem'[q] = mem[q]

LEMMA GotoEffect ==
    ASSUME TypeOK, NEW r \in Requests, NEW label, NEW m, Goto(r, label, m)
    PROVE  pc'[r] = label /\ mem'[r] = Kept(label, m) /\ OthersStay(r)
BY DEF TypeOK, Goto, Kept, OthersStay

LEMMA FreshTypes ==
    /\ NoMem \in Mem
    /\ None \notin Job /\ None \notin Texts /\ None \notin Status /\ None \notin Sources
    /\ \A status \in Status, text \in Texts, source \in Sources :
          NewJob(status, text, source) \in FreshJob /\ NewJob(status, text, source).status = status
<1>1. <<>> \in Seq([id: Ids \cup {NoId}, doc: Job])
  BY EmptySeq
<1>2. NoMem \in Mem
  BY <1>1 DEF NoMem, Mem
<1>3. QED
  BY <1>2, ConstantsAssumption DEF NewJob, FreshJob, Job

\* Every sequence of a batch is one of records.
LEMMA TodoType ==
    /\ Seq([id: Ids, doc: ActiveJob]) \subseteq Seq([id: Ids \cup {NoId}, doc: Job])
    /\ Seq([id: {NoId}, doc: FreshJob]) \subseteq Seq([id: Ids \cup {NoId}, doc: Job])
<1>1. [id: Ids, doc: ActiveJob] \subseteq [id: Ids \cup {NoId}, doc: Job]
  BY DEF ActiveJob
<1>2. [id: {NoId}, doc: FreshJob] \subseteq [id: Ids \cup {NoId}, doc: Job]
  BY DEF FreshJob
<1>3. QED
  BY <1>1, <1>2, SeqMonotonic

\* Locals that fit their label do so after the step, and have their type.
LEMMA KeptLocal ==
    ASSUME NEW label \in Labels, NEW m \in Mem,
           label \in {"idle", "next"} \/ Local(label, m),
           label = "next" => /\ m.op \in {"seed", "embed"}
                             /\ m.op = "embed" => m.todo \in Seq([id: Ids, doc: ActiveJob])
                             /\ m.op = "seed" => m.todo \in Seq([id: {NoId}, doc: FreshJob])
    PROVE  Kept(label, m) \in Mem /\ Local(label, Kept(label, m))
<1>1. CASE label = "idle"
  BY <1>1, FreshTypes DEF Kept, Local, NoMem, Holding
<1>2. CASE label = "next"
  <2> DEFINE n == [NoMem EXCEPT !.op = m.op, !.todo = m.todo]
  <2>1. n.op = m.op /\ n.todo = m.todo /\ n.id = NoId /\ n.dirty = {}
    BY DEF NoMem
  <2>2. n \in Mem
    BY FreshTypes DEF Mem, NoMem
  <2>3. Kept(label, m) = n
    BY <1>2 DEF Kept
  <2> HIDE DEF n
  <2>4. QED
    BY <1>2, <2>1, <2>2, <2>3 DEF Local, Holding
<1>3. CASE label \notin {"idle", "next"}
  BY <1>3 DEF Kept
<1>4. QED
  BY <1>1, <1>2, <1>3

LEMMA GotoKeeps ==
    ASSUME TypeOK, LocalsInv, NEW r \in Requests, NEW label \in Labels, NEW m \in Mem,
           Goto(r, label, m), Local(label, Kept(label, m)), Kept(label, m) \in Mem
    PROVE  pc' \in [Requests -> Labels] /\ mem' \in [Requests -> Mem] /\ LocalsInv'
<1>1. pc'[r] = label /\ mem'[r] = Kept(label, m) /\ OthersStay(r)
  BY GotoEffect
<1>2. pc' \in [Requests -> Labels] /\ mem' \in [Requests -> Mem]
  BY <1>1 DEF TypeOK, Goto, Kept
<1>3. QED
  BY <1>1, <1>2 DEF LocalsInv, OthersStay

----------------------------------------------------------------------------
(* Documents and what is assigned to them *)

\* An assignment keeps the other locals and lists what it has changed.
LEMMA AssignedLocals ==
    ASSUME NEW m \in Mem, NEW doc \in Job
    PROVE  /\ Assigned(m, doc) \in Mem
           /\ Assigned(m, doc).op = m.op /\ Assigned(m, doc).id = m.id
           /\ Assigned(m, doc).todo = m.todo /\ Assigned(m, doc).doc = doc
           /\ Assigned(m, doc).dirty =
                 m.dirty \cup {f \in SavedFields : doc[f] # m.doc[f]}
BY DEF Assigned, Mem

\* What the removal and the sync of a vector assign.
LEMMA SyncDocs ==
    ASSUME NEW doc \in Job
    PROVE  /\ Unsynced(doc) \in Job /\ Unsynced(doc).hash = None
           /\ Unsynced(doc).status = doc.status
           /\ {f \in SavedFields : Unsynced(doc)[f] # doc[f]} \subseteq {"hash", "syncError"}
           /\ [doc EXCEPT !.hash = doc.text, !.syncError = FALSE] \in Job
           /\ [doc EXCEPT !.syncError = TRUE] \in Job
           /\ {f \in SavedFields : [doc EXCEPT !.hash = doc.text, !.syncError = FALSE][f] # doc[f]}
                 \subseteq {"hash", "syncError"}
           /\ {f \in SavedFields : [doc EXCEPT !.syncError = TRUE][f] # doc[f]}
                 \subseteq {"syncError"}
BY DEF Unsynced, Job, SavedFields

\* A document agrees with the stored one on all that is not to be saved.
Agree(m, job) == \A f \in SavedFields \ m.dirty : m.doc[f] = job[f]

LEMMA WrittenType ==
    ASSUME NEW stored \in Job, NEW doc \in Job, NEW dirty
    PROVE  Written(stored, doc, dirty) \in Job
BY DEF Written, Job, SavedFields

\* A save that goes through leaves the document as it is in memory.
LEMMA WrittenAgrees ==
    ASSUME NEW m, NEW stored \in Job, m.doc \in Job, Agree(m, stored)
    PROVE  Written(stored, m.doc, m.dirty) = m.doc
BY DEF Written, Job, SavedFields, Agree

LEMMA UpsertedType ==
    ASSUME NEW stored \in Job, NEW doc \in Job
    PROVE  /\ Upserted(stored, doc) \in Job
           /\ Upserted(stored, doc).hash = stored.hash
           /\ Upserted(stored, doc).source = stored.source
BY DEF Upserted, Job

----------------------------------------------------------------------------
(* Types, locals and ids are kept: one lemma per action                    *)

LEMMA GotoGround ==
    ASSUME GroundInv, NEW r \in Requests, NEW label \in Labels, NEW m \in Mem,
           Goto(r, label, m), Local(label, Kept(label, m)), Kept(label, m) \in Mem,
           lastId' \in lastId..MaxJobs,
           jobs' \in [Ids -> Job \cup {None}], points' \in [Ids -> Texts \cup {None}],
           \A i \in Ids : i > lastId' => jobs'[i] = None
    PROVE  GroundInv'
<1>0. TypeOK /\ LocalsInv /\ lastId \in Nat /\ lastId' \in Nat /\ MaxJobs \in Nat
  BY ConstantsAssumption DEF GroundInv, TypeOK
<1>1. pc' \in [Requests -> Labels] /\ mem' \in [Requests -> Mem] /\ LocalsInv'
  BY <1>0, GotoKeeps
<1>2. TypeOK'
  BY <1>0, <1>1 DEF TypeOK
<1>3. QED
  BY <1>1, <1>2 DEF GroundInv, IdsInv

\* The usual case: the request goes on, and no id is given.
LEMMA StepGround ==
    ASSUME GroundInv, NEW r \in Requests, NEW label \in Labels, NEW m \in Mem,
           Goto(r, label, m), label \in {"idle", "next"} \/ Local(label, m),
           label = "next" => /\ m.op \in {"seed", "embed"}
                             /\ m.op = "embed" => m.todo \in Seq([id: Ids, doc: ActiveJob])
                             /\ m.op = "seed" => m.todo \in Seq([id: {NoId}, doc: FreshJob]),
           UNCHANGED lastId,
           jobs' \in [Ids -> Job \cup {None}], points' \in [Ids -> Texts \cup {None}],
           \A i \in Ids : jobs[i] = None => jobs'[i] = None
    PROVE  GroundInv'
<1>1. Kept(label, m) \in Mem /\ Local(label, Kept(label, m))
  BY KeptLocal
<1>2. lastId' \in lastId..MaxJobs /\ \A i \in Ids : i > lastId' => jobs'[i] = None
  BY ConstantsAssumption DEF GroundInv, TypeOK, IdsInv
<1>3. QED
  BY <1>1, <1>2, GotoGround

\* The locals of a request that works on a job it has stored.
Ready(m) ==
    /\ m \in Mem /\ m.id \in Ids /\ m.doc \in Job /\ m.dirty = {}
    /\ m.op \in {"create", "seed", "update", "remove", "embed"}
    /\ m.op = "embed" => m.todo \in Seq([id: Ids, doc: ActiveJob])
    /\ m.op = "seed" => m.todo \in Seq([id: {NoId}, doc: FreshJob])

Removal(label, m) == IF label = "save_removed" THEN Assigned(m, Unsynced(m.doc)) ELSE m

\* The labels a vector's sync begins at, and what they come with.
LEMMA SyncLabels ==
    ASSUME NEW m, Ready(m), NEW label,
           \/ label = RemoveLabel(m)
           \/ label = SyncLabel(m) /\ m.op # "remove"
           \/ label = "save_removed"
    PROVE  /\ label \in Labels /\ Removal(label, m) \in Mem
           /\ label \in {"idle", "next"} \/ Local(label, Removal(label, m))
           /\ label = "next" => m.op \in {"seed", "embed"}
           /\ Removal(label, m).op = m.op /\ Removal(label, m).id = m.id
           /\ Removal(label, m).todo = m.todo
<1>1. /\ Assigned(m, Unsynced(m.doc)) \in Mem
      /\ Assigned(m, Unsynced(m.doc)).op = m.op /\ Assigned(m, Unsynced(m.doc)).id = m.id
      /\ Assigned(m, Unsynced(m.doc)).todo = m.todo
      /\ Assigned(m, Unsynced(m.doc)).doc \in Job
      /\ Assigned(m, Unsynced(m.doc)).dirty \subseteq {"hash", "syncError"}
  <2> DEFINE doc == Unsynced(m.doc)
  <2>1. /\ doc \in Job /\ m \in Mem /\ m.dirty = {}
        /\ {f \in SavedFields : doc[f] # m.doc[f]} \subseteq {"hash", "syncError"}
    BY SyncDocs DEF Ready
  <2> HIDE DEF doc
  <2>2. Assigned(m, doc).dirty \subseteq {"hash", "syncError"}
    BY <2>1, AssignedLocals
  <2>3. QED
    BY <2>1, <2>2, AssignedLocals DEF doc
<1>2. label \in {"idle", "next", "delete_job", "delete_point", "save_removed", "upsert_point"}
      /\ (label = "next" => m.op \in {"seed", "embed"})
      /\ (label = "delete_job" => m.op = "remove")
      /\ (label = "upsert_point" => m.op # "remove")
  BY DEF RemoveLabel, SyncLabel, Done
<1>3. CASE label = "save_removed"
  <2>1. Removal(label, m) = Assigned(m, Unsynced(m.doc))
    BY <1>3 DEF Removal
  <2>2. QED
    BY <1>1, <1>3, <2>1 DEF Local, Holding, Labels, Ready
<1>4. CASE label # "save_removed"
  <2>1. Removal(label, m) = m
    BY <1>4 DEF Removal
  <2>2. QED
    BY <1>2, <1>4, <2>1 DEF Local, Holding, Labels, Ready
<1>5. QED
  BY <1>3, <1>4

\* An order of a finite set is a sequence that lists each member once.
LEMMA OrderSeq ==
    ASSUME NEW S, IsFiniteSet(S), NEW order \in Orders(S)
    PROVE  /\ Cardinality(S) \in Nat /\ DOMAIN order = 1..Cardinality(S)
           /\ \A k \in DOMAIN order : order[k] \in S
           /\ \A k, l \in DOMAIN order : order[k] = order[l] => k = l
BY FS_CardinalityType DEF Orders

LEMMA ActiveFinite == IsFiniteSet(Active)
<1>1. IsFiniteSet(Ids)
  BY FS_Interval, ConstantsAssumption DEF Ids
<1>2. QED
  BY <1>1, FS_Subset DEF Active, Existing

\* A batch of records is a sequence of them.
LEMMA BatchSeq ==
    ASSUME NEW S, NEW n \in Nat, NEW todo, DOMAIN todo = 1..n, todo \in [1..n -> S]
    PROVE  todo \in Seq(S)
BY SeqDef

\* What a batch of embedAllActive starts with.
LEMMA EmbedTodo ==
    ASSUME GroundInv, NEW order \in Orders(Active)
    PROVE  /\ [k \in DOMAIN order |-> [id |-> order[k], doc |-> jobs[order[k]]]]
                 \in Seq([id: Ids, doc: ActiveJob])
           /\ \A k, l \in DOMAIN order : order[k] = order[l] => k = l
<1>1. /\ Cardinality(Active) \in Nat /\ DOMAIN order = 1..Cardinality(Active)
      /\ \A k \in DOMAIN order : order[k] \in Active
      /\ \A k, l \in DOMAIN order : order[k] = order[l] => k = l
  BY OrderSeq, ActiveFinite
<1>2. \A i \in Active : i \in Ids /\ jobs[i] \in ActiveJob
  BY DEF Active, Existing, ActiveJob, GroundInv, TypeOK
<1>3. [k \in DOMAIN order |-> [id |-> order[k], doc |-> jobs[order[k]]]]
        \in [1..Cardinality(Active) -> [id: Ids, doc: ActiveJob]]
  BY <1>1, <1>2
<1>4. QED
  BY <1>1, <1>3, BatchSeq

LEMMA SeedTodo ==
    ASSUME NEW order \in Orders(Sources), NEW text \in Texts
    PROVE  [k \in DOMAIN order |-> [id |-> NoId, doc |-> NewJob("active", text, order[k])]]
              \in Seq([id: {NoId}, doc: FreshJob])
<1>1. /\ Cardinality(Sources) \in Nat /\ DOMAIN order = 1..Cardinality(Sources)
      /\ \A k \in DOMAIN order : order[k] \in Sources
  BY OrderSeq, ConstantsAssumption
<1>2. \A source \in Sources : NewJob("active", text, source) \in FreshJob
  BY FreshTypes DEF Status
<1>3. [k \in DOMAIN order |-> [id |-> NoId, doc |-> NewJob("active", text, order[k])]]
        \in [1..Cardinality(Sources) -> [id: {NoId}, doc: FreshJob]]
  BY <1>1, <1>2
<1>4. QED
  BY <1>1, <1>3, BatchSeq

LEMMA RequestGround ==
    ASSUME GroundInv, NEW r \in Requests, Request(r)
    PROVE  GroundInv'
<1>0. /\ TypeOK /\ lastId \in Nat
      /\ \A i \in Existing : i \in Ids /\ jobs[i] \in Job
  BY DEF GroundInv, TypeOK, IdsInv, Existing, Ids, NoId
<1>1. CASE BeginCreate(r)
  <2> DEFINE m(doc) == [NoMem EXCEPT !.op = "create", !.doc = doc]
  <2>1. PICK status \in Status, text \in Texts, source \in Sources :
           Goto(r, "upsert", m(NewJob(status, text, source)))
    BY <1>1 DEF BeginCreate
  <2>2. PICK doc \in FreshJob : Goto(r, "upsert", m(doc))
    BY <2>1, FreshTypes
  <2>3. m(doc) \in Mem /\ m(doc).id = NoId
    BY FreshTypes DEF Mem, NoMem, FreshJob
  <2>4. Local("upsert", m(doc))
    BY DEF Local, NoMem, Holding
  <2> HIDE DEF m
  <2>5. UNCHANGED <<jobs, points, lastId>> /\ "upsert" \in Labels
    BY <1>1 DEF BeginCreate, Labels
  <2>6. QED
    BY <1>0, <2>2, <2>3, <2>4, <2>5, StepGround DEF TypeOK
<1>2. CASE BeginSeed(r)
  <2> DEFINE m(todo) == [NoMem EXCEPT !.op = "seed", !.todo = todo]
  <2>1. PICK order \in Orders(Sources), text \in Texts :
           Goto(r, "next", m([k \in DOMAIN order |->
                  [id |-> NoId, doc |-> NewJob("active", text, order[k])]]))
    BY <1>2 DEF BeginSeed
  <2>2. PICK todo \in Seq([id: {NoId}, doc: FreshJob]) : Goto(r, "next", m(todo))
    BY <2>1, SeedTodo
  <2>3. m(todo) \in Mem /\ m(todo).id = NoId /\ m(todo).op = "seed" /\ m(todo).todo = todo
    BY FreshTypes, TodoType DEF Mem, NoMem
  <2> HIDE DEF m
  <2>4. UNCHANGED <<jobs, points, lastId>> /\ "next" \in Labels
    BY <1>2 DEF BeginSeed, Labels
  <2>5. QED
    BY <1>0, <2>2, <2>3, <2>4, StepGround DEF TypeOK
<1>3. CASE BeginUpdate(r)
  <2> DEFINE m(i) == [NoMem EXCEPT !.op = "update", !.id = i, !.doc = jobs[i]]
  <2>1. PICK i \in Existing : \E doc \in Job :
           /\ doc.hash = jobs[i].hash /\ doc.syncError = jobs[i].syncError
           /\ Goto(r, "save_update", Assigned(m(i), doc))
    <3>1. PICK i \in Existing, s \in Status \cup {None}, t \in Texts \cup {None},
               k \in Sources \cup {None} :
             Goto(r, "save_update",
                  Assigned(m(i), [jobs[i] EXCEPT !.status = IF s = None THEN @ ELSE s,
                                                 !.text = IF t = None THEN @ ELSE t,
                                                 !.source = IF k = None THEN @ ELSE k]))
      BY <1>3 DEF BeginUpdate
    <3> DEFINE doc == [jobs[i] EXCEPT !.status = IF s = None THEN @ ELSE s,
                                      !.text = IF t = None THEN @ ELSE t,
                                      !.source = IF k = None THEN @ ELSE k]
    <3>2. doc \in Job /\ doc.hash = jobs[i].hash /\ doc.syncError = jobs[i].syncError
      BY <1>0 DEF Job
    <3>3. Goto(r, "save_update", Assigned(m(i), doc))
      BY <3>1
    <3> HIDE DEF doc, m
    <3>4. QED
      BY <3>2, <3>3
  <2>2. PICK doc \in Job :
           /\ doc.hash = jobs[i].hash /\ doc.syncError = jobs[i].syncError
           /\ Goto(r, "save_update", Assigned(m(i), doc))
    BY <2>1
  <2>3. m(i) \in Mem /\ m(i).op = "update" /\ m(i).id = i /\ m(i).doc = jobs[i] /\ m(i).dirty = {}
    BY <1>0, FreshTypes DEF Mem, NoMem
  <2> HIDE DEF m
  <2> DEFINE n == Assigned(m(i), doc)
  <2>4. /\ n \in Mem /\ n.op = "update" /\ n.id = i /\ n.doc = doc
        /\ n.dirty = {f \in SavedFields : doc[f] # jobs[i][f]}
    BY <2>3, AssignedLocals
  <2>5. n.dirty \subseteq {"status", "text", "source"}
    BY <2>2, <2>4 DEF SavedFields
  <2>6. UNCHANGED <<jobs, points, lastId>> /\ "save_update" \in Labels /\ Goto(r, "save_update", n)
    BY <1>3, <2>2 DEF BeginUpdate, Labels
  <2> HIDE DEF n
  <2>7. Local("save_update", n)
    BY <1>0, <2>4, <2>5 DEF Local, Holding
  <2>8. QED
    BY <1>0, <2>4, <2>6, <2>7, StepGround DEF TypeOK
<1>4. CASE BeginRemove(r)
  <2> DEFINE m(i) == [NoMem EXCEPT !.op = "remove", !.id = i, !.doc = jobs[i]]
  <2>1. PICK i \in Existing : GotoRemoval(r, RemoveLabel(m(i)), m(i))
    BY <1>4 DEF BeginRemove
  <2>2. Ready(m(i)) /\ m(i).op = "remove" /\ m(i).id = i
    BY <1>0, FreshTypes DEF Ready, Mem, NoMem
  <2> HIDE DEF m
  <2>3. Goto(r, RemoveLabel(m(i)), Removal(RemoveLabel(m(i)), m(i)))
    BY <2>1 DEF GotoRemoval, Removal
  <2>4. UNCHANGED <<jobs, points, lastId>>
    BY <1>4 DEF BeginRemove
  <2>5. QED
    BY <1>0, <2>2, <2>3, <2>4, SyncLabels, StepGround DEF TypeOK
<1>5. CASE BeginEmbed(r)
  <2> DEFINE m(todo) == [NoMem EXCEPT !.op = "embed", !.todo = todo]
  <2>1. PICK order \in Orders(Active) :
           Goto(r, "next", m([k \in DOMAIN order |-> [id |-> order[k], doc |-> jobs[order[k]]]]))
    BY <1>5 DEF BeginEmbed
  <2>2. PICK todo \in Seq([id: Ids, doc: ActiveJob]) : Goto(r, "next", m(todo))
    BY <2>1, EmbedTodo
  <2>3. m(todo) \in Mem /\ m(todo).id = NoId /\ m(todo).op = "embed" /\ m(todo).todo = todo
    BY FreshTypes, TodoType DEF Mem, NoMem
  <2> HIDE DEF m
  <2>4. UNCHANGED <<jobs, points, lastId>> /\ "next" \in Labels
    BY <1>5 DEF BeginEmbed, Labels
  <2>5. QED
    BY <1>0, <2>2, <2>3, <2>4, StepGround DEF TypeOK
<1>6. QED
  BY <1>1, <1>2, <1>3, <1>4, <1>5 DEF Request

\* What GroundInv says of a request that holds a job, and of one in a batch.
LEMMA HeldLocals ==
    ASSUME GroundInv, NEW r \in Requests
    PROVE  /\ mem[r] \in Mem /\ Local(pc[r], mem[r])
           /\ mem[r].op = "embed" => mem[r].todo \in Seq([id: Ids, doc: ActiveJob])
           /\ mem[r].op = "seed" => mem[r].todo \in Seq([id: {NoId}, doc: FreshJob])
           /\ Done(mem[r]) \in {"idle", "next"} /\ Done(mem[r]) \in Labels
           /\ Done(mem[r]) = "next" => mem[r].op \in {"seed", "embed"}
BY DEF GroundInv, TypeOK, LocalsInv, IdsInv, Local, Done, Labels

LEMMA SaveGround ==
    ASSUME GroundInv, NEW r \in Requests, NEW m \in Mem, m.id \in Ids, m.doc \in Job,
           m.op = mem[r].op, m.op # "none", m.todo = mem[r].todo,
           m.dirty \subseteq {"hash", "syncError"},
           NEW ok \in {Done(mem[r]), "delete_job"}, ok = "delete_job" => m.op = "remove",
           NEW failed \in {Done(mem[r]), "record_failure"},
           failed = "record_failure" => m.op # "remove",
           Save(r, m, ok, failed)
    PROVE  GroundInv'
<1>0. /\ TypeOK /\ ok \in Labels /\ failed \in Labels
      /\ m.op = "embed" => m.todo \in Seq([id: Ids, doc: ActiveJob])
      /\ m.op = "seed" => m.todo \in Seq([id: {NoId}, doc: FreshJob])
      /\ ok = "next" \/ failed = "next" => m.op \in {"seed", "embed"}
  BY HeldLocals DEF GroundInv, Labels
<1>1. UNCHANGED <<points, lastId>>
  BY DEF Save
<1>2. CASE /\ CanSave(m)
           /\ jobs' = [jobs EXCEPT ![m.id] = Written(jobs[m.id], m.doc, m.dirty)]
           /\ Goto(r, ok, [m EXCEPT !.dirty = {}])
  <2> DEFINE n == [m EXCEPT !.dirty = {}]
  <2>1. /\ n \in Mem /\ n.id = m.id /\ n.op = m.op /\ n.todo = m.todo /\ n.doc = m.doc
        /\ n.dirty = {}
    BY DEF Mem
  <2>2. jobs[m.id] \in Job
    BY <1>0, <1>2 DEF CanSave, TypeOK
  <2>3. Written(jobs[m.id], m.doc, m.dirty) \in Job
    BY <2>2, WrittenType
  <2>4. jobs' \in [Ids -> Job \cup {None}] /\ \A i \in Ids : jobs[i] = None => jobs'[i] = None
    BY <1>0, <1>2, <2>2, <2>3, FreshTypes DEF TypeOK
  <2> HIDE DEF n
  <2>5. ok \in {"idle", "next"} \/ Local(ok, n)
    BY <1>0, <2>1, HeldLocals DEF Local, Holding
  <2>6. Goto(r, ok, n)
    BY <1>2 DEF n
  <2>7. QED
    BY <1>0, <1>1, <2>1, <2>4, <2>5, <2>6, StepGround DEF TypeOK
<1>3. CASE Goto(r, failed, m) /\ UNCHANGED jobs
  <2>1. failed \in {"idle", "next"} \/ Local(failed, m)
    BY <1>0, HeldLocals DEF Local, Holding
  <2>2. QED
    BY <1>0, <1>1, <1>3, <2>1, StepGround DEF TypeOK
<1>4. QED
  BY <1>2, <1>3 DEF Save

LEMMA SavesGround ==
    ASSUME GroundInv, NEW r \in Requests, SaveRemoved(r) \/ SaveSynced(r) \/ RecordFailure(r)
    PROVE  GroundInv'
<1>0. /\ mem[r] \in Mem /\ mem[r].id \in Ids /\ mem[r].doc \in Job /\ mem[r].op # "none"
      /\ mem[r].dirty \subseteq {"hash", "syncError"}
      /\ pc[r] # "save_removed" => mem[r].op # "remove"
      /\ Done(mem[r]) \in {"idle", "next"}
  BY HeldLocals DEF Local, Holding, SaveRemoved, SaveSynced, RecordFailure, At
<1>1. CASE SaveRemoved(r)
  <2>1. \E ok \in {Done(mem[r]), "delete_job"} :
           (ok = "delete_job" => mem[r].op = "remove") /\ Save(r, mem[r], ok, Done(mem[r]))
    BY <1>0, <1>1 DEF SaveRemoved
  <2>2. Done(mem[r]) # "record_failure"
    BY <1>0
  <2>3. QED
    BY <1>0, <2>1, <2>2, SaveGround
<1>2. CASE SaveSynced(r)
  <2>1. Save(r, mem[r], Done(mem[r]), "record_failure") /\ mem[r].op # "remove"
    BY <1>0, <1>2 DEF SaveSynced, At
  <2>2. Done(mem[r]) # "delete_job"
    BY <1>0
  <2>3. QED
    BY <1>0, <2>1, <2>2, SaveGround
<1>3. CASE RecordFailure(r)
  <2> DEFINE doc == [mem[r].doc EXCEPT !.syncError = TRUE]
             m == Assigned(mem[r], doc)
  <2>1. doc \in Job /\ {f \in SavedFields : doc[f] # mem[r].doc[f]} \subseteq {"syncError"}
    BY <1>0, SyncDocs
  <2> HIDE DEF doc
  <2>2. /\ m \in Mem /\ m.id = mem[r].id /\ m.op = mem[r].op /\ m.todo = mem[r].todo /\ m.doc \in Job
        /\ m.dirty \subseteq {"hash", "syncError"}
    BY <1>0, <2>1, AssignedLocals
  <2>3. Save(r, m, Done(m), Done(m)) /\ Done(m) = Done(mem[r])
    BY <1>3, <2>2 DEF RecordFailure, Done, doc
  <2> HIDE DEF m
  <2>4. Done(m) # "record_failure" /\ Done(m) # "delete_job"
    BY <1>0, <2>3
  <2>5. QED
    BY <1>0, <2>2, <2>3, <2>4, SaveGround
<1>4. QED
  BY <1>1, <1>2, <1>3

\* A request goes on with the sync of a vector.
LEMMA RemovalGround ==
    ASSUME GroundInv, NEW r \in Requests, NEW m, Ready(m), NEW label,
           \/ label = RemoveLabel(m)
           \/ label = SyncLabel(m) /\ m.op # "remove"
           \/ label = "save_removed",
           GotoRemoval(r, label, m), lastId' \in lastId..MaxJobs,
           jobs' \in [Ids -> Job \cup {None}], points' \in [Ids -> Texts \cup {None}],
           \A i \in Ids : i > lastId' => jobs'[i] = None
    PROVE  GroundInv'
<1> DEFINE n == Removal(label, m)
<1>1. Goto(r, label, n)
  BY DEF GotoRemoval, Removal
<1>2. /\ label \in Labels /\ n \in Mem /\ n.id = m.id /\ n.op = m.op /\ n.todo = m.todo
      /\ label \in {"idle", "next"} \/ Local(label, n)
      /\ label = "next" => m.op \in {"seed", "embed"}
  BY SyncLabels
<1>3. /\ m.op = "embed" => m.todo \in Seq([id: Ids, doc: ActiveJob])
      /\ m.op = "seed" => m.todo \in Seq([id: {NoId}, doc: FreshJob])
  BY DEF Ready
<1> HIDE DEF n
<1>4. Kept(label, n) \in Mem /\ Local(label, Kept(label, n))
  BY <1>2, <1>3, KeptLocal
<1>5. QED
  BY <1>1, <1>2, <1>4, GotoGround

\* A request that stores a new job goes on with its vector.
LEMMA InsertedGround ==
    ASSUME GroundInv, NEW r \in Requests, Inserted(r), UNCHANGED points,
           mem[r].op \in {"create", "seed"}, mem[r].doc \in FreshJob, mem[r].dirty = {}
    PROVE  GroundInv'
<1> DEFINE m == [mem[r] EXCEPT !.id = lastId']
<1>1. /\ TypeOK /\ lastId \in Nat /\ MaxJobs \in Nat
      /\ lastId < MaxJobs /\ lastId' = lastId + 1
      /\ jobs' = [jobs EXCEPT ![lastId'] = mem[r].doc]
      /\ GotoRemoval(r, SyncLabel(m), m)
  BY ConstantsAssumption DEF GroundInv, TypeOK, Inserted
<1>2. /\ mem[r] \in Mem /\ mem[r].doc \in Job
      /\ mem[r].op = "seed" => mem[r].todo \in Seq([id: {NoId}, doc: FreshJob])
  BY HeldLocals DEF FreshJob
<1>3. lastId' \in Ids /\ lastId' \in lastId..MaxJobs
  BY <1>1 DEF Ids
<1>4. Ready(m) /\ m.op # "remove" /\ m.id = lastId'
  BY <1>2, <1>3 DEF Ready, Mem
<1> HIDE DEF m
<1>5. jobs' \in [Ids -> Job \cup {None}] /\ \A i \in Ids : i > lastId' => jobs'[i] = None
  BY <1>1, <1>2, <1>3 DEF GroundInv, IdsInv, TypeOK, Ids
<1>6. QED
  BY <1>1, <1>3, <1>4, <1>5, RemovalGround DEF TypeOK

LEMMA UpsertGround ==
    ASSUME GroundInv, NEW r \in Requests, Upsert(r)
    PROVE  GroundInv'
<1>0. /\ mem[r] \in Mem /\ mem[r].id = NoId /\ mem[r].dirty = {}
      /\ mem[r].op \in {"create", "seed"} /\ mem[r].doc \in FreshJob
      /\ mem[r].op = "seed" => mem[r].todo \in Seq([id: {NoId}, doc: FreshJob])
  BY HeldLocals DEF Local, Holding, Upsert, At
<1>1. /\ TypeOK /\ lastId \in Nat /\ MaxJobs \in Nat /\ lastId <= MaxJobs /\ UNCHANGED points
      /\ mem[r].doc \in Job
  <2>1. TypeOK /\ lastId \in Nat /\ MaxJobs \in Nat /\ lastId <= MaxJobs
    BY ConstantsAssumption DEF GroundInv, TypeOK
  <2>2. UNCHANGED points
    BY DEF Upsert
  <2>3. mem[r].doc \in Job
    BY <1>0 DEF FreshJob
  <2>4. QED
    BY <2>1, <2>2, <2>3
<1>2. CASE \E i \in Existing :
              LET stored == Upserted(jobs[i], mem[r].doc)
                  m == [mem[r] EXCEPT !.id = i, !.doc = stored]
              IN  /\ jobs' = [jobs EXCEPT ![i] = stored]
                  /\ GotoRemoval(r, SyncLabel(m), m)
                  /\ UNCHANGED lastId
  <2> DEFINE stored(i) == Upserted(jobs[i], mem[r].doc)
             m(i) == [mem[r] EXCEPT !.id = i, !.doc = stored(i)]
  <2>1. PICK i \in Existing : /\ jobs' = [jobs EXCEPT ![i] = stored(i)]
                              /\ GotoRemoval(r, SyncLabel(m(i)), m(i))
                              /\ UNCHANGED lastId
    BY <1>2
  <2>2. i \in Ids /\ jobs[i] \in Job
    BY <1>1 DEF Existing, GroundInv, IdsInv, TypeOK, Ids
  <2>3. stored(i) \in Job
    BY <1>1, <2>2, UpsertedType
  <2> HIDE DEF stored
  <2>4. Ready(m(i)) /\ m(i).op # "remove" /\ m(i).id = i
    BY <1>0, <2>2, <2>3 DEF Ready, Mem
  <2> HIDE DEF m
  <2>5. jobs' \in [Ids -> Job \cup {None}] /\ \A j \in Ids : j > lastId' => jobs'[j] = None
    <3>1. jobs' \in [Ids -> Job \cup {None}]
      BY <1>1, <2>1, <2>2, <2>3 DEF TypeOK
    <3>2. ~(i > lastId)
      BY <2>2, FreshTypes DEF GroundInv, IdsInv
    <3>3. QED
      BY <1>1, <2>1, <2>2, <3>1, <3>2 DEF TypeOK, GroundInv, IdsInv
  <2>6. lastId' \in lastId..MaxJobs
    BY <1>1, <2>1, <2>2, <2>4
  <2>7. QED
    BY <1>1, <2>1, <2>4, <2>5, <2>6, RemovalGround DEF TypeOK
<1>3. CASE Inserted(r)
  BY <1>0, <1>1, <1>3, InsertedGround
<1>4. CASE Goto(r, "insert", mem[r]) /\ UNCHANGED <<jobs, lastId>>
  <2>1. Local("insert", mem[r]) /\ "insert" \in Labels
    BY <1>0 DEF Local, Holding, Labels
  <2>2. QED
    BY <1>0, <1>1, <1>4, <2>1, StepGround DEF TypeOK
<1>5. CASE Goto(r, Done(mem[r]), mem[r]) /\ UNCHANGED <<jobs, lastId>>
  BY <1>1, <1>5, HeldLocals, StepGround DEF TypeOK
<1>6. QED
  BY <1>2, <1>3, <1>4, <1>5 DEF Upsert

LEMMA InsertGround ==
    ASSUME GroundInv, NEW r \in Requests, Insert(r)
    PROVE  GroundInv'
BY InsertedGround, HeldLocals DEF Insert, At, Local, Holding

\* An update is saved, or turned down.
LEMMA SaveUpdateGround ==
    ASSUME GroundInv, NEW r \in Requests, SaveUpdate(r)
    PROVE  GroundInv'
<1>0. /\ mem[r] \in Mem /\ mem[r].id \in Ids /\ mem[r].doc \in Job
      /\ mem[r].op = "update"
  BY HeldLocals DEF Local, Holding, SaveUpdate, At
<1>1. TypeOK /\ lastId \in Nat /\ MaxJobs \in Nat /\ lastId <= MaxJobs
      /\ UNCHANGED <<points, lastId>>
  BY ConstantsAssumption DEF SaveUpdate, GroundInv, TypeOK
<1>2. CASE /\ CanSave(mem[r])
           /\ jobs' = [jobs EXCEPT ![mem[r].id] =
                         Written(jobs[mem[r].id], mem[r].doc, mem[r].dirty)]
           /\ GotoRemoval(r, SyncLabel(mem[r]), [mem[r] EXCEPT !.dirty = {}])
  <2> DEFINE m == [mem[r] EXCEPT !.dirty = {}]
  <2>1. Ready(m) /\ m.op = "update" /\ m.id = mem[r].id
    BY <1>0 DEF Ready, Mem
  <2>2. SyncLabel(m) = SyncLabel(mem[r])
    BY <1>0 DEF SyncLabel, RemoveLabel, Done, Mem
  <2>3. GotoRemoval(r, SyncLabel(m), m)
    BY <1>2, <2>2
  <2>4. jobs[mem[r].id] \in Job
    BY <1>0, <1>1, <1>2 DEF CanSave, TypeOK
  <2>5. Written(jobs[mem[r].id], mem[r].doc, mem[r].dirty) \in Job
    BY <1>0, <2>4, WrittenType
  <2>6. jobs' \in [Ids -> Job \cup {None}] /\ \A i \in Ids : i > lastId' => jobs'[i] = None
    <3>1. jobs' \in [Ids -> Job \cup {None}]
      BY <1>0, <1>1, <1>2, <2>5 DEF TypeOK
    <3>2. ~(mem[r].id > lastId)
      BY <1>0, <2>4, FreshTypes DEF GroundInv, IdsInv
    <3>3. QED
      BY <1>0, <1>1, <1>2, <3>1, <3>2 DEF TypeOK, GroundInv, IdsInv
  <2>7. lastId' \in lastId..MaxJobs
    BY <1>0, <1>1, <2>1 DEF Ids
  <2> HIDE DEF m
  <2>8. QED
    BY <1>1, <2>1, <2>3, <2>6, <2>7, RemovalGround DEF TypeOK
<1>3. CASE Goto(r, "idle", mem[r]) /\ UNCHANGED jobs
  <2>1. "idle" \in Labels
    BY DEF Labels
  <2>2. QED
    BY <1>0, <1>1, <1>3, <2>1, StepGround DEF TypeOK
<1>4. QED
  BY <1>2, <1>3 DEF SaveUpdate

\* The steps that only move a vector or a batch on, or delete a job.
LEMMA VectorStepsGround ==
    ASSUME GroundInv, NEW r \in Requests, DeletePoint(r) \/ DeleteJob(r) \/ UpsertPoint(r)
    PROVE  GroundInv'
<1>0. /\ mem[r] \in Mem /\ mem[r].id \in Ids /\ mem[r].doc \in Job /\ mem[r].op # "none"
      /\ mem[r].op = "embed" => mem[r].todo \in Seq([id: Ids, doc: ActiveJob])
      /\ mem[r].op = "seed" => mem[r].todo \in Seq([id: {NoId}, doc: FreshJob])
      /\ ~At(r, "delete_job") => mem[r].dirty = {}
      /\ At(r, "upsert_point") => mem[r].op # "remove"
  BY HeldLocals DEF Local, Holding, DeletePoint, DeleteJob, UpsertPoint, At
<1>1. TypeOK /\ lastId \in Nat /\ MaxJobs \in Nat /\ lastId <= MaxJobs
  BY ConstantsAssumption DEF GroundInv, TypeOK
<1>2. CASE DeletePoint(r)
  <2>1. Ready(mem[r])
    BY <1>0, <1>2 DEF Ready, Mem, DeletePoint, At
  <2>2. GotoRemoval(r, "save_removed", mem[r]) /\ UNCHANGED <<jobs, lastId>>
    BY <1>2 DEF DeletePoint
  <2>3. points' \in [Ids -> Texts \cup {None}]
    BY <1>0, <1>1, <1>2 DEF DeletePoint, WithoutPoint, TypeOK
  <2>4. QED
    BY <1>0, <1>1, <2>1, <2>2, <2>3, RemovalGround DEF TypeOK, GroundInv, IdsInv
<1>3. CASE DeleteJob(r)
  <2>1. jobs' \in [Ids -> Job \cup {None}] /\ \A i \in Ids : jobs[i] = None => jobs'[i] = None
    BY <1>0, <1>1, <1>3 DEF DeleteJob, TypeOK
  <2>2. "idle" \in Labels /\ Goto(r, "idle", mem[r]) /\ UNCHANGED <<points, lastId>>
    BY <1>3 DEF DeleteJob, Labels
  <2>3. QED
    BY <1>0, <1>1, <2>1, <2>2, StepGround DEF TypeOK
<1>4. CASE UpsertPoint(r)
  <2> DEFINE doc == [mem[r].doc EXCEPT !.hash = mem[r].doc.text, !.syncError = FALSE]
             m == Assigned(mem[r], doc)
  <2>1. doc \in Job /\ {f \in SavedFields : doc[f] # mem[r].doc[f]} \subseteq {"hash", "syncError"}
    BY <1>0, SyncDocs
  <2>2. \/ Goto(r, "save_synced", m)
        \/ Goto(r, "record_failure", mem[r])
    BY <1>4 DEF UpsertPoint
  <2> HIDE DEF doc
  <2>3. /\ m \in Mem /\ m.id = mem[r].id /\ m.op = mem[r].op /\ m.todo = mem[r].todo /\ m.doc = doc
        /\ m.dirty \subseteq {"hash", "syncError"}
    BY <1>0, <1>4, <2>1, AssignedLocals DEF UpsertPoint, At
  <2> HIDE DEF m
  <2>4. UNCHANGED <<jobs, lastId>> /\ points' \in [Ids -> Texts \cup {None}]
    BY <1>0, <1>1, <1>4 DEF UpsertPoint, WithPoint, TypeOK, Job
  <2>5. Local("save_synced", m) /\ Local("record_failure", mem[r])
    BY <1>0, <1>4, <2>1, <2>3 DEF Local, Holding, UpsertPoint, At
  <2>6. "save_synced" \in Labels /\ "record_failure" \in Labels
    BY DEF Labels
  <2>7. QED
    BY <1>0, <1>1, <2>2, <2>3, <2>4, <2>5, <2>6, StepGround DEF TypeOK
<1>5. QED
  BY <1>2, <1>3, <1>4

\* The batch goes on with its first job, or ends.
LEMMA NextOfBatchGround ==
    ASSUME GroundInv, NEW r \in Requests, NextOfBatch(r)
    PROVE  GroundInv'
<1>0. /\ mem[r] \in Mem /\ mem[r].id = NoId /\ mem[r].dirty = {}
      /\ mem[r].op \in {"seed", "embed"}
      /\ mem[r].op = "embed" => mem[r].todo \in Seq([id: Ids, doc: ActiveJob])
      /\ mem[r].op = "seed" => mem[r].todo \in Seq([id: {NoId}, doc: FreshJob])
  BY HeldLocals DEF Local, Holding, NextOfBatch, At
<1>1. TypeOK /\ lastId \in Nat /\ UNCHANGED <<jobs, points, lastId>>
  BY DEF GroundInv, TypeOK, NextOfBatch
<1> DEFINE first == Head(mem[r].todo)
           taken == [mem[r] EXCEPT !.id = first.id, !.doc = first.doc, !.todo = Tail(mem[r].todo)]
<1>2. CASE mem[r].todo = <<>> /\ Goto(r, "idle", mem[r])
  <2>1. "idle" \in Labels
    BY DEF Labels
  <2>2. QED
    BY <1>0, <1>1, <1>2, <2>1, StepGround DEF TypeOK
<1>3. CASE mem[r].todo # <<>> /\ mem[r].op = "seed" /\ Goto(r, "upsert", taken)
  <2>1. first \in [id: {NoId}, doc: FreshJob] /\ Tail(mem[r].todo) \in Seq([id: {NoId}, doc: FreshJob])
    BY <1>0, <1>3, HeadTailProperties
  <2>2. first.id = NoId /\ first.doc \in FreshJob /\ first.doc \in Job
        /\ Tail(mem[r].todo) \in Seq([id: Ids \cup {NoId}, doc: Job])
    BY <2>1, TodoType DEF FreshJob
  <2>3. /\ taken \in Mem /\ taken.id = NoId /\ taken.dirty = {} /\ taken.op = "seed"
        /\ taken.doc = first.doc /\ taken.todo = Tail(mem[r].todo)
    BY <1>0, <1>3, <2>2 DEF Mem
  <2> HIDE DEF first
  <2>4. Goto(r, "upsert", taken) /\ "upsert" \in Labels
    BY <1>3 DEF Labels, first
  <2> HIDE DEF taken
  <2>5. Local("upsert", taken)
    BY <2>1, <2>2, <2>3 DEF Local, Holding
  <2>6. QED
    BY <1>0, <1>1, <2>3, <2>4, <2>5, StepGround DEF TypeOK
<1>4. CASE mem[r].todo # <<>> /\ mem[r].op = "embed" /\ Goto(r, SyncLabel(taken), taken)
  <2>1. first \in [id: Ids, doc: ActiveJob] /\ Tail(mem[r].todo) \in Seq([id: Ids, doc: ActiveJob])
    BY <1>0, <1>4, HeadTailProperties
  <2>2. first.id \in Ids /\ first.doc \in Job /\ first.doc.status = "active"
        /\ Tail(mem[r].todo) \in Seq([id: Ids \cup {NoId}, doc: Job])
    BY <2>1, TodoType DEF ActiveJob
  <2>3. /\ taken \in Mem /\ taken.id = first.id /\ taken.dirty = {} /\ taken.op = "embed"
        /\ taken.doc = first.doc /\ taken.todo = Tail(mem[r].todo)
    BY <1>0, <1>4, <2>2 DEF Mem
  <2>4. Goto(r, SyncLabel(taken), taken)
    BY <1>4
  <2> HIDE DEF first, taken
  <2>5. SyncLabel(taken) \in {"upsert_point", "next"}
    BY <2>2, <2>3 DEF SyncLabel, Done
  <2>6. SyncLabel(taken) \in Labels /\ (SyncLabel(taken) = "next" \/ Local(SyncLabel(taken), taken))
    BY <2>1, <2>2, <2>3, <2>5 DEF Local, Holding, Labels
  <2>7. QED
    BY <1>0, <1>1, <2>1, <2>3, <2>4, <2>6, StepGround DEF TypeOK
<1>5. QED
  BY <1>2, <1>3, <1>4 DEF NextOfBatch

LEMMA CrashGround ==
    ASSUME GroundInv, Crash
    PROVE  GroundInv'
<1>1. NoMem \in Mem /\ "idle" \in Labels /\ Local("idle", NoMem)
  BY FreshTypes DEF Labels, Local, Holding, NoMem
<1>2. QED
  BY <1>1 DEF Crash, GroundInv, TypeOK, LocalsInv, IdsInv

LEMMA GroundInvHolds == Spec => []GroundInv
<1>1. Init => GroundInv
  <2>1. NoMem \in Mem /\ "idle" \in Labels /\ Local("idle", NoMem)
    BY FreshTypes DEF Labels, Local, Holding, NoMem
  <2>2. QED
    BY <2>1, ConstantsAssumption DEF Init, GroundInv, TypeOK, LocalsInv, IdsInv, Ids
<1>2. GroundInv /\ [Next]_vars => GroundInv'
  <2> SUFFICES ASSUME GroundInv, [Next]_vars PROVE GroundInv'
    OBVIOUS
  <2>1. CASE UNCHANGED vars
    BY <2>1 DEF vars, GroundInv, TypeOK, LocalsInv, IdsInv
  <2>2. CASE Crash
    BY <2>2, CrashGround
  <2>3. ASSUME NEW r \in Requests, Request(r) PROVE GroundInv'
    BY <2>3, RequestGround
  <2>4. ASSUME NEW r \in Requests, Step(r) PROVE GroundInv'
    BY <2>4, UpsertGround, InsertGround, SaveUpdateGround, VectorStepsGround, SavesGround,
       NextOfBatchGround DEF Step
  <2>5. QED
    BY <2>1, <2>2, <2>3, <2>4 DEF Next
<1>3. QED
  BY <1>1, <1>2, PTL DEF Spec

\* Every variable keeps its type, whatever the requests and the faults
\* (job.schema.ts, jobs.service.ts, job-vector.service.ts).
THEOREM TypeCorrect == Spec => []TypeOK
<1>1. GroundInv => TypeOK
  BY DEF GroundInv
<1>2. QED
  BY <1>1, GroundInvHolds, PTL

----------------------------------------------------------------------------
(* No lost update: whoever saves, writes the catalogue data it was asked   *)
(* to change                                                               *)

Catalogue == {"status", "text", "source"}

\* Somebody asked for the change of a job's data.
AskedFor(i, f) ==
    \E r \in Requests :
        \/ At(r, "save_update") /\ mem[r].id = i /\ f \in mem[r].dirty
        \/ At(r, "upsert") /\ mem[r].doc.source = jobs[i].source

OnlyAsked ==
    \A i \in Existing : i \in Existing' =>
        \A f \in Catalogue : jobs'[i][f] # jobs[i][f] => AskedFor(i, f)

LEMMA WrittenFields ==
    ASSUME NEW stored \in Job, NEW doc \in Job, NEW dirty, NEW f \in Catalogue,
           Written(stored, doc, dirty)[f] # stored[f]
    PROVE  f \in dirty
BY DEF Written, Catalogue, SavedFields

\* A save of the sync metadata touches none of the catalogue data.
LEMMA SaveAsked ==
    ASSUME GroundInv, NEW m, NEW r, NEW ok, NEW failed, m.id \in Ids, m.doc \in Job,
           m.dirty \subseteq {"hash", "syncError"}, Save(r, m, ok, failed)
    PROVE  OnlyAsked
<1>0. TypeOK
  BY DEF GroundInv
<1>1. CASE UNCHANGED jobs
  BY <1>1 DEF OnlyAsked
<1>2. CASE CanSave(m) /\ jobs' = [jobs EXCEPT ![m.id] = Written(jobs[m.id], m.doc, m.dirty)]
  <2>1. jobs[m.id] \in Job
    BY <1>0, <1>2 DEF CanSave, TypeOK
  <2>2. ASSUME NEW i \in Existing, NEW f \in Catalogue PROVE jobs'[i][f] = jobs[i][f]
    <3>1. f \notin m.dirty
      BY <2>2 DEF Catalogue
    <3>2. Written(jobs[m.id], m.doc, m.dirty)[f] = jobs[m.id][f]
      BY <2>1, <3>1, WrittenFields
    <3>3. QED
      BY <1>0, <1>2, <3>2 DEF TypeOK, Existing
  <2>3. QED
    BY <2>2 DEF OnlyAsked
<1>3. QED
  BY <1>1, <1>2 DEF Save

\* A new job takes the place of none.
LEMMA InsertedAsked ==
    ASSUME GroundInv, NEW r \in Requests, Inserted(r)
    PROVE  OnlyAsked
<1>1. lastId' \in Ids /\ lastId' > lastId /\ jobs' = [jobs EXCEPT ![lastId'] = mem[r].doc]
  BY ConstantsAssumption DEF GroundInv, TypeOK, Ids, Inserted
<1>2. \A i \in Existing : jobs'[i] = jobs[i]
  BY <1>1 DEF GroundInv, TypeOK, IdsInv, Existing
<1>3. QED
  BY <1>2 DEF OnlyAsked

LEMMA StepAsked ==
    ASSUME GroundInv, NEW r \in Requests, Step(r)
    PROVE  OnlyAsked
<1>0. TypeOK /\ mem[r] \in Mem /\ Local(pc[r], mem[r])
  BY HeldLocals DEF GroundInv
<1>1. CASE Upsert(r)
  <2>1. CASE \E j \in Existing : /\ jobs[j].source = mem[r].doc.source
                                 /\ jobs' = [jobs EXCEPT ![j] = Upserted(jobs[j], mem[r].doc)]
    <3>1. PICK j \in Existing : /\ jobs[j].source = mem[r].doc.source
                                /\ jobs' = [jobs EXCEPT ![j] = Upserted(jobs[j], mem[r].doc)]
      BY <2>1
    <3>2. \A f \in Catalogue : AskedFor(j, f)
      BY <1>1, <3>1 DEF AskedFor, Upsert
    <3>3. \A i \in Existing \ {j} : jobs'[i] = jobs[i]
      BY <1>0, <3>1 DEF TypeOK, Existing
    <3>4. QED
      BY <3>2, <3>3 DEF OnlyAsked
  <2>2. CASE Inserted(r)
    BY <2>2, InsertedAsked
  <2>3. CASE UNCHANGED jobs
    BY <2>3 DEF OnlyAsked
  <2>4. QED
    BY <1>1, <2>1, <2>2, <2>3 DEF Upsert
<1>2. CASE SaveUpdate(r)
  <2>0. mem[r].id \in Ids /\ mem[r].doc \in Job
    BY <1>0, <1>2 DEF Local, Holding, SaveUpdate, At
  <2>1. CASE UNCHANGED jobs
    BY <2>1 DEF OnlyAsked
  <2>2. CASE /\ CanSave(mem[r])
             /\ jobs' = [jobs EXCEPT ![mem[r].id] =
                           Written(jobs[mem[r].id], mem[r].doc, mem[r].dirty)]
    <3>1. jobs[mem[r].id] \in Job
      BY <1>0, <2>0, <2>2 DEF CanSave, TypeOK
    <3>2. ASSUME NEW i \in Existing, NEW f \in Catalogue, jobs'[i][f] # jobs[i][f]
          PROVE  AskedFor(i, f)
      <4>1. i = mem[r].id /\ jobs'[i] = Written(jobs[mem[r].id], mem[r].doc, mem[r].dirty)
        BY <1>0, <2>2, <3>2 DEF TypeOK, Existing
      <4>2. f \in mem[r].dirty
        BY <2>0, <3>1, <3>2, <4>1, WrittenFields
      <4>3. QED
        BY <1>2, <4>1, <4>2 DEF AskedFor, SaveUpdate
    <3>3. QED
      BY <3>2 DEF OnlyAsked
  <2>3. QED
    BY <1>2, <2>1, <2>2 DEF SaveUpdate
<1>3. CASE SaveRemoved(r) \/ SaveSynced(r)
  <2>1. mem[r].id \in Ids /\ mem[r].doc \in Job /\ mem[r].dirty \subseteq {"hash", "syncError"}
    BY <1>0, <1>3 DEF Local, Holding, SaveRemoved, SaveSynced, At
  <2>2. QED
    BY <1>3, <2>1, SaveAsked DEF SaveRemoved, SaveSynced
<1>4. CASE RecordFailure(r)
  <2> DEFINE doc == [mem[r].doc EXCEPT !.syncError = TRUE]
             m == Assigned(mem[r], doc)
  <2>1. mem[r].id \in Ids /\ mem[r].doc \in Job /\ mem[r].dirty \subseteq {"hash", "syncError"}
    BY <1>0, <1>4 DEF Local, Holding, RecordFailure, At
  <2>2. doc \in Job /\ {f \in SavedFields : doc[f] # mem[r].doc[f]} \subseteq {"syncError"}
    BY <2>1, SyncDocs
  <2>3. Save(r, m, Done(m), Done(m))
    BY <1>4 DEF RecordFailure
  <2> HIDE DEF doc
  <2>4. m.id \in Ids /\ m.doc \in Job /\ m.dirty \subseteq {"hash", "syncError"}
    BY <1>0, <2>1, <2>2, AssignedLocals
  <2> HIDE DEF m
  <2>5. QED
    BY <2>3, <2>4, SaveAsked
<1>5. CASE DeleteJob(r)
  <2>1. mem[r].id \in Ids
    BY <1>0, <1>5 DEF Local, Holding, DeleteJob, At
  <2>2. \A i \in Existing : i \in Existing' => jobs'[i] = jobs[i]
    BY <1>0, <1>5, <2>1 DEF DeleteJob, TypeOK, Existing
  <2>3. QED
    BY <2>2 DEF OnlyAsked
<1>6. CASE DeletePoint(r) \/ UpsertPoint(r) \/ NextOfBatch(r)
  BY <1>6 DEF OnlyAsked, DeletePoint, UpsertPoint, NextOfBatch
<1>7. CASE Insert(r)
  BY <1>7, InsertedAsked DEF Insert
<1>8. QED
  BY <1>1, <1>2, <1>3, <1>4, <1>5, <1>6, <1>7 DEF Step

\* Two requests that work on one job, or a request and a batch that loaded the
\* job before, never undo each other's changes of the catalogue data: with any
\* number of requests, crashes, and all faults
\* (jobs.service.ts:30-164, job-vector.service.ts:24-148).
THEOREM EveryUpdateIsKept == Spec => NoLostUpdate
<1>1. GroundInv /\ [Next]_vars => OnlyAsked
  <2> SUFFICES ASSUME GroundInv, [Next]_vars PROVE OnlyAsked
    OBVIOUS
  <2>1. CASE UNCHANGED jobs
    BY <2>1 DEF OnlyAsked
  <2>2. ASSUME NEW r \in Requests, Request(r) PROVE UNCHANGED jobs
    BY <2>2 DEF Request, BeginCreate, BeginSeed, BeginUpdate, BeginRemove, BeginEmbed
  <2>3. ASSUME NEW r \in Requests, Step(r) PROVE OnlyAsked
    BY <2>3, StepAsked
  <2>4. QED
    BY <2>1, <2>2, <2>3 DEF Next, vars, Crash
<1>2. OnlyAsked =>
        \A i \in Existing : i \in Existing' =>
            \A f \in {"status", "text", "source"} : jobs'[i][f] # jobs[i][f] =>
                \E r \in Requests :
                    \/ At(r, "save_update") /\ mem[r].id = i /\ f \in mem[r].dirty
                    \/ At(r, "upsert") /\ mem[r].doc.source = jobs[i].source
  BY DEF OnlyAsked, AskedFor, Catalogue
<1>3. QED
  BY <1>1, <1>2, GroundInvHolds, PTL DEF Spec, NoLostUpdate

----------------------------------------------------------------------------
(* The key of a job *)

\* With the index an upsert finds the job or stores it in one step.
KeyInv == KeyHasOneJob /\ \A r \in Requests : pc[r] # "insert"

LEMMA SaveKeepsKeys ==
    ASSUME GroundInv, KeyHasOneJob, UniqueIndex, NEW m, m.id \in Ids, m.doc \in Job, CanSave(m),
           jobs' = [jobs EXCEPT ![m.id] = Written(jobs[m.id], m.doc, m.dirty)]
    PROVE  KeyHasOneJob'
<1> DEFINE w == Written(jobs[m.id], m.doc, m.dirty)
<1>1. jobs \in [Ids -> Job \cup {None}] /\ jobs[m.id] \in Job /\ m.id \in Existing
  BY DEF GroundInv, TypeOK, CanSave, Existing
<1>2. w \in Job /\ w.source = IF "source" \in m.dirty THEN m.doc.source ELSE jobs[m.id].source
  BY <1>1, WrittenType DEF Written, SavedFields
<1>3. \A i \in Existing \ {m.id} : jobs[i].source # w.source
  BY <1>1, <1>2 DEF CanSave, KeyHasOneJob
<1>4. jobs'[m.id] = w /\ \A i \in Ids \ {m.id} : jobs'[i] = jobs[i]
  BY <1>1
<1> HIDE DEF w
<1>5. QED
  BY <1>1, <1>2, <1>3, <1>4, FreshTypes DEF KeyHasOneJob, Existing

LEMMA StepKeepsKeys ==
    ASSUME GroundInv, KeyInv, UniqueIndex, NEW r \in Requests, Step(r)
    PROVE  KeyHasOneJob'
<1>0. /\ TypeOK /\ mem[r] \in Mem /\ Local(pc[r], mem[r])
      /\ pc[r] \in Holding => mem[r].id \in Ids /\ mem[r].doc \in Job
  BY HeldLocals DEF GroundInv, Local
<1>1. CASE Upsert(r)
  <2>0. mem[r].doc \in Job
    BY <1>0, <1>1 DEF Local, Upsert, At, FreshJob
  <2>1. CASE \E j \in Existing : jobs' = [jobs EXCEPT ![j] = Upserted(jobs[j], mem[r].doc)]
    <3>1. PICK j \in Existing : jobs' = [jobs EXCEPT ![j] = Upserted(jobs[j], mem[r].doc)]
      BY <2>1
    <3>2. jobs[j] \in Job /\ j \in Ids /\ jobs \in [Ids -> Job \cup {None}]
      BY <1>0 DEF TypeOK, Existing
    <3>3. Upserted(jobs[j], mem[r].doc).source = jobs[j].source
      BY <2>0, <3>2, UpsertedType
    <3>4. QED
      BY <3>1, <3>2, <3>3 DEF KeyInv, KeyHasOneJob, Existing
  <2>2. CASE /\ {i \in Existing : jobs[i].source = mem[r].doc.source} = {}
             /\ Inserted(r)
    <3>1. lastId' \in Ids /\ jobs' = [jobs EXCEPT ![lastId'] = mem[r].doc]
      BY <1>0, <2>2, ConstantsAssumption DEF TypeOK, Ids, Inserted
    <3>2. QED
      BY <1>0, <2>2, <3>1 DEF KeyInv, KeyHasOneJob, Existing, TypeOK
  <2>3. CASE UNCHANGED jobs
    BY <2>3 DEF KeyInv, KeyHasOneJob, Existing
  <2>4. QED
    BY <1>1, <2>1, <2>2, <2>3 DEF Upsert
<1>2. ASSUME NEW m, m.id \in Ids, m.doc \in Job, NEW ok, NEW failed, Save(r, m, ok, failed)
      PROVE  KeyHasOneJob'
  BY <1>2, SaveKeepsKeys DEF Save, KeyInv, KeyHasOneJob, Existing
<1>3. CASE SaveUpdate(r)
  BY <1>0, <1>3, SaveKeepsKeys DEF SaveUpdate, At, Holding, KeyInv, KeyHasOneJob, Existing
<1>4. CASE SaveRemoved(r) \/ SaveSynced(r)
  BY <1>0, <1>2, <1>4 DEF SaveRemoved, SaveSynced, At, Holding
<1>5. CASE RecordFailure(r)
  <2> DEFINE doc == [mem[r].doc EXCEPT !.syncError = TRUE]
  <2>1. mem[r].id \in Ids /\ doc \in Job
    BY <1>0, <1>5, SyncDocs DEF RecordFailure, At, Holding
  <2>2. Assigned(mem[r], doc).id \in Ids /\ Assigned(mem[r], doc).doc \in Job
    BY <1>0, <2>1, AssignedLocals
  <2>3. QED
    BY <1>2, <1>5, <2>2 DEF RecordFailure
<1>6. CASE DeleteJob(r)
  BY <1>0, <1>6 DEF DeleteJob, At, Holding, TypeOK, KeyInv, KeyHasOneJob, Existing
<1>7. CASE DeletePoint(r) \/ UpsertPoint(r) \/ NextOfBatch(r)
  BY <1>7 DEF DeletePoint, UpsertPoint, NextOfBatch, KeyInv, KeyHasOneJob, Existing
<1>8. QED
  BY <1>1, <1>3, <1>4, <1>5, <1>6, <1>7 DEF Step, Insert, At, KeyInv

\* No request comes to the insert that may follow another's.
LEMMA NoneInserts ==
    ASSUME GroundInv, KeyInv, UniqueIndex, NEW r \in Requests, Request(r) \/ Step(r)
    PROVE  pc'[r] # "insert" /\ \A q \in Requests \ {r} : pc'[q] = pc[q]
<1>1. \E label : label # "insert" /\ pc' = [pc EXCEPT ![r] = label]
  <2>1. \A m : SyncLabel(m) # "insert" /\ RemoveLabel(m) # "insert" /\ Done(m) # "insert"
    BY DEF SyncLabel, RemoveLabel, Done
  <2>2. /\ \A label, m : Goto(r, label, m) => pc' = [pc EXCEPT ![r] = label]
        /\ \A label, m : GotoRemoval(r, label, m) => pc' = [pc EXCEPT ![r] = label]
    BY DEF GotoRemoval, Goto
  <2>3. CASE BeginCreate(r) \/ BeginSeed(r) \/ BeginEmbed(r)
    <3>1. \E label \in {"upsert", "next"} : \E m : Goto(r, label, m)
      BY <2>3 DEF BeginCreate, BeginSeed, BeginEmbed
    <3>2. QED
      BY <2>2, <3>1
  <2>4. CASE BeginUpdate(r)
    <3>1. \E m : Goto(r, "save_update", m)
      BY <2>4 DEF BeginUpdate
    <3>2. QED
      BY <2>2, <3>1
  <2>5. CASE BeginRemove(r)
    <3>1. \E m : GotoRemoval(r, RemoveLabel(m), m)
      BY <2>5 DEF BeginRemove
    <3>2. QED
      BY <2>1, <2>2, <3>1
  <2>6. CASE Upsert(r)
    <3>1. \/ \E m : GotoRemoval(r, SyncLabel(m), m)
          \/ Goto(r, Done(mem[r]), mem[r])
      BY <2>6 DEF Upsert, Inserted
    <3>2. QED
      BY <2>1, <2>2, <3>1
  <2>7. CASE SaveUpdate(r) \/ DeletePoint(r)
    BY <2>1, <2>2, <2>7 DEF SaveUpdate, DeletePoint
  <2>8. CASE SaveRemoved(r) \/ SaveSynced(r) \/ RecordFailure(r)
    BY <2>1, <2>2, <2>8 DEF SaveRemoved, SaveSynced, RecordFailure, Save
  <2>9. CASE DeleteJob(r) \/ UpsertPoint(r) \/ NextOfBatch(r)
    BY <2>1, <2>2, <2>9 DEF DeleteJob, UpsertPoint, NextOfBatch
  <2>10. QED
    BY <2>3, <2>4, <2>5, <2>6, <2>7, <2>8, <2>9 DEF Request, Step, Insert, At, KeyInv
<1>2. QED
  BY <1>1 DEF GroundInv, TypeOK

\* Where the index exists, two jobs never have one key, with any number of
\* requests, crashes, and all faults (job.schema.ts:90, jobs.service.ts:30-55).
THEOREM OneJobPerKey ==
    ASSUME UniqueIndex
    PROVE  Spec => []KeyHasOneJob
<1>1. Init => KeyInv
  BY DEF Init, KeyInv, KeyHasOneJob, Existing
<1>2. GroundInv /\ KeyInv /\ [Next]_vars => KeyInv'
  <2> SUFFICES ASSUME GroundInv, KeyInv, [Next]_vars PROVE KeyInv'
    OBVIOUS
  <2>1. CASE UNCHANGED vars
    BY <2>1 DEF vars, KeyInv, KeyHasOneJob, Existing
  <2>2. CASE Crash
    BY <2>2 DEF Crash, KeyInv, KeyHasOneJob, Existing
  <2>3. ASSUME NEW r \in Requests, Request(r) PROVE KeyInv'
    <3>1. UNCHANGED jobs
      BY <2>3 DEF Request, BeginCreate, BeginSeed, BeginUpdate, BeginRemove, BeginEmbed
    <3>2. QED
      BY <2>3, <3>1, NoneInserts DEF KeyInv, KeyHasOneJob, Existing
  <2>4. ASSUME NEW r \in Requests, Step(r) PROVE KeyInv'
    BY <2>4, StepKeepsKeys, NoneInserts DEF KeyInv
  <2>5. QED
    BY <2>1, <2>2, <2>3, <2>4 DEF Next
<1>3. KeyInv => KeyHasOneJob
  BY DEF KeyInv
<1>4. QED
  BY <1>1, <1>2, <1>3, GroundInvHolds, PTL DEF Spec

----------------------------------------------------------------------------
(* The vectors, when Gemini and Qdrant may fail but the process lives and  *)
(* MongoDB answers, and when requests keep apart: no two of them work on   *)
(* one job at a time.                                                      *)

VectorFaultsOnly == Faults \subseteq {"gemini", "qdrant"} /\ ~Crashes

\* A request works on the job it holds, on those its batch has loaded, and on
\* the one that has the key it is about to write.
Touches(r, i) ==
    \/ mem[r].id = i
    \/ \E k \in DOMAIN mem[r].todo : mem[r].todo[k].id = i
    \/ At(r, "upsert") /\ jobs[i] # None /\ jobs[i].source = mem[r].doc.source

JobsApart ==
    \A q, r \in Requests, i \in Ids : Touches(q, i) /\ Touches(r, i) => q = r

\* What holds of a job nobody works on: the hash tells the text of the point,
\* and no point is left of a job that is not active.
Settled(job, point) ==
    /\ job = None => point = None
    /\ job # None =>
          /\ point = job.hash
          /\ job.status # "active" => point = None
          /\ QdrantEnabled /\ job.status = "active" /\ ~job.syncError => point = job.text
    /\ ~QdrantEnabled => point = None

\* What holds of it at each step of the request that does.
Pending(label, m, job, point) ==
    /\ job # None
    /\ ~QdrantEnabled => label \in {"save_update", "delete_job"} /\ point = None
    /\ label = "save_update" => Settled(job, point) /\ Agree(m, job)
    /\ label \in {"upsert_point", "record_failure"} =>
          job = m.doc /\ m.dirty = {} /\ point = job.hash /\ job.status = "active"
    /\ label = "save_synced" =>
          Agree(m, job) /\ m.doc.status = "active" /\ ~m.doc.syncError
          /\ point = m.doc.hash /\ point = m.doc.text
    /\ label \in {"delete_point", "save_removed"} =>
          m.op = "remove" \/ m.doc.status # "active"
    /\ label = "delete_point" => job = m.doc /\ m.dirty = {}
    /\ label = "save_removed" => Agree(m, job) /\ m.doc.hash = None /\ point = None
    /\ label = "delete_job" => point = None

\* What is left of a batch is as it was loaded, and not in hand already.
LoadedBatch(m, stored) ==
    \A k \in DOMAIN m.todo :
        /\ stored[m.todo[k].id] = m.todo[k].doc
        /\ m.todo[k].id # m.id
        /\ \A l \in DOMAIN m.todo : m.todo[l].id = m.todo[k].id => k = l

SettledInv ==
    \A i \in Ids : (\A r \in Requests : mem[r].id # i) => Settled(jobs[i], points[i])
PendingInv ==
    \A r \in Requests, i \in Ids :
        mem[r].id = i => Pending(pc[r], mem[r], jobs[i], points[i])
BatchInv ==
    \A r \in Requests : mem[r].op = "embed" => LoadedBatch(mem[r], jobs)

VectorInv == SettledInv /\ PendingInv /\ BatchInv

\* The job is in nobody else's hands.
Mine(r, j) ==
    \A q \in Requests \ {r} :
        /\ mem[q].id # j
        /\ mem[q].op = "embed" => \A k \in DOMAIN mem[q].todo : mem[q].todo[k].id # j

LEMMA TouchedIsMine ==
    ASSUME JobsApart, NEW r \in Requests, NEW j \in Ids, Touches(r, j)
    PROVE  Mine(r, j)
BY DEF JobsApart, Mine, Touches

\* The ids of a batch of jobs are ids.
LEMMA BatchIds ==
    ASSUME NEW todo \in Seq([id: Ids, doc: ActiveJob]), NEW k \in DOMAIN todo
    PROVE  todo[k].id \in Ids /\ todo[k].doc \in Job /\ todo[k].doc.status = "active"
           /\ todo[k].id # NoId
<1>1. todo[k] \in [id: Ids, doc: ActiveJob]
  BY ElementOfSeq, LenProperties
<1>2. QED
  BY <1>1, ConstantsAssumption DEF ActiveJob, Ids, NoId

\* A step concerns one job, or none, and no other request sees it.
LEMMA StepFrame ==
    ASSUME GroundInv, VectorInv, NEW r \in Requests, NEW j \in Ids \cup {NoId},
           NEW label, NEW n, Goto(r, label, n), n.id = j, mem[r].id \in {NoId, j},
           j \in Ids => Mine(r, j),
           \A i \in Ids \ {j} : jobs'[i] = jobs[i] /\ points'[i] = points[i],
           j \in Ids /\ label \in {"idle", "next"} => Settled(jobs'[j], points'[j]),
           j \in Ids /\ label \notin {"idle", "next"} => Pending(label, n, jobs'[j], points'[j]),
           n.op = "embed" => /\ LoadedBatch(n, jobs')
                             /\ n.todo \in Seq([id: Ids, doc: ActiveJob])
    PROVE  VectorInv'
<1>1. pc'[r] = label /\ mem'[r] = Kept(label, n) /\ OthersStay(r)
  BY GotoEffect DEF GroundInv
<1>2. /\ label \in {"idle", "next"} => mem'[r].id = NoId
      /\ label \notin {"idle", "next"} => mem'[r] = n
  BY <1>1 DEF Kept, NoMem
<1>3. NoId \notin Ids
  BY ConstantsAssumption DEF NoId, Ids
<1>4. ASSUME NEW i \in Ids, \A q \in Requests : mem'[q].id # i
      PROVE  Settled(jobs'[i], points'[i])
  <2>1. CASE i = j
    <3>1. label \in {"idle", "next"}
      BY <1>2, <1>4, <2>1
    <3>2. QED
      BY <2>1, <3>1
  <2>2. CASE i # j
    <3>1. \A q \in Requests : mem[q].id # i
      BY <1>1, <1>3, <1>4, <2>2 DEF OthersStay
    <3>2. QED
      BY <2>2, <3>1 DEF VectorInv, SettledInv
  <2>3. QED
    BY <2>1, <2>2
<1>5. ASSUME NEW q \in Requests, NEW i \in Ids, mem'[q].id = i
      PROVE  Pending(pc'[q], mem'[q], jobs'[i], points'[i])
  <2>1. CASE q = r
    BY <1>1, <1>2, <1>3, <1>5, <2>1
  <2>2. CASE q # r
    <3>1. mem'[q] = mem[q] /\ pc'[q] = pc[q]
      BY <1>1, <2>2 DEF OthersStay
    <3>2. i # j
      BY <1>5, <2>2, <3>1 DEF Mine
    <3>3. QED
      BY <1>5, <3>1, <3>2 DEF VectorInv, PendingInv
  <2>3. QED
    BY <2>1, <2>2
<1>6. ASSUME NEW q \in Requests, mem'[q].op = "embed"
      PROVE  LoadedBatch(mem'[q], jobs')
  <2>1. CASE q = r
    <3>1. CASE label = "idle"
      BY <1>1, <1>6, <2>1, <3>1 DEF Kept, NoMem
    <3>2. CASE label = "next"
      <4>1. mem'[r].op = n.op /\ mem'[r].todo = n.todo /\ mem'[r].id = NoId
        BY <1>1, <3>2 DEF Kept, NoMem
      <4>2. \A k \in DOMAIN n.todo : n.todo[k].id # NoId
        BY <1>6, <2>1, <4>1, BatchIds
      <4>3. QED
        BY <1>6, <2>1, <4>1, <4>2 DEF LoadedBatch
    <3>3. CASE label \notin {"idle", "next"}
      BY <1>2, <1>6, <2>1, <3>3
    <3>4. QED
      BY <3>1, <3>2, <3>3
  <2>2. CASE q # r
    <3>1. mem'[q] = mem[q]
      BY <1>1, <2>2 DEF OthersStay
    <3>2. LoadedBatch(mem[q], jobs) /\ mem[q].todo \in Seq([id: Ids, doc: ActiveJob])
      BY <1>6, <3>1, HeldLocals DEF VectorInv, BatchInv
    <3>3. \A k \in DOMAIN mem[q].todo : mem[q].todo[k].id \in Ids \ {j}
      BY <1>6, <2>2, <3>1, <3>2, <1>3, BatchIds DEF Mine
    <3>4. QED
      BY <3>1, <3>2, <3>3 DEF LoadedBatch
  <2>3. QED
    BY <2>1, <2>2
<1>7. QED
  BY <1>4, <1>5, <1>6 DEF VectorInv, SettledInv, PendingInv, BatchInv

\* The step of a request on the job it holds.
LEMMA HolderStep ==
    ASSUME GroundInv, VectorInv, JobsApart, NEW r \in Requests, mem[r].id \in Ids,
           NEW label, NEW n, Goto(r, label, n),
           n.id = mem[r].id, n.op = mem[r].op, n.todo = mem[r].todo,
           \A i \in Ids \ {mem[r].id} : jobs'[i] = jobs[i] /\ points'[i] = points[i],
           label \in {"idle", "next"} => Settled(jobs'[n.id], points'[n.id]),
           label \notin {"idle", "next"} => Pending(label, n, jobs'[n.id], points'[n.id])
    PROVE  VectorInv'
<1> DEFINE j == mem[r].id
<1>1. Mine(r, j)
  BY TouchedIsMine DEF Touches
<1>2. ASSUME n.op = "embed"
      PROVE  LoadedBatch(n, jobs') /\ n.todo \in Seq([id: Ids, doc: ActiveJob])
  <2>1. LoadedBatch(mem[r], jobs) /\ mem[r].todo \in Seq([id: Ids, doc: ActiveJob])
    BY <1>2, HeldLocals DEF VectorInv, BatchInv
  <2>2. \A k \in DOMAIN mem[r].todo : mem[r].todo[k].id \in Ids \ {j}
    BY <2>1, BatchIds DEF LoadedBatch
  <2>3. QED
    BY <2>1, <2>2 DEF LoadedBatch
<1> HIDE DEF j
<1>3. QED
  BY <1>1, <1>2, StepFrame DEF j

\* The sync of a vector starts with the document as it is stored.
LEMMA SyncPending ==
    ASSUME NEW m, Ready(m), NEW point, m.doc.hash = point, ~QdrantEnabled => point = None,
           NEW label,
           \/ label = RemoveLabel(m) /\ m.op = "remove"
           \/ label = SyncLabel(m) /\ m.op # "remove"
    PROVE  /\ label \in {"idle", "next"} => Settled(m.doc, point)
           /\ label \notin {"idle", "next"} => Pending(label, Removal(label, m), m.doc, point)
<1>1. m.doc \in Job /\ m.doc # None /\ m.dirty = {}
  BY FreshTypes DEF Ready
<1>2. CASE label = "save_removed"
  <2> DEFINE doc == Unsynced(m.doc)
             n == Assigned(m, doc)
  <2>1. /\ doc \in Job /\ doc.hash = None /\ doc.status = m.doc.status
    BY <1>1, SyncDocs
  <2> HIDE DEF doc
  <2>2. n.doc = doc /\ n.op = m.op /\ n.dirty = {f \in SavedFields : doc[f] # m.doc[f]}
    BY <1>1, <2>1, AssignedLocals DEF Ready
  <2>3. Removal(label, m) = n
    BY <1>2 DEF Removal, doc
  <2> HIDE DEF n
  <2>4. Agree(n, m.doc)
    BY <2>2 DEF Agree
  <2>5. point = None /\ (m.op = "remove" \/ m.doc.status # "active") /\ QdrantEnabled
    BY <1>2 DEF SyncLabel, RemoveLabel, Done
  <2>6. QED
    BY <1>1, <1>2, <2>1, <2>2, <2>3, <2>4, <2>5 DEF Pending
<1>3. CASE label # "save_removed"
  <2>1. Removal(label, m) = m
    BY <1>3 DEF Removal
  <2>2. label \in {"idle", "next"} => Settled(m.doc, point)
    BY <1>1 DEF SyncLabel, RemoveLabel, Done, Settled
  <2>3. label \in {"idle", "next", "upsert_point", "delete_point", "delete_job"}
    BY <1>3 DEF SyncLabel, RemoveLabel, Done
  <2>4. /\ label = "upsert_point" => m.doc.status = "active"
        /\ label = "delete_point" => m.op = "remove" \/ m.doc.status # "active"
        /\ label = "delete_job" => ~QdrantEnabled
        /\ ~QdrantEnabled => label \in {"idle", "next", "delete_job"}
    BY DEF SyncLabel, RemoveLabel, Done
  <2>5. label \notin {"idle", "next"} => Pending(label, m, m.doc, point)
    BY <1>1, <2>3, <2>4 DEF Pending
  <2>6. QED
    BY <2>1, <2>2, <2>5
<1>4. QED
  BY <1>2, <1>3

\* A save of a job that is there, without its key, goes through.
LEMMA SaveGoes ==
    ASSUME GroundInv, VectorFaultsOnly, NEW r \in Requests, NEW m \in Mem, m.id \in Ids,
           m.doc \in Job, m.dirty \subseteq {"hash", "syncError"},
           jobs[m.id] # None, Agree(m, jobs[m.id]),
           NEW ok, NEW failed, Save(r, m, ok, failed)
    PROVE  /\ jobs' = [jobs EXCEPT ![m.id] = m.doc] /\ UNCHANGED <<points, lastId>>
           /\ jobs'[m.id] = m.doc
           /\ Goto(r, ok, [m EXCEPT !.dirty = {}])
<1>1. CanSave(m) /\ "mongo" \notin Faults
  BY DEF CanSave, VectorFaultsOnly
<1>2. jobs[m.id] \in Job /\ jobs \in [Ids -> Job \cup {None}]
  BY DEF GroundInv, TypeOK
<1>3. Written(jobs[m.id], m.doc, m.dirty) = m.doc
  BY <1>2, WrittenAgrees
<1>4. QED
  BY <1>1, <1>2, <1>3 DEF Save

LEMMA HolderPending ==
    ASSUME GroundInv, VectorInv, NEW r \in Requests, pc[r] \in Holding
    PROVE  /\ mem[r] \in Mem /\ mem[r].id \in Ids /\ mem[r].doc \in Job
           /\ Local(pc[r], mem[r]) /\ mem[r].op # "none"
           /\ Pending(pc[r], mem[r], jobs[mem[r].id], points[mem[r].id])
           /\ jobs[mem[r].id] \in Job
<1>1. /\ mem[r] \in Mem /\ mem[r].id \in Ids /\ mem[r].doc \in Job
      /\ Local(pc[r], mem[r]) /\ mem[r].op # "none"
  BY HeldLocals DEF Local
<1>2. Pending(pc[r], mem[r], jobs[mem[r].id], points[mem[r].id])
  BY <1>1 DEF VectorInv, PendingInv
<1>3. QED
  BY <1>1, <1>2 DEF Pending, GroundInv, TypeOK

LEMMA SaveUpdateVector ==
    ASSUME GroundInv, VectorInv, JobsApart, VectorFaultsOnly, NEW r \in Requests, SaveUpdate(r)
    PROVE  VectorInv'
<1> DEFINE j == mem[r].id
<1>0. /\ mem[r] \in Mem /\ j \in Ids /\ mem[r].doc \in Job /\ mem[r].op = "update"
      /\ Settled(jobs[j], points[j]) /\ Agree(mem[r], jobs[j]) /\ jobs[j] \in Job
      /\ mem[r].dirty \subseteq {"status", "text", "source"}
  BY HolderPending DEF Holding, SaveUpdate, At, Local, Pending
<1>1. UNCHANGED points /\ jobs \in [Ids -> Job \cup {None}]
  BY DEF SaveUpdate, GroundInv, TypeOK
<1>2. CASE /\ jobs' = [jobs EXCEPT ![j] = Written(jobs[j], mem[r].doc, mem[r].dirty)]
           /\ GotoRemoval(r, SyncLabel(mem[r]), [mem[r] EXCEPT !.dirty = {}])
  <2> DEFINE m == [mem[r] EXCEPT !.dirty = {}]
             label == SyncLabel(mem[r])
             n == Removal(label, m)
  <2>1. /\ m.id = j /\ m.op = "update" /\ m.doc = mem[r].doc /\ m.todo = mem[r].todo
        /\ Ready(m)
    BY <1>0 DEF Ready, Mem
  <2>2. label = SyncLabel(m)
    BY <1>0 DEF SyncLabel, RemoveLabel, Done, Mem
  <2>3. jobs'[j] = m.doc /\ \A i \in Ids \ {j} : jobs'[i] = jobs[i]
    BY <1>0, <1>1, <1>2, <2>1, WrittenAgrees
  <2>4. points[j] = m.doc.hash /\ (~QdrantEnabled => points[j] = None)
    <3>1. jobs[j].hash = m.doc.hash
      BY <1>0, <2>1 DEF Agree, SavedFields
    <3>2. QED
      BY <1>0, <3>1, FreshTypes DEF Settled
  <2>5. Goto(r, label, n)
    BY <1>2 DEF GotoRemoval, Removal
  <2> HIDE DEF m, label
  <2>6. n.id = m.id /\ n.op = m.op /\ n.todo = m.todo
    BY <2>1, <2>2, SyncLabels
  <2>7. /\ label \in {"idle", "next"} => Settled(m.doc, points[j])
        /\ label \notin {"idle", "next"} => Pending(label, n, m.doc, points[j])
    BY <2>1, <2>2, <2>4, SyncPending
  <2> HIDE DEF n
  <2>8. QED
    BY <1>0, <1>1, <2>1, <2>3, <2>5, <2>6, <2>7, HolderStep
<1>3. CASE Goto(r, "idle", mem[r]) /\ UNCHANGED jobs
  BY <1>0, <1>1, <1>3, HolderStep
<1>4. QED
  BY <1>2, <1>3 DEF SaveUpdate

LEMMA DeletePointVector ==
    ASSUME GroundInv, VectorInv, JobsApart, VectorFaultsOnly, NEW r \in Requests, DeletePoint(r)
    PROVE  VectorInv'
<1> DEFINE j == mem[r].id
           doc == Unsynced(mem[r].doc)
           n == Assigned(mem[r], doc)
<1>0. /\ mem[r] \in Mem /\ j \in Ids /\ mem[r].doc \in Job
      /\ jobs[j] = mem[r].doc /\ mem[r].dirty = {} /\ jobs[j] # None
      /\ mem[r].op = "remove" \/ mem[r].doc.status # "active"
      /\ QdrantEnabled
  BY HolderPending DEF Holding, DeletePoint, At, Pending
<1>1. /\ UNCHANGED jobs /\ points'[j] = None
      /\ \A i \in Ids \ {j} : points'[i] = points[i]
  BY <1>0 DEF DeletePoint, VectorFaultsOnly, WithoutPoint, GroundInv, TypeOK
<1>2. Goto(r, "save_removed", n)
  BY DEF DeletePoint, GotoRemoval
<1>3. doc \in Job /\ doc.hash = None /\ doc.status = mem[r].doc.status
  BY <1>0, SyncDocs
<1> HIDE DEF doc
<1>4. /\ n.doc = doc /\ n.op = mem[r].op /\ n.id = j /\ n.todo = mem[r].todo
      /\ n.dirty = {f \in SavedFields : doc[f] # mem[r].doc[f]}
  BY <1>0, <1>3, AssignedLocals
<1> HIDE DEF n
<1>5. Agree(n, jobs[j])
  BY <1>0, <1>4 DEF Agree
<1>6. Pending("save_removed", n, jobs[j], None)
  BY <1>0, <1>3, <1>4, <1>5 DEF Pending
<1>7. QED
  BY <1>0, <1>1, <1>2, <1>4, <1>6, HolderStep

LEMMA UpsertPointVector ==
    ASSUME GroundInv, VectorInv, JobsApart, VectorFaultsOnly, NEW r \in Requests, UpsertPoint(r)
    PROVE  VectorInv'
<1> DEFINE j == mem[r].id
           doc == [mem[r].doc EXCEPT !.hash = mem[r].doc.text, !.syncError = FALSE]
           n == Assigned(mem[r], doc)
<1>0. /\ mem[r] \in Mem /\ j \in Ids /\ mem[r].doc \in Job
      /\ jobs[j] = mem[r].doc /\ mem[r].dirty = {} /\ jobs[j] # None
      /\ mem[r].doc.status = "active" /\ points[j] = mem[r].doc.hash
      /\ QdrantEnabled
  BY HolderPending DEF Holding, UpsertPoint, At, Pending
<1>1. UNCHANGED jobs /\ points \in [Ids -> Texts \cup {None}]
  BY DEF UpsertPoint, GroundInv, TypeOK
<1>2. CASE points' = WithPoint(j, mem[r].doc.text) /\ Goto(r, "save_synced", n)
  <2>1. /\ doc \in Job /\ doc.hash = mem[r].doc.text /\ doc.text = mem[r].doc.text
        /\ doc.status = "active" /\ ~doc.syncError
    BY <1>0 DEF Job
  <2> HIDE DEF doc
  <2>2. /\ n.doc = doc /\ n.op = mem[r].op /\ n.id = j /\ n.todo = mem[r].todo
        /\ n.dirty = {f \in SavedFields : doc[f] # mem[r].doc[f]}
    BY <1>0, <2>1, AssignedLocals
  <2> HIDE DEF n
  <2>3. Agree(n, jobs[j])
    BY <1>0, <2>2 DEF Agree
  <2>4. points'[j] = mem[r].doc.text /\ \A i \in Ids \ {j} : points'[i] = points[i]
    BY <1>0, <1>1, <1>2 DEF WithPoint
  <2>5. Pending("save_synced", n, jobs[j], points'[j])
    BY <1>0, <2>1, <2>2, <2>3, <2>4 DEF Pending
  <2>6. QED
    BY <1>0, <1>1, <1>2, <2>2, <2>4, <2>5, HolderStep
<1>3. CASE Goto(r, "record_failure", mem[r]) /\ UNCHANGED points
  <2>1. Pending("record_failure", mem[r], jobs[j], points[j])
    BY <1>0 DEF Pending
  <2>2. QED
    BY <1>0, <1>1, <1>3, <2>1, HolderStep
<1>4. QED
  BY <1>2, <1>3 DEF UpsertPoint, VectorFaultsOnly

LEMMA SavesVector ==
    ASSUME GroundInv, VectorInv, JobsApart, VectorFaultsOnly, NEW r \in Requests,
           SaveRemoved(r) \/ SaveSynced(r) \/ RecordFailure(r)
    PROVE  VectorInv'
<1> DEFINE j == mem[r].id
<1>0. /\ mem[r] \in Mem /\ j \in Ids /\ mem[r].doc \in Job /\ jobs[j] \in Job /\ jobs[j] # None
      /\ Pending(pc[r], mem[r], jobs[j], points[j]) /\ Local(pc[r], mem[r])
      /\ Done(mem[r]) \in {"idle", "next"} /\ mem[r].doc # None
  BY HolderPending, HeldLocals, FreshTypes DEF Holding, SaveRemoved, SaveSynced, RecordFailure, At
<1>1. jobs \in [Ids -> Job \cup {None}] /\ QdrantEnabled
  BY <1>0 DEF GroundInv, TypeOK, Pending, SaveRemoved, SaveSynced, RecordFailure, At
<1>2. CASE SaveRemoved(r)
  <2> DEFINE ok == IF mem[r].op = "remove" THEN "delete_job" ELSE Done(mem[r])
             n == [mem[r] EXCEPT !.dirty = {}]
  <2>1. /\ Agree(mem[r], jobs[j]) /\ mem[r].doc.hash = None /\ points[j] = None
        /\ mem[r].dirty \subseteq {"hash", "syncError"}
        /\ mem[r].op = "remove" \/ mem[r].doc.status # "active"
    BY <1>0, <1>2 DEF Pending, Local, SaveRemoved, At
  <2>2. Save(r, mem[r], ok, Done(mem[r]))
    BY <1>2 DEF SaveRemoved
  <2>3. /\ jobs' = [jobs EXCEPT ![j] = mem[r].doc] /\ UNCHANGED points
        /\ jobs'[j] = mem[r].doc /\ Goto(r, ok, n)
    BY <1>0, <2>1, <2>2, SaveGoes
  <2>4. n.id = j /\ n.op = mem[r].op /\ n.todo = mem[r].todo
    BY <1>0 DEF Mem
  <2>5. ok \in {"idle", "next"} => Settled(mem[r].doc, points[j])
    BY <1>0, <1>1, <2>1 DEF Settled
  <2>6. ok \notin {"idle", "next"} => Pending(ok, n, mem[r].doc, points[j])
    BY <1>0, <1>1, <2>1 DEF Pending
  <2> HIDE DEF ok, n
  <2>7. QED
    BY <1>0, <1>1, <2>3, <2>4, <2>5, <2>6, HolderStep
<1>3. CASE SaveSynced(r)
  <2> DEFINE n == [mem[r] EXCEPT !.dirty = {}]
  <2>1. /\ Agree(mem[r], jobs[j]) /\ mem[r].doc.status = "active" /\ ~mem[r].doc.syncError
        /\ points[j] = mem[r].doc.hash /\ points[j] = mem[r].doc.text
        /\ mem[r].dirty \subseteq {"hash", "syncError"}
    BY <1>0, <1>3 DEF Pending, Local, SaveSynced, At
  <2>2. Save(r, mem[r], Done(mem[r]), "record_failure")
    BY <1>3 DEF SaveSynced
  <2>3. /\ jobs' = [jobs EXCEPT ![j] = mem[r].doc] /\ UNCHANGED points
        /\ jobs'[j] = mem[r].doc /\ Goto(r, Done(mem[r]), n)
    BY <1>0, <2>1, <2>2, SaveGoes
  <2>4. n.id = j /\ n.op = mem[r].op /\ n.todo = mem[r].todo
    BY <1>0 DEF Mem
  <2>5. Settled(mem[r].doc, points[j])
    BY <1>0, <1>1, <2>1 DEF Settled
  <2> HIDE DEF n
  <2>6. QED
    BY <1>0, <1>1, <2>3, <2>4, <2>5, HolderStep
<1>4. CASE RecordFailure(r)
  <2> DEFINE doc == [mem[r].doc EXCEPT !.syncError = TRUE]
             m == Assigned(mem[r], doc)
             n == [m EXCEPT !.dirty = {}]
  <2>1. /\ jobs[j] = mem[r].doc /\ mem[r].doc.status = "active"
        /\ points[j] = mem[r].doc.hash /\ mem[r].dirty = {}
    BY <1>0, <1>4 DEF Pending, RecordFailure, At
  <2>2. /\ doc \in Job /\ doc.status = "active" /\ doc.hash = mem[r].doc.hash /\ doc.syncError
        /\ {f \in SavedFields : doc[f] # mem[r].doc[f]} \subseteq {"syncError"}
    BY <1>0, <2>1, SyncDocs DEF Job
  <2>3. Save(r, m, Done(m), Done(m))
    BY <1>4 DEF RecordFailure
  <2> HIDE DEF doc
  <2>4. /\ m \in Mem /\ m.id = j /\ m.op = mem[r].op /\ m.todo = mem[r].todo /\ m.doc = doc
        /\ m.dirty = {f \in SavedFields : doc[f] # mem[r].doc[f]}
    BY <1>0, <2>1, <2>2, AssignedLocals
  <2> HIDE DEF m
  <2>5. Agree(m, jobs[j]) /\ m.dirty \subseteq {"hash", "syncError"}
    BY <2>1, <2>2, <2>4 DEF Agree
  <2>6. /\ jobs' = [jobs EXCEPT ![j] = doc] /\ UNCHANGED points
        /\ jobs'[j] = doc /\ Goto(r, Done(m), n)
    BY <1>0, <2>2, <2>3, <2>4, <2>5, SaveGoes
  <2>7. n.id = j /\ n.op = mem[r].op /\ n.todo = mem[r].todo /\ Done(m) = Done(mem[r])
    BY <2>4 DEF Mem, Done
  <2>8. Settled(doc, points[j])
    BY <1>1, <2>1, <2>2, FreshTypes DEF Settled
  <2> HIDE DEF n
  <2>9. QED
    BY <1>0, <1>1, <2>6, <2>7, <2>8, HolderStep
<1>5. QED
  BY <1>2, <1>3, <1>4

LEMMA DeleteJobVector ==
    ASSUME GroundInv, VectorInv, JobsApart, VectorFaultsOnly, NEW r \in Requests, DeleteJob(r)
    PROVE  VectorInv'
<1> DEFINE j == mem[r].id
<1>0. mem[r] \in Mem /\ j \in Ids /\ points[j] = None
  BY HolderPending DEF Holding, DeleteJob, At, Pending
<1>1. /\ jobs'[j] = None /\ \A i \in Ids \ {j} : jobs'[i] = jobs[i]
      /\ UNCHANGED points /\ Goto(r, "idle", mem[r])
  BY <1>0 DEF DeleteJob, VectorFaultsOnly, GroundInv, TypeOK
<1>2. Settled(None, None)
  BY DEF Settled
<1>3. QED
  BY <1>0, <1>1, <1>2, HolderStep

\* A job that the catalogue is about to get is in nobody's hands yet.
LEMMA NewIsMine ==
    ASSUME GroundInv, VectorInv, NEW r \in Requests, NEW j \in Ids, jobs[j] = None
    PROVE  Mine(r, j) /\ mem[r].id # j
<1>1. ASSUME NEW q \in Requests PROVE mem[q].id # j
  BY DEF VectorInv, PendingInv, Pending
<1>2. ASSUME NEW q \in Requests, mem[q].op = "embed", NEW k \in DOMAIN mem[q].todo
      PROVE  mem[q].todo[k].id # j
  <2>1. mem[q].todo \in Seq([id: Ids, doc: ActiveJob]) /\ LoadedBatch(mem[q], jobs)
    BY <1>2, HeldLocals DEF VectorInv, BatchInv
  <2>2. jobs[mem[q].todo[k].id] = mem[q].todo[k].doc /\ mem[q].todo[k].doc \in Job
    BY <1>2, <2>1, BatchIds DEF LoadedBatch
  <2>3. QED
    BY <2>2, FreshTypes
<1>3. QED
  BY <1>1, <1>2 DEF Mine

LEMMA InsertedVector ==
    ASSUME GroundInv, VectorInv, NEW r \in Requests, Inserted(r), UNCHANGED points,
           mem[r].op \in {"create", "seed"}, mem[r].doc \in FreshJob,
           mem[r].dirty = {}, mem[r].id = NoId
    PROVE  VectorInv'
<1> DEFINE j == lastId'
           m == [mem[r] EXCEPT !.id = j]
           label == SyncLabel(m)
           n == Removal(label, m)
<1>0. /\ mem[r] \in Mem /\ mem[r].doc \in Job
      /\ mem[r].op = "seed" => mem[r].todo \in Seq([id: {NoId}, doc: FreshJob])
      /\ jobs \in [Ids -> Job \cup {None}] /\ lastId \in Nat
      /\ lastId < MaxJobs /\ j = lastId + 1 /\ jobs' = [jobs EXCEPT ![j] = mem[r].doc]
      /\ GotoRemoval(r, label, m)
  BY HeldLocals DEF FreshJob, GroundInv, TypeOK, Inserted
<1>1. j \in Ids /\ jobs[j] = None
  BY <1>0, ConstantsAssumption DEF Ids, GroundInv, IdsInv
<1>2. Mine(r, j) /\ \A q \in Requests : mem[q].id # j
  BY <1>1, NewIsMine
<1>3. Settled(None, points[j])
  BY <1>1, <1>2 DEF VectorInv, SettledInv
<1>4. jobs'[j] = mem[r].doc /\ \A i \in Ids \ {j} : jobs'[i] = jobs[i]
  BY <1>0, <1>1
<1>5. Ready(m) /\ m.op # "remove" /\ m.op # "embed" /\ m.id = j /\ m.doc = mem[r].doc
  BY <1>0, <1>1 DEF Ready, Mem
<1>6. Goto(r, label, n)
  BY <1>0 DEF GotoRemoval, Removal
<1> HIDE DEF j, m
<1>7. points[j] = m.doc.hash /\ (~QdrantEnabled => points[j] = None)
  BY <1>0, <1>3, <1>5 DEF Settled, FreshJob
<1>8. n.id = j /\ n.op # "embed"
  BY <1>5, SyncLabels
<1>9. /\ label \in {"idle", "next"} => Settled(mem[r].doc, points[j])
      /\ label \notin {"idle", "next"} => Pending(label, n, mem[r].doc, points[j])
  BY <1>5, <1>7, SyncPending
<1> HIDE DEF label, n
<1>10. QED
  BY <1>0, <1>1, <1>2, <1>4, <1>6, <1>8, <1>9, StepFrame

LEMMA UpsertVector ==
    ASSUME GroundInv, VectorInv, JobsApart, VectorFaultsOnly, NEW r \in Requests, Upsert(r)
    PROVE  VectorInv'
<1>0. /\ mem[r] \in Mem /\ mem[r].id = NoId /\ mem[r].dirty = {}
      /\ mem[r].op \in {"create", "seed"} /\ mem[r].doc \in FreshJob /\ mem[r].doc \in Job
      /\ mem[r].op = "seed" => mem[r].todo \in Seq([id: {NoId}, doc: FreshJob])
  BY HeldLocals DEF Local, Holding, Upsert, At, FreshJob
<1>1. /\ UNCHANGED points /\ jobs \in [Ids -> Job \cup {None}] /\ lastId \in Nat /\ "mongo" \notin Faults
  <2>1. UNCHANGED points
    BY DEF Upsert
  <2>2. jobs \in [Ids -> Job \cup {None}] /\ lastId \in Nat
    BY DEF GroundInv, TypeOK
  <2>3. QED
    BY <2>1, <2>2 DEF VectorFaultsOnly
<1>2. CASE \E i \in Existing : LET stored == Upserted(jobs[i], mem[r].doc)
                                  m == [mem[r] EXCEPT !.id = i, !.doc = stored]
                              IN  /\ jobs[i].source = mem[r].doc.source
                                  /\ jobs' = [jobs EXCEPT ![i] = stored]
                                  /\ GotoRemoval(r, SyncLabel(m), m)
  <2> DEFINE stored(i) == Upserted(jobs[i], mem[r].doc)
             m(i) == [mem[r] EXCEPT !.id = i, !.doc = stored(i)]
  <2>1. PICK i \in Existing : /\ jobs[i].source = mem[r].doc.source
                              /\ jobs' = [jobs EXCEPT ![i] = stored(i)]
                              /\ GotoRemoval(r, SyncLabel(m(i)), m(i))
    BY <1>2
  <2> DEFINE label == SyncLabel(m(i))
             n == Removal(label, m(i))
  <2>2. i \in Ids /\ jobs[i] \in Job /\ jobs[i] # None
    BY <1>1 DEF Existing
  <2>3. Mine(r, i)
    BY <1>0, <2>1, <2>2, TouchedIsMine DEF Touches, At, Upsert
  <2>4. Settled(jobs[i], points[i])
    <3>1. \A q \in Requests : mem[q].id # i
      BY <1>0, <2>2, <2>3, ConstantsAssumption DEF Mine, NoId, Ids
    <3>2. QED
      BY <2>2, <3>1 DEF VectorInv, SettledInv
  <2>5. stored(i) \in Job /\ stored(i).hash = jobs[i].hash
    BY <1>0, <2>2, UpsertedType
  <2>6. jobs'[i] = stored(i) /\ \A j \in Ids \ {i} : jobs'[j] = jobs[j]
    BY <1>1, <2>1, <2>2
  <2> HIDE DEF stored
  <2>7. Ready(m(i)) /\ m(i).op # "remove" /\ m(i).op # "embed" /\ m(i).id = i /\ m(i).doc = stored(i)
    BY <1>0, <2>2, <2>5 DEF Ready, Mem
  <2>8. points[i] = m(i).doc.hash /\ (~QdrantEnabled => points[i] = None)
    BY <2>2, <2>4, <2>5, <2>7 DEF Settled
  <2>9. Goto(r, label, n)
    BY <2>1 DEF GotoRemoval, Removal
  <2> HIDE DEF m
  <2>10. n.id = i /\ n.op # "embed"
    BY <2>7, SyncLabels
  <2>11. /\ label \in {"idle", "next"} => Settled(stored(i), points[i])
         /\ label \notin {"idle", "next"} => Pending(label, n, stored(i), points[i])
    BY <2>7, <2>8, SyncPending
  <2> HIDE DEF label, n
  <2>12. QED
    BY <1>0, <1>1, <2>2, <2>3, <2>6, <2>9, <2>10, <2>11, StepFrame
<1>3. CASE Inserted(r)
  BY <1>0, <1>1, <1>3, InsertedVector
<1>4. CASE Goto(r, "insert", mem[r]) /\ UNCHANGED <<jobs, lastId>>
  <2>1. NoId \notin Ids /\ mem[r].op # "embed"
    BY <1>0, ConstantsAssumption DEF NoId, Ids
  <2>2. QED
    BY <1>0, <1>1, <1>4, <2>1, StepFrame
<1>5. QED
  BY <1>1, <1>2, <1>3, <1>4 DEF Upsert

LEMMA InsertVector ==
    ASSUME GroundInv, VectorInv, NEW r \in Requests, Insert(r)
    PROVE  VectorInv'
BY InsertedVector, HeldLocals DEF Insert, At, Local, Holding

LEMMA NextOfBatchVector ==
    ASSUME GroundInv, VectorInv, JobsApart, NEW r \in Requests, NextOfBatch(r)
    PROVE  VectorInv'
<1>0. /\ mem[r] \in Mem /\ mem[r].id = NoId /\ mem[r].dirty = {}
      /\ mem[r].op \in {"seed", "embed"}
      /\ mem[r].op = "embed" => /\ mem[r].todo \in Seq([id: Ids, doc: ActiveJob])
                                /\ LoadedBatch(mem[r], jobs)
      /\ mem[r].op = "seed" => mem[r].todo \in Seq([id: {NoId}, doc: FreshJob])
  BY HeldLocals DEF Local, Holding, NextOfBatch, At, VectorInv, BatchInv
<1>1. UNCHANGED <<jobs, points, lastId>> /\ NoId \notin Ids
  BY ConstantsAssumption DEF NextOfBatch, NoId, Ids
<1> DEFINE first == Head(mem[r].todo)
           taken == [mem[r] EXCEPT !.id = first.id, !.doc = first.doc, !.todo = Tail(mem[r].todo)]
<1>2. CASE mem[r].todo = <<>> /\ Goto(r, "idle", mem[r])
  BY <1>0, <1>1, <1>2, StepFrame
<1>3. CASE mem[r].todo # <<>> /\ mem[r].op = "seed" /\ Goto(r, "upsert", taken)
  <2>1. first \in [id: {NoId}, doc: FreshJob]
    BY <1>0, <1>3, HeadTailProperties
  <2>2. taken.id = NoId /\ taken.op = "seed"
    BY <1>0, <1>3, <2>1 DEF Mem
  <2> HIDE DEF taken
  <2>3. QED
    BY <1>0, <1>1, <1>3, <2>2, StepFrame
<1>4. CASE mem[r].todo # <<>> /\ mem[r].op = "embed" /\ Goto(r, SyncLabel(taken), taken)
  <2> DEFINE todo == mem[r].todo
             j == first.id
             label == SyncLabel(taken)
  <2>1. /\ todo \in Seq([id: Ids, doc: ActiveJob]) /\ todo # <<>>
        /\ first = todo[1] /\ 1 \in DOMAIN todo
        /\ Tail(todo) \in Seq([id: Ids, doc: ActiveJob])
        /\ \A k \in DOMAIN Tail(todo) : k + 1 \in DOMAIN todo /\ Tail(todo)[k] = todo[k + 1] /\ k + 1 # 1
    BY <1>0, <1>4, HeadTailProperties, LenProperties, EmptySeq
  <2>2. j \in Ids /\ first.doc \in Job /\ first.doc.status = "active"
    BY <2>1, BatchIds
  <2>3. jobs[j] = first.doc /\ \A k \in DOMAIN Tail(todo) : Tail(todo)[k].id # j
    BY <1>0, <1>4, <2>1 DEF LoadedBatch
  <2>4. Mine(r, j)
    BY <2>1, <2>2, TouchedIsMine DEF Touches
  <2>5. Settled(jobs[j], points[j])
    <3>1. \A q \in Requests : mem[q].id # j
      BY <1>0, <1>1, <2>2, <2>4 DEF Mine
    <3>2. QED
      BY <2>2, <3>1 DEF VectorInv, SettledInv
  <2>6. Tail(todo) \in Seq([id: Ids \cup {NoId}, doc: Job])
    BY <2>1, TodoType
  <2>7. /\ taken \in Mem /\ taken.id = j /\ taken.op = "embed" /\ taken.doc = first.doc
        /\ taken.todo = Tail(todo) /\ taken.dirty = {}
    BY <1>0, <1>4, <2>2, <2>6 DEF Mem
  <2>8. Goto(r, label, taken)
    BY <1>4
  <2>9. \A k \in DOMAIN Tail(todo) :
           /\ jobs[Tail(todo)[k].id] = Tail(todo)[k].doc
           /\ \A l \in DOMAIN Tail(todo) : Tail(todo)[l].id = Tail(todo)[k].id => k = l
    \* Members of the tail are members of the batch, one place on.
    <3>1. DOMAIN Tail(todo) \subseteq Nat
      BY <2>1, LenProperties
    <3>2. QED
      BY <1>0, <1>4, <2>1, <3>1 DEF LoadedBatch
  <2> HIDE DEF first, taken, todo, j
  <2>10. LoadedBatch(taken, jobs)
    BY <2>3, <2>7, <2>9 DEF LoadedBatch
  <2>11. Ready(taken)
    BY <2>1, <2>2, <2>7 DEF Ready
  <2>12. points[j] = taken.doc.hash /\ (~QdrantEnabled => points[j] = None)
    BY <2>2, <2>3, <2>5, <2>7, FreshTypes DEF Settled
  <2>13. label \in {"upsert_point", "next"} /\ Removal(label, taken) = taken
    BY <2>2, <2>7 DEF SyncLabel, Done, Removal
  <2>14. /\ label \in {"idle", "next"} => Settled(jobs[j], points[j])
         /\ label \notin {"idle", "next"} => Pending(label, taken, jobs[j], points[j])
    BY <2>3, <2>5, <2>7, <2>11, <2>12, <2>13, SyncPending
  <2> HIDE DEF label
  <2>15. QED
    BY <1>0, <1>1, <2>1, <2>2, <2>4, <2>7, <2>8, <2>10, <2>14, StepFrame
<1>5. QED
  BY <1>2, <1>3, <1>4 DEF NextOfBatch

\* A request that takes a job up is alone with it from then on.
LEMMA RequestVector ==
    ASSUME GroundInv, GroundInv', VectorInv, JobsApart', NEW r \in Requests, Request(r)
    PROVE  VectorInv'
<1>0. /\ mem[r].id = NoId /\ UNCHANGED <<jobs, points, lastId>> /\ NoId \notin Ids
      /\ \A i \in Existing : i \in Ids /\ jobs[i] \in Job /\ jobs[i] # None
  <2>1. mem[r].id = NoId /\ UNCHANGED <<jobs, points, lastId>>
    BY HeldLocals DEF Local, Holding, Request, Begin, At, BeginCreate, BeginSeed, BeginUpdate,
       BeginRemove, BeginEmbed
  <2>2. QED
    BY <2>1, ConstantsAssumption DEF NoId, Ids, Existing, GroundInv, TypeOK
<1>1. ASSUME NEW i \in Ids, NEW label, label \notin {"idle", "next"}, NEW n, n.id = i,
             Goto(r, label, n)
      PROVE  Mine(r, i) /\ Settled(jobs[i], points[i])
  <2>1. mem'[r] = n /\ OthersStay(r)
    BY <1>1, GotoEffect DEF GroundInv, Kept
  <2>2. Mine(r, i)
    BY <1>1, <2>1 DEF JobsApart, Touches, Mine, OthersStay
  <2>3. \A q \in Requests : mem[q].id # i
    BY <1>0, <2>2 DEF Mine
  <2>4. QED
    BY <2>2, <2>3 DEF VectorInv, SettledInv
<1>2. CASE BeginCreate(r)
  <2> DEFINE m(doc) == [NoMem EXCEPT !.op = "create", !.doc = doc]
  <2>1. \A doc : m(doc).id = NoId /\ m(doc).op = "create"
    BY DEF NoMem
  <2>2. \E doc : Goto(r, "upsert", m(doc))
    BY <1>2 DEF BeginCreate
  <2> HIDE DEF m
  <2>3. PICK doc : Goto(r, "upsert", m(doc))
    BY <2>2
  <2>4. QED
    BY <1>0, <2>1, <2>3, StepFrame
<1>3. CASE BeginSeed(r)
  <2> DEFINE m(todo) == [NoMem EXCEPT !.op = "seed", !.todo = todo]
  <2>1. \A todo : m(todo).id = NoId /\ m(todo).op = "seed"
    BY DEF NoMem
  <2>2. \E todo : Goto(r, "next", m(todo))
    BY <1>3 DEF BeginSeed
  <2> HIDE DEF m
  <2>3. PICK todo : Goto(r, "next", m(todo))
    BY <2>2
  <2>4. QED
    BY <1>0, <2>1, <2>3, StepFrame
<1>4. CASE BeginEmbed(r)
  <2> DEFINE m(todo) == [NoMem EXCEPT !.op = "embed", !.todo = todo]
  <2>1. PICK order \in Orders(Active) :
           Goto(r, "next", m([k \in DOMAIN order |-> [id |-> order[k], doc |-> jobs[order[k]]]]))
    BY <1>4 DEF BeginEmbed
  <2> DEFINE todo == [k \in DOMAIN order |-> [id |-> order[k], doc |-> jobs[order[k]]]]
  <2>2. /\ todo \in Seq([id: Ids, doc: ActiveJob])
        /\ \A k, l \in DOMAIN order : order[k] = order[l] => k = l
    BY EmbedTodo
  <2>3. \A k \in DOMAIN todo : todo[k].id # NoId
    BY <2>2, BatchIds
  <2>4. /\ \A k \in DOMAIN todo : /\ jobs[todo[k].id] = todo[k].doc /\ todo[k].id # NoId
                                  /\ \A l \in DOMAIN todo : todo[l].id = todo[k].id => k = l
    BY <2>2, <2>3
  <2> HIDE DEF todo
  <2>5. /\ m(todo).id = NoId /\ m(todo).op = "embed" /\ m(todo).todo = todo
        /\ Goto(r, "next", m(todo))
    BY <2>1 DEF NoMem, todo
  <2> HIDE DEF m
  <2>6. LoadedBatch(m(todo), jobs')
    BY <1>0, <2>4, <2>5 DEF LoadedBatch
  <2>7. QED
    BY <1>0, <2>2, <2>5, <2>6, StepFrame
<1>5. CASE BeginUpdate(r)
  <2> DEFINE m(i) == [NoMem EXCEPT !.op = "update", !.id = i, !.doc = jobs[i]]
  <2>1. PICK i \in Existing : \E doc \in Job : Goto(r, "save_update", Assigned(m(i), doc))
    <3>1. PICK i \in Existing, s \in Status \cup {None}, t \in Texts \cup {None},
               k \in Sources \cup {None} :
             Goto(r, "save_update",
                  Assigned(m(i), [jobs[i] EXCEPT !.status = IF s = None THEN @ ELSE s,
                                                 !.text = IF t = None THEN @ ELSE t,
                                                 !.source = IF k = None THEN @ ELSE k]))
      BY <1>5 DEF BeginUpdate
    <3> DEFINE doc == [jobs[i] EXCEPT !.status = IF s = None THEN @ ELSE s,
                                      !.text = IF t = None THEN @ ELSE t,
                                      !.source = IF k = None THEN @ ELSE k]
    <3>2. doc \in Job
      BY <1>0 DEF Job
    <3>3. Goto(r, "save_update", Assigned(m(i), doc))
      BY <3>1
    <3> HIDE DEF doc, m
    <3>4. QED
      BY <3>2, <3>3
  <2>2. PICK doc \in Job : Goto(r, "save_update", Assigned(m(i), doc))
    BY <2>1
  <2>3. m(i) \in Mem /\ m(i).op = "update" /\ m(i).id = i /\ m(i).doc = jobs[i] /\ m(i).dirty = {}
    BY <1>0, FreshTypes DEF Mem, NoMem
  <2> HIDE DEF m
  <2> DEFINE n == Assigned(m(i), doc)
  <2>4. /\ n.op = "update" /\ n.id = i /\ n.doc = doc
        /\ n.dirty = {f \in SavedFields : doc[f] # jobs[i][f]} /\ Goto(r, "save_update", n)
    BY <2>2, <2>3, AssignedLocals
  <2> HIDE DEF n
  <2>5. Mine(r, i) /\ Settled(jobs[i], points[i])
    BY <1>0, <1>1, <2>4
  <2>6. Agree(n, jobs[i])
    BY <2>4 DEF Agree
  <2>7. Pending("save_update", n, jobs[i], points[i])
    BY <1>0, <2>5, <2>6 DEF Pending, Settled
  <2>8. QED
    BY <1>0, <2>4, <2>5, <2>7, StepFrame
<1>6. CASE BeginRemove(r)
  <2> DEFINE m(i) == [NoMem EXCEPT !.op = "remove", !.id = i, !.doc = jobs[i]]
  <2>1. PICK i \in Existing : GotoRemoval(r, RemoveLabel(m(i)), m(i))
    BY <1>6 DEF BeginRemove
  <2> DEFINE label == RemoveLabel(m(i))
             n == Removal(label, m(i))
  <2>2. Ready(m(i)) /\ m(i).op = "remove" /\ m(i).id = i /\ m(i).doc = jobs[i]
    BY <1>0, FreshTypes DEF Ready, Mem, NoMem
  <2>3. Goto(r, label, n)
    BY <2>1 DEF GotoRemoval, Removal
  <2>4. label \notin {"idle", "next"}
    BY <2>2 DEF RemoveLabel
  <2> HIDE DEF m
  <2>5. n.id = i /\ n.op = "remove"
    BY <2>2, SyncLabels
  <2> HIDE DEF n
  <2>6. Mine(r, i) /\ Settled(jobs[i], points[i])
    BY <1>0, <1>1, <2>3, <2>4, <2>5
  <2>7. m(i).doc.hash = points[i] /\ (~QdrantEnabled => points[i] = None)
    BY <1>0, <2>2, <2>6 DEF Settled
  <2>8. Pending(label, n, jobs[i], points[i])
    BY <2>2, <2>4, <2>7, SyncPending DEF n
  <2> HIDE DEF label
  <2>9. QED
    BY <1>0, <2>3, <2>4, <2>5, <2>6, <2>8, StepFrame
<1>7. QED
  BY <1>2, <1>3, <1>4, <1>5, <1>6 DEF Request

LEMMA VectorInvHolds ==
    ASSUME VectorFaultsOnly
    PROVE  Spec /\ []JobsApart => []VectorInv
<1>1. Init => VectorInv
  <2>1. NoMem.id \notin Ids /\ NoMem.op # "embed"
    BY ConstantsAssumption DEF NoMem, NoId, Ids
  <2>2. QED
    BY <2>1 DEF Init, VectorInv, SettledInv, PendingInv, BatchInv, Settled
<1>2. /\ GroundInv /\ GroundInv' /\ JobsApart /\ JobsApart' /\ VectorInv /\ [Next]_vars
      => VectorInv'
  <2> SUFFICES ASSUME GroundInv, GroundInv', JobsApart, JobsApart', VectorInv, [Next]_vars
               PROVE  VectorInv'
    OBVIOUS
  <2>1. CASE UNCHANGED vars
    BY <2>1 DEF vars, VectorInv, SettledInv, PendingInv, BatchInv
  <2>2. ~Crash
    BY DEF Crash, VectorFaultsOnly
  <2>3. ASSUME NEW r \in Requests, Request(r) PROVE VectorInv'
    BY <2>3, RequestVector
  <2>4. ASSUME NEW r \in Requests, Step(r) PROVE VectorInv'
    BY <2>4, UpsertVector, InsertVector, SaveUpdateVector, DeletePointVector, UpsertPointVector,
       SavesVector, DeleteJobVector, NextOfBatchVector DEF Step
  <2>5. QED
    BY <2>1, <2>2, <2>3, <2>4 DEF Next
<1>3. QED
  BY <1>1, <1>2, GroundInvHolds, PTL DEF Spec

\* Between requests nobody has a job in hand.
LEMMA IdleSettled ==
    ASSUME GroundInv, VectorInv, AllIdle
    PROVE  \A i \in Ids : Settled(jobs[i], points[i])
<1>1. \A r \in Requests : mem[r].id = NoId
  BY HeldLocals DEF AllIdle, At, Local, Holding
<1>2. NoId \notin Ids
  BY ConstantsAssumption DEF NoId, Ids
<1>3. QED
  BY <1>1, <1>2 DEF VectorInv, SettledInv

LEMMA IdleVectors ==
    ASSUME GroundInv, VectorInv
    PROVE  ActiveJobHasItsVector /\ InactiveJobHasNoPoint
<1>1. ActiveJobHasItsVector
  <2> SUFFICES ASSUME AllIdle, QdrantEnabled, NEW i \in Active, ~jobs[i].syncError
               PROVE  points[i] = jobs[i].text
    BY DEF ActiveJobHasItsVector
  <2>1. QED
    BY IdleSettled DEF Active, Existing, Settled
<1>2. InactiveJobHasNoPoint
  <2> SUFFICES ASSUME AllIdle, NEW i \in Ids \ Active
               PROVE  points[i] = None
    BY DEF InactiveJobHasNoPoint
  <2>1. QED
    BY IdleSettled DEF Active, Existing, Settled
<1>3. QED
  BY <1>1, <1>2

\* However edits, closings, reopenings, seeds and batches follow one another,
\* the comparison of hashes skips no vector that has to be written: between
\* requests an active job has the vector of its text, or the error of the
\* failed sync (job-vector.service.ts:29-84).
THEOREM ActiveIsIndexed ==
    ASSUME VectorFaultsOnly
    PROVE  Spec /\ []JobsApart => []ActiveJobHasItsVector
<1>1. GroundInv /\ VectorInv => ActiveJobHasItsVector
  BY IdleVectors
<1>2. QED
  BY <1>1, GroundInvHolds, VectorInvHolds, PTL

\* Nor does removeJob take a job that is indexed for one that is not: between
\* requests a job that is closed, a draft or deleted has no point
\* (job-vector.service.ts:86-111, jobs.service.ts:143-170).
THEOREM InactiveIsNotIndexed ==
    ASSUME VectorFaultsOnly
    PROVE  Spec /\ []JobsApart => []InactiveJobHasNoPoint
<1>1. GroundInv /\ VectorInv => InactiveJobHasNoPoint
  BY IdleVectors
<1>2. QED
  BY <1>1, GroundInvHolds, VectorInvHolds, PTL

\* One request at a time is one way to keep them apart, the one the run
\* JobsSerial checks.
THEOREM OneAtATime ==
    ASSUME VectorFaultsOnly, \A q, r \in Requests : q = r
    PROVE  Spec => []ActiveJobHasItsVector /\ []InactiveJobHasNoPoint
<1>1. JobsApart
  BY DEF JobsApart
<1>2. []JobsApart
  BY <1>1, PTL
<1>3. QED
  BY <1>2, ActiveIsIndexed, InactiveIsNotIndexed, PTL

=============================================================================
