---------------------------- MODULE VectorClient ----------------------------
(***************************************************************************)
(* EmbeddingService and QdrantService for one collection: a point is       *)
(* embedded, with retries; the collection and its payload indexes are      *)
(* created when they are missing; the point is upserted or deleted.        *)
(* Resumes and Jobs take all this for one step each.                       *)
(***************************************************************************)
EXTENDS GeminiRetry

CONSTANTS
    Requests,       \* request slots: how many calls can be in flight
    PointIds,       \* the ids of points in the collection
    Contents,       \* what points are computed from
    IndexCount,     \* how many payload indexes the collection is given
    IndexFaults,    \* createPayloadIndex may fail
    None            \* no point, no answer

VARIABLES
    exists,         \* the collection exists in Qdrant
    indexes,        \* the payload indexes it has
    points,         \* its points, by id: the content the vector is computed from
    ensured,        \* payloadIndexesEnsured has the key of the collection
    pc,             \* the next step of each request
    mem,            \* the local variables of each request
    answer          \* the last answer each request got

qdrant == <<exists, indexes, points>>
vars == <<qdrant, ensured, pc, mem, answer>>

ASSUME IndexAssumption == IndexCount \in Nat \ {0}

\* None is neither a point nor what a caller sees of a call.
ASSUME NoneAssumption ==
    /\ None \notin PointIds \cup Contents
    /\ None \notin [point : PointIds, content : Contents \cup {None},
                  status : {"pending", "carried_out"}]

\* RESUME_PAYLOAD_INDEXES, JOB_PAYLOAD_INDEXES, in their order.
Indexes == 1..IndexCount

Labels == {"idle", "embed", "sleep", "get_collections", "create_collection",
           "create_index", "upsert", "upserted", "find_collection", "delete",
           "deleted"}

\* content: None when the call is a delete; next: the index to be created next.
Mem == [point : PointIds \cup {None}, content : Contents \cup {None},
        attempt : 1..MaxAttempts, next : Indexes]
NoMem == [point |-> None, content |-> None, attempt |-> 1, next |-> 1]

At(r, label) == pc[r] = label

Goto(r, label, m) ==
    /\ pc' = [pc EXCEPT ![r] = label]
    /\ mem' = [mem EXCEPT ![r] = m]
    /\ UNCHANGED answer

\* The call returns, or throws.
End(r, result) ==
    /\ pc' = [pc EXCEPT ![r] = "idle"]
    /\ mem' = [mem EXCEPT ![r] = NoMem]
    /\ answer' = [answer EXCEPT ![r] = result]

Begin(r, label, m) ==
    /\ At(r, "idle")
    /\ pc' = [pc EXCEPT ![r] = label]
    /\ mem' = [mem EXCEPT ![r] = m]
    /\ answer' = [answer EXCEPT ![r] = None]
    /\ UNCHANGED <<qdrant, ensured>>

----------------------------------------------------------------------------
(* embed, and then upsertResumePoint or upsertJobPoint *)

BeginUpsert(r) ==
    \E p \in PointIds, c \in Contents :
        Begin(r, "embed", [NoMem EXCEPT !.point = p, !.content = c])

\* requestEmbedding.  A vector that is empty or has the wrong size is an error
\* like one that Gemini rejects.
Embed(r) ==
    /\ At(r, "embed")
    /\ \/ Goto(r, "get_collections", [mem[r] EXCEPT !.attempt = 1])
       \/ \E message \in GeminiErrors :
             \/ Retries(mem[r].attempt, message) /\ Goto(r, "sleep", mem[r])
             \/ ~Retries(mem[r].attempt, message) /\ End(r, "error")
    /\ UNCHANGED <<qdrant, ensured>>

Sleep(r) ==
    /\ At(r, "sleep")
    /\ Goto(r, "embed", [mem[r] EXCEPT !.attempt = NextAttempt(@)])
    /\ UNCHANGED <<qdrant, ensured>>

\* A call to Qdrant is not carried out, and the request ends.
QdrantError(r) ==
    /\ pc[r] \in Labels \ {"idle", "embed", "sleep", "create_index"}
    /\ End(r, "error")
    /\ UNCHANGED <<qdrant, ensured>>

\* After ensureCollection: ensurePayloadIndexes looks into its cache.
AfterCollection == IF ensured THEN "upsert" ELSE "create_index"

GetCollections(r) ==
    /\ At(r, "get_collections")
    /\ Goto(r, IF exists THEN AfterCollection ELSE "create_collection", mem[r])
    /\ UNCHANGED <<qdrant, ensured>>

\* Qdrant turns down a collection that exists by now, and the request ends.
CreateCollection(r) ==
    /\ At(r, "create_collection")
    /\ \/ ~exists /\ exists' = TRUE /\ Goto(r, AfterCollection, mem[r])
       \/ exists /\ End(r, "error") /\ UNCHANGED exists
    /\ UNCHANGED <<indexes, points, ensured>>

\* Mutant: the key is cached before the loop.
CreateIndex_CachedFirst(r) ==
    /\ At(r, "create_index")
    /\ indexes' = indexes \cup {mem[r].next}
    /\ ensured' = TRUE
    /\ IF mem[r].next < IndexCount
       THEN Goto(r, "create_index", [mem[r] EXCEPT !.next = @ + 1])
       ELSE Goto(r, "upsert", [mem[r] EXCEPT !.next = 1])
    /\ UNCHANGED <<exists, points>>

\* Mutant: the loop has a turn too many.
CreateIndex_OneMore(r) ==
    /\ At(r, "create_index")
    /\ indexes' = indexes \cup {mem[r].next}
    /\ IF mem[r].next <= IndexCount
       THEN Goto(r, "create_index", [mem[r] EXCEPT !.next = @ + 1])
       ELSE Goto(r, "upsert", [mem[r] EXCEPT !.next = 1])
    /\ UNCHANGED <<exists, points, ensured>>

\* One turn of the loop in ensurePayloadIndexes.  An error is logged; after the
\* last turn the key is cached, whether or not all turns went well.
CreateIndex(r) ==
    /\ At(r, "create_index")
    /\ indexes' \in {indexes \cup {mem[r].next}} \cup (IF IndexFaults THEN {indexes} ELSE {})
    /\ \/ /\ mem[r].next < IndexCount
          /\ Goto(r, "create_index", [mem[r] EXCEPT !.next = @ + 1])
          /\ UNCHANGED ensured
       \/ /\ mem[r].next = IndexCount
          /\ ensured' = TRUE
          /\ Goto(r, "upsert", [mem[r] EXCEPT !.next = 1])
    /\ UNCHANGED <<exists, points>>

Upsert(r) ==
    /\ At(r, "upsert")
    /\ points' = [points EXCEPT ![mem[r].point] = mem[r].content]
    /\ Goto(r, "upserted", mem[r])
    /\ UNCHANGED <<exists, indexes, ensured>>

----------------------------------------------------------------------------
(* deletePoint *)

BeginDelete(r) ==
    \E p \in PointIds : Begin(r, "find_collection", [NoMem EXCEPT !.point = p])

\* Mutant: an error of getCollections counts as a missing collection.
FindCollection_Swallowed(r) ==
    /\ At(r, "find_collection")
    /\ \/ exists /\ Goto(r, "delete", mem[r])
       \/ End(r, "ok")
    /\ UNCHANGED <<qdrant, ensured>>

FindCollection(r) ==
    /\ At(r, "find_collection")
    /\ \/ exists /\ Goto(r, "delete", mem[r])
       \/ ~exists /\ End(r, "ok")
    /\ UNCHANGED <<qdrant, ensured>>

Delete(r) ==
    /\ At(r, "delete")
    /\ points' = [points EXCEPT ![mem[r].point] = None]
    /\ Goto(r, "deleted", mem[r])
    /\ UNCHANGED <<exists, indexes, ensured>>

\* wait: true: Qdrant answers when the point is there, or gone.  The answer may
\* be lost on its way (QdrantError).
Reply(r) ==
    /\ pc[r] \in {"upserted", "deleted"}
    /\ End(r, "ok")
    /\ UNCHANGED <<qdrant, ensured>>

\* PM2 starts a new process.
Restart ==
    /\ ensured' = FALSE
    /\ pc' = [r \in Requests |-> "idle"]
    /\ mem' = [r \in Requests |-> NoMem]
    /\ answer' = [r \in Requests |-> None]
    /\ UNCHANGED qdrant

----------------------------------------------------------------------------

Init ==
    /\ exists = FALSE /\ indexes = {}
    /\ points = [p \in PointIds |-> None]
    /\ ensured = FALSE
    /\ pc = [r \in Requests |-> "idle"]
    /\ mem = [r \in Requests |-> NoMem]
    /\ answer = [r \in Requests |-> None]

Step(r) ==
    \/ Embed(r) \/ Sleep(r) \/ GetCollections(r) \/ CreateCollection(r)
    \/ CreateIndex(r) \/ Upsert(r) \/ FindCollection(r) \/ Delete(r)
    \/ Reply(r) \/ QdrantError(r)

Next ==
    \/ \E r \in Requests : BeginUpsert(r) \/ BeginDelete(r) \/ Step(r)
    \/ Restart

Spec == Init /\ [][Next]_vars

\* Every call that was sent is answered or fails, and every timer goes off.
FairSpec == Spec /\ \A r \in Requests : WF_vars(Step(r))

----------------------------------------------------------------------------
(* Properties *)

\* Every variable has its type.
TypeOK ==
    /\ exists \in BOOLEAN
    /\ indexes \subseteq Indexes
    /\ points \in [PointIds -> Contents \cup {None}]
    /\ ensured \in BOOLEAN
    /\ pc \in [Requests -> Labels]
    /\ mem \in [Requests -> Mem]
    /\ answer \in [Requests -> {"ok", "error", None}]

\* Points are only ever in a collection that has all its payload indexes,
\* whichever requests and restarts meet in creating them.  (Filters on a
\* collection without them are slow, or are turned down by Qdrant Cloud.)
PointsHaveIndexes ==
    (\E p \in PointIds : points[p] # None) => exists /\ indexes = Indexes

\* The call of each request, as a caller sees it.
CallOf(r) ==
    IF At(r, "idle") THEN None
    ELSE [point |-> mem[r].point, content |-> mem[r].content,
          status |-> IF pc[r] \in {"upserted", "deleted"} THEN "carried_out" ELSE "pending"]

Store == INSTANCE PointStore WITH call <- [r \in Requests |-> CallOf(r)]

\* The services do what their callers rely on: an "ok" is never given for a
\* point that was not stored or deleted, nothing is stored or deleted that
\* nobody asked for, and every call is answered.
ImplementsPointStore == Store!FairSpec

=============================================================================
