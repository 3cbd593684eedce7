------------------------- MODULE VectorClientProofs -------------------------
(***************************************************************************)
(* Theorems about VectorClient, for any number of requests, points,        *)
(* attempts and payload indexes.                                           *)
(***************************************************************************)
EXTENDS VectorClient, TLAPS

\* What a request has in hand at each step: TypeOK is not inductive without it,
\* as the attempt after a sleep must be one that is left.
InHand ==
    \A r \in Requests :
        /\ pc[r] # "idle" => mem[r].point \in PointIds
        /\ pc[r] = "sleep" => mem[r].attempt < MaxAttempts
        /\ pc[r] \in {"find_collection", "delete", "deleted"} => mem[r].content = None

\* A point, or a request that is about to store one, needs the collection.
CollectionFirst ==
    /\ ~exists => \A p \in PointIds : points[p] = None
    /\ \A r \in Requests : pc[r] \in {"create_index", "upsert"} => exists

StoreInv == TypeOK /\ InHand /\ CollectionFirst

\* The loop over the indexes has created those before its next one.
IndexLoop ==
    /\ ensured => indexes = Indexes
    /\ \A r \in Requests :
          /\ pc[r] # "create_index" => mem[r].next = 1
          /\ \A k \in Indexes : pc[r] = "create_index" /\ k < mem[r].next => k \in indexes
          /\ pc[r] = "upsert" => indexes = Indexes

IndexInv == StoreInv /\ IndexLoop /\ PointsHaveIndexes

----------------------------------------------------------------------------

LEMMA InitStoreInv == Init => StoreInv
<1>1. 1 \in 1..MaxAttempts /\ 1 \in 1..IndexCount
  BY AttemptsAssumption, IndexAssumption
<1>2. NoMem \in Mem
  BY <1>1 DEF NoMem, Mem, Indexes
<1>. QED
  BY <1>2 DEF Init, StoreInv, TypeOK, InHand, CollectionFirst, Labels

\* What Goto, End and Begin leave in the two arrays.
LEMMA GotoType ==
    ASSUME TypeOK, NEW r \in Requests, NEW label \in Labels, NEW m \in Mem, Goto(r, label, m)
    PROVE  /\ pc' \in [Requests -> Labels] /\ mem' \in [Requests -> Mem]
           /\ pc'[r] = label /\ mem'[r] = m
           /\ \A q \in Requests \ {r} : pc'[q] = pc[q] /\ mem'[q] = mem[q]
           /\ answer' = answer
  BY DEF Goto, TypeOK

LEMMA EndType ==
    ASSUME TypeOK, NEW r \in Requests, NEW result \in {"ok", "error"}, End(r, result)
    PROVE  /\ pc' \in [Requests -> Labels] /\ mem' \in [Requests -> Mem]
           /\ pc'[r] = "idle" /\ mem'[r] = NoMem
           /\ \A q \in Requests \ {r} : pc'[q] = pc[q] /\ mem'[q] = mem[q]
           /\ answer' = [answer EXCEPT ![r] = result]
           /\ answer' \in [Requests -> {"ok", "error", None}]
<1>1. NoMem \in Mem
  BY AttemptsAssumption, IndexAssumption DEF NoMem, Mem, Indexes
<1>. QED
  BY <1>1 DEF End, TypeOK, Labels

LEMMA BeginType ==
    ASSUME TypeOK, NEW r \in Requests, NEW label \in Labels, NEW m \in Mem, Begin(r, label, m)
    PROVE  /\ pc' \in [Requests -> Labels] /\ mem' \in [Requests -> Mem]
           /\ pc[r] = "idle" /\ pc'[r] = label /\ mem'[r] = m
           /\ \A q \in Requests \ {r} : pc'[q] = pc[q] /\ mem'[q] = mem[q]
           /\ answer' = [answer EXCEPT ![r] = None]
           /\ answer' \in [Requests -> {"ok", "error", None}]
           /\ UNCHANGED <<exists, indexes, points, ensured>>
  BY DEF Begin, TypeOK, At, qdrant

----------------------------------------------------------------------------
(* StoreInv is inductive *)

LEMMA UpsertStarts ==
    ASSUME StoreInv, NEW r \in Requests, BeginUpsert(r)
    PROVE  StoreInv'
<1>1. PICK p \in PointIds, c \in Contents :
        Begin(r, "embed", [NoMem EXCEPT !.point = p, !.content = c])
  BY DEF BeginUpsert
<1>. DEFINE m == [NoMem EXCEPT !.point = p, !.content = c]
<1>2. m \in Mem /\ m.point = p
  <2>1. NoMem \in Mem
    BY AttemptsAssumption, IndexAssumption DEF NoMem, Mem, Indexes
  <2>. QED
    BY <2>1 DEF Mem
<1>. HIDE DEF m
<1>3. Begin(r, "embed", m)
  BY <1>1 DEF m
<1>. QED
  BY <1>2, <1>3, BeginType DEF StoreInv, TypeOK, InHand, CollectionFirst, Labels

LEMMA DeleteStarts ==
    ASSUME StoreInv, NEW r \in Requests, BeginDelete(r)
    PROVE  StoreInv'
<1>1. PICK p \in PointIds : Begin(r, "find_collection", [NoMem EXCEPT !.point = p])
  BY DEF BeginDelete
<1>. DEFINE m == [NoMem EXCEPT !.point = p]
<1>2. m \in Mem /\ m.point = p /\ m.content = None
  BY AttemptsAssumption, IndexAssumption DEF NoMem, Mem, Indexes
<1>. HIDE DEF m
<1>3. Begin(r, "find_collection", m)
  BY <1>1 DEF m
<1>. QED
  BY <1>2, <1>3, BeginType DEF StoreInv, TypeOK, InHand, CollectionFirst, Labels

\* A call that returns or throws, with what it has changed in Qdrant by then.
LEMMA EndKeepsStoreInv ==
    ASSUME StoreInv, NEW r \in Requests, NEW result \in {"ok", "error"}, End(r, result),
           UNCHANGED <<qdrant, ensured>>
    PROVE  StoreInv'
  BY EndType DEF StoreInv, TypeOK, InHand, CollectionFirst, qdrant

\* A step to another label that leaves Qdrant alone.
LEMMA GotoKeepsStoreInv ==
    ASSUME StoreInv, NEW r \in Requests, NEW label \in Labels, NEW m \in Mem,
           Goto(r, label, m), UNCHANGED <<qdrant, ensured>>,
           label # "idle" => m.point \in PointIds,
           label = "sleep" => m.attempt < MaxAttempts,
           label \in {"find_collection", "delete", "deleted"} => m.content = None,
           label \in {"create_index", "upsert"} => exists
    PROVE  StoreInv'
  BY GotoType DEF StoreInv, TypeOK, InHand, CollectionFirst, qdrant

LEMMA EmbedKeepsStoreInv ==
    ASSUME StoreInv, NEW r \in Requests, Embed(r)
    PROVE  StoreInv'
<1>1. mem[r] \in Mem /\ mem[r].point \in PointIds /\ UNCHANGED <<qdrant, ensured>>
  BY DEF StoreInv, TypeOK, InHand, Embed, At
<1>2. CASE Goto(r, "get_collections", [mem[r] EXCEPT !.attempt = 1])
  <2>. DEFINE m == [mem[r] EXCEPT !.attempt = 1]
  <2>1. m \in Mem /\ m.point = mem[r].point
    BY <1>1, AttemptsAssumption DEF Mem
  <2>. QED
    BY <1>1, <1>2, <2>1, GotoKeepsStoreInv DEF Labels
<1>3. ASSUME NEW message \in GeminiErrors, Retries(mem[r].attempt, message), Goto(r, "sleep", mem[r])
      PROVE  StoreInv'
  <2>1. mem[r].attempt < MaxAttempts
    BY <1>1, <1>3, AttemptsAssumption DEF Mem, Retries
  <2>. QED
    BY <1>1, <1>3, <2>1, GotoKeepsStoreInv DEF Labels
<1>4. CASE End(r, "error")
  BY <1>1, <1>4, EndKeepsStoreInv
<1>. QED
  BY <1>2, <1>3, <1>4 DEF Embed

LEMMA SleepKeepsStoreInv ==
    ASSUME StoreInv, NEW r \in Requests, Sleep(r)
    PROVE  StoreInv'
<1>. DEFINE m == [mem[r] EXCEPT !.attempt = NextAttempt(mem[r].attempt)]
<1>1. mem[r] \in Mem /\ mem[r].point \in PointIds /\ mem[r].attempt < MaxAttempts
  BY DEF StoreInv, TypeOK, InHand, Sleep, At
<1>2. m \in Mem /\ m.point = mem[r].point
  BY <1>1, AttemptsAssumption DEF Mem, NextAttempt
<1>3. Goto(r, "embed", m) /\ UNCHANGED <<qdrant, ensured>>
  BY DEF Sleep
<1>. QED
  BY <1>1, <1>2, <1>3, GotoKeepsStoreInv DEF Labels

LEMMA CreateCollectionKeepsStoreInv ==
    ASSUME StoreInv, NEW r \in Requests, CreateCollection(r)
    PROVE  StoreInv'
<1>1. mem[r] \in Mem /\ mem[r].point \in PointIds /\ AfterCollection \in {"upsert", "create_index"}
  BY DEF StoreInv, TypeOK, InHand, CreateCollection, At, AfterCollection
<1>2. CASE ~exists /\ exists' = TRUE /\ Goto(r, AfterCollection, mem[r])
  BY <1>1, <1>2, GotoType DEF StoreInv, TypeOK, InHand, CollectionFirst, CreateCollection, Labels
<1>3. CASE exists /\ End(r, "error") /\ UNCHANGED exists
  BY <1>3, EndKeepsStoreInv DEF CreateCollection, qdrant
<1>. QED
  BY <1>2, <1>3 DEF CreateCollection

LEMMA CreateIndexKeepsStoreInv ==
    ASSUME StoreInv, NEW r \in Requests, CreateIndex(r)
    PROVE  StoreInv'
<1>1. mem[r] \in Mem /\ mem[r].point \in PointIds /\ mem[r].next \in Indexes /\ exists
  BY DEF StoreInv, TypeOK, InHand, CollectionFirst, CreateIndex, At, Mem
<1>2. indexes' \subseteq Indexes /\ UNCHANGED <<exists, points>>
  BY <1>1 DEF StoreInv, TypeOK, CreateIndex
<1>3. CASE mem[r].next < IndexCount
  <2>. DEFINE m == [mem[r] EXCEPT !.next = mem[r].next + 1]
  <2>1. m \in Mem /\ m.point = mem[r].point
    BY <1>1, <1>3, IndexAssumption DEF Mem, Indexes
  <2>2. Goto(r, "create_index", m) /\ UNCHANGED ensured
    BY <1>3, IndexAssumption, <1>1 DEF CreateIndex, Indexes
  <2>. HIDE DEF m
  <2>. QED
    BY <1>1, <1>2, <2>1, <2>2, GotoType
    DEF StoreInv, TypeOK, InHand, CollectionFirst, Labels
<1>4. CASE mem[r].next = IndexCount
  <2>. DEFINE m == [mem[r] EXCEPT !.next = 1]
  <2>1. m \in Mem /\ m.point = mem[r].point
    BY <1>1, IndexAssumption DEF Mem, Indexes
  <2>2. Goto(r, "upsert", m) /\ ensured' = TRUE
    BY <1>4, IndexAssumption DEF CreateIndex
  <2>. HIDE DEF m
  <2>. QED
    BY <1>1, <1>2, <2>1, <2>2, GotoType
    DEF StoreInv, TypeOK, InHand, CollectionFirst, Labels
<1>. QED
  BY <1>3, <1>4 DEF CreateIndex

LEMMA UpsertKeepsStoreInv ==
    ASSUME StoreInv, NEW r \in Requests, Upsert(r)
    PROVE  StoreInv'
<1>1. mem[r] \in Mem /\ mem[r].point \in PointIds /\ mem[r].content \in Contents \cup {None} /\ exists
  BY DEF StoreInv, TypeOK, InHand, CollectionFirst, Upsert, At, Mem
<1>. QED
  BY <1>1, GotoType DEF Upsert, StoreInv, TypeOK, InHand, CollectionFirst, Labels

LEMMA DeleteKeepsStoreInv ==
    ASSUME StoreInv, NEW r \in Requests, Delete(r)
    PROVE  StoreInv'
<1>1. mem[r] \in Mem /\ mem[r].point \in PointIds /\ mem[r].content = None
  BY DEF StoreInv, TypeOK, InHand, Delete, At
<1>2. \A p \in PointIds : points'[p] \in {points[p], None}
  BY <1>1 DEF Delete, StoreInv, TypeOK
<1>. QED
  BY <1>1, <1>2, GotoType DEF Delete, StoreInv, TypeOK, InHand, CollectionFirst, Labels

LEMMA RestartKeepsStoreInv ==
    ASSUME StoreInv, Restart
    PROVE  StoreInv'
<1>1. NoMem \in Mem
  BY AttemptsAssumption, IndexAssumption DEF NoMem, Mem, Indexes
<1>. QED
  BY <1>1 DEF Restart, StoreInv, TypeOK, InHand, CollectionFirst, Labels, qdrant

LEMMA StepKeepsStoreInv ==
    ASSUME StoreInv, NEW r \in Requests, Step(r)
    PROVE  StoreInv'
<1>0. mem[r] \in Mem /\ (pc[r] # "idle" => mem[r].point \in PointIds)
  BY DEF StoreInv, TypeOK, InHand
<1>1. CASE GetCollections(r)
  BY <1>0, <1>1, GotoKeepsStoreInv DEF GetCollections, At, AfterCollection, Labels
<1>2. CASE FindCollection(r)
  <2>1. CASE Goto(r, "delete", mem[r])
    BY <1>0, <1>2, <2>1, GotoKeepsStoreInv DEF FindCollection, At, Labels, StoreInv, InHand
  <2>2. CASE End(r, "ok")
    BY <1>2, <2>2, EndKeepsStoreInv DEF FindCollection
  <2>. QED
    BY <1>2, <2>1, <2>2 DEF FindCollection
<1>3. CASE Reply(r)
  BY <1>3, EndKeepsStoreInv DEF Reply
<1>4. CASE QdrantError(r)
  BY <1>4, EndKeepsStoreInv DEF QdrantError
<1>. QED
  BY <1>1, <1>2, <1>3, <1>4, EmbedKeepsStoreInv, SleepKeepsStoreInv,
     CreateCollectionKeepsStoreInv, CreateIndexKeepsStoreInv, UpsertKeepsStoreInv,
     DeleteKeepsStoreInv DEF Step

LEMMA NextKeepsStoreInv == StoreInv /\ [Next]_vars => StoreInv'
<1>1. ASSUME StoreInv, UNCHANGED vars PROVE StoreInv'
  BY <1>1 DEF vars, qdrant, StoreInv, TypeOK, InHand, CollectionFirst
<1>. QED
  BY <1>1, UpsertStarts, DeleteStarts, StepKeepsStoreInv, RestartKeepsStoreInv DEF Next

LEMMA StoreInvHolds == Spec => []StoreInv
  BY InitStoreInv, NextKeepsStoreInv, PTL DEF Spec

\* Every variable keeps its type, for any number of requests, attempts and
\* indexes: the retry loop never counts past its last attempt, and the loop over
\* the payload indexes never past the last index.
THEOREM TypeCorrect == Spec => []TypeOK
<1>1. StoreInv => TypeOK
  BY DEF StoreInv
<1>. QED
  BY <1>1, StoreInvHolds, PTL

----------------------------------------------------------------------------
(* VectorClient implements PointStore, but for its fairness *)

Carried == {"upserted", "deleted"}
CallAs(m, status) == [point |-> m.point, content |-> m.content, status |-> status]

\* What a caller sees of a call that is under way.
LEMMA CallSeen ==
    ASSUME StoreInv, NEW r \in Requests, pc[r] # "idle"
    PROVE  /\ CallOf(r) # None
           /\ pc[r] \in Carried => CallOf(r) = CallAs(mem[r], "carried_out")
           /\ pc[r] \notin Carried => CallOf(r) = CallAs(mem[r], "pending")
<1>1. mem[r].point \in PointIds /\ mem[r].content \in Contents \cup {None}
  BY DEF StoreInv, TypeOK, InHand, Mem
<1>. QED
  BY <1>1, NoneAssumption DEF CallOf, CallAs, At, Carried

\* A request that a step leaves alone.
LEMMA OthersSeen ==
    ASSUME NEW r \in Requests, \A q \in Requests \ {r} : pc'[q] = pc[q] /\ mem'[q] = mem[q],
           NEW q \in Requests \ {r}
    PROVE  CallOf(q)' = CallOf(q)
  BY Zenon DEF CallOf, At

\* A step within a call, before its effect or after it, is not seen.
LEMMA GotoUnseen ==
    ASSUME StoreInv, NEW r \in Requests, NEW label \in Labels, NEW m \in Mem,
           Goto(r, label, m), points' = points,
           pc[r] # "idle", label # "idle",
           m.point = mem[r].point, m.content = mem[r].content,
           pc[r] \notin {"upserted", "deleted"}, label \notin {"upserted", "deleted"}
    PROVE  UNCHANGED <<points, [q \in Requests |-> CallOf(q)], answer>>
<1>1. \A q \in Requests : CallOf(q)' = CallOf(q)
  BY GotoType DEF StoreInv, CallOf, At
<1>. QED
  BY <1>1, GotoType DEF StoreInv

\* The end of a call.
LEMMA EndSeen ==
    ASSUME StoreInv, NEW r \in Requests, NEW result \in {"ok", "error"}, End(r, result),
           points' = points, pc[r] # "idle",
           result = "ok" => \/ pc[r] \in {"upserted", "deleted"}
                            \/ mem[r].content = None /\ points[mem[r].point] = None
    PROVE  Store!Succeed(r) \/ Store!Fail(r)
<1>. DEFINE calls == [q \in Requests |-> CallOf(q)]
<1>1. calls' = [calls EXCEPT ![r] = None]
  BY EndType DEF StoreInv, CallOf, At
<1>2. answer' = [answer EXCEPT ![r] = result]
  BY EndType DEF StoreInv
<1>3. CASE result = "error"
  BY <1>1, <1>2, <1>3, CallSeen DEF Store!Fail
<1>4. CASE result = "ok"
  <2>1. calls[r] = CallOf(r)
    OBVIOUS
  <2>. HIDE DEF calls
  <2>2. calls[r] # None
    BY <2>1, CallSeen
  <2>3. CASE pc[r] \in Carried
    <3>1. calls[r].status = "carried_out"
      BY <2>1, <2>3, CallSeen DEF CallAs
    <3>. QED
      BY <1>1, <1>2, <1>4, <2>2, <3>1 DEF Store!Succeed, calls
  <2>4. CASE pc[r] \notin Carried
    <3>1. calls[r].point = mem[r].point /\ calls[r].content = mem[r].content
      BY <2>1, <2>4, CallSeen DEF CallAs
    <3>2. calls[r].content = None /\ points[calls[r].point] = None
      BY <1>4, <2>4, <3>1 DEF Carried
    <3>. QED
      BY <1>1, <1>2, <1>4, <2>2, <3>2 DEF Store!Succeed, calls
  <2>. QED
    BY <2>3, <2>4
<1>. QED
  BY <1>3, <1>4

\* The beginning of a call.
LEMMA BeginSeen ==
    ASSUME StoreInv, NEW r \in Requests, NEW label \in {"embed", "find_collection"},
           NEW m \in Mem, Begin(r, label, m), m.point \in PointIds
    PROVE  Store!Ask(r)
<1>. DEFINE calls == [q \in Requests |-> CallOf(q)]
           new == [point |-> m.point, content |-> m.content, status |-> "pending"]
<1>1. calls[r] = None /\ UNCHANGED points /\ answer' = [answer EXCEPT ![r] = None]
  BY BeginType DEF StoreInv, CallOf, At, Labels
<1>2. calls' = [calls EXCEPT ![r] = new]
  <2>1. \A q \in Requests \ {r} : CallOf(q)' = CallOf(q)
    BY BeginType, OthersSeen DEF StoreInv, Labels
  <2>2. CallOf(r)' = new
    BY BeginType DEF StoreInv, Labels, CallOf, At
  <2>. QED
    BY <2>1, <2>2
<1>3. m.content \in Contents \cup {None}
  BY DEF Mem
<1>. QED
  BY <1>1, <1>2, <1>3 DEF Store!Ask

\* The effect of a call.
LEMMA EffectSeen ==
    ASSUME StoreInv, NEW r \in Requests, NEW label \in {"upserted", "deleted"},
           Goto(r, label, mem[r]), pc[r] \notin {"idle", "upserted", "deleted"},
           points' = [points EXCEPT ![mem[r].point] = mem[r].content]
    PROVE  Store!CarryOut(r)
<1>. DEFINE calls == [q \in Requests |-> CallOf(q)]
<1>0. mem[r] \in Mem
  BY DEF StoreInv, TypeOK
<1>1. calls' = [calls EXCEPT ![r].status = "carried_out"] /\ answer' = answer
  <2>1. \A q \in Requests \ {r} : CallOf(q)' = CallOf(q)
    BY <1>0, GotoType, OthersSeen DEF StoreInv, Labels
  <2>2. CallOf(r)' = CallAs(mem[r], "carried_out")
    BY <1>0, GotoType DEF StoreInv, Labels, CallOf, CallAs, At
  <2>3. CallOf(r) = CallAs(mem[r], "pending")
    BY CallSeen DEF Carried, CallAs
  <2>4. CallOf(r)' = [CallOf(r) EXCEPT !.status = "carried_out"]
    BY <2>2, <2>3 DEF CallAs
  <2>5. calls' = [q \in Requests |-> IF q = r THEN [CallOf(r) EXCEPT !.status = "carried_out"]
                                    ELSE CallOf(q)]
    BY <2>1, <2>4
  <2>6. answer' = answer
    BY <1>0, GotoType DEF StoreInv, Labels
  <2>. QED
    BY <2>5, <2>6
<1>2. calls[r] # None /\ calls[r].status = "pending"
  BY CallSeen DEF Carried, CallAs
<1>3. points' = [points EXCEPT ![calls[r].point] = calls[r].content]
  <2>1. CallOf(r) = CallAs(mem[r], "pending")
    BY CallSeen DEF Carried
  <2>2. calls[r].point = mem[r].point /\ calls[r].content = mem[r].content
    BY <2>1 DEF CallAs
  <2>. QED
    BY <2>2
<1>. QED
  BY <1>1, <1>2, <1>3 DEF Store!CarryOut

LEMMA InitSeen == Init => Store!Init
  BY DEF Init, Store!Init, CallOf, At

LEMMA StepSeen ==
    ASSUME StoreInv, NEW r \in Requests, Step(r)
    PROVE  [Store!Next]_(Store!vars)
<1>0. mem[r] \in Mem
  BY DEF StoreInv, TypeOK
<1>1. ASSUME NEW result \in {"ok", "error"}, End(r, result), points' = points, pc[r] # "idle",
             result = "ok" => \/ pc[r] \in {"upserted", "deleted"}
                              \/ mem[r].content = None /\ points[mem[r].point] = None
      PROVE  Store!Next
  BY <1>1, EndSeen DEF Store!Next
<1>2. CASE Embed(r)
  <2>1. pc[r] = "embed" /\ points' = points
    BY <1>2 DEF Embed, At, qdrant
  <2>2. CASE Goto(r, "get_collections", [mem[r] EXCEPT !.attempt = 1])
    <3>. DEFINE m == [mem[r] EXCEPT !.attempt = 1]
    <3>1. m \in Mem /\ m.point = mem[r].point /\ m.content = mem[r].content
      BY <1>0, AttemptsAssumption DEF Mem
    <3>2. Goto(r, "get_collections", m)
      BY <2>2
    <3>. HIDE DEF m
    <3>. QED
      BY <2>1, <3>1, <3>2, GotoUnseen DEF Labels, Store!vars
  <2>3. CASE Goto(r, "sleep", mem[r])
    BY <1>0, <2>1, <2>3, GotoUnseen DEF Labels, Store!vars
  <2>4. CASE End(r, "error")
    BY <1>1, <2>1, <2>4
  <2>. QED
    BY <1>2, <2>2, <2>3, <2>4 DEF Embed
<1>3. CASE Sleep(r)
  <2>. DEFINE m == [mem[r] EXCEPT !.attempt = NextAttempt(mem[r].attempt)]
  <2>1. pc[r] = "sleep" /\ points' = points /\ Goto(r, "embed", m) /\ mem[r].attempt < MaxAttempts
    BY <1>3 DEF Sleep, At, qdrant, StoreInv, InHand
  <2>2. m \in Mem /\ m.point = mem[r].point /\ m.content = mem[r].content
    BY <1>0, <2>1, AttemptsAssumption DEF Mem, NextAttempt
  <2>. HIDE DEF m
  <2>. QED
    BY <2>1, <2>2, GotoUnseen DEF Labels, Store!vars
<1>4. CASE GetCollections(r)
  BY <1>0, <1>4, GotoUnseen DEF GetCollections, AfterCollection, At, qdrant, Labels, Store!vars
<1>5. CASE CreateCollection(r)
  <2>1. pc[r] = "create_collection" /\ points' = points
    BY <1>5 DEF CreateCollection, At
  <2>2. CASE Goto(r, AfterCollection, mem[r])
    BY <1>0, <2>1, <2>2, GotoUnseen DEF AfterCollection, Labels, Store!vars
  <2>3. CASE End(r, "error")
    BY <1>1, <2>1, <2>3
  <2>. QED
    BY <1>5, <2>2, <2>3 DEF CreateCollection
<1>6. CASE CreateIndex(r)
  <2>1. pc[r] = "create_index" /\ points' = points
    BY <1>6 DEF CreateIndex, At
  <2>2. ASSUME NEW k \in Indexes, NEW label \in {"create_index", "upsert"},
               Goto(r, label, [mem[r] EXCEPT !.next = k])
        PROVE  [Store!Next]_(Store!vars)
    <3>. DEFINE m == [mem[r] EXCEPT !.next = k]
    <3>1. m \in Mem /\ m.point = mem[r].point /\ m.content = mem[r].content
      BY <1>0 DEF Mem
    <3>2. Goto(r, label, m)
      BY <2>2
    <3>. HIDE DEF m
    <3>. QED
      BY <2>1, <3>1, <3>2, GotoUnseen DEF Labels, Store!vars
  <2>3. CASE mem[r].next < IndexCount /\ Goto(r, "create_index", [mem[r] EXCEPT !.next = mem[r].next + 1])
    <3>1. mem[r].next + 1 \in Indexes
      BY <1>0, <2>3, IndexAssumption DEF Mem, Indexes
    <3>. QED
      BY <2>2, <2>3, <3>1
  <2>4. CASE Goto(r, "upsert", [mem[r] EXCEPT !.next = 1])
    <3>1. 1 \in Indexes
      BY IndexAssumption DEF Indexes
    <3>. QED
      BY <2>2, <2>4, <3>1
  <2>. QED
    BY <1>6, <2>3, <2>4 DEF CreateIndex
<1>7. CASE Upsert(r)
  BY <1>7, EffectSeen DEF Upsert, At, Store!Next
<1>8. CASE Delete(r)
  <2>1. mem[r].content = None
    BY <1>8 DEF Delete, At, StoreInv, InHand
  <2>. QED
    BY <1>8, <2>1, EffectSeen DEF Delete, At, Store!Next
<1>9. CASE FindCollection(r)
  <2>1. pc[r] = "find_collection" /\ points' = points
        /\ mem[r].content = None /\ mem[r].point \in PointIds
    BY <1>9 DEF FindCollection, At, qdrant, StoreInv, InHand
  <2>2. CASE Goto(r, "delete", mem[r])
    BY <1>0, <2>1, <2>2, GotoUnseen DEF Labels, Store!vars
  <2>3. CASE ~exists /\ End(r, "ok")
    BY <1>1, <2>1, <2>3 DEF StoreInv, CollectionFirst
  <2>. QED
    BY <1>9, <2>2, <2>3 DEF FindCollection
<1>10. CASE Reply(r)
  BY <1>1, <1>10 DEF Reply, qdrant
<1>11. CASE QdrantError(r)
  BY <1>1, <1>11 DEF QdrantError, qdrant
<1>. QED
  BY <1>2, <1>3, <1>4, <1>5, <1>6, <1>7, <1>8, <1>9, <1>10, <1>11 DEF Step

LEMMA NextSeen == StoreInv /\ [Next]_vars => [Store!Next]_(Store!vars)
<1>1. ASSUME StoreInv, UNCHANGED vars PROVE UNCHANGED Store!vars
  BY <1>1 DEF vars, qdrant, Store!vars, CallOf, At
<1>2. ASSUME StoreInv, NEW r \in Requests, BeginUpsert(r) PROVE Store!Next
  <2>1. PICK p \in PointIds, c \in Contents :
          Begin(r, "embed", [NoMem EXCEPT !.point = p, !.content = c])
    BY <1>2 DEF BeginUpsert
  <2>. DEFINE m == [NoMem EXCEPT !.point = p, !.content = c]
  <2>2. NoMem \in Mem
    BY AttemptsAssumption, IndexAssumption DEF NoMem, Mem, Indexes
  <2>3. m \in Mem /\ m.point = p
    BY <2>2 DEF Mem
  <2>4. Begin(r, "embed", m)
    BY <2>1
  <2>. HIDE DEF m
  <2>. QED
    BY <1>2, <2>3, <2>4, BeginSeen DEF Store!Next
<1>3. ASSUME StoreInv, NEW r \in Requests, BeginDelete(r) PROVE Store!Next
  <2>1. PICK p \in PointIds : Begin(r, "find_collection", [NoMem EXCEPT !.point = p])
    BY <1>3 DEF BeginDelete
  <2>. DEFINE m == [NoMem EXCEPT !.point = p]
  <2>2. m \in Mem /\ m.point = p
    BY AttemptsAssumption, IndexAssumption DEF NoMem, Mem, Indexes
  <2>3. Begin(r, "find_collection", m)
    BY <2>1
  <2>. HIDE DEF m
  <2>. QED
    BY <1>3, <2>2, <2>3, BeginSeen DEF Store!Next
<1>4. ASSUME StoreInv, Restart PROVE Store!Next
  <2>1. \A r \in Requests : CallOf(r)' = None
    BY <1>4 DEF Restart, CallOf, At
  <2>2. Store!Restart
    BY <1>4, <2>1 DEF Restart, Store!Restart, qdrant
  <2>. QED
    BY <2>2 DEF Store!Next
<1>. QED
  BY <1>1, <1>2, <1>3, <1>4, StepSeen DEF Next

\* Whatever requests, errors and restarts meet in creating the collection, in
\* embedding, storing and deleting, a caller sees a PointStore: an "ok" is given
\* for what was carried out, and nothing is carried out that nobody asked for.
THEOREM ClientImplementsStore == Spec => Store!Spec
  BY InitSeen, NextSeen, StoreInvHolds, PTL DEF Spec, Store!Spec

----------------------------------------------------------------------------
(* Points are stored where the indexes are *)

LEMMA InitIndexInv == Init => IndexInv
  BY InitStoreInv DEF Init, IndexInv, IndexLoop, PointsHaveIndexes, NoMem

\* A step of another kind than create_index and upsert.
LEMMA GotoKeepsIndexLoop ==
    ASSUME IndexInv, NEW r \in Requests, NEW label \in Labels, NEW m \in Mem,
           Goto(r, label, m), UNCHANGED <<indexes, ensured>>, m.next = 1,
           label = "upsert" => ensured
    PROVE  IndexLoop'
  BY GotoType DEF IndexInv, StoreInv, IndexLoop, Indexes, Mem

LEMMA EndKeepsIndexLoop ==
    ASSUME IndexInv, NEW r \in Requests, NEW result \in {"ok", "error"}, End(r, result),
           UNCHANGED <<indexes, ensured>>
    PROVE  IndexLoop'
  BY EndType DEF IndexInv, StoreInv, IndexLoop, NoMem

LEMMA BeginKeepsIndexLoop ==
    ASSUME IndexInv, NEW r \in Requests, BeginUpsert(r) \/ BeginDelete(r)
    PROVE  IndexLoop' /\ UNCHANGED <<indexes, points>>
<1>1. NoMem \in Mem /\ NoMem.next = 1
  BY AttemptsAssumption, IndexAssumption DEF NoMem, Mem, Indexes
<1>2. PICK label \in {"embed", "find_collection"}, m \in Mem : Begin(r, label, m) /\ m.next = 1
  <2>1. ASSUME NEW p \in PointIds, NEW c \in Contents
        PROVE  [NoMem EXCEPT !.point = p, !.content = c] \in Mem
               /\ [NoMem EXCEPT !.point = p, !.content = c].next = 1
    BY <1>1 DEF Mem
  <2>2. ASSUME NEW p \in PointIds
        PROVE  [NoMem EXCEPT !.point = p] \in Mem /\ [NoMem EXCEPT !.point = p].next = 1
    BY <1>1 DEF Mem
  <2>. QED
    BY <2>1, <2>2 DEF BeginUpsert, BeginDelete
<1>. QED
  BY <1>2, BeginType DEF IndexInv, StoreInv, IndexLoop, Labels, Indexes

\* Each turn of the loop adds its index, and the last one completes them.
LEMMA CreateIndexKeepsIndexLoop ==
    ASSUME IndexInv, ~IndexFaults, NEW r \in Requests, CreateIndex(r)
    PROVE  IndexLoop' /\ indexes \subseteq indexes' /\ UNCHANGED points
<1>1. mem[r] \in Mem /\ mem[r].next \in Indexes /\ pc[r] = "create_index"
  BY DEF IndexInv, StoreInv, TypeOK, CreateIndex, At, Mem
<1>2. indexes' = indexes \cup {mem[r].next} /\ indexes' \subseteq Indexes /\ UNCHANGED points
  BY <1>1 DEF CreateIndex, IndexInv, StoreInv, TypeOK
<1>3. \A k \in Indexes : k <= mem[r].next => k \in indexes'
  BY <1>1, <1>2 DEF IndexInv, IndexLoop, Indexes
<1>4. indexes = Indexes => indexes' = Indexes
  BY <1>2
<1>5. CASE mem[r].next < IndexCount
  <2>. DEFINE m == [mem[r] EXCEPT !.next = mem[r].next + 1]
  <2>1. m \in Mem /\ m.next = mem[r].next + 1
    BY <1>1, <1>5, IndexAssumption DEF Mem, Indexes
  <2>2. Goto(r, "create_index", m) /\ ensured' = ensured
    BY <1>1, <1>5, IndexAssumption DEF CreateIndex, Indexes
  <2>. HIDE DEF m
  <2>3. pc'[r] = "create_index" /\ mem'[r] = m
        /\ \A q \in Requests \ {r} : pc'[q] = pc[q] /\ mem'[q] = mem[q]
    BY <2>1, <2>2, GotoType DEF IndexInv, StoreInv, Labels
  <2>4. \A k \in Indexes : k < m.next => k \in indexes'
    BY <1>1, <1>3, <2>1 DEF Indexes
  <2>. QED
    BY <1>2, <1>4, <2>2, <2>3, <2>4 DEF IndexInv, IndexLoop
<1>6. CASE mem[r].next = IndexCount
  <2>. DEFINE m == [mem[r] EXCEPT !.next = 1]
  <2>1. m \in Mem /\ m.next = 1
    BY <1>1, IndexAssumption DEF Mem, Indexes
  <2>2. Goto(r, "upsert", m) /\ ensured' = TRUE
    BY <1>6, IndexAssumption DEF CreateIndex
  <2>. HIDE DEF m
  <2>3. pc'[r] = "upsert" /\ mem'[r] = m
        /\ \A q \in Requests \ {r} : pc'[q] = pc[q] /\ mem'[q] = mem[q]
    BY <2>1, <2>2, GotoType DEF IndexInv, StoreInv, Labels
  <2>4. indexes' = Indexes
    BY <1>2, <1>3, <1>6 DEF Indexes
  <2>. QED
    BY <1>2, <2>1, <2>2, <2>3, <2>4 DEF IndexInv, IndexLoop
<1>. QED
  BY <1>2, <1>5, <1>6 DEF CreateIndex

LEMMA StepKeepsIndexLoop ==
    ASSUME IndexInv, ~IndexFaults, NEW r \in Requests, Step(r), ~CreateIndex(r)
    PROVE  IndexLoop' /\ UNCHANGED indexes
<1>0. /\ mem[r] \in Mem
      /\ pc[r] # "create_index" => mem[r].next = 1
      /\ StoreInv
  BY DEF IndexInv, StoreInv, TypeOK, IndexLoop
<1>1. CASE Embed(r)
  <2>. DEFINE m == [mem[r] EXCEPT !.attempt = 1]
  <2>1. m \in Mem /\ m.next = mem[r].next /\ mem[r].next = 1 /\ UNCHANGED <<indexes, ensured>>
    BY <1>0, <1>1, AttemptsAssumption DEF Mem, Embed, At, qdrant
  <2>2. CASE Goto(r, "get_collections", m)
    <3>. HIDE DEF m
    <3>. QED
      BY <2>1, <2>2, GotoKeepsIndexLoop DEF Labels
  <2>3. CASE Goto(r, "sleep", mem[r])
    BY <1>0, <2>1, <2>3, GotoKeepsIndexLoop DEF Labels
  <2>4. CASE End(r, "error")
    BY <2>1, <2>4, EndKeepsIndexLoop
  <2>. QED
    BY <1>1, <2>1, <2>2, <2>3, <2>4 DEF Embed
<1>2. CASE Sleep(r)
  <2>. DEFINE m == [mem[r] EXCEPT !.attempt = NextAttempt(mem[r].attempt)]
  <2>1. mem[r].attempt < MaxAttempts
    BY <1>0, <1>2 DEF StoreInv, InHand, Sleep, At
  <2>2. m \in Mem /\ m.next = mem[r].next /\ mem[r].next = 1 /\ UNCHANGED <<indexes, ensured>>
    BY <1>0, <1>2, <2>1, AttemptsAssumption DEF Mem, Sleep, At, qdrant, NextAttempt
  <2>3. Goto(r, "embed", m)
    BY <1>2 DEF Sleep
  <2>. HIDE DEF m
  <2>. QED
    BY <2>2, <2>3, GotoKeepsIndexLoop DEF Labels
<1>3. CASE GetCollections(r)
  BY <1>0, <1>3, GotoKeepsIndexLoop DEF GetCollections, AfterCollection, At, qdrant, Labels
<1>4. CASE CreateCollection(r)
  BY <1>0, <1>4, GotoKeepsIndexLoop, EndKeepsIndexLoop
  DEF CreateCollection, AfterCollection, At, Labels
<1>5. CASE Upsert(r)
  BY <1>0, <1>5, GotoKeepsIndexLoop DEF Upsert, At, Labels
<1>6. CASE FindCollection(r)
  BY <1>0, <1>6, GotoKeepsIndexLoop, EndKeepsIndexLoop DEF FindCollection, At, qdrant, Labels
<1>7. CASE Delete(r)
  BY <1>0, <1>7, GotoKeepsIndexLoop DEF Delete, At, Labels
<1>8. CASE Reply(r)
  BY <1>8, EndKeepsIndexLoop DEF Reply, qdrant
<1>9. CASE QdrantError(r)
  BY <1>9, EndKeepsIndexLoop DEF QdrantError, qdrant
<1>. QED
  BY <1>1, <1>2, <1>3, <1>4, <1>5, <1>6, <1>7, <1>8, <1>9 DEF Step

\* Only an upsert adds a point, and it has the indexes in hand.
LEMMA StepAddsPoint ==
    ASSUME IndexInv, NEW r \in Requests, Step(r), NEW p \in PointIds,
           points[p] = None, points'[p] # None
    PROVE  indexes = Indexes
<1>1. CASE Upsert(r)
  BY <1>1 DEF Upsert, At, IndexInv, IndexLoop
<1>2. CASE Delete(r)
  BY <1>2 DEF Delete, At, IndexInv, StoreInv, TypeOK
<1>. QED
  BY <1>1, <1>2 DEF Step, Embed, Sleep, GetCollections, CreateCollection, CreateIndex,
     FindCollection, Reply, QdrantError, qdrant

LEMMA NextKeepsIndexInv == ~IndexFaults /\ IndexInv /\ [Next]_vars => IndexInv'
<1>. SUFFICES ASSUME ~IndexFaults, IndexInv, [Next]_vars PROVE IndexInv'
  OBVIOUS
<1>1. StoreInv'
  BY NextKeepsStoreInv DEF IndexInv
<1>2. IndexLoop' /\ indexes \subseteq indexes'
  <2>1. CASE UNCHANGED vars
    BY <2>1 DEF vars, qdrant, IndexInv, IndexLoop
  <2>2. CASE Restart
    BY <2>2 DEF Restart, IndexInv, IndexLoop, NoMem, qdrant
  <2>3. ASSUME NEW r \in Requests, BeginUpsert(r) \/ BeginDelete(r) \/ Step(r)
        PROVE  IndexLoop' /\ indexes \subseteq indexes'
    BY <2>3, BeginKeepsIndexLoop, CreateIndexKeepsIndexLoop, StepKeepsIndexLoop
  <2>. QED
    BY <2>1, <2>2, <2>3 DEF Next
<1>3. ASSUME NEW p \in PointIds, points'[p] # None PROVE indexes = Indexes
  <2>1. CASE points[p] # None
    BY <2>1 DEF IndexInv, PointsHaveIndexes
  <2>2. CASE points[p] = None
    <3>1. PICK r \in Requests : Step(r)
      BY <1>3, <2>2, BeginKeepsIndexLoop DEF Next, Restart, vars, qdrant
    <3>. QED
      BY <1>3, <2>2, <3>1, StepAddsPoint
  <2>. QED
    BY <2>1, <2>2
<1>4. PointsHaveIndexes'
  BY <1>1, <1>2, <1>3 DEF StoreInv, TypeOK, CollectionFirst, PointsHaveIndexes
<1>. QED
  BY <1>1, <1>2, <1>4 DEF IndexInv

\* As long as createPayloadIndex does not fail, no point is ever in a collection
\* without all its payload indexes, however many requests create them at once
\* and wherever the process is restarted.
THEOREM IndexesComplete == ASSUME ~IndexFaults PROVE Spec => []PointsHaveIndexes
<1>1. IndexInv => PointsHaveIndexes
  BY DEF IndexInv
<1>2. IndexInv /\ [Next]_vars => IndexInv'
  BY NextKeepsIndexInv
<1>. QED
  BY <1>1, <1>2, InitIndexInv, PTL DEF Spec

=============================================================================
