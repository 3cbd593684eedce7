-------------------------- MODULE ExtractorProofs --------------------------
(***************************************************************************)
(* Proofs about Extractor, for every number of extractions, attempts and   *)
(* texts, every lifetime of the cache and every duration of a find.        *)
(***************************************************************************)
EXTENDS Extractor, Integers, TLAPS

----------------------------------------------------------------------------
(* The invariants *)

\* The attempt after a sleep is one that is left.
AttemptsLeft == \A r \in Requests : pc[r] = "sleep" => mem[r].attempt < MaxAttempts

\* An active text is a written one, and not retired; ids tell documents apart.
Written(p) == p.text <= lastText /\ p.id <= lastText /\ retired[p.text] = 0
Distinct(S) == \A p, q \in S : p.id = q.id => p = q
ActiveInv == (\A p \in prompts : Written(p)) /\ Distinct(prompts)

\* What was active when its find was executed has been retired no longer than
\* the answer is under way, and a cached one no longer than since its find.
FoundInv ==
    \A r \in Requests : pc[r] = "prompt_found" /\ mem[r].prompt # None =>
        retired[mem[r].prompt.text] <= mem[r].wait
CacheInv ==
    Fresh(cache) => retired[cache.prompt.text] + cache.left <= TTL + Latency

ExtractorInv == TypeOK /\ AttemptsLeft /\ ActiveInv /\ FoundInv /\ CacheInv

LEMMA Bounds ==
    /\ TTL \in Nat /\ TTL > 0 /\ Latency \in Nat /\ MaxTexts \in Nat /\ MaxTexts > 0
    /\ MaxAttempts \in Nat /\ MaxAttempts > 0 /\ Horizon \in Nat /\ Horizon = TTL + Latency
    /\ NoMem \in Mem /\ NoMem.prompt = None
BY TimesAssumption, AttemptsAssumption DEF Horizon, NoMem, Mem

LEMMA GotoEffect ==
    ASSUME TypeOK, NEW r \in Requests, NEW label \in Labels, NEW m \in Mem, Goto(r, label, m)
    PROVE  /\ pc' \in [Requests -> Labels] /\ mem' \in [Requests -> Mem]
           /\ pc'[r] = label /\ mem'[r] = m
           /\ \A q \in Requests \ {r} : pc'[q] = pc[q] /\ mem'[q] = mem[q]
BY DEF Goto, TypeOK

----------------------------------------------------------------------------
(* Extractions *)

\* A step of an extraction changes no prompt, and the cache only to an entry
\* that is young enough.
LEMMA ExtractionKeeps ==
    ASSUME ExtractorInv, NEW r \in Requests, NEW label \in Labels, NEW m \in Mem,
           Goto(r, label, m), UNCHANGED <<world, server, seed>>,
           outcome' \in [Requests -> Outcomes],
           cache' \in Entry \cup {None}, CacheInv',
           label = "sleep" => m.attempt < MaxAttempts,
           label = "prompt_found" /\ m.prompt # None => retired[m.prompt.text] <= m.wait
    PROVE  ExtractorInv'
<1>1. /\ pc' \in [Requests -> Labels] /\ mem' \in [Requests -> Mem]
      /\ pc'[r] = label /\ mem'[r] = m
      /\ \A q \in Requests \ {r} : pc'[q] = pc[q] /\ mem'[q] = mem[q]
  BY GotoEffect DEF ExtractorInv
<1>2. prompts' = prompts /\ lastText' = lastText /\ retired' = retired
  BY DEF world
<1>3. TypeOK'
  BY <1>1, <1>2 DEF ExtractorInv, TypeOK
<1>4. AttemptsLeft'
  BY <1>1 DEF ExtractorInv, AttemptsLeft
<1>5. ActiveInv'
  BY <1>2 DEF ExtractorInv, ActiveInv, Written
<1>6. FoundInv'
  BY <1>1, <1>2 DEF ExtractorInv, FoundInv
<1>7. QED
  BY <1>3, <1>4, <1>5, <1>6 DEF ExtractorInv

\* A step that leaves the cache alone.
LEMMA CacheStays ==
    ASSUME ExtractorInv, UNCHANGED <<world, cache>>
    PROVE  cache' \in Entry \cup {None} /\ CacheInv'
BY DEF ExtractorInv, TypeOK, CacheInv, Fresh, world

LEMMA EndKeeps ==
    ASSUME ExtractorInv, NEW r \in Requests, NEW result \in Outcomes, End(r, result),
           UNCHANGED <<world, cache, server, seed>>
    PROVE  ExtractorInv'
<1>1. Goto(r, "idle", NoMem) /\ "idle" \in Labels
  BY DEF End, Labels
<1>2. outcome' \in [Requests -> Outcomes]
  BY DEF End, ExtractorInv, TypeOK
<1>3. QED
  BY <1>1, <1>2, Bounds, CacheStays, ExtractionKeeps

\* Whatever is thrown becomes one of the texts of an outcome.
LEMMA FailKeeps ==
    ASSUME ExtractorInv, NEW r \in Requests, NEW message, Fail(r, message),
           UNCHANGED <<world, cache, server, seed>>
    PROVE  ExtractorInv'
<1>1. ExtractionError(message) \in Outcomes
  BY DEF ExtractionError, ToUserFacing, Outcomes, UserTexts
<1>2. QED
  BY <1>1, EndKeeps DEF Fail

LEMMA ReadPdfKeeps ==
    ASSUME ExtractorInv, NEW r \in Requests, Begin(r) \/ ReadPdf(r)
    PROVE  ExtractorInv'
<1>0. TypeOK /\ "read_pdf" \in Labels /\ "call" \in Labels /\ "find_prompt" \in Labels
  BY DEF ExtractorInv, Labels
<1>1. CASE Begin(r)
  <2>1. outcome' \in [Requests -> Outcomes]
    BY <1>0, <1>1 DEF Begin, TypeOK, Outcomes
  <2>2. QED
    BY <1>0, <1>1, <2>1, Bounds, CacheStays, ExtractionKeeps DEF Begin
<1>2. CASE ReadPdf(r)
  <2>1. UNCHANGED <<world, cache, server, seed>> /\ outcome \in [Requests -> Outcomes]
    BY <1>0, <1>2 DEF ReadPdf, TypeOK
  <2>2. CASE Fresh(cache) /\ Goto(r, "call", [NoMem EXCEPT !.prompt = cache.prompt]) /\ UNCHANGED outcome
    <3> DEFINE m == [NoMem EXCEPT !.prompt = cache.prompt]
    <3>1. m \in Mem
      BY <1>0, <2>2, Bounds DEF Fresh, TypeOK, Entry, Mem
    <3>2. Goto(r, "call", m)
      BY <2>2
    <3> HIDE DEF m
    <3>3. QED
      BY <1>0, <2>1, <2>2, <3>1, <3>2, CacheStays, ExtractionKeeps
  <2>3. CASE Goto(r, "find_prompt", NoMem) /\ UNCHANGED outcome
    BY <1>0, <2>1, <2>3, Bounds, CacheStays, ExtractionKeeps
  <2>4. CASE Fail(r, "unreadable_pdf")
    BY <2>1, <2>4, FailKeeps
  <2>5. QED
    BY <1>2, <2>2, <2>3, <2>4 DEF ReadPdf
<1>3. QED
  BY <1>1, <1>2

LEMMA FindPromptKeeps ==
    ASSUME ExtractorInv, NEW r \in Requests, FindPrompt(r)
    PROVE  ExtractorInv'
<1>0. /\ TypeOK /\ "prompt_found" \in Labels /\ outcome \in [Requests -> Outcomes]
      /\ UNCHANGED <<world, cache, server, seed>>
  BY DEF ExtractorInv, TypeOK, Labels, FindPrompt
<1>1. CASE /\ \E found \in Finds : Goto(r, "prompt_found", [NoMem EXCEPT !.prompt = found])
           /\ UNCHANGED outcome
  <2> DEFINE m(found) == [NoMem EXCEPT !.prompt = found]
  <2>0. PICK found \in Finds : Goto(r, "prompt_found", m(found))
    BY <1>1
  <2>1. m(found) \in Mem /\ m(found).prompt = found /\ m(found).wait = 0
    BY <1>0, Bounds DEF TypeOK, NoMem, Mem, Finds
  <2>2. Goto(r, "prompt_found", m(found))
    BY <2>0
  <2> HIDE DEF m
  <2>3. found # None => retired[found.text] <= m(found).wait
    BY <2>1 DEF ExtractorInv, ActiveInv, Finds, Written
  <2>4. QED
    BY <1>0, <1>1, <2>1, <2>2, <2>3, CacheStays, ExtractionKeeps
<1>2. CASE Fail(r, "mongo")
  BY <1>0, <1>2, FailKeeps
<1>3. QED
  BY <1>1, <1>2 DEF FindPrompt

\* The answer of a find is put into the cache for TTL from now on, though it has
\* been under way for a while.
LEMMA PromptFoundKeeps ==
    ASSUME ExtractorInv, NEW r \in Requests, PromptFound(r)
    PROVE  ExtractorInv'
<1>0. /\ TypeOK /\ "call" \in Labels /\ outcome \in [Requests -> Outcomes]
      /\ mem[r] \in Mem /\ UNCHANGED <<world, server, seed>>
  BY DEF ExtractorInv, TypeOK, Labels, PromptFound
<1> DEFINE found == mem[r].prompt
<1>1. CASE /\ found # None /\ cache' = [prompt |-> found, left |-> TTL]
           /\ Goto(r, "call", [NoMem EXCEPT !.prompt = found]) /\ UNCHANGED outcome
  <2> DEFINE m == [NoMem EXCEPT !.prompt = found]
  <2>1. found \in Prompt /\ mem[r].wait \in 0..Latency /\ retired[found.text] \in Nat
    BY <1>0, <1>1 DEF Mem, Prompt, TypeOK
  <2>2. retired[found.text] <= mem[r].wait
    BY <1>1 DEF ExtractorInv, FoundInv, PromptFound, At
  <2>3. m \in Mem
    BY <2>1, Bounds DEF NoMem, Mem
  <2>4. cache' \in Entry
    BY <1>1, <2>1, Bounds DEF Entry
  <2>5. cache'.prompt = found /\ cache'.left = TTL /\ retired' = retired
    BY <1>0, <1>1 DEF world
  <2>6. CacheInv'
    BY <2>1, <2>2, <2>5, Bounds DEF CacheInv
  <2>7. Goto(r, "call", m)
    BY <1>1
  <2> HIDE DEF m
  <2>8. QED
    BY <1>0, <1>1, <2>3, <2>4, <2>6, <2>7, ExtractionKeeps
<1>2. CASE Fail(r, "no_prompt") /\ UNCHANGED cache
  BY <1>0, <1>2, FailKeeps
<1>3. QED
  BY <1>1, <1>2 DEF PromptFound

LEMMA CallKeeps ==
    ASSUME ExtractorInv, NEW r \in Requests, Call(r) \/ Sleep(r)
    PROVE  ExtractorInv'
<1>0. /\ TypeOK /\ "call" \in Labels /\ "sleep" \in Labels /\ outcome \in [Requests -> Outcomes]
      /\ mem[r] \in Mem /\ mem[r].attempt \in 1..MaxAttempts
      /\ UNCHANGED <<world, cache, server, seed>>
  BY DEF ExtractorInv, TypeOK, Labels, Mem, Call, Sleep
<1>1. CASE Call(r)
  <2>1. \/ \E answer \in Answers : End(r, Normalized(answer))
        \/ \E message : Fail(r, message)
        \/ \E message \in GeminiErrors : /\ Retries(mem[r].attempt, message)
                                         /\ Goto(r, "sleep", mem[r]) /\ UNCHANGED outcome
    BY <1>1 DEF Call
  <2>2. CASE \E answer \in Answers : End(r, Normalized(answer))
    <3>1. \A answer : Normalized(answer) \in Outcomes
      BY DEF Normalized, Outcomes
    <3>2. QED
      BY <1>0, <2>2, <3>1, EndKeeps
  <2>3. CASE \E message : Fail(r, message)
    BY <1>0, <2>3, FailKeeps
  <2>4. CASE /\ mem[r].attempt # MaxAttempts
             /\ Goto(r, "sleep", mem[r]) /\ UNCHANGED outcome
    <3>1. mem[r].attempt < MaxAttempts
      BY <1>0, <2>4, Bounds
    <3>2. QED
      BY <1>0, <2>4, <3>1, CacheStays, ExtractionKeeps
  <2>5. QED
    BY <2>1, <2>2, <2>3, <2>4 DEF Retries
<1>2. CASE Sleep(r)
  <2> DEFINE m == [mem[r] EXCEPT !.attempt = NextAttempt(@)]
  <2>1. mem[r].attempt < MaxAttempts
    BY <1>2 DEF Sleep, At, ExtractorInv, AttemptsLeft
  <2>2. m \in Mem
    BY <1>0, <2>1, Bounds DEF Mem, NextAttempt
  <2>3. Goto(r, "call", m) /\ UNCHANGED outcome
    BY <1>2 DEF Sleep
  <2> HIDE DEF m
  <2>4. QED
    BY <1>0, <2>2, <2>3, CacheStays, ExtractionKeeps
<1>3. QED
  BY <1>1, <1>2

----------------------------------------------------------------------------
(* Start-up, the operator and time *)

\* Documents that are active after a step, each with the text of one before or
\* with the new one.
From(active, text) ==
    /\ Distinct(active)
    /\ \A q \in active :
          (q.text = text /\ q.id <= text) \/ \E p \in prompts : q.text = p.text /\ q.id = p.id

\* What the seed, the operator and a restart may do to the prompts: leave their
\* texts, withdraw one, or write a newer one.
LEMMA PromptKeeps ==
    ASSUME ExtractorInv, UNCHANGED <<cache, pc, mem, outcome>>,
           server' \in {"down", "seed_save", "seed_create", "up"}, seed' \in Prompt \cup {None},
           \/ /\ UNCHANGED <<lastText, retired>> /\ prompts' \subseteq Prompt /\ Distinct(prompts')
              /\ \A q \in prompts' : \E p \in prompts : q.text = p.text /\ q.id = p.id
           \/ \E active : /\ Write(active) /\ From(active, lastText + 1)
                          /\ lastText + 1 \in Texts => active \subseteq Prompt
    PROVE  ExtractorInv'
<1>0. TypeOK /\ lastText \in Nat /\ lastText <= MaxTexts /\ retired \in [Texts -> 0..Horizon + 1]
  BY Bounds DEF ExtractorInv, TypeOK
<1>1. CASE /\ UNCHANGED <<lastText, retired>> /\ prompts' \subseteq Prompt /\ Distinct(prompts')
           /\ \A q \in prompts' : \E p \in prompts : q.text = p.text /\ q.id = p.id
  <2>1. TypeOK'
    BY <1>0, <1>1 DEF TypeOK
  <2>2. AttemptsLeft' /\ FoundInv' /\ CacheInv'
    BY <1>1 DEF ExtractorInv, AttemptsLeft, FoundInv, CacheInv, Fresh
  <2>3. ActiveInv'
    BY <1>0, <1>1 DEF ExtractorInv, ActiveInv, Written, Distinct
  <2>4. QED
    BY <2>1, <2>2, <2>3 DEF ExtractorInv
<1>2. CASE \E active : /\ Write(active) /\ From(active, lastText + 1)
                       /\ lastText + 1 \in Texts => active \subseteq Prompt
  <2>1. PICK active : /\ Write(active) /\ From(active, lastText + 1)
                      /\ lastText + 1 \in Texts => active \subseteq Prompt
    BY <1>2
  <2>2. /\ lastText' = lastText + 1 /\ lastText' \in Texts /\ lastText' \in 0..MaxTexts
        /\ prompts' = active /\ active \subseteq Prompt /\ From(active, lastText')
        /\ retired' = [retired EXCEPT ![lastText'] = 0]
    BY <1>0, <2>1, Bounds DEF Write, Texts
  <2>3. /\ retired' \in [Texts -> 0..Horizon + 1] /\ retired'[lastText'] = 0
        /\ \A t \in Texts : retired'[t] <= retired[t] /\ retired[t] \in Nat /\ retired'[t] \in Nat
    BY <1>0, <2>2, Bounds
  <2>4. TypeOK'
    BY <1>0, <2>2, <2>3 DEF TypeOK
  <2>5. AttemptsLeft'
    BY DEF ExtractorInv, AttemptsLeft
  <2>6. ActiveInv'
    <3>1. ASSUME NEW q \in active PROVE Written(q)'
      <4>1. q.text \in Texts /\ q.id \in Nat
        BY <2>2 DEF Prompt, Texts
      <4>2. CASE q.text = lastText' /\ q.id <= lastText'
        BY <1>0, <2>2, <2>3, <4>1, <4>2 DEF Written
      <4>3. CASE \E p \in prompts : q.text = p.text /\ q.id = p.id
        <5>1. q.text <= lastText /\ q.id <= lastText /\ retired[q.text] = 0
          BY <4>3 DEF ExtractorInv, ActiveInv, Written
        <5>2. retired'[q.text] <= 0 /\ retired'[q.text] \in Nat
          BY <2>3, <4>1, <5>1
        <5>3. q.text \in Nat
          BY <4>1 DEF Texts
        <5>4. QED
          BY <1>0, <2>2, <4>1, <5>1, <5>2, <5>3 DEF Written
      <4>4. QED
        BY <2>2, <3>1, <4>2, <4>3 DEF From
    <3>2. QED
      BY <2>2, <3>1 DEF ActiveInv, From, Distinct
  <2>7. FoundInv'
    <3> SUFFICES ASSUME NEW r \in Requests, pc[r] = "prompt_found", mem[r].prompt # None
                 PROVE  retired'[mem[r].prompt.text] <= mem[r].wait
      BY DEF FoundInv
    <3>1. mem[r].prompt.text \in Texts /\ mem[r].wait \in Nat
      BY <1>0, Bounds DEF TypeOK, Mem, Prompt
    <3>2. retired[mem[r].prompt.text] <= mem[r].wait
      BY DEF ExtractorInv, FoundInv
    <3>3. QED
      BY <2>3, <3>1, <3>2
  <2>8. CacheInv'
    <3> SUFFICES ASSUME Fresh(cache)
                 PROVE  retired'[cache.prompt.text] + cache.left <= TTL + Latency
      BY DEF CacheInv, Fresh
    <3>1. cache.prompt.text \in Texts /\ cache.left \in Nat
      BY <1>0, Bounds DEF TypeOK, Entry, Prompt, Fresh
    <3>2. retired[cache.prompt.text] + cache.left <= TTL + Latency
      BY DEF ExtractorInv, CacheInv
    <3>3. QED
      BY <2>3, <3>1, <3>2, Bounds
  <2>9. QED
    BY <2>4, <2>5, <2>6, <2>7, <2>8 DEF ExtractorInv
<1>3. QED
  BY <1>1, <1>2

\* A new document has the newest text and an id nobody else has.
LEMMA NewPromptType ==
    ASSUME ExtractorInv, NEW old \in BOOLEAN
    PROVE  /\ lastText + 1 \in Texts => NewPrompt(old) \in Prompt
           /\ NewPrompt(old).text = lastText + 1 /\ NewPrompt(old).id = lastText + 1
           /\ \A p \in prompts : p.id # NewPrompt(old).id
BY DEF NewPrompt, Prompt, ExtractorInv, TypeOK, ActiveInv, Written, Texts

\* The documents after the seed's save.
LEMMA SavedPrompts ==
    ASSUME ExtractorInv, SeedSave
    PROVE  /\ prompts' \subseteq Prompt /\ Distinct(prompts')
           /\ \A q \in prompts' : \E p \in prompts : q.text = p.text /\ q.id = p.id
<1> DEFINE new(p) == IF p.id = seed.id THEN [p EXCEPT !.old = FALSE] ELSE p
<1>1. \A p \in prompts : new(p) \in Prompt /\ new(p).text = p.text /\ new(p).id = p.id
  BY DEF ExtractorInv, TypeOK, Prompt
<1>2. prompts' = {new(p) : p \in prompts}
  BY DEF SeedSave
<1> HIDE DEF new
<1>3. QED
  BY <1>1, <1>2 DEF ExtractorInv, ActiveInv, Distinct

LEMMA SeedKeeps ==
    ASSUME ExtractorInv, SeedFind \/ SeedSave \/ SeedCreate
    PROVE  ExtractorInv'
<1>0. prompts \subseteq Prompt /\ lastText \in Nat /\ Distinct(prompts)
  BY DEF ExtractorInv, TypeOK, ActiveInv
<1>1. CASE SeedFind
  BY <1>0, <1>1, PromptKeeps DEF SeedFind, Finds, world
<1>2. CASE SeedSave
  <2>1. /\ UNCHANGED <<lastText, retired, cache, pc, mem, outcome>>
        /\ seed' = None /\ server' = "up"
    BY <1>2 DEF SeedSave
  <2>2. QED
    BY <1>2, <2>1, SavedPrompts, PromptKeeps
<1>3. CASE SeedCreate
  <2> DEFINE new == NewPrompt(FALSE)
             active == prompts \cup {new}
  <2>0. /\ lastText + 1 \in Texts => new \in Prompt
        /\ new.text = lastText + 1 /\ new.id = lastText + 1
        /\ \A p \in prompts : p.id # new.id
    BY NewPromptType
  <2> HIDE DEF new
  <2>1. /\ lastText + 1 \in Texts => active \subseteq Prompt
        /\ From(active, lastText + 1)
    BY <1>0, <2>0 DEF From, Distinct
  <2>2. /\ UNCHANGED <<cache, pc, mem, outcome>> /\ seed' = None /\ server' \in {"up", "down"}
        /\ \/ Write(active)
           \/ UNCHANGED world
    BY <1>3 DEF SeedCreate, new
  <2> HIDE DEF active
  <2>3. CASE Write(active)
    BY <2>1, <2>2, <2>3, PromptKeeps
  <2>4. CASE UNCHANGED world
    BY <1>0, <2>2, <2>4, PromptKeeps DEF world
  <2>5. QED
    BY <2>2, <2>3, <2>4
<1>4. QED
  BY <1>1, <1>2, <1>3

LEMMA OperatorKeeps ==
    ASSUME ExtractorInv, OperatorEdit \/ OperatorPublish \/ OperatorDeactivate
    PROVE  ExtractorInv'
<1>0. /\ prompts \subseteq Prompt /\ seed \in Prompt \cup {None} /\ lastText \in Nat
      /\ Distinct(prompts) /\ server \in {"down", "seed_save", "seed_create", "up"}
      /\ \A p \in prompts : p.id <= lastText /\ p.id \in Nat
      /\ UNCHANGED <<cache, server, seed, pc, mem, outcome>>
  BY DEF ExtractorInv, TypeOK, ActiveInv, Written, Prompt, Texts, OperatorEdit, OperatorPublish,
         OperatorDeactivate
<1>1. CASE OperatorEdit
  <2> DEFINE new(p) == [p EXCEPT !.text = lastText + 1]
             active(p) == (prompts \ {p}) \cup {new(p)}
  <2>1. PICK p \in prompts : Write(active(p))
    BY <1>1 DEF OperatorEdit
  <2>2. /\ lastText + 1 \in Texts => new(p) \in Prompt
        /\ new(p).text = lastText + 1 /\ new(p).id = p.id
    BY <1>0 DEF Prompt
  <2> HIDE DEF new
  <2>3. From(active(p), lastText + 1) /\ (lastText + 1 \in Texts => active(p) \subseteq Prompt)
    BY <1>0, <2>2 DEF From, Distinct
  <2> HIDE DEF active
  <2>4. QED
    BY <1>0, <2>1, <2>3, PromptKeeps
<1>2. CASE OperatorPublish
  <2>1. PICK old \in BOOLEAN : Write({NewPrompt(old)})
    BY <1>2 DEF OperatorPublish
  <2>2. /\ lastText + 1 \in Texts => {NewPrompt(old)} \subseteq Prompt
        /\ From({NewPrompt(old)}, lastText + 1)
    BY <1>0, NewPromptType DEF From, Distinct
  <2>3. QED
    BY <1>0, <2>1, <2>2, PromptKeeps
<1>3. CASE OperatorDeactivate
  <2>1. prompts' \subseteq prompts /\ UNCHANGED <<lastText, retired>>
    BY <1>3 DEF OperatorDeactivate
  <2>2. prompts' \subseteq Prompt /\ Distinct(prompts')
    BY <1>0, <2>1 DEF Distinct
  <2>3. QED
    BY <1>0, <2>1, <2>2, PromptKeeps
<1>4. QED
  BY <1>1, <1>2, <1>3

LEMMA RestartKeeps ==
    ASSUME ExtractorInv, Restart
    PROVE  ExtractorInv'
BY Bounds DEF Restart, ExtractorInv, TypeOK, AttemptsLeft, ActiveInv, Written, Distinct, FoundInv,
              CacheInv, Fresh, Labels, world

\* With each tick a retired text grows older by one, an entry has one tick less,
\* and an answer has been under way for one more.
LEMMA TickKeeps ==
    ASSUME ExtractorInv, Tick
    PROVE  ExtractorInv'
<1>0. TypeOK /\ UNCHANGED <<prompts, lastText, server, seed, pc, outcome>>
  BY DEF ExtractorInv, Tick
<1>1. /\ retired' \in [Texts -> 0..Horizon + 1]
      /\ \A t \in Texts : /\ retired[t] \in Nat /\ retired'[t] \in Nat
                          /\ retired'[t] <= retired[t] + 1
                          /\ t \in ActiveTexts => retired'[t] = retired[t]
  BY <1>0, Bounds DEF Tick, TypeOK
<1>2. /\ mem' \in [Requests -> Mem]
      /\ \A r \in Requests :
            /\ mem'[r].prompt = mem[r].prompt /\ mem'[r].attempt = mem[r].attempt
            /\ pc[r] = "prompt_found" => mem'[r].wait = mem[r].wait + 1
  <2>1. ASSUME NEW r \in Requests
        PROVE  LET m == IF At(r, "prompt_found") THEN [mem[r] EXCEPT !.wait = @ + 1] ELSE mem[r]
               IN  /\ m \in Mem /\ m.prompt = mem[r].prompt /\ m.attempt = mem[r].attempt
                   /\ pc[r] = "prompt_found" => m.wait = mem[r].wait + 1
    BY <1>0, Bounds DEF Tick, TypeOK, Mem, At
  <2>2. QED
    BY <2>1 DEF Tick
<1>3. /\ cache' \in Entry \cup {None}
      /\ Fresh(cache') => /\ Fresh(cache) /\ cache'.prompt = cache.prompt
                          /\ cache'.left = cache.left - 1
  BY <1>0, Bounds DEF Tick, TypeOK, Entry, Fresh
<1>4. TypeOK'
  BY <1>0, <1>1, <1>2, <1>3 DEF TypeOK
<1>5. AttemptsLeft'
  BY <1>0, <1>2 DEF ExtractorInv, AttemptsLeft
<1>6. ActiveInv'
  <2> SUFFICES ASSUME NEW p \in prompts
               PROVE  p.text <= lastText /\ p.id <= lastText /\ retired'[p.text] = 0
    BY <1>0 DEF ExtractorInv, ActiveInv, Written
  <2>1. p.text \in Texts /\ p.text \in ActiveTexts
    BY <1>0 DEF TypeOK, Prompt, ActiveTexts
  <2>2. QED
    BY <1>1, <2>1 DEF ExtractorInv, ActiveInv, Written
<1>7. FoundInv'
  <2> SUFFICES ASSUME NEW r \in Requests, pc[r] = "prompt_found", mem[r].prompt # None
               PROVE  retired'[mem[r].prompt.text] <= mem'[r].wait
    BY <1>0, <1>2 DEF FoundInv
  <2>1. mem[r].prompt.text \in Texts /\ mem[r].wait \in Nat
    BY <1>0, Bounds DEF TypeOK, Mem, Prompt
  <2>2. retired[mem[r].prompt.text] <= mem[r].wait
    BY DEF ExtractorInv, FoundInv
  <2>3. QED
    BY <1>1, <1>2, <2>1, <2>2
<1>8. CacheInv'
  <2> SUFFICES ASSUME Fresh(cache')
               PROVE  retired'[cache'.prompt.text] + cache'.left <= TTL + Latency
    BY DEF CacheInv
  <2>1. cache.prompt.text \in Texts /\ cache.left \in Nat
    BY <1>0, <1>3, Bounds DEF TypeOK, Entry, Prompt, Fresh
  <2>2. retired[cache.prompt.text] + cache.left <= TTL + Latency
    BY <1>3 DEF ExtractorInv, CacheInv
  <2>3. QED
    BY <1>1, <1>3, <2>1, <2>2, Bounds
<1>9. QED
  BY <1>4, <1>5, <1>6, <1>7, <1>8 DEF ExtractorInv

----------------------------------------------------------------------------
(* The theorems *)

LEMMA ExtractorInvHolds == Spec => []ExtractorInv
<1>1. Init => ExtractorInv
  <2> SUFFICES ASSUME Init PROVE ExtractorInv
    OBVIOUS
  <2>1. TypeOK
    <3>1. prompts \subseteq Prompt
      <4>1. 1 \in Texts
        BY Bounds DEF Texts
      <4>2. [id |-> 1, text |-> 1, old |-> TRUE] \in Prompt
        BY <4>1 DEF Prompt
      <4>3. QED
        BY <4>2 DEF Init
    <3>2. lastText \in 0..MaxTexts
      BY Bounds DEF Init
    <3>3. QED
      BY <3>1, <3>2, Bounds DEF Init, TypeOK, Labels, Outcomes
  <2>2. ActiveInv
    <3>1. \A p \in prompts : p.id = 1 /\ p.text = 1 /\ lastText = 1
      BY DEF Init
    <3>2. 1 \in Texts
      BY Bounds DEF Texts
    <3>3. \A p, q \in prompts : p = q
      BY DEF Init
    <3>4. QED
      BY <3>1, <3>2, <3>3 DEF Init, ActiveInv, Written, Distinct
  <2>3. QED
    BY <2>1, <2>2 DEF Init, ExtractorInv, AttemptsLeft, FoundInv, CacheInv, Fresh
<1>2. ExtractorInv /\ [Next]_vars => ExtractorInv'
  <2> SUFFICES ASSUME ExtractorInv, [Next]_vars PROVE ExtractorInv'
    OBVIOUS
  <2>1. CASE UNCHANGED vars
    BY <2>1 DEF vars, world, ExtractorInv, TypeOK, AttemptsLeft, ActiveInv, Written, Distinct,
                FoundInv, CacheInv, Fresh
  <2>2. ASSUME NEW r \in Requests, Begin(r) \/ Step(r) PROVE ExtractorInv'
    BY <2>2, ReadPdfKeeps, FindPromptKeeps, PromptFoundKeeps, CallKeeps DEF Step
  <2>3. QED
    BY <2>1, <2>2, SeedKeeps, RestartKeeps, OperatorKeeps, TickKeeps DEF Next
<1>3. QED
  BY <1>1, <1>2, PTL DEF Spec

\* Every variable keeps its type: the retries stop at the last attempt
\* (gemini-retry.helper.ts:57-73).
THEOREM TypeCorrect == Spec => []TypeOK
<1>1. ExtractorInv => TypeOK
  BY DEF ExtractorInv
<1>2. QED
  BY <1>1, ExtractorInvHolds, PTL

\* An extraction starts with a prompt that was the active one less than TTL ago,
\* but for the time its find took, for every TTL and every such time, however
\* finds, edits, withdrawals, publications and restarts follow one another
\* (llm-prompt.service.ts:19-35).
THEOREM PromptIsRecent == Spec => PromptStaleForTTL
<1>1. ExtractorInv /\ [Next]_vars =>
          [\A r \in Requests :
              pc[r] \in {"read_pdf", "prompt_found"} /\ At(r, "call")' =>
                  retired[mem'[r].prompt.text] < TTL + Latency]_vars
  <2> SUFFICES ASSUME ExtractorInv, Next, NEW r \in Requests,
                      pc[r] \in {"read_pdf", "prompt_found"}, pc'[r] = "call"
               PROVE  retired[mem'[r].prompt.text] < TTL + Latency
    BY DEF At
  <2>0. TypeOK
    BY DEF ExtractorInv
  <2>1. ReadPdf(r) \/ PromptFound(r)
    <3>1. ASSUME NEW q \in Requests, q # r, Begin(q) \/ Step(q) PROVE FALSE
      <4>1. pc'[r] = pc[r]
        BY <2>0, <3>1 DEF Begin, Step, ReadPdf, FindPrompt, PromptFound, Call, Sleep, Fail, End,
           Goto, TypeOK
      <4>2. QED
        BY <4>1
    <3>2. ~Restart
      BY DEF Restart
    <3>3. Begin(r) \/ Step(r)
      BY <3>1, <3>2 DEF Next, SeedFind, SeedSave, SeedCreate, OperatorEdit, OperatorPublish,
         OperatorDeactivate, Tick
    <3>4. QED
      BY <3>3 DEF Begin, Step, FindPrompt, Call, Sleep, At
  <2>2. CASE ReadPdf(r)
    <3>1. Fresh(cache) /\ Goto(r, "call", [NoMem EXCEPT !.prompt = cache.prompt])
      BY <2>0, <2>2 DEF ReadPdf, Fail, End, Goto, TypeOK
    <3>2. mem'[r].prompt = cache.prompt
      BY <2>0, <3>1 DEF Goto, TypeOK, NoMem
    <3>3. cache.prompt.text \in Texts /\ cache.left \in Nat /\ cache.left > 0
      BY <2>0, <3>1, Bounds DEF TypeOK, Entry, Prompt, Fresh
    <3>4. retired[cache.prompt.text] + cache.left <= TTL + Latency
      BY <3>1 DEF ExtractorInv, CacheInv
    <3>5. retired[cache.prompt.text] \in Nat
      BY <2>0, <3>3, Bounds DEF TypeOK
    <3>6. QED
      BY <3>2, <3>3, <3>4, <3>5, Bounds
  <2>3. CASE PromptFound(r)
    <3>1. mem[r].prompt # None /\ Goto(r, "call", [NoMem EXCEPT !.prompt = mem[r].prompt])
      BY <2>0, <2>3 DEF PromptFound, Fail, End, Goto, TypeOK
    <3>2. mem'[r].prompt = mem[r].prompt
      BY <2>0, <3>1 DEF Goto, TypeOK, NoMem
    <3>3. mem[r].prompt.text \in Texts /\ mem[r].wait \in 0..Latency
      BY <2>0, <3>1, Bounds DEF TypeOK, Mem, Prompt
    <3>4. retired[mem[r].prompt.text] <= mem[r].wait
      BY <2>3, <3>1 DEF ExtractorInv, FoundInv, PromptFound, At
    <3>5. retired[mem[r].prompt.text] \in Nat
      BY <2>0, <3>3, Bounds DEF TypeOK
    <3>6. QED
      BY <3>2, <3>3, <3>4, <3>5, Bounds
  <2>4. QED
    BY <2>1, <2>2, <2>3
<1>2. QED
  BY <1>1, ExtractorInvHolds, PTL DEF Spec, PromptStaleForTTL

\* The seed at start-up never puts an older text back, however long the
\* operator's edits get in between its find and its save
\* (llm-prompt-seed.service.ts:24-64).
THEOREM TextsAreKept == Spec => OperatorTextKept
<1>1. ExtractorInv /\ [Next]_vars =>
          [\A p \in prompts, q \in prompts' : q.id = p.id => q.text >= p.text]_vars
  <2> SUFFICES ASSUME ExtractorInv, Next, NEW p \in prompts, NEW q \in prompts', q.id = p.id
               PROVE  q.text >= p.text
    OBVIOUS
  <2>0. /\ p.text \in Nat /\ lastText \in Nat /\ p.text <= lastText
        /\ \A o \in prompts : o.id = p.id => o = p
    BY Bounds DEF ExtractorInv, TypeOK, Prompt, Texts, ActiveInv, Written, Distinct
  <2>1. CASE \E active : Write(active) /\ \A o \in active : o \in prompts \/ o.text = lastText + 1
    BY <2>0, <2>1 DEF Write
  <2>2. CASE SeedSave
    <3>1. PICK o \in prompts : q.text = o.text /\ q.id = o.id
      BY <2>2, SavedPrompts
    <3>2. QED
      BY <2>0, <3>1
  <2>3. CASE prompts' \subseteq prompts
    BY <2>0, <2>3
  <2>4. \/ prompts' \subseteq prompts \/ SeedSave
        \/ \E active : Write(active) /\ \A o \in active : o \in prompts \/ o.text = lastText + 1
    <3>1. CASE SeedCreate \/ OperatorPublish
      <4>1. \A old : NewPrompt(old).text = lastText + 1
        BY DEF NewPrompt
      <4>2. QED
        BY <3>1, <4>1 DEF SeedCreate, OperatorPublish, world
    <3>2. CASE OperatorEdit
      <4>1. \A o \in prompts : [o EXCEPT !.text = lastText + 1].text = lastText + 1
        BY DEF ExtractorInv, TypeOK, Prompt
      <4>2. QED
        BY <3>2, <4>1 DEF OperatorEdit
    <3>3. CASE ~SeedCreate /\ ~OperatorPublish /\ ~OperatorEdit /\ ~SeedSave
      BY <3>3 DEF Next, Begin, Step, ReadPdf, FindPrompt, PromptFound, Call, Sleep, SeedFind,
         Restart, OperatorDeactivate, Tick, world
    <3>4. QED
      BY <3>1, <3>2, <3>3
  <2>5. QED
    BY <2>1, <2>2, <2>3, <2>4
<1>2. QED
  BY <1>1, ExtractorInvHolds, PTL DEF Spec, OperatorTextKept

\* Where the index exists, a start-up and the operator never leave two active
\* prompts (llm-prompt.schema.ts:41-44, llm-prompt-seed.service.ts:47-58).
THEOREM IndexKeepsOne ==
    ASSUME UniqueIndex
    PROVE  Spec => []OneActivePrompt
<1>1. Init => OneActivePrompt
  BY DEF Init, OneActivePrompt
<1>2. OneActivePrompt /\ [Next]_vars => OneActivePrompt'
  <2> SUFFICES ASSUME OneActivePrompt, [Next]_vars PROVE OneActivePrompt'
    OBVIOUS
  <2>1. CASE SeedSave
    BY <2>1 DEF SeedSave, OneActivePrompt
  <2>2. CASE SeedCreate
    BY <2>2 DEF SeedCreate, Write, OneActivePrompt, world
  <2>3. CASE OperatorEdit \/ OperatorPublish
    BY <2>3 DEF OperatorEdit, OperatorPublish, Write, OneActivePrompt
  <2>4. CASE ~SeedSave /\ ~SeedCreate /\ ~OperatorEdit /\ ~OperatorPublish
    <3>1. prompts' \subseteq prompts
      BY <2>4 DEF Next, Begin, Step, ReadPdf, FindPrompt, PromptFound, Call, Sleep, SeedFind,
         Restart, OperatorDeactivate, Tick, world, vars
    <3>2. QED
      BY <3>1 DEF OneActivePrompt
  <2>5. QED
    BY <2>1, <2>2, <2>3, <2>4
<1>3. QED
  BY <1>1, <1>2, PTL DEF Spec

=============================================================================
