----------------------------- MODULE Extractor -----------------------------
(***************************************************************************)
(* What Resumes takes for one step, Extract: reading the PDF, getting the  *)
(* prompt, asking Gemini with retries, and reading its answer.  With it go *)
(* the prompt cache, the seed at start-up, and the operator who edits the  *)
(* prompt in MongoDB while extractions run.                                *)
(***************************************************************************)
EXTENDS GeminiRetry

CONSTANTS
    Requests,       \* request slots: how many extractions can be in flight
    TTL,            \* ttlMs of the cache, in ticks of the clock
    Latency,        \* bound: the ticks a find may take
    MaxTexts,       \* bound: how many prompt texts are ever written
    UniqueIndex,    \* the unique index of the schema exists (autoIndex)
    None            \* no document, no cache entry

VARIABLES
    prompts,        \* the active documents of the key in llm_prompts
    lastText,       \* texts up to this one have been written
    retired,        \* the ticks since each text was last an active one
    cache,          \* the cache entry of the key
    server,         \* how far the process has started
    seed,           \* the document the seed has loaded
    pc,             \* the next step of each extraction
    mem,            \* the local variables of each extraction
    outcome         \* what each has left in its profile

world == <<prompts, lastText, retired>>
vars == <<world, cache, server, seed, pc, mem, outcome>>

ASSUME TimesAssumption ==
    TTL \in Nat \ {0} /\ Latency \in Nat /\ MaxTexts \in Nat \ {0}

----------------------------------------------------------------------------
(* The data *)

\* Texts are numbered in the order in which they are written, also as the id
\* of the document they were first written to.  old: a model or a token limit
\* that the seed replaces.
Texts == 1..MaxTexts
Prompt == [id : Texts, text : Texts, old : BOOLEAN]

\* left: the ticks until expiresAt.
Entry == [prompt : Prompt, left : 0..TTL]

\* The ticks are counted as far as the properties need them.
Horizon == TTL + Latency

\* What Gemini may answer: an object, bare, in a code fence or as a string;
\* another JSON value than an object; null, or no JSON at all; nothing.
Answers == {"object", "fenced", "quoted", "other_json", "null", "garbage", "empty"}

\* The errors that are thrown before and after the calls to Gemini.
Errors == GeminiErrors \cup {"unreadable_pdf", "no_prompt", "mongo",
                             "empty_answer", "invalid_json"}

\* blank: a profile without any content.
Outcomes == {"none", "profile", "blank"} \cup UserTexts \cup Errors

Labels == {"idle", "read_pdf", "find_prompt", "prompt_found", "call", "sleep"}

\* prompt: the one found or served; wait: the ticks since it was found;
\* attempt: the call to Gemini that comes next.
Mem == [prompt : Prompt \cup {None}, wait : 0..Latency, attempt : 1..MaxAttempts]
NoMem == [prompt |-> None, wait |-> 0, attempt |-> 1]

At(r, label) == pc[r] = label

Goto(r, label, m) ==
    /\ pc' = [pc EXCEPT ![r] = label]
    /\ mem' = [mem EXCEPT ![r] = m]

End(r, result) ==
    /\ Goto(r, "idle", NoMem)
    /\ outcome' = [outcome EXCEPT ![r] = result]

----------------------------------------------------------------------------
(* extractAndSave and what it calls *)

\* Every error ends in the catch block of extractAndSave.  extract has already
\* replaced those of Gemini by a text for the user.
ThrownByExtract(message) ==
    IF message \in GeminiErrors THEN ToUserFacing(message) ELSE message

ExtractionError(message) == ToUserFacing(ThrownByExtract(message))

Fail(r, message) == End(r, ExtractionError(message))

Begin(r) ==
    /\ server = "up" /\ At(r, "idle")
    /\ Goto(r, "read_pdf", NoMem)
    /\ outcome' = [outcome EXCEPT ![r] = "none"]
    /\ UNCHANGED <<world, cache, server, seed>>

\* Mutant: an entry is served in the tick in which it expires, and later.
Fresh_Boundary(entry) == entry # None /\ entry.left >= 0

Fresh(entry) == entry # None /\ entry.left > 0

\* extractFromBuffer, and the look into the cache that follows.  A text of less
\* than 50 characters is an error, as is a file that cannot be read.
ReadPdf(r) ==
    /\ At(r, "read_pdf")
    /\ \/ /\ Fresh(cache)
          /\ Goto(r, "call", [NoMem EXCEPT !.prompt = cache.prompt])
          /\ UNCHANGED outcome
       \/ /\ ~Fresh(cache)
          /\ Goto(r, "find_prompt", NoMem)
          /\ UNCHANGED outcome
       \/ Fail(r, "unreadable_pdf")
    /\ UNCHANGED <<world, cache, server, seed>>

\* What findOne({ key, isActive: true }) may find: any of them, if there are
\* more.
Finds == IF prompts = {} THEN {None} ELSE prompts

\* The find, when MongoDB executes it.
FindPrompt(r) ==
    /\ At(r, "find_prompt")
    /\ \/ /\ \E found \in Finds : Goto(r, "prompt_found", [NoMem EXCEPT !.prompt = found])
          /\ UNCHANGED outcome
       \/ Fail(r, "mongo")
    /\ UNCHANGED <<world, cache, server, seed>>

\* Mutant: that there is no active prompt is cached too.
PromptFound_CachesMissing(r) ==
    LET found == mem[r].prompt IN
    /\ At(r, "prompt_found")
    /\ cache' = [prompt |-> found, left |-> TTL]
    /\ IF found # None
       THEN Goto(r, "call", [NoMem EXCEPT !.prompt = found]) /\ UNCHANGED outcome
       ELSE Fail(r, "no_prompt")
    /\ UNCHANGED <<world, server, seed>>

\* The answer of the find arrives.  It replaces whatever is cached by now.
PromptFound(r) ==
    LET found == mem[r].prompt IN
    /\ At(r, "prompt_found")
    /\ \/ /\ found # None
          /\ cache' = [prompt |-> found, left |-> TTL]
          /\ Goto(r, "call", [NoMem EXCEPT !.prompt = found])
          /\ UNCHANGED outcome
       \/ found = None /\ Fail(r, "no_prompt") /\ UNCHANGED cache
    /\ UNCHANGED <<world, server, seed>>

\* parseLlmJson tries the answer as it is, without fence, and what a string
\* holds; normalizeExtractedProfile takes from the value the fields it knows,
\* which fails on null only.
Normalized(answer) ==
    IF answer \in {"object", "fenced", "quoted"} THEN "profile" ELSE "blank"

Parses(answer) == answer \notin {"null", "garbage", "empty"}

\* One attempt of withGeminiRetry, and the end of extract.
Call(r) ==
    /\ At(r, "call")
    /\ \/ \E answer \in Answers :
             \/ Parses(answer) /\ End(r, Normalized(answer))
             \/ answer = "empty" /\ Fail(r, "empty_answer")
             \/ answer \in {"null", "garbage"} /\ Fail(r, "invalid_json")
       \/ \E message \in GeminiErrors :
             \/ /\ Retries(mem[r].attempt, message)
                /\ Goto(r, "sleep", mem[r])
                /\ UNCHANGED outcome
             \/ ~Retries(mem[r].attempt, message) /\ Fail(r, message)
    /\ UNCHANGED <<world, cache, server, seed>>

Sleep(r) ==
    /\ At(r, "sleep")
    /\ Goto(r, "call", [mem[r] EXCEPT !.attempt = NextAttempt(@)])
    /\ UNCHANGED <<world, cache, server, seed, outcome>>

----------------------------------------------------------------------------
(* Start-up: the process takes requests once the seed is through *)

SeedFind ==
    /\ server = "down"
    /\ seed' \in Finds
    /\ server' = CASE seed' = None -> "seed_create"
                   [] seed' # None /\ seed'.old -> "seed_save"
                   [] OTHER -> "up"
    /\ UNCHANGED <<world, cache, pc, mem, outcome>>

\* Mutant: the document is written as it was loaded.
SeedSave_Whole ==
    /\ server = "seed_save"
    /\ server' = "up"
    /\ prompts' = {IF p.id = seed.id THEN [seed EXCEPT !.old = FALSE] ELSE p : p \in prompts}
    /\ seed' = None
    /\ UNCHANGED <<lastText, retired, cache, pc, mem, outcome>>

\* save() writes the model and the limit; the document may be inactive by now.
SeedSave ==
    /\ server = "seed_save"
    /\ server' = "up"
    /\ prompts' = {IF p.id = seed.id THEN [p EXCEPT !.old = FALSE] ELSE p : p \in prompts}
    /\ seed' = None
    /\ UNCHANGED <<lastText, retired, cache, pc, mem, outcome>>

\* A new text becomes an active one.  One that is no longer is retired as of now.
Write(active) ==
    /\ lastText < MaxTexts
    /\ lastText' = lastText + 1
    /\ prompts' = active
    /\ retired' = [retired EXCEPT ![lastText'] = 0]

NewPrompt(old) == [id |-> lastText + 1, text |-> lastText + 1, old |-> old]

\* create fails on the index when there is an active prompt by now, or as any
\* call may, and then the process does not start.  Without the index it adds
\* the prompt to the one there is.
SeedCreate ==
    /\ server = "seed_create"
    /\ \/ /\ UniqueIndex => prompts = {}
          /\ Write(prompts \cup {NewPrompt(FALSE)})
          /\ server' = "up"
       \/ server' = "down" /\ UNCHANGED world
    /\ seed' = None
    /\ UNCHANGED <<cache, pc, mem, outcome>>

\* A restart at any time, also during the seed.  The cache is lost.
Restart ==
    /\ server # "down"
    /\ server' = "down"
    /\ cache' = None /\ seed' = None
    /\ pc' = [r \in Requests |-> "idle"]
    /\ mem' = [r \in Requests |-> NoMem]
    /\ UNCHANGED <<world, outcome>>

----------------------------------------------------------------------------
(* The operator, in MongoDB, and time *)

\* $set of the text in an active document, or a new document where there is
\* none, which may name any model.
OperatorEdit ==
    /\ \E p \in prompts :
          Write((prompts \ {p}) \cup {[p EXCEPT !.text = lastText + 1]})
    /\ UNCHANGED <<cache, server, seed, pc, mem, outcome>>

OperatorPublish ==
    /\ prompts = {}
    /\ \E old \in BOOLEAN : Write({NewPrompt(old)})
    /\ UNCHANGED <<cache, server, seed, pc, mem, outcome>>

OperatorDeactivate ==
    /\ \E p \in prompts : prompts' = prompts \ {p}
    /\ UNCHANGED <<lastText, retired, cache, server, seed, pc, mem, outcome>>

ActiveTexts == {p.text : p \in prompts}

\* No find takes longer than Latency.
Tick ==
    /\ \A r \in Requests : At(r, "prompt_found") => mem[r].wait < Latency
    /\ retired' = [t \in Texts |->
           IF t \in ActiveTexts \/ retired[t] > Horizon THEN retired[t] ELSE retired[t] + 1]
    /\ cache' = IF Fresh(cache) THEN [cache EXCEPT !.left = @ - 1] ELSE cache
    /\ mem' = [r \in Requests |->
           IF At(r, "prompt_found") THEN [mem[r] EXCEPT !.wait = @ + 1] ELSE mem[r]]
    /\ UNCHANGED <<prompts, lastText, server, seed, pc, outcome>>

----------------------------------------------------------------------------

\* An empty database, or a prompt an earlier release has seeded.
Init ==
    /\ \/ prompts = {} /\ lastText = 0
       \/ prompts = {[id |-> 1, text |-> 1, old |-> TRUE]} /\ lastText = 1
    /\ retired = [t \in Texts |-> 0]
    /\ cache = None
    /\ server = "down"
    /\ seed = None
    /\ pc = [r \in Requests |-> "idle"]
    /\ mem = [r \in Requests |-> NoMem]
    /\ outcome = [r \in Requests |-> "none"]

Step(r) == ReadPdf(r) \/ FindPrompt(r) \/ PromptFound(r) \/ Call(r) \/ Sleep(r)

Next ==
    \/ \E r \in Requests : Begin(r) \/ Step(r)
    \/ SeedFind \/ SeedSave \/ SeedCreate \/ Restart
    \/ OperatorEdit \/ OperatorPublish \/ OperatorDeactivate
    \/ Tick

Spec == Init /\ [][Next]_vars

\* Every call that was sent is answered, and every timer goes off.
FairSpec == Spec /\ \A r \in Requests : WF_vars(Step(r))

----------------------------------------------------------------------------
(* Properties *)

\* Every variable has its type.
TypeOK ==
    /\ prompts \subseteq Prompt
    /\ lastText \in 0..MaxTexts
    /\ retired \in [Texts -> 0..Horizon + 1]
    /\ cache \in Entry \cup {None}
    /\ server \in {"down", "seed_save", "seed_create", "up"}
    /\ seed \in Prompt \cup {None}
    /\ pc \in [Requests -> Labels]
    /\ mem \in [Requests -> Mem]
    /\ outcome \in [Requests -> Outcomes]

\* An extraction starts with a prompt that was an active one less than TTL ago,
\* but for the time its find took: also when the operator edits, withdraws and
\* publishes prompts, when a late answer overwrites a newer entry, and when the
\* process restarts.
PromptStaleForTTL ==
    [][\A r \in Requests :
          pc[r] \in {"read_pdf", "prompt_found"} /\ At(r, "call")' =>
              retired[mem'[r].prompt.text] < TTL + Latency]_vars

\* The seed at start-up does not undo what the operator writes meanwhile: the
\* text of a prompt document only ever changes to a newer one.
OperatorTextKept ==
    [][\A p \in prompts, q \in prompts' : q.id = p.id => q.text >= p.text]_vars

\* A key has one active prompt at most, so that a find is not left to choose:
\* where the unique index exists, also when the operator publishes the first one
\* while a start-up is between its find and its create.
OneActivePrompt == \A p, q \in prompts : p = q

\* Every extraction ends, whatever Gemini answers and however often it is busy.
EveryExtractionEnds ==
    \A r \in Requests : ~At(r, "idle") ~> At(r, "idle")

=============================================================================
