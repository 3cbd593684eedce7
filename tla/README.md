# JobPilot backend: TLA+ models and proofs

The JobPilot backend is a NestJS API. A user signs up, uploads one resume (a
PDF), reviews the profile that Gemini extracts from it, and confirms it; the
confirmed profile is embedded and stored as a vector in Qdrant. An
administrator keeps a catalogue of jobs whose vectors are stored likewise.
This directory models what the API does to its stores, checks it with TLC and
proves part of it with TLAPS.

Run a model with `tlc -config X.cfg M`, check the proofs with `tlapm M.tla`.
`PROJECT.json` lists the runs, maps every definition to the lines it
translates, and lists the hazards the properties are for.

## 1. Inventory

| Component | State it keeps | Operations | Interacts with |
|---|---|---|---|
| Resume endpoints (`resumes/services/resumes.service.ts`) | `resumes`, `resume_profiles` (MongoDB) | upload, quota, edit profile, confirm, delete; list, read profile, download | all the resume parts below, `users` |
| Quotas (`resume-limit.service.ts`, `resume-quota.interface.ts`) | `users.resumeUploadCount`, `profileEditCount` | canUpload, sync and reset of the count, permissions of the profile editor | resume endpoints |
| Extraction (`resumes/extraction/`) | status and content of the profile | extractAndSave | PDF reader, Gemini, LLM prompts |
| Resume vector (`resume-vector.service.ts`, `embeddings/`) | hash, sync time and sync error in the profile; one point per user in Qdrant | syncConfirmedProfile, recordSyncFailure, deleteForUser | Gemini embeddings, Qdrant |
| File storage (`resumes/storage/`) | PDFs on disk or in OCI | save, delete, read | resume endpoints |
| Sessions (`auth/services/token.service.ts`) | `refresh:<jti>`, `user_refresh:<user>` (Redis, with expiry) | issue, rotate, revoke one, revoke all | accounts |
| Accounts, one-time tokens (`auth.service.ts`, `verification.service.ts`) | `users`, `auth_tokens` (MongoDB) | register, verify, reset password, link Google, login | sessions, mail |
| Job catalogue (`jobs/services/jobs.service.ts`, `job-seed.service.ts`) | `jobs` (MongoDB) | create (upsert), update, close, delete, seed | job vectors |
| Job vectors (`job-vector.service.ts`) | sync metadata of the job; a point per job | sync, remove, embed all | Gemini embeddings, Qdrant |
| LLM prompts (`llm-prompts/services/`) | `llm_prompts`, an in-memory cache (60 s) | get, seed at start-up; invalidate, which nothing calls | extraction |
| Gemini retry (`shared/helpers/gemini-retry.helper.ts`) | none | back-off around a call, text for the user | extraction, embeddings |
| Qdrant client (`common/qdrant/qdrant.service.ts`) | collections, payload indexes and points in Qdrant; in memory, which collections have their indexes | upsert, delete | both vector services |
| Refresh cookie (`auth.controller.ts`, `cookie.helper.ts`) | the browser's cookie | set by login, refresh and Google, cleared by logout | sessions |
| Wiring (config, database, Redis client, health, filters, guards, mail) | none of their own | | |

Everything runs in one Node process. There are no locks and no MongoDB
transactions: a handler is a chain of `await`s, and between two of them any
other handler runs. What is hard follows from that:

* *Overlapping requests.* Quotas are checked on a document loaded several
  awaits before it is written; a delete runs beside an upload or a confirm.
* *Partial failure.* Replacing a resume touches the storage, Qdrant, two
  collections and the user, in a fixed order, each of which may fail; Qdrant
  may fail after it has done what it was asked.
* *Restarts.* Each deployment reloads the process; nothing resumes a handler.
* *Copies.* The skills of the resume, the vector, the recorded hash, and the
  upload count all restate what another store says.

What makes each component correct:

* resume endpoints: a profile never outlives its resume; the status follows
  processing → review or failure → confirmed; a resume document has its file;
* quotas: counts within their limits; a charge is not given back while the
  resume that paid for it is there; what the response offers is accepted;
* extraction: every upload leaves an outcome and is answered;
* vector: a point belongs to a stored, confirmed profile, and has the vector
  of its present embedding text, or an error says that it has not;
* sessions: a refresh token is used once, and none survives a password reset;
* accounts: a one-time token is used once; an address has one account;
* jobs: only active jobs have a point, of their present text; a key has one job;
* prompts: there is one active prompt, a stale one is served for a bounded time
  only, and the seed does not undo an operator's edit;
* extraction beneath `extractAndSave`: bounded attempts, and an error that says
  what happened;
* Qdrant client: an upsert that is answered has stored its point, in a
  collection that has its indexes;
* cookie: a browser that lost no answer can refresh, or its session was ended.

## 2. Modules

| Module | What it is |
|---|---|
| `Resumes` | the resume endpoints, quotas, extraction, vector and storage of one user |
| `ResumeLifecycle` | what a user is promised about resumes and quotas; `Resumes` implements it |
| `Extractor` | the one step `Extract` of `Resumes` in detail, with the prompt cache, the seed at start-up and an operator |
| `GeminiRetry` | the retry helper, for `Extractor` and `VectorClient` |
| `VectorClient` | the steps that embed, upsert and delete a point, of `Resumes` and `Jobs`, in detail |
| `PointStore` | what those steps rely on; `VectorClient` implements it |
| `Auth` | the account of one address, its e-mailed links and its refresh sessions |
| `Browser` | `Auth` with the refresh cookie of one browser |
| `Jobs` | the job catalogue, its batches and the vectors of its active jobs |
| `MCResumes`, `MCAuth`, `MCBrowser`, `MCJobs` | the values TLC needs for the constants, and the symmetry sets |
| `ResumesProofs` | theorems about `Resumes`: its types, the edit count |
| `ResumesOverlapProofs` | theorems about `Resumes`: stages, points, files, edits, under overlapping requests |
| `ResumesQuotaProofs` | theorems about `Resumes`: the upload quota, skills, the vector, the refinement of `ResumeLifecycle`; one request at a time |
| `AuthProofs`, `BrowserProofs`, `JobsProofs`, `VectorClientProofs`, `ExtractorProofs` | the theorems about `Auth`, `Browser`, `Jobs`, `VectorClient` and `Extractor` |

### How `Resumes` corresponds to the code

Every collection is keyed or filtered by the user, and the point id is a
function of the user id, so one user is modelled.

| Variable | Code |
|---|---|
| `uploadCount` | `users.resumeUploadCount` |
| `resumes` | collection `resumes`, by `_id` (`ResumeDoc`: `skillsExtracted`, the document version) |
| `profiles` | collection `resume_profiles`, by `resumeId` (`ProfileDoc`: status, content, `profileEditCount`, `qdrantSyncError`, hash, version) |
| `files` | the stored PDFs |
| `point` | the user's point in Qdrant, with the resume id of its payload |
| `lastId` | how many uploads have been given an id |
| `calm` | a history: MongoDB has never failed, no call has failed after its effect, and the process has not been restarted. No action reads it |
| `pc`, `mem` | where each request is in its handler, and its local variables: documents it has loaded, the paths it has assigned, the count it has read |

An action is what a handler does from one awaited call to the next: the call
itself, which reads or writes one store atomically, and the code after it. The
labels of `pc` are named for the call that comes next. A handler's chain is

    upload   sync_resume, sync_profile, [sync_reset], find_existing,
             [find_existing_profile, delete_file, delete_vector,
             delete_profile, delete_resume], save_file, create_resume,
             upsert_profile, extract, save_extracted, [save_failed],
             save_skills, charge
    quota    sync_resume, sync_profile, [sync_reset]
    delete   delete_file, delete_vector, delete_profile, delete_resume
    edit     edit_profile, edit_save, save_skills, [upsert_point, save_synced
             or record_failure]
    confirm  confirm_save, confirm_resume, [save_skills], [upsert_point,
             save_synced or record_failure]

The first call of a handler is part of its `Begin...` action. Calls that
read only for the response (the last `find` of upload's catch block, of confirm
and of quota) are left out, as are requests rejected before their first write
when the rejection leaves nothing behind.

*Mongoose.* `save()` writes the paths that were assigned a different value and
no others. It fails when the document is gone, and, when it writes a whole
array, when the stored version differs from the loaded one; a save of scalar
fields alone checks no version. A failed save keeps the paths as modified, so
the catch block of `extractAndSave` and `recordSyncFailure` write them again.
`CanSave`, `Written`, `NextVersion` and `SaveProfile` say this; they are marked
external in the map.

*Data.* A profile's fields form two groups, `text` (scalars) and `lists`
(arrays), because Mongoose treats the two differently; each holds `Blank` or one
of `Values`. `dedupeSkills` and the embedding text are functions of a content that
lose some of it: the text merges skills with technologies and is cut at 12,000
characters. They are the constant operators `SkillsOf` and `EmbeddingText`, of which
nothing is assumed; `MCResumes` gives them values for which contents with the same
entries have one text and one list of skills. `skills` holds such a list, `hash` the text
that `embeddingTextHash` was computed from, and `SyncStart` compares texts, as
`syncConfirmedProfile` compares their hashes. The point holds the content it was
made of, because its payload has some of the fields as they are: after an edit that
leaves the text as it was the payload is an older one, and no property says otherwise.
`qdrantSyncedAt` is set and cleared with the hash. The other
times, the model name and the messages decide nothing and are left out.
Reading the PDF, trimming, Gemini and parsing are one step with any content as
its outcome, or an error; embedding and upserting are one step. `Extractor` and
`VectorClient` have these steps in detail.

*Failures.* `Faults` names the services that may fail, at every call: `mongo`,
`storage`, `gemini`, `qdrant` (no effect), `qdrant_late` (the effect, and an
error). `Crashes` lets the process die between any two steps. Some properties
hold only as long as every failure is clean, since the code has no repair for
a vector or a copy that was not brought up to date when MongoDB failed or the
process died: they say so by `calm`, so that one run checks them beside
those that no failure breaks.

*Initial states.* A new account, or an account from the time when failed
extractions were charged; `syncUploadCountWithResumeState` is there for the
latter.

*Request bodies.* `PATCH /resumes/profile` and `POST /resumes/profile/confirm`
may leave any content in the document. Confirm rejects a confirmed profile
when the body object has keys. The build targets ES2023, so that every field a
dto class declares is an own property of its instances, and the global
validation pipe replaces the body by an instance: the condition always holds,
and `CanConfirm` says so.

*Refinement.* `ImplementsLifecycle` maps the profile of each id to its stage
(`StatusOf`, "none" when there is no document), `profileEditCount` to the edits,
`resumeUploadCount` to the count, and the uploads between saving a successful
extraction and charging it to `owed`. Everything else is internal: files,
points, documents loaded and written, failures. A crash between the two is
the abstract `Forgo`: such an upload is never charged.

### How `Extractor` corresponds to the code

| Variable | Code |
|---|---|
| `prompts` | the active documents of the key in `llm_prompts`, of which `findOne` finds any; an inactive one is never read again and is not kept |
| `cache` | the entry of the key in `LlmPromptService.cache`, with the time it has left |
| `server`, `seed` | how far `onModuleInit` has come (Nest takes requests afterwards), and the document it has loaded |
| `pc`, `mem` | as in `Resumes`; a find is two steps, its execution in MongoDB and the arrival of its answer |
| `outcome` | what `extractAndSave` leaves in the profile: content, or the text of the error |
| `lastText`, `retired` | histories: how many texts were written, and how long ago each was an active one |

    extract   read_pdf, [find_prompt, prompt_found], call, [sleep, call]...
    start-up  SeedFind, [SeedSave or SeedCreate]

Time is `Tick`: it ages the cache entry and what is waiting. Of a text only its
age matters, and of Gemini's answer only which branch of `parse-llm-json.ts` and
`resume-profile.validator.ts` it takes; a JSON value that is not an object is
normalised to a profile without content, and `null` makes the normaliser throw.
An error passes through `toUserFacingGeminiError` twice, in
`GeminiResumeExtractorService.extract` and in `extractAndSave`, and `Fail` composes
the two. The operator's actions are what `docs/RESUME-EXTRACTION.md` tells operators
to do in MongoDB; an operator publishes a prompt only where there is no active one.
`UniqueIndex` is the partial unique index of the schema: with it `SeedCreate` fails
beside an active prompt, without it there are two.

### How `VectorClient` corresponds to the code

| Variable | Code |
|---|---|
| `exists`, `indexes`, `points` | one collection in Qdrant |
| `ensured` | the collection's key in `payloadIndexesEnsured`, in memory |
| `pc`, `mem` | as in `Resumes`; `attempt` counts the calls to Gemini, `next` is the loop over the payload indexes |
| `answer` | what the caller gets: the call returns or throws |

    upsert  embed, [sleep, embed]..., get_collections, [create_collection],
            [create_index]..., upsert, upserted
    delete  find_collection, [delete, deleted]

`upserted` and `deleted` stand between the effect in Qdrant and its answer, which may be
lost. The model assumes that Qdrant does not execute a call after it has answered
it with an error; a call that times out at the client and is executed later
still is in the hazards. The mapping to `PointStore` shows a caller its call, whether it has
been carried out, and its answer.

### How `Auth` corresponds to the code

Two addresses share no document and no key, so one address is modelled.

| Variable | Code |
|---|---|
| `user` | the document of the address in `users`: password hash, `isEmailVerified`, whether `googleId` is set |
| `links` | collection `auth_tokens`, by id: type, `usedAt`, whether `expiresAt` has passed |
| `mailed` | the links whose raw token was sent |
| `live` | the keys `refresh:<jti>` of Redis |
| `index` | the set `user_refresh:<user>` of Redis |
| `valid` | the refresh tokens whose JWT has been signed and has not expired, whether or not their key is still there |
| `lastLink`, `lastToken` | how many ids have been given out |
| `origin` | the password in force when the session of a token began, and the first token of the session. A ghost: no action reads it to decide anything |
| `cleared` | the password in force when a reset last revoked all sessions to the end. A ghost too |
| `pc`, `mem` | as in `Resumes` |

The handlers' chains are

    register  create_user, clear_links, create_link, send_mail
    resend    clear_links, create_link, send_mail
    forgot    clear_links, create_link, send_mail
    consume   mark_used, verify_user                            (verification)
              mark_used, set_password, read_index,
              [delete_keys], delete_index                       (reset)
    login     issue
    refresh   find_session, rotate, find_user, issue
    logout    revoke
    google    [find_by_email, link_google or create_google], issue

Passwords are numbered in the order in which they are stored, since all that
matters of one is whether it replaced another. A call to Redis has three
outcomes (`Outcome`): carried out; failed; carried out and reported as failed.
The transactions of `token.service.ts` (`multi ... exec`) are one call. Requests
that are turned down leave nothing behind and are left out, except for a
second registration. Resend answers errors instead of throwing them, and
`email.service.ts` does not look at the answer, so a lost mail goes unnoticed
(`SendMail`). A link expires in two steps, by its date and when the TTL index
removes it. Access tokens are kept nowhere and have no variable.

The model follows one document of `users`. Where the unique index on the address
exists, a registration or a Google login that finds the address taken at its
`create` fails; in production, where `autoIndex` is off and no script creates the
index, it goes on with an account of its own. For the document that is followed the
request is over in both cases (`CreateUser`, `CreateGoogle`), and whatever finds or
makes the other one shares neither key nor link with it. That an address has one
account is therefore not stated.

### How `Browser` corresponds to the code

`Browser` adds to `Auth` one browser: `cookie` is the cookie that `AuthController` sets,
reads and clears; `mine` are the requests it waits for; the other variables are
histories, which are emptied once the properties that read them no longer apply. `Ask` sends a login or the cookie, in as many tabs at once as there
are request slots; `OthersAsk` is any request of anybody else, who cannot have a token of this
browser's. When the last step of one of its requests is taken, its answer
arrives in the same step (`Answered`) or is lost. Answers of different requests so arrive in
the order in which the requests end. The cookie and the token in it end apart
(`Expire`, `Forget`): the maxAge of the cookie is always seven days, the token lives
as long as `JWT_REFRESH_EXPIRES_IN` says; and the user may clear the cookie or replace
it by that of another account.

### How `Jobs` corresponds to the code

| Variable | Code |
|---|---|
| `jobs` | collection `jobs`, by `_id`: status, the fields of the embedding text, the key, the sync metadata |
| `points` | collection `jobpilot_jobs` of Qdrant, by the `_id` the point id is computed from: the text that was embedded |
| `lastId` | how many jobs have been created |
| `pc`, `mem` | as in `Resumes`; `todo` is what is left of a batch |

    create  upsert, [insert], then sync
    update  save_update, then sync or removal
    remove  removal, then delete_job
    embed   for each job: sync
    seed    for each record: create

where sync is `[upsert_point, save_synced or record_failure]`, and removal is
`[delete_point], save_removed`. Closing is an update of the status. What a
handler decides before its first await (`SyncLabel`, `RemoveLabel`) is part of
the step that leads there. `close` and an update to draft are the same step, since the
code asks only whether a job is active. The key is `source` with `externalId`; a
job created without an `externalId` has a key of its own, which is any key not
in use. `UniqueIndex` is the unique index on the key: with it `findOneAndUpdate` with
upsert is one step, and a save that takes a key in use fails; without it, as in
production, two upserts that both find nothing both insert (`Insert`), and any save
goes through. The embedding text begins with a constant and is never empty, so the
branch of `syncActiveJob` for an empty text is left out. A batch swallows the
error of a job and goes on with the next (`Done`). Saves follow the rules of
Mongoose that `Resumes` describes, but for the versions: an update that changes
the text may fail at its save.

## 3. Runs

| Run | Question | Bounds | Checks |
|---|---|---|---|
| `serial` | What do failures and crashes alone break? Do the endpoints keep the lifecycle? | 1 request slot, 3 uploads, limit 2, 2 edits, 2 values, all faults, crashes | `TypeOK`, `ProfileHasResume`, `PointHasConfirmedProfile`, `UploadCountWithinLimit`, `VectorCurrentOrFlagged`, `SkillsMirrorProfile`, `CountCoversResume`, `EditsWithinLimit`, `FailedUploadCanBeReplaced`, `EveryEditIsCounted`, `ResetOnlyWithoutSuccessfulUpload`, `FailedIsNotConfirmed`, `ImplementsLifecycle` |
| `live` | What can overlapping requests not break? Are they answered, do extractions end? | 2 slots, 2 uploads, no edits, Qdrant off, Gemini faults, `FairSpec` | `NoStuckProcessing`, `FileMissingOnlyDuringRemoval`, `EveryRequestEnds`, `ExtractionSettles` |
| `extractor` | How stale can a prompt be, does every extraction end? | 2 extractions, 2 attempts, 2 texts, cache of 2 ticks, finds of 1 tick, no unique index, `FairSpec` | `TypeOK`, `PromptStaleForTTL`, `OperatorTextKept`, `EveryExtractionEnds` |
| `vector_client` | Do embedding and Qdrant calls give what Resumes and Jobs take for one step? | 3 requests, 1 point, 2 contents, 2 indexes, 2 attempts, `FairSpec` | `TypeOK`, `PointsHaveIndexes`, `ImplementsPointStore` |
| `auth_serial` | What do failures and crashes alone break in authentication? | 1 slot, 2 links, 3 tokens, faults of MongoDB, Redis and mail, crashes | `TypeOK`, `IndexCoversLive`, `OneUsableLink`, `OneTokenPerSession`, `ResetRevokesAll` |
| `auth_race` | What can overlapping requests not break, and can the browser go on? | 2 slots, 4 ids for 2 links and 3 tokens, a browser, answers lost, no other faults | `SessionsNeedVerifiedAccount`, `CookieIsLive`, `LogoutEndsSession`, `AccountKeepsItsData` |
| `jobs_serial` | Do the vectors agree with the catalogue between requests? | 1 slot, 3 jobs, 2 keys, 2 texts, no unique index, faults of Gemini and Qdrant | `TypeOK`, `ActiveJobHasItsVector`, `InactiveJobHasNoPoint` |
| `jobs_race` | Do overlapping requests and batches lose updates? | 2 slots, 2 jobs, 2 keys, 1 text, the unique index, faults of MongoDB and Qdrant, crashes | `NoLostUpdate` |
| `deleted_point`, `confirm_retry`, `auth_reset`, `failed_edit` | see Findings | the smallest that shows it | one property each |

Why the bounds are enough. Three uploads with a limit of two reach the limit,
are turned down at it, retry after a failure at it and are reset; two ids are
what it takes for a request to hold an old resume while another is stored.
Two requests are what every interleaving hazard listed involves. Two values
let an edit change a text and restore it; their arrays have the same entries in
different places, so that an edit may also change the profile without its text. Every counter in the model is
bounded by the code itself except `uploadCount` (bounded by the number of
uploads), `lastId` (`MaxUploads`) and the versions (bounded by the number of
saves that change an array); `BeginUpload` takes no upload that could not
be given an id. Contents and request slots are interchangeable, so the safety
run of `serial` uses symmetry; the runs with liveness do not. `live` leaves edits out to stay
small: what an edit that overlaps could break is the stored count, for which
`EditCountBounded` is proved for any number of requests.

In `Extractor` two extractions let a late answer overwrite a newer cache entry, two
texts let an operator replace the one that is cached, and two attempts let the
last one be retryable. `TTL`, `Latency` and `MaxTexts` bound time and the operator's
edits; `retired` counts up to `Horizon`. In `VectorClient` two of three requests create the
collection while the third finds it, two indexes let a request stop between
them, and one point lets upserts and deletes meet; points do not affect each other.

In `Auth` two links let a request hold a link while another replaces it, or
verify and then reset; three tokens let a session be refreshed while
another is live. `auth_race` gives out four ids (`MaxIds`): two links and two tokens,
a registration, a reset and a session or two; or one link and three tokens, a login and
two refreshes of its token under way, or a refresh beside another login. `LinkLeft` and `TokenLeft` keep a request that would need an
id from starting when none is left for it; they bound nothing else.

In `Jobs` two keys give a batch of two and let an update take a key that is in
use; three jobs let one be deleted and created again beside another. Two texts
let an edit change the text and restore it; a lost update shows on the status
alone, so `jobs_race` has one. `IdsLeft` keeps a request that may create
jobs from starting when no ids are left for it.

The unique indexes are there in the runs of `Resumes` and in `jobs_race`, as everywhere
but in production; they are not in `jobs_serial` and `extractor`. The theorems
cover both cases.

Which assumptions a run makes are part of what it shows. `serial` has
one request at a time, since `ProfileHasResume`, `PointHasConfirmedProfile` and
`UploadCountWithinLimit` do not hold when a delete and an upload overlap, nor
`EveryEditIsCounted` when two edits load the same count (see
the hazards), nor `SkillsMirrorProfile` and `VectorCurrentOrFlagged` when an edit or a
confirmation overlaps the end of an upload. `live` has Qdrant off: the points play no part in what it checks,
except that a failing Qdrant ends a delete after the file is gone, which is a
hazard of its own. `vector_client` has no failing `createPayloadIndex`: the code logs that
error and remembers the collection as complete.
`auth_serial` has one request at a time: with two, a reset link can be followed
twice, two requests for a link can leave two that work, and a refresh token can
be rotated twice (see the hazards). `auth_race` has no faults but lost answers: a request that
fails stops where a crash would stop it, and `auth_serial` has those stops.
`CookieIsLive` is about a browser that has lost no answer: when the answer to a
refresh is lost, the old token is used up and the cookie is not replaced.
`LogoutEndsSession` is about a browser that never sends two requests at once: a logout revokes
the token it was sent, and a refresh that overlaps has stored another.

`jobs_serial` has neither overlapping requests nor MongoDB errors, crashes or
failing deletes in Qdrant, each of which leaves a vector that nothing in the code
repairs (see the hazards); `jobs_race` has them all.

*Fairness.* In `Resumes`, `Fairness` is weak fairness of the steps of each request that has
begun: the event loop runs every continuation that is ready, and every call
either answers or fails (drivers time out; the Gemini retry helper makes a bounded
number of attempts, which `extractor` and `vector_client` show under the same fairness
of `Step`: each single call is answered or fails, each timer goes off). Nothing makes a client send a request, so `Request` has no
fairness. `live` is checked without crashes, because after one the extraction
that was running never ends.

## 4. Findings

Each is a run that expects a violation.

* `deleted_point`: a confirm that is embedding while the resume is deleted puts
  the point back; `docs/SYSTEM-DESIGN.md` says that deleting the resume deletes
  the point.
* `confirm_retry`: after a failed sync the profile response sets
  `canConfirmProfile` for a retry, and the confirm endpoint always rejects it
  (an edit, if one is left, brings the vector up to date instead).
* `auth_reset`: a login that compared the former password before the reset
  has its token still to issue when the reset has revoked all sessions and is
  answered. The session outlives the reset; `docs/AUTH-LEARNING.md` says that all
  refresh tokens are invalidated. A refresh that found its session before the
  reset does the same, and a token that is stored while the reset deletes the
  keys is moreover dropped from the index, so that no later reset finds it.
* `failed_edit`: the message for a failed extraction says "Re-upload your resume or
  edit the profile", and `docs/RESUME-EXTRACTION.md` offers a manual editor for it; the
  edit endpoint turns down every profile that failed. `ResumeLifecycle` follows
  the code: what failed ends there.

More disagreements were met for which there is no run:

* In production `autoIndex` is off (`database.module.ts`), and no script creates
  an index, while `docs/SYSTEM-DESIGN.md` relies on "`(source, externalId)`
  unique index" and `docs/RESUME-EXTRACTION.md` on "only one active row per key".
  With `UniqueIndex = FALSE` two creates of one key that overlap make two jobs
  (`KeyHasOneJob` fails in seven states of `Jobs`), and a start-up that found no prompt adds
  its own beside the one an operator has published since (`OneActivePrompt` fails in
  four states of `Extractor`).
* A PDF without text leaves "AI processing failed. Please try again." in the
  profile, as every error does: it passes through two translations (`ExtractionError`).
  `docs/RESUME-EXTRACTION.md` says that the user is told to upload a text-based PDF.
* The docs say that the old point goes "on confirm/delete"; the code deletes it
  when a resume is replaced.
* They give 60 seconds for a prompt to be picked up, to which the duration of a
  find comes (`PromptStaleForTTL`).

## 5. Proofs

Each theorem holds for all values of the constants that the assumptions of its
module allow: any number of requests, documents, contents and limits, where the runs have
two or three. Unless a theorem says otherwise it holds with every fault, with crashes, with and
without Qdrant, and for `Resumes`, `Jobs` and `Extractor` with and without unique
indexes. The text functions of `Resumes` are any functions.

The handlers hold no locks, so many properties need requests not to overlap in
some way. A run has to exclude that by having one request slot; a theorem
names the overlap and leaves all others in. The named overlap is a hypothesis
`[]...Apart` on states (for revocations on steps), and section 3 and the hazards
say that the property fails with it: so the hypotheses tell which windows of the code matter, and that
there are no others. What the code does about them: the frontend lets one
refresh run at a time (`SingleFlight`, `docs/AUTH-LEARNING.md`); nothing in the code
prevents the rest, which come about by a user's two tabs or two
administrators.

### `Resumes`

`ResumesProofs`:

* `TypeCorrect`: `TypeOK`. One step per action; the actions that save
  a profile share a lemma about `SaveProfile`.
* `EditCountBounded`: `EditsWithinLimit`, which is not
  inductive: the count that a save writes comes from the document in the
  request's memory. `EditsInv` adds that the loaded documents obey the limit
  too (`LocalEditsWithinLimit`).

`ResumesOverlapProofs`, on the invariant `GroundInv` (types, which locals a request has at
which label, and that nobody has an id that was not given out):

* `NoOrphanProfile`: `ProfileHasResume` if no resume is deleted between
  its insertion and the upsert of its profile (`RemovalsApart`). `OwnerInv`: whoever deletes a
  resume has deleted its profile, and whoever upserts a profile has its resume.
* `FailureStays`: `FailedIsNotConfirmed` if no profile is confirmed while it is being extracted
  (`ExtractsApart`). `StageInv`: a profile being extracted is processing or gone, and
  nobody about to save a confirmation has a failed one.
* `PointIsOfConfirmed`: `PointHasConfirmedProfile` with `ExtractsApart`, and if no
  profile is deleted while its vector is being brought up to date (`DeletesApart`).
  `PointInv`: whoever is on the way to the upsert has a stored, confirmed profile, and whoever
  deletes the profile has deleted its point.
* `SavedEditsAreCounted`: `EveryEditIsCounted` if no two requests edit one profile
  at a time (`EditsApart`). `CountInv`: the count an edit is about to save is one more than
  the stored one.
* `OutcomeIsSaved`: `NoStuckProcessing` with any overlaps, if MongoDB answers and the process
  lives. `OutcomeInv` says who is to save the outcome of a profile that is
  processing, and why its save cannot meet a conflict: nobody writes the arrays of a
  profile before it has its outcome.
* `FileOutlivesResume`: `FileMissingOnlyDuringRemoval` with any overlaps, if MongoDB and
  Qdrant answer and the process lives.

`ResumesQuotaProofs`:

* `CountWithinLimit` and `FailedUploadIsReplaceable`: `UploadCountWithinLimit` and
  `FailedUploadCanBeReplaced`, if the user's uploads follow one another (`OneUpload`) and no
  second profile is made (`ProfilesApart`: there are unique indexes, or `RemovalsApart`).
  `QuotaInv` follows the count that an upload has read from its check to its
  charge: a retry may start at the limit only if the count was not charged for what it replaces.
  They assume a limit of at least one. With zero, which the validation of the
  configuration lets through, an account from the time when failed uploads
  were charged could still retry.
* `ResetIsDeserved`: `ResetOnlyWithoutSuccessfulUpload` if no sync overlaps an upload
  that makes its resume (`SyncsApart`), with the conditions above. `SyncInv`: what the sync has read is still so.
* `SuccessIsCharged`: `CountCoversResume`, if moreover nobody saves the skills of
  a resume whose upload has still to do it (`SkillsApart`). `ChargeInv` says that a successful upload is
  charged or owed by a running request; that request's saves go through because the
  version of the resume is the one it has loaded (`VersionInv`).
* `SkillsFollowProfile`: `SkillsMirrorProfile`, if one request at a time works on a resume
  and its profile (`WorkApart`: edits or confirms it, makes it or removes it; quota checks and requests for
  other ids overlap freely) and no second profile is made. `LoadedInv`: the documents
  a request holds agree with the stored ones but for the fields it has assigned, so that its saves meet
  no version conflict and fail with MongoDB alone. `MirrorInv`: the skills are those of the profile, or a request at a
  known label owes the copy. Without `WorkApart` the property fails in 15 steps: an edit that has
  loaded the resume before the upload saves its skills finds, at its own `save_skills`,
  another version; it is answered with an error after the profile is saved.
* `VectorFollowsProfile`: `VectorCurrentOrFlagged`, under the same conditions. `SyncFieldsInv` says which requests
  have changed the fields of the sync, and `VectorInv` has three parts: what a syncing request knows of
  its text and the point (`VectorHeld`), that a stored hash is the text of the
  content in the stored point (`HashIsStored`), and that the text of a confirmed profile without a sync
  error is its hash or a request owes the sync (`ContentIsHashed`). The theorem is about the
  vector: of the payload it says that it is of a content with that text. Its counterexample without
  `WorkApart`: a confirmation loads the resume while the upload is about to save the skills, and
  the conflict ends it between the saved confirmation and the vector.
* `ImplementsResumeLifecycle`: `ImplementsLifecycle`, if no two uploads of the user overlap (`OneUpload`), nor
  what `SyncsApart`, `ExtractsApart`, `RemovalsApart` and `EditsApart` exclude. The initial
  states map to initial states (`InitIsPromised`), and so does every step
  (`NextIsPromised`): `LifecycleChanges` lists what a step may do to the stage and the edits of
  an upload, `StageIsPromised` and `CountIsPromised` find the step of the promise, and a crash before the
  charge is `Forgo`. Next to the invariants above it needs `EditedInv`: an edit
  about to be saved is one of a profile that was extracted. As `owed` counts the uploads between the saved
  extraction and the charge, at most one is owed when uploads follow one another.
* `SerialRequests`: with one request at a time (any number of them, one after the other) all
  these hypotheses hold by themselves. This is what the run `serial` checks, on its
  small instance; for its two other invariants see `TypeCorrect` and `EditCountBounded`.

### `VectorClient`

`VectorClientProofs`, from `AttemptsAssumption`, `IndexAssumption` and `NoneAssumption`:

* `TypeCorrect`: `TypeOK`. The loops count to their bounds and no further, which
  needs the attempt of a sleeping request to be one that is left (`InHand`).
* `ClientImplementsStore`: `Spec => Store!Spec`, what `ImplementsPointStore` says but for
  fairness. `StoreInv` adds to the type invariant that a delete carries no
  content and that there is no point without a collection (`CollectionFirst`), for which a
  delete that finds no collection may answer "ok". There is one lemma per kind of step: a
  step within a call is not seen (`GotoUnseen`), `Upsert` and `Delete` are `CarryOut`
  (`EffectSeen`), every end is `Succeed` or `Fail` (`EndSeen`).
* `IndexesComplete`: with `IndexFaults` FALSE, `PointsHaveIndexes`. The
  strengthening `IndexLoop` says that a request has created the indexes before its next one,
  and that whoever is about to upsert, or finds the collection in the cache, has them all.

### `Auth`

`AuthProofs`:

* `TypeCorrect`, `SessionsAreOfVerified` and `AccountOnlyGains`: `TypeOK`,
  `SessionsNeedVerifiedAccount` and `AccountKeepsItsData`, with any overlaps. `AuthInv` says at which
  labels a request carries a session, that such an account is verified, and
  how old the copies of the account in memory may be.
* `RevocationFindsAll`: `IndexCoversLive`, if no token is stored while a revocation is
  between reading the index and deleting it (`StoredApart`). `RevocationInv` says what is
  left for a revocation to delete.
* `ResetIsComplete`: `ResetRevokesAll`, for good and not only when the reset ends, with
  `StoredApart` and if no request that found its session or account before a revocation has
  its token still to store at its end (`CarriedApart`). The property fails with either
  overlap; the finding `auth_reset` is of the second kind.
* `RefreshReplaces`: `OneTokenPerSession`, if no token is sent in two refreshes at a time
  (`SingleFlight`). `SessionInv`: a session is held by one token or by one request.
* `LastLinkOnly`: `OneUsableLink`, if two requests for a link of a type do not
  overlap between clearing and creating (`SendsApart`).

### `Browser`

`BrowserProofs`, with the lemmas of `AuthProofs`. Neither `CookieCanBeUsed` nor
`LogoutIsComplete` excludes an overlap or a fault; the two properties themselves are about
browsers that have met no failure (`calm`).

* `BrowserIsAuth`: `BSpec => Spec`. So the theorems about `Auth` hold of a browser, such as
  (`BrowserKeepsAccount`) those that the run `auth_race` checks.
* `CookieCanBeUsed`: `CookieIsLive`. `GivenInv` says that the browser's requests hold
  tokens it was given and the sessions of these, and that the requests of others hold
  neither; it has the types of the histories. The cookie may hold a token that has expired, of
  which the property says nothing. `CookieInv`: a cookie that is used up was sent by a
  request of the browser that has rotated it and will answer with a new one.
* `LogoutIsComplete`: `LogoutEndsSession`. `TabInv`: with one tab, no other token of the
  session of the cookie, or of the token of the tab's request, is accepted (`OnlyLive`); after the
  rotation none is, until the next one is issued (`Over`), and none of a session that was
  logged out.

### `Jobs`

`JobsProofs`, on its own `GroundInv`:

* `TypeCorrect`: `TypeOK`.
* `EveryUpdateIsKept`: `NoLostUpdate`, with any overlaps. What a request has
  still to save after its first step is sync metadata alone (`Local`).
* `OneJobPerKey`: `KeyHasOneJob` with any overlaps, where there is the unique index.
* `ActiveIsIndexed` and `InactiveIsNotIndexed`: `ActiveJobHasItsVector` and
  `InactiveJobHasNoPoint`, if only Gemini and Qdrant fail, without effect, and not the deletes
  (`VectorFaultsOnly`), and no two requests work on one job, by its id, its key or a batch (`JobsApart`). `VectorInv`: a job in nobody's hands
  is `Settled` (its hash is the text of its point), one in a request's hands is
  `Pending`, which says for each label what is done and what is owed, and what a batch has loaded is
  still what is stored.
* `OneAtATime`: one request at a time keeps to `JobsApart`; this is the run `jobs_serial`.

### `Extractor`

`ExtractorProofs`, on `ExtractorInv`, with no condition on overlaps:

* `TypeCorrect`: `TypeOK`, for which the attempt of a sleeping extraction has to be
  one that is left (`AttemptsLeft`).
* `PromptIsRecent`: `PromptStaleForTTL`. `FoundInv` says that what a find has found
  was withdrawn no longer ago than its answer is under way, and `CacheInv`
  that the time since the cached text was withdrawn and what is left of the entry's lifetime
  are together at most `TTL + Latency`: an entry is made when the answer arrives, not
  when the find is executed.
* `TextsAreKept`: `OperatorTextKept`. No active text is newer than the last one written.
* `IndexKeepsOne`: `OneActivePrompt`, where there is the unique index.

### What stays with TLC

Liveness (`EveryRequestEnds`, `ExtractionSettles`, `EveryExtractionEnds`, the fairness in
`ImplementsPointStore`), for the prover has no support for fairness and ENABLED. The findings
stay with TLC too: each is a behaviour, which a run exhibits. All other properties of the runs are
proved, under the hypotheses named above.

## 6. Not modelled

Routing, OAuth redirects, mail, validation of request bodies, logging, health
checks, configuration: I/O or wiring without state that the properties could be
about. The text functions are not modelled character by character. The state machine
inspects the result of two: the embedding text, which it compares (by its hash) and
looks at for being empty, and `dedupeSkills`, which it stores as a copy. They are
`EmbeddingText` and `SkillsOf` in `Resumes`, of which nothing is assumed; in `Jobs` the
text itself is the data. The others (trimming the text of a resume, fields that the
normaliser drops, payloads of points) are functions of their input whose result is
sent on or stored and not looked at again. So a payload may be older than the
profile or the job when its text has not changed, in the model as in the code, and
no property is about it. The OCI
storage makes one call for each of `save` and `delete`, as the local one does, which is
the one in the map. Listing and downloading change nothing.

## 7. Plan

All modules of section 2 are there, and every safety property of the runs is proved. What
could still be weakened is `WorkApart`: it excludes whole requests, where a narrower window
(the end of an upload, between two saves of one request) may be enough.
