# Verification of the photo service backend

TLA+ models of the Go service in `src/` (paths below are relative to it), the
TLC runs that check them on small instances, and proofs, checked by TLAPS, of
what matters most for every instance. `PROJECT.json` maps each definition to
the lines it models and lists the runs, the hazards and the theorems.

## The system

A photographer or organizer uploads photos to a competition; the service keeps
an original and two derived images in MinIO, a row with three versions in
PostgreSQL, and the bibs (start numbers) seen in the photo. Uploads are
processed in the request, or queued in Redis for background workers.

| part | state | operations | works with |
|---|---|---|---|
| asynchronous upload request (`domain/photo/async_upload_service.go`) | none | EnqueueUploads, enqueueOne, GetStatus | MinIO, the queue |
| upload queue (`infra/redis/upload_queue.go`) | stream, consumer group, status hash and error list of each upload | XADD, XREADGROUP, XACK and one MULTI/EXEC per status change | request handlers, workers |
| workers (`domain/photo/async_worker.go`, started in `main/main.go`) | the batch in hand | Run, processJobs, createPhotoFromProcessed | queue, image processors, PostgreSQL |
| batch image processors (`infra/imaging`) | none | local, CUDA service, selection with fallback | MinIO, the CUDA service |
| synchronous upload (`domain/photo/service.go`) | temporary files | UploadPhotos, processSingleUpload with its compensation | image processor, MinIO, PostgreSQL, OCR |
| image processing (`infra/imaging/processor.go`) | two temporary files and goroutines | Process, the sizes of previews and watermarks | the upload |
| photo record and bibs (`domain/photo/service.go`, `infra/postgres/photo_repo.go`) | photo row, photo_bibs | UpdatePhoto, DeletePhoto, AddBib, DeleteBib, recognition in the background | PostgreSQL, the OCR service |
| access grants (`domain/access`, `infra/postgres/access_repo.go`) | grants | create, update, delete, buildEffectiveAccess | competitions, downloads |
| listing and downloading photos (`domain/photo/service.go`, `transport/http/handlers/photo_handler.go`) | the open readers of a call | GetPhotoByID, ListCompetitionPhotos, single and zip downloads | photos, competitions, grants, MinIO |
| competitions (`domain/competition`) | competitions with covers, stages | create, update with a swap of covers, delete, stages | MinIO, PostgreSQL |
| users and sessions (`domain/user`) | users, refresh tokens | register, login, refresh, logout, role and status changes | every handler through the access token |

What is hard here: nothing spans MinIO, PostgreSQL and Redis in one
transaction, so every upload is a sequence of calls any of which may fail, be
executed without an answer, or be cut off by a crash; the request that queues
jobs races the workers that process them on the same counters; several
services read a row, decide, and write it back; most errors of status calls are
dropped. The hazards, with their lines, are in `PROJECT.json`.

## Modules

`Outcomes` says what may become of a statement sent to PostgreSQL or MinIO: `ok`;
`fail` (not carried out, error); `lostReply` (carried out, error). All modules but
`AsyncUpload`, whose Redis client sends commands again, share it. Where a step sets
several fields of one record of a function, they are set by an inner EXCEPT of
that record, the form the provers handle soundly.

### The asynchronous upload: AsyncUpload, AsyncUploadProperties, UploadPromise

`AsyncUpload` is the pipeline from the request to the photo. A *file* stands
for all the request makes for it (photo id, the three object keys, the
ProcessingJob, all derived from one fresh UUID); a *message* is a position of
the stream `log`, so a job that XADD wrote twice is two messages.

| variable | in the code |
|---|---|
| `rpc`, `offer` | where EnqueueUploads is, and what became of each file in it |
| `log`, `last`, `acked` | the stream `photo:processing`, the group's last-delivered id, the messages acknowledged |
| `hash`, `errs` | `photo:upload:<id>:status` and `:errors` |
| `original`, `watermarked`, `preview`, `rows` | the objects in MinIO, the photos with their three versions |
| `worker` | the batch `lo..hi` processJobs has in hand, the message `at` its loop is at, the call it makes next |

There is one action per call that leaves the process, since another goroutine
may run, and this one die, between any two: `Begin`, `PutOriginal`,
`EnqueueProcessingJob`, `RemoveOriginal`, `RecordRejection`, `CountAccepted` in
the handler; `ReadProcessingJobs`, `MoveJobToProcessing`, `PutWatermarked`,
`PutPreview`, `RemoveWatermarked`, `CreatePhoto`, `MoveToCompleted`,
`MoveToFailed`, `RecordFailure`, `AckProcessingJob` in the worker. A failed file
is thus counted in one step and its error recorded in the next, as in the code.
Only the call to the CUDA service (`CudaSucceeds`, `CudaFails`), whose effects
come from another process, is one action. A status transaction (MULTI/EXEC) is
one operator on the record of counters.

`Outcome` gives, for each kind of call, what may become of it: `ok`; `fail`
(not applied, error); `lostReply` (applied, error); `retried` and `retriedLost`
(applied 2 to `Sendings` times by the Redis client, which sends a command again
after a network error, and answered without an error or with one). The client's
options leave its MaxRetries at 3, so `Sendings` is 4. A crash of a worker or a
handler, in any state, and the expiry of a status hash are actions of the
environment. Shutdown is such a crash: `main` cancels the workers' context and
does not wait for them.

The order in which EnqueueUploads takes the files is left open. The branch of
processJobs for a wrong number of processed items does what a failed batch
does, and no processor here can cause it. The stream is never trimmed. The
CUDA service is assumed not to write an object after its call has timed out.

`AsyncUploadProperties` states what is claimed and the inductive invariants of
the proofs. `UploadPromise` is the abstract specification, what a client is
promised: a file is answered once, an accepted file becomes a photo or is given
up for good, alone or with others (`GiveUp`), and the status of an upload says it
is over only when every file has met its fate, and in the right word. `Promise` is the refinement
mapping: a file is given up when it is no photo and no message of it is left to
settle, be it counted as failed or gone with its worker.

### The synchronous upload: SyncUpload, ImageGeometry, SyncUploadProofs, ImageGeometryProofs

`SyncUpload` is UploadPhotos with processSingleUpload for each file in turn:
`ReceiveFile` (a temporary file), `Decode`, `Derive` and `Join` (Process, which
makes two more temporary files, each written by a goroutine of its own, and
waits for both), `PutObject` for the original, the watermarked version and the preview, `CreatePhoto` (the
transaction of the repository) with the call of scheduleBibRecognition,
`Hydrate` (reading the photo back), and on an error `RemoveObject` for each
object put so far. The temporary files (`temps`) go in deferred calls when it returns.
`pc[f]` is where the handler is with a file, `undo` what it
has yet to remove; `objects` and `rows` are MinIO and PostgreSQL. Keys and ids
come from a fresh UUID per file, so requests share nothing and one is enough.
`Disconnect` cancels the request's context, after which every call of the
handler fails, the removals included. What one file costs the next is the loop:
`Turn` lets a file begin when all others are untouched or answered. `doubtful`
observes the calls that did not do what they said: a put or a commit executed
with an error, a removal that was not, whose error the code drops.

`ImageGeometry` is the arithmetic of Process, without state: `ResizeToFit` for
the preview, `ResizeWatermark`, and `Place`, where the watermark begins. The
code multiplies a side by a quotient in float64 and truncates. For sides below
2^24 a side times a quotient is off by less than the distance from a product
that is no integer to the next one, so the result is the exact floor, or one
less where the exact product is an integer: `Truncated` gives both.

### The photo record: PhotoRecord, PhotoRecordProperties, PhotoRecordProofs, PhotoBibsProofs

`PhotoRecord` is one photo, the calls that change it and the goroutine that
recognises its bibs. No call holds a transaction over two statements, so each
statement is an action and a call acts on what it has read:

| operation | actions, in their order |
|---|---|
| every call | `GetPhotoAccessInfo`: existence, deletion, permission, the form of the request |
| UpdatePhoto | `GetPhotoByID`, `UpdatePhoto` |
| DeletePhoto | `SoftDeletePhoto` |
| AddBib | `AddPhotoBib`, `CheckPrimary`, `SetPrimaryBib` |
| DeleteBib | `GetPhotoByID`, `GetPhotoBibByID`, `DeletePhotoBib`, `ListPhotoBibs`, `SetPrimaryBib` |
| processBibRecognition | `MarkProcessing`, `OpenOriginal`, `RecognizeBib`, `AddRecognized` for each bib, `NothingAdded` or `SetRecognizedPrimary`, `UpdateBibRecognitionStatus` |

`bibs` is photo_bibs with its unique index on the normal form; `primary`,
`stage`, `status` and `deletedBy` are columns of the photo; `call` and `ocr`
are the local variables of the calls and of the goroutine. A bib value is what
TrimSpace leaves; normalizeBib is the constant function `Norm`, which may give
several spellings one normal form and some values none. `TimeOut` ends the two
minutes of the recognition's context; every later call of the goroutine fails,
the write of its verdict included. An update whose photo cannot be read back for
the answer is written and answered with an error.

### Users and sessions: Sessions, SessionsProofs

`Sessions` is the table users (`password`, `role`, `status`, by login), the
table refresh_tokens (`tokens`, with `revoked` and `expired`) and any number of
clients, one call each. Again each statement is an action:

| operation | actions, in their order |
|---|---|
| Register | `LookUpLogin`, `CreateUser` |
| Login | `CheckCredentials`, `CreateToken` |
| Refresh | `GetActiveByHash`, `CheckStatus`, `RevokeByHash`, `CreateToken` |
| Logout | `RevokeByHash` |
| Me | `RequireAuth` |
| PatchRole, PatchStatus | `RequireAuth` (with RequireRoles and the check that nobody changes themselves), `UpdateUser` |

A password is compared and never hashed; a refresh token is its number, and a
client may present any one that was answered to somebody (`held`). Access
tokens are not stored anywhere: RequireAuth trusts only the id in them and
reads the account, so a call simply names an account; an expired one is
refused. `from` and `session` of a token record what it succeeds and the login
it descends from, which the code does not store; `barred` observes what a
running call has lacked ever since it began. Both are read by properties only.

### Competitions: Competitions, CompetitionsProperties, CompetitionsProofs

`Competitions` is the tables competitions and competition_stages
(`competitions`, `stages`), the covers in MinIO (`objects`) and any number of
calls, each a request of one of six kinds:

| operation | actions, in their order |
|---|---|
| Create | `Begin`, `PutObject` if there is a cover, `CreateCompetition`, `RemoveObject` after an error |
| Update | `Begin`, `GetCompetitionByID`, `PutObject` if there is a cover, `UpdateCompetition`, `RemoveObject` of the new cover after an error or of the old one after success |
| Delete | `Begin`, `GetCompetitionByID`, `DeleteCompetition`, `RemoveObject` |
| CreateStage, DeleteStage | `Begin`, `GetCompetitionByID`, the statement |
| UpdateStage | `Begin`, `GetCompetitionByID`, `GetStageByID`, the statement |

A call works on the row it has read: `Edited` is what Update makes of it,
`RowToWrite` that it writes all of it, whatever the row is by then. What a call
creates has a fresh UUID and is named after the call. Instants are integers, a
day has `DayLength` of them; the times of the database are in a clock `Offset`
east of UTC, the days of a stage begin in UTC. `noted` observes the covers that
a misleading error, a dropped error or a stale row has put in doubt, `moved`
the competitions whose dates an update has changed. That the stages of a
competition go with it, and that none is inserted for one that is gone, is what
the schema's foreign key is assumed to do; the schema is not in the repository.

### Access grants and downloads: Access, Downloads, DownloadsProperties, DownloadsProofs

`Access` is the table competition_access_grants (`grants`), the organizers of
the competitions, the clock and any number of calls on grants. `Downloads`
extends it by the calls that show or serve photos. Each statement is an action:

| operation | actions, in their order |
|---|---|
| CreateGrant | `BeginAccess`, `CheckManager`, `CreateGrant` |
| UpdateGrant | `BeginAccess`, `CheckManager`, `ReadGrant`, `UpdateGrant` |
| DeleteGrant | `BeginAccess`, `CheckManager`, `DeleteGrant` |
| GetPhotoByID | `BeginGet`, `GetPhoto`, the decision, `Answer` |
| ListCompetitionPhotos | `BeginGet`, `ListPhotos`, the decision, `Answer` |
| DownloadPhoto, DownloadPhotos | `BeginGet`, then for each photo `GetPhoto`, the decision, `OpenVersion`; at last `SendFile` or `ZipFile` for each file |
| the decision, CanDownloadOriginal | `ReadCompetition`, `ReadOwnGrant`, `ReadClock`, as far as needed |

Meanwhile a competition is handed over (`HandOver`), a photo deleted
(`SoftDelete`) and the clock goes on (`Tick`). A name is the sequence of its
stem and what is added to it; `UniqueZipName` is what uniqueZipName makes of the
file `j`. `managing`, `revoked`, `terms` and `since` are observations, read by
properties only: who managed a competition during its call, which ids were
answered to be deleted, what was last asked of a grant, and what was so at some
moment of a call on photos.

## Runs

Three files, two requests and two workers with batches of two are the least
with a full and a partial batch, two batches in flight at once, two chunks of
one upload, and a file left when its neighbour fails. Every run stops when all
is done, which is a normal end, so the runs do not check for deadlock; the
liveness properties say what must be reached.

| run | question | outcomes | checked |
|---|---|---|---|
| `chunks` | Two chunks of one upload interleave with two workers. | store, database fail | CountersAreExact, TerminalIsFinal, AcceptedIsSettled, UploadEnds |
| `lossy` | Two files; every call may fail, most may lose their reply, processes die, the hash expires; mode auto with its fallback. | all but an ambiguous XADD | PhotoIsWhole, CompletedIsBacked, HeldByOneWorker, CompletedIsTrue |
| `promise` | Refinement of UploadPromise; one request of two files, one undecodable; the handler and the workers die anywhere. | store, database fail, status writes fail or lose their reply, reads lose theirs | KeepsPromise |
| `crash` | Handlers and workers of two chunks die anywhere, also between the two transactions of a failure. | store, database fail | AckedIsExplained, TerminalIsTrue |
| `ambiguous` | XADD executed without an answer, or up to four times, with an error in the end or without; the commit loses its reply; mode cuda. | XADD, create | AcceptedPhotoIsWhole |

What the bounds of a property say about the code:

- `CountersAreExact` relates the counters to the stream and the workers in
  every state, including that "queued" goes *below zero* by what a request has
  not yet added: the code queues jobs first and counts them after the loop.
- Between two chunks of one upload the reported status may be terminal too
  early: the first chunk may be done before the second is counted. The code
  cannot know of a chunk that has not come, so `TerminalIsTrue` and
  `TerminalIsFinal` speak of uploads all of whose requests have been answered.
- A worker counts a failed file before it records the error. A client that polls
  in between is told `completed_with_errors` without the error, and for good if
  the worker dies there. `TerminalIsTrue` allows exactly this: of an accepted file
  without a photo and without an error, a message is delivered, counted and not
  acknowledged (`Behind`); and always the files without a photo are counted as
  failed. `KeepsPromise` is about photos and counts, not about the list of errors.
- A crashed worker leaves its batch pending for ever, because Run asks only for
  new messages. No property says that such a file settles; what holds is that
  nothing false is said about it.
- When XADD reports an error although it was executed, the original is removed
  while a worker processes the job, and a photo without an original can result.
  `PhotoIsWhole` therefore needs a definite XADD; `AcceptedPhotoIsWhole` says
  that only files reported as failed are hit, provided puts succeed: the second
  pass of a job queued again that cannot put the preview removes the
  watermarked version of the photo made by the first.
- An upload none of whose files is accepted is reported as "queued" for ever.

Fairness (`FairSpec`): weak fairness of each handler and of each worker.
net/http runs a handler to its end, Run loops until shutdown, and a call
returns or times out; weak fairness of the whole goroutine is all that is
assumed. No fairness is assumed of crashes, of expiry, or of a call's outcome.

The synchronous upload: three files, so that a file is preceded and followed by
others; requests do not interact.

| run | question | outcomes | checked |
|---|---|---|---|
| `anything` | Any call fails or loses its reply, and the client may go. | all | CreatedIsWhole, RowsAreWhole, AllOrNothing, TempsCleaned, UploadAnswered |

- A commit that is executed and reports an error makes the code remove the
  objects of a photo that exists. RowsAreWhole excepts the files this happened
  to; CreatedIsWhole, what the client is told, holds even for them.
- A read-back that fails reports as failed a file whose photo exists and is whole.
- The removals use the request's context, so a client that goes away, like a
  removal that fails, leaves objects without a photo: AllOrNothing excepts the
  files a call misled the handler about, and holds for all others.

- The goroutines of Process are joined before processSingleUpload returns,
  whatever fails; TempsCleaned would fail if the first error were returned at
  once, since a goroutine creates its file anew.
- `MCSyncUpload` also has TLC evaluate the claims of `ImageGeometry`
  (GeometryHolds) for all photos of up to 45 by 45 pixels, with small limits.

The photo record: two or three calls and a recognition, each call any of the
requests of the instance; values are two spellings of one bib, another bib, one
without a normal form and the blank.

| run | question | bounds | checked |
|---|---|---|---|
| `overlap` | Anything overlaps, any statement fails or loses its reply, time runs out. | two calls, all requests | OneDeletion, BibRemovedOnce, RecognitionIsTrue, RecognitionEnds |
| `primary` | Adding, removing, setting and recognising bibs overlap at will, statements fail, time runs out. | three calls of six requests; two spellings of a bib | PrimaryIsListed, HasPrimary |

- Two calls are enough for each race of two on one row or one column; three for
  a bib that is added, made primary and removed.
- Nothing keeps DeleteBib and UpdatePhoto from overlapping with AddBib or the
  recognition, and then the code does leave a primary bib that was removed, or
  none among several: it decides from what it read before. PrimaryIsListed and
  HasPrimary name the four writes that do it (`Outdated`, `RecognitionOutdated`): a primary bib is set that
  has been removed meanwhile, or none where one was added; an update writes back
  one that has been replaced; DeleteBib removes one that has become primary
  since. They say that no other step does, in any overlap. Each of the four is
  reached in the run: without any one of them TLC finds a violation. Nothing in the repository promises more,
  and the hazard is listed. What broke off after it had written is excepted (`Broken`).
- DeleteBib compares the primary bib with the removed one letter by letter. A
  primary bib set in another spelling than the listed one (a recognition that
  finds a bib already there counts its own spelling) is not replaced: after the
  recognition of "7A" beside a listed "7a", the removal of "7a" leaves the photo
  with a primary bib it does not have. `Respelled` excepts exactly these.
- RecognitionIsTrue holds under every failure: "completed" is written only
  after every bib was inserted or found, so that each is there unless a DeleteBib
  has removed it since; "not_found" only when none was added.
- RecognitionEnds is checked with time running out at any moment: the goroutine ends, and with its
  verdict in the status unless a statement of it failed. The verdict is written with the
  expired context, so the status of a recognition that was cut off stays "processing"; nothing retries.

Fairness: `SyncUpload` assumes weak fairness of the handler, `PhotoRecord` of
the recognition's goroutine and of each call a client has begun, which need
nobody but the scheduler once they run. No client is assumed to begin a call.

Users and sessions:

| run | question | bounds | checked |
|---|---|---|---|
| `entitled` | Logins, refreshes, logouts and changes of accounts overlap, any statement fails, tokens expire. | four calls, one admin among two accounts | OnlyEntitledSucceed, SuccessorsReplace, OneLivePerSession |
| `admins` | Registrations and changes of accounts overlap. | three calls, two accounts and a free login | AdminRemains, RegistrationStands |

- Four calls are a login, two calls that race on its token, and an admin who
  interferes; three admins' calls are two that pass the role on and one that
  takes it back.
- OnlyEntitledSucceed speaks of each thing a call needs by itself. Refresh reads
  the token, then the account: it may succeed though the token was live only
  before the account was unblocked.
- Two refreshes of one token that both read it before either revokes it both
  succeed, since RevokeByHash does not say whether it revoked anything. The
  session then has two live tokens. OneLivePerSession says that this is the only
  way to get two (`Branched`): no failure or lost reply does it.
- Two admins who block or demote each other at the same time leave none: both
  were checked before either wrote. AdminRemains says that the last admin goes
  in no other way than by the write of somebody who was one when checked and is
  none when they write (`Overtaken`).
- A refresh whose last insert fails has revoked the old token: its client has to
  log in again.

Competitions: three calls, each any of eleven requests, on one competition with
a cover and a stage and on what the calls create.

| run | question | outcomes | checked |
|---|---|---|---|
| `covers` | Any three calls overlap, statements and calls to MinIO fail or lose their reply. | all | DatesInOrder, StagesWithin, CoverExists, NoStrayCovers |

- Three calls are two that read the same row and one that has put or removed
  what they go by. Days of two units and a clock half a day east of UTC are the
  least in which a day begins at another instant than in UTC.
- CoverExists and NoStrayCovers except the covers in `noted`. Two updates that
  overlap do lose a cover in the bucket, or leave a row that names a removed
  one, because each writes the cover it has read; so does an update that is
  executed but reports an error. The properties say that nothing else does: no
  interleaving of the other steps, no refusal after the cover was put.
- StagesWithin excepts competitions whose dates were changed: Update does not
  look at the stages. In a clock west of UTC the code refuses a stage on the
  first day and accepts one on the day after the last, since the midnight of a
  stage's day is UTC's; the property is checked east of UTC.
- A call left before its end, a crash, would leave what a lost removal leaves
  and is not an action of its own.

Access grants and downloads: two competitions with an organizer each, a holder
of two grants, one of which runs out; two photos that are served
under one name, and one named as the second of two files of a name is.

| run | question | bounds | checked |
|---|---|---|---|
| `downloads` | Two calls, each on grants or on photos, overlap while an organizer is replaced, a photo deleted and the clock goes on; any statement fails or loses its reply. | two calls (`MaxCalls`) of seven requests each kind, one deleted photo (`MaxDeleted`), one tick (`MaxTime`) | OriginalsAreEntitled, EntitledGetOriginals, DeletedIsNotServed, ReadersClosed, ZipNamesDistinct, RevokedStaysRevoked, TermsStand, ManagersOnly |

- A call on photos reads organizer, grant and clock one after the other, so
  what it serves is what the user was entitled to at *some* moment of it. That a
  user who is entitled throughout is never served the watermarked variant fails
  when the organizer or the grant was written meanwhile: a user with a
  grant who becomes organizer after ReadCompetition and loses the grant before
  ReadOwnGrant was entitled at each moment. EntitledGetOriginals excepts it.
- A grant allows the original at the very moment it expires.
- UpdateGrant writes both columns from the row it has read. Two that overlap can
  undo each other; TermsStand (`mixed`) says that nothing else loses terms, and
  RevokedStaysRevoked that a deleted grant is not brought back.
- The check that the caller manages the competition precedes the statement: an
  organizer who was replaced in between still writes, but only grants of that
  competition, since the statements name it (ManagersOnly).
- The entries of a zip can have one name after all: of two files `a.jpg` and one
  `a-2.jpg`, two are written as `a-2.jpg`. ZipNamesDistinct excepts such names.
- One download call reads two or three photos, which is enough for one that is
  deleted, or whose grant changes, between two of them, and for a third file of
  a name; the theorems below remove the bounds.

The type invariants are proved for every instance and are not part of the runs.

## What is proved

`AsyncUploadProofs` proves, for any numbers of files, requests, uploads and
workers, any batch size and any mode:

| theorem | property | assumes of the outcomes |
|---|---|---|
| TypeCorrect | the type invariant TypeOk | nothing |
| OneWorkerPerMessage | HeldByOneWorker | nothing |
| PhotosAreWhole | PhotoIsWhole | XADD is definite |
| RejectedStaysOut | RejectedIsNotQueued (proved only) | XADD is definite |
| AcceptedPhotosAreWhole | AcceptedPhotoIsWhole | no worker takes an object back (`ObjectsStay`) |
| AcknowledgedIsExplained | AckedIsExplained | no Redis write fails |
| CompletedIsNeverAhead | CompletedIsBacked | no status transaction is executed twice |
| CompletedUploadsAreTrue | CompletedIsTrue | XADD is definite, no transaction is executed twice, no hash of several chunks expires |
| FinishedUploadsAreTrue | TerminalIsTrue | the same, and no Redis write fails |
| FinishedStaysFinal | TerminalIsFinal | XADD is definite, no transaction is executed twice, no hash expires |
| CountersStayExact | CountersAreExact | Redis reliable, no crash, no expiry (`NothingIsLost`) |
| PipelineKeepsPromise | the safety half of KeepsPromise | one request per upload, no status write executed twice, no hash expires, XADD and the creation of a photo definite (`PromiseAssumption`) |
| AcceptedIsNotForgotten | NothingIsForgotten (proved only) | Redis writes reliable, no read loses its reply, no worker dies (`BatchesAreFinished`) |
| UploadsAreOverWhenSettled | OverWhenSettled (proved only) | `NothingIsLost` |
| PipelineRunsOutOfWork | WorkLeft is bounded and EveryStepIsWork (proved only) | finitely many requests, no hash expires |

`MessagesInv` is the induction for messages: the batches in the workers' hands
are disjoint intervals of the delivered part of the stream, and what is
acknowledged of a batch lies behind its worker. HeldByOneWorker alone is not
inductive, since it does not say where the batches are. `PhotosInv` adds that an accepted file is in the
stream once and keeps its original (`LogInv`), that a photo comes from a
delivered message and a worker has photos only up to where it is (`RowsInv`),
and how far the derived objects of a batch are at each point of the worker
(`DerivedInv`): without the last a step of CreatePhoto could publish a photo
whose preview was never written. `CreditInv` strengthens CompletedIsBacked: a
photo that a worker has created and not yet counted is not counted by another.
The lemmas `StayMessages`, `StayRows` and `StayDerived` treat once and for all
the worker steps that stay within a batch.

What an upload's status says rests on four more. `ExplainedInv` says that what a
worker is about to acknowledge is explained. `TotalInv` says that the total is
that of the files of the requests that are done, unless one met an error or the
hash is gone. `TalliedInv` bounds what a hash calls settled by the messages that
their workers have counted and left behind (`Behind`); as those are
different messages of different files, an upload that is over has no file left,
and nothing that could still count (`FinalStays`). It holds whoever dies: a worker
that goes before it records an error leaves a message it has counted, and one that
goes earlier leaves a message that is never counted. `FailuresInv`, for the
promise, says that a failure is counted once, of a file that is given up for good;
then "completed_with_errors" names a real failure.
`WholeInv` is PhotosInv without the stream, for when a job may be queued twice.
CountersAreExact is inductive with `RegionsInv`: what waits, what is in hand and
what is settled are disjoint parts of the stream, and each step moves one
message from one part to the next and one unit from one counter to the next.
PipelineKeepsPromise maps a file to its fate and an upload to its report: by
`FateSteps` a step turns one fate and only onwards, or gives up all files that
were under way in a batch; by `TruthInv` a
report that is no longer open is right and stays. `CountInv` is why lost replies do
no harm: an upload with any total has all its files answered and counted, although
its request may have ended in an error and told the client so. Each hypothesis is
needed: a report is taken back when a hash expires or a second chunk is counted, is
wrong when a transaction is executed twice, and a photo whose commit lost its reply
is counted as a failure.

Three theorems are what AcceptedIsSettled and UploadEnds rest on besides
fairness. AcceptedIsNotForgotten: an accepted file is settled, or one of its messages is
yet to be read, or in the hands of a worker whose loop has not passed it or which
is about to record its error. Its
invariant `DeliveryInv` says that what was delivered is in hand or settled; that
alone is enough only while no worker dies, which is just the
hazard of the pending batches. PipelineRunsOutOfWork gives the variant: `WorkLeft`
counts what files, requests and messages have still to go through, and no step, not a crash,
a failure or a retry, leaves it as it is. `StreamIsBounded` is why it is finite: a file
is queued at most `Sendings` times; the bound is 4 + 11 * `Sendings` steps per file
and two per request. UploadsAreOverWhenSettled joins both with the exact
counters: at the end of the work of an upload, and not before, its status says
that it is over, unless none of its files was accepted; then it never does.

`SyncUploadProofs` proves, for any files and whatever becomes of the calls:
`SyncTypeCorrect` (TypeOk), `CreatedAreWhole` (CreatedIsWhole),
`PhotosStayWhole` (RowsAreWhole), `NothingIsLeftBehind` (AllOrNothing),
`TempsAreCleaned` (TempsCleaned) and `UploadIsAnsweredInTime`, the safety core of
UploadAnswered: the guards of some step of a request that is not over hold
(`UploadGoesOn`; a file waits for its turn only while another has it), and
`UploadLeft`, at most 13 for a file and three more, falls at every step. `UndoShape`
bounds the steps of a compensation by the objects put.
`ProgressInv` says which objects a file has at each step, `PhotoInv` that
what is being cleaned up has no photo, `UndoInv` that an undoubted file has no
objects but those put so far or yet to be removed, `WorkerInv` that goroutines
run only while Process waits; no property is inductive without its own.

`ImageGeometryProofs` proves, for all sizes of photo, watermark and limits:
`PreviewsFit`, `PreviewsKeepShape`, `WatermarksFit`, `WatermarksShow` and
`PreviewsAreMarked`. A preview fits its limits and keeps the photo's shape to a
pixel; a photo of at least 12 pixels each way shows the whole watermark, and so
does its preview unless the photo is very flat.

`PhotoRecordProofs` proves, for any clients, requests, values and outcomes:
`RecordTypeCorrect` (TypeOk, with the fact that AddBib inserts only values that
passed its check), `OneDeletionSucceeds` (OneDeletion), `OneRemovalSucceeds`
(BibRemovedOnce), and two results that are proved only. `RecognitionDecides`: a
recognition ends with a verdict that stays the photo's status for good, unless a
statement of it failed; one whose time ran out leaves the photo "pending" or
"processing" for good. `RecognitionRunsOutOfSteps`: it ends within n + 6 of its own
steps where no answer names more than n bibs. Together they are the safety core
of RecognitionEnds. The invariant behind the deletions, `DeletionInv`, adds which
operation can be at which step (`OpInv`) and that a bib once removed does not
come back, because every id a call knows is below the next one (`RemovalInv`).
`Moves` sums up what a client's step may do, once for all ten actions.

`PhotoBibsProofs` goes on with `VerdictsAreTrue` (RecognitionIsTrue),
`PrimaryStaysListed` (PrimaryIsListed) and `BibsHavePrimary` (HasPrimary), which
assume nothing of the calls that overlap or of the statements. `RecognitionInv` is
the argument for the first: a call removes the bib it has found (`FoundInv`);
every bib the loop has passed is there or was removed (`LoopInv`); before the
loop has counted a bib none is added (`VerdictInv`). RecognitionIsTrue speaks of
the status only and is not inductive. The others are about each step: it keeps the
primary bib listed, and owed by somebody where there is none (`Stays`), unless the
write it makes is outdated. `ChoiceInv` is what they need besides: only an update
that was asked to keep the primary bib rests on the one it has read, and no
recognition is broken before it is over. `OvertakenOnlyByOthers`, which is
proved only, says what the exception costs: no step of a call's own makes its next
write outdated, so a call that overlaps with nothing never makes one. There what
DeleteBib has just listed must be there (`NextIsListed`); that a list with bibs has
an oldest one rests on the well-foundedness of Nat (`LeastNumber`).

`SessionsProofs` proves, for any clients, logins, tokens and outcomes:
`SessionsTypeCorrect` (TypeOk), `EntitledCorrect` (OnlyEntitledSucceed),
`SuccessorsCorrect` (SuccessorsReplace) and `RegistrationCorrect`
(RegistrationStands). `ChecksInv` says for every step of a call what it has
been found to have when it is there; a step looks at what it checks in the very
state it is taken in, and what has been found once is never observed as lacking
ever since. `RotationInv` adds that whoever is about to store a successor has
revoked its predecessor, which SuccessorsReplace alone does not say.
`SessionsAreSingle` is OneLivePerSession: by `TipInv` a session is a tree of
tokens, a refresh goes on in the session of its token, and two tokens without a
successor mean that the tree has branched. It also gives the two results about
the end of a session, which are proved only. `EndedSessionsStayEnded`: without a live token, and
without a refresh past its check, a session never has a live token again.
`LogoutEndsTheSession`: a logout answered with success leaves its session so; a
refresh under way in it, or a second branch, is the only way round. Logout
revokes one token and not the session, which is why both must be excepted. `AnAdminIsLeft` is AdminRemains, for any overlap: by `AdminInv` nobody is about to
change their own account, so whoever takes the last admin away changes somebody
else's and is no admin any more; and an admin has an account, so that no
registration overwrites it. By `ChecksInv` the caller was an active admin at some
moment of the call.

`CompetitionsProofs` proves, for any clients, requests, clock and outcomes:
`CompetitionsTypeCorrect` (TypeOk), `DatesStayInOrder` (DatesInOrder),
`OrganizersEditTheirs` (OrganizerEdits, proved only), `CoversExist` (CoverExists),
`CoversAreNamed` (NoStrayCovers) and, where `Offset` is at least 0 and less than
a day, `StagesStayWithin` (StagesWithin). `Inv` says that a row about to be written has
passed the checks as a whole, which is why overlapping updates of one date each
cannot turn the dates round. `CoversInv` is the argument about covers: a key
has one competition that may name it (`HomeInv`); a key nobody was told of stays
its call's own (`FreshInv`); a call writes its own cover, the one it has read,
or none (`PlannedInv`); and a call about to remove a cover knows that no row
names it, or it was noted (`GoneInv`). Without HomeInv a deletion could remove
the cover of another competition; without GoneInv a stale row could bring a
removed cover back unnoticed. `Written` treats the three statements that write
a competition at once. `StagesInv` is the argument about stages: what a call has
checked a stage against are still its competition's dates, unless that has gone
or been moved (`JudgedInv`), and nobody can name a competition that is yet to be
created (`UnbornInv`); `WithinDays` is the arithmetic of days, for a day of any
length.

`DownloadsProofs` proves, for any clients, downloaders, users, competitions,
grants, photos and bounds, whatever becomes of the statements:

| theorem | property | from |
|---|---|---|
| DownloadsTypeCorrect | TypeOk | |
| RevocationStands | RevokedStaysRevoked | GrantsInv |
| TermsAreAskedFor | TermsStand | GrantsInv |
| OnlyManagersWrite | ManagersOnly | ManagingInv |
| OriginalsAreProtected | OriginalsAreEntitled | DownloadsInv |
| WatermarksAreEarned | EntitledGetOriginals | DownloadsInv |
| DeletedStaysHidden | DeletedIsNotServed | DownloadsInv |
| NoReaderLeaks | ReadersClosed | DownloadsInv |
| ZipNamesDiffer | ZipNamesDistinct | DownloadsInv |

`GrantsInv`: ids are given once, and there is one grant per competition and
user. `ManagingInv`: who has passed the check managed the competition at some
moment of the call. `DownloadsInv` has three parts. `ServedInv` is about what
has been served; it is not inductive by itself, since it says nothing of a
decision half made. `JudgingInv` says what a call knows between two reads: what
its actor is entitled to now has been observed; past the organizer, the actor
does not manage the competition unless something was written; with a grant in
hand, the grant is still that one unless something was written, and if it is
good now it was good when it was observed, since the clock only goes forward.
`OpenInv` gives the open readers at each step. ZipNamesDiffer
needs no induction: `RepeatsGrow` shows by cardinalities that the number of a file
grows from one file of a name to the next.

Liveness under fairness is out of the prover's reach and only model-checked:
AcceptedIsSettled, UploadEnds, UploadAnswered, RecognitionEnds and the liveness
half of KeepsPromise. What they rest on besides fairness is proved for every
instance, as said above: nothing is forgotten, the work runs out, and what is
reached at its end is what the property promises. That a goroutine with a step
to take has it ENABLED, and takes it, is left to TLC. Every other property of the
runs is also a theorem.

## What is not modelled, and why

- Pixels, fonts and file formats: an image that does not decode is the constant
  `Undecodable` or an outcome of `Decode`. The text drawn when there is no
  watermark image is left out; `ImageGeometry` has the sizes of the image.
- Passwords, token signatures, configuration, the HTTP layer's parsing and the
  maintenance pages: pure calls into libraries without shared state.
- What listings filter and sort by: their queries are one SELECT each and change
  nothing. What they show of a photo is in `Downloads`.
- In `Access`: `revoked_at`, which no statement sets, and the deletion of a
  competition, whose grants go with it in the schema.
- In `Downloads`: the bytes. An error of io.Copy ends the answer early, with
  status 200, and nothing records it; file names are assumed to have an extension.
- `prepareUploadForProcessing` and `finalizeProcessedUpload` of
  `domain/photo/service.go`, `processor_selector.go` and `batch_processor.go`
  of `infra/imaging`: no code calls them.

## Plan

Done: every component that keeps state, each with its runs and theorems; every
property of the runs that the prover can reach, and what the liveness
properties rest on. To come:

1. Proofs: the pipeline's results for uploads of several requests, as far as a
   second request can be told from an upload that is over.
2. Proofs: what the actors of one component leave alone of another's state,
   stated once, where `Downloads` extends `Access`.
