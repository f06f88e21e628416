# Formal models of the Chatterloop worker service

The worker service is a Go process that consumes some twenty RabbitMQ queues
and applies what it reads to Postgres, Cassandra (Astra DB), MongoDB, object
storage, Firebase and SMTP. It answers nobody: a bug shows as a message that
vanished, a feed row that should not be there, or a file that is gone. This
directory holds TLA+ models of its parts, the TLC runs that check them and the
proofs about them. `PROJECT.json` maps every definition to the lines it models.

    tlc -config DeliveryResumable.cfg MCDelivery     # any .cfg, with its MC module
    tlapm DeliveryProofs.tla                         # the proofs; likewise the
                                                     # other seven *Proofs.tla

## 1. The system

| part | state it keeps | operations | talks to |
|---|---|---|---|
| RabbitMQ client (`rabbitmq.go`) | connection, publisher channel, subscriptions, wait group, shutdown flag, `attachMu` | dial, attach, process (ack, nack, drop), supervise, reconnect, Publish, Close | the broker; every handler |
| startup and adapters (`startup/init.go`) | the table of queues | Register, Start; `handle` and `handleErr` decide what a handler's failure becomes | all parts |
| fan-out (`community.go`, `fanoutjob.go`) | none of its own; rows of `newsfeed_index`, a cursor in the job | `runPostFanout`: scope, actor, one page, write, continuation | Postgres, Cassandra, its own queue |
| feed index (`handlers.go`) | rows of `newsfeed_index`, `user_engagement_log` | backfill a new friend, remove on unfriend, save the view cache, remove a log | Postgres, Cassandra |
| scores (`handlers.go`) | `newsfeed_postscore`, affinities, interaction scores | `UpdateRankingScore`, `CreatePostScoreForNewPost`, the bumps | Postgres |
| media release (`media/`) | the `files` records, the bucket | `ReleaseFile` for each URL of a job | Mongo, Postgres, S3 |
| bot commands (`commands.go`, `builtins.go`) | none | system commands, webhooks | Postgres, HTTP, system replies |
| system replies and notices (`systemreply.go`, `conversationnotice.go`) | messages, conversation previews | insert a message, update the preview, unarchive, publish | Mongo, Postgres, RabbitMQ, Redis |
| push, e-mail | device tokens | send, prune tokens | Firebase, SMTP |
| HTTP (`endpoints/`, `middlewares/`) | none | `/health`, `/status`, `/version` | `Healthy` of the client |
| connections, models, logger | clients | open, close | - |

Parts interact through queues, the rows of shared tables, and three pieces of
shared memory: `ActiveRabbitMQ`, the wait group of the workers and the shutdown
channel. `main` opens everything, starts the consumers, serves HTTP and on a
signal shuts HTTP down, then the client (`Close`), then the databases.

### What is hard

* **Concurrency.** Each queue has a pool of workers that share one channel of
  deliveries; `main`, the supervisor and the watchers of the pools share the
  connection. Handlers of different messages interleave query by query.
* **Failure.** Connections and single channels die, handlers fail, panic, time
  out or hang, Cassandra batches are written in part, publishes are uncertain,
  the process is killed.
* **Order.** Competing workers and requeues mean that no queue has an order.
* **At-least-once.** What was handled may come again, also while it is being
  handled; handlers have to be idempotent.

### What makes each part correct

* client: a message is settled exactly when a run of its handler justifies it;
  no delivery is leaked or held twice; a loss is repaired; shutdown drains,
  cancels everything and returns.
* fan-out: everybody who is in the audience throughout gets one row, nobody
  gets a row after the scope has turned them away, the jobs run out.
* feed index: a removal takes everything there is because of the friend, a
  backfill brings nothing back that was seen.
* scores: no counter shows more than was executed, none goes below zero; bumps
  are all or nothing.
* media: a used file is not removed, a reported one is held, an unused one goes.
* commands, replies, notices: one line per job, to those who are there; a
  promised answer comes, or the line that there is none; a notice throws nobody
  out of the chat it announces somebody to.
* push: only the audience's devices, each once, and a registration is dropped
  only when it is dead.

`PROJECT.json` lists under "hazards" each of the hard places with its line and
the properties that cover it.

## 2. The modules

### QueueContract - what a queue promises
A message is absent, queued or gone. It is run any number of times and leaves
only when its runs justify that: a success, an `ErrDrop`, or, unless the queue
is resumable (`RetryFailures`), an error. This is the abstract specification
that Delivery implements, and what the handler modules assume of their queue.

### Delivery - one queue, message by message
`status` and `flagged` are the broker: where a message is, and whether its next
delivery says Redelivered. `gen`/`link` are the current connection, `sup` is
what the supervisor does, `buffer` the deliveries prefetched by the AMQP library
per connection, `alive`, `job`, `out` the worker goroutines, with slot `<<g, w>>`
for worker w of connection g. One action for each step of the code: `Push`
(bounded by Qos), `Take`, `Return` (nil, ErrDrop, error or panic), `Settle` (the
switch of `process`), `Retire`, the steps of `supervise`/`reconnect`, `Close`,
and the environment's `LoseConnection`, `LoseChannel` and `Crash`. After
`LoseChannel` the link is "cut": the connection is up, so the supervisor sees
nothing, but this consumer has no channel until the next connection. A handler
that may ignore its context (`MayHang`: `SendEmail` ends in `smtp.SendMail`,
which takes none) may `Hang`: it stays, keeps its delivery, and keeps `Waited`
from passing. `tried` and `failures` are history.

### Lifecycle - connections, threads, shutdown
The same client seen from its threads: `main` (RabbitClient, Start, Close) and
the supervisor, program counter by program counter, with `attachMu`, `rc.conn`,
`rc.active`, the wait group (`subs`: subscriptions whose workers are not all
back), single channels the broker closes, and handlers that may hang. Messages
are left out; Delivery has them.

### Fanout - the paged fan-out
`post`, `members` and `score` are Postgres; `queue` counts copies of each job
(cursor and time); `rows` is the index. A delivery goes through scope, actor,
page, write, continuation and ack as separate steps. Between them the audience
and the post change, and `Fail`, `Redeliver` and `EnqueueUncertain` do what
Delivery allows a resumable queue to do. `IsPage` states what the SQL of
`recipientPage` returns; `Stamp`, `HasFollowerID` and `ToAuthor` what
`runPostFanout` derives. `steady` is history: by which ways (as the author,
as a follower, as a member) each person has been in the audience throughout.

### MediaRelease - the fate of a file
`object` is the bucket, `parts` and `puts` the uploads on their way to it (in
parts, with an upload id in the record; or by one presigned PUT, with none),
`record` the `files` collection, `content`, `reported`, `avatars` the tables of
the other services. A handling is one step per query or write; the worker's
`copy` of the record is what `SaveRecord` writes back whole. `AbortMultipart` is
on the way only for a pending record with an upload id (`release.go:190`):
nothing aborts a single PUT, and one that comes after the decision to release
its file stores an object whose record says "deleted" (`slipped`). Jobs fail
(the adapter swallows the error: `GiveUp`) or come back (`Crash`). Posts are
found by URL; messages by URL in the one conversation the job or the key names
(`Asked`), and without such a conversation not at all; messages of other
conversations only through the record; unknown kinds count as live.

### FeedIndex - one timeline, one friend
`index` holds the rows of one viewer's bucket, keyed as in Cassandra by post and
time; `viewed` is the part of `user_engagement_log` the backfill reads of the
viewer, `discussed` that of a mutual friend, row by row. The workers take the
jobs of five queues: fan-outs (audience, then write, as Fanout has them for a
single recipient; `PassOver` is a follower who is not among the 500 best),
`BackfillNewFriendFeed` (the `CandidateLimit` newest posts, what mutual friends
discussed, what the viewer has viewed, batch), `RemoveFeedOnUnfriend` (two
scans, a batch per chunk), `SaveViewCacheEngagements` (one batch) and
`RemoveEngagementLog` (`ScanLog`, then `DeleteLogChunk` for each chunk). `GiveUp`
is the return on an error, with any part of an unlogged batch applied;
`ReadDiscussedPartly` and `ReadViewedPartly` are the two queries of a backfill
whose errors do not stop it: it goes on with what it has.

### Scores - read-compute-write and transactions
`row` is the ranking row of one post. `ReadScore` and `WriteScore` are the two
ends of `UpdateRankingScore`, which writes back what it computed from the row it
read; `ReadReferences` and `WriteFresh` those of `CreatePostScoreForNewPost`,
which overwrites. The affinity bump executes the statements of `plan` one by one,
in any order of the interests (Go ranges over a map), collecting row locks in
`held`, and commits; `Abort` is Postgres breaking a cycle of waiting
transactions. A view batch starts its bump in a goroutine (`StartBump`, a member
of `Loose`) and goes on to the log (`LogViews`) and the ack without waiting for
it. The single-statement bumps are one step. `applied` counts the effects of
each job.

### Conversation - notices and command answers
`conv`, `messages` are Mongo, `members` and `active` the Postgres rows a run
reads, `frames` and `pushes` what was published, `worker` the run of each
delivery. `PostConversationNotice`, `RunCommand` with `runWebhookCommand` and
the built-ins, and `PostSystemReply` share their calls, one action each:
`Begin` (payload and envelope), `Load` (the command's row), `RunBuiltin`,
`CallWebhook`, `Allow`, `ReadMembers`, `Insert`, `Save`, `Unarchive`,
`Announce`, `SendPush`, `Ack`. Every call may fail, by itself or because its
context has `expired`, and then the later calls with that context fail too; what
each failure does (`Errored` returns a notice once, a command gives up, steps
after the insert go on) is the code's. The broker redelivers (`Crash`,
`Redeliver`), people `Join`, `Leave` and `Archive` the thread, commands are
switched off (`SwitchOff`).

### Push - devices, chunks and pruning
`session` are the device rows in the order they are read, `registered` what the
push service knows, `client` the Firebase client or error that `sync.Once` keeps
for the whole process, `tried` whom the push service was asked to reach. A run
reads the post (`ReadScope`) and the members (`ReadMembers`:
`prepareCommunityPush`), gets the client (`GetClient`: made by the first run, by
all later ones found as it is), reads the tokens (`ReadTokens`: `tokensFor`, in any order), sends chunk by chunk
(`SendChunk`) and clears what was refused (`Prune`). Meanwhile people join and
leave, the post is deleted, devices go online, are uninstalled or refreshed.

## 3. The runs

| run | question | bounds | result |
|---|---|---|---|
| DeliveryResumable | is a resumable queue at-least-once, with one holder per message, through losses, crashes, half re-attaches and shutdown? | 2 messages, 2 workers, prefetch 2, 3 connections (2 million states) | holds |
| DeliveryOrdinary | does an ordinary queue lose nothing silently, never spin, and settle everything, unless an outage stays for good? | 2 messages, 1 worker that may hang, prefetch 1, 3 connections (132 thousand) | holds |
| DeliveryDrop | is a message dropped only after two failed runs (`rabbitmq.go:335`)? | 2 messages, 1 worker, prefetch 2, 3 connections | **violated** |
| Lifecycle | no leaked connection, complete cancel, no `wg.Add` during the wait; Close returns, losses are repaired, the supervisor ends | 2 consumers, one may hang, 2 faults (3 connections) | holds |
| LifecycleOutage | does `Healthy` show the outage of a consumer (`rabbitmq.go:487`)? | as above | **violated** |
| Fanout | nobody missed, one row each, scope obeyed, jobs run out | 4 recipients, pages of 2, best 2 followers, 2 workers, 1 fault, 1 change, 10 kinds of post and job (80 thousand) | holds |
| MediaRelease | used files stay, marked files are gone, the last user's job releases | 1 file with up to 5 users, 2 conversations, either kind of upload, 2 workers, 1 error or redelivery, 1 sweep, 1 new use or report (1.5 million) | holds |
| MediaHeld | does a held file stay (`release.go:101-102`)? | as above, in a conversation's folder | **violated** |
| FeedIndex | removals and retractions complete, seen posts stay out, timelines right after the jobs | 2 friend's posts and 1 stranger's, 1 candidate for a backfill, 2 workers, chunks of 1 row, 2 changes, 1 fault (2.4 million) | holds |
| Scores | counters, bumps and transactions; does every job take effect once and do all end, in spite of deadlocks and loose goroutines? | 8 sets of up to 4 jobs, 2 entities, 2 interests, 2 workers, 2 goroutines, 1 fault (86 thousand) | holds |
| Conversation | one line per job, to the right people; promised answers; participants and preview; every job ends | 3 people, one a community, 2 jobs, 2 workers, 9 scenarios, 1 fault, 1 change (1 million) | holds |
| Push | only the audience, once per delivery, everybody in a clean run; which registrations go | 3 people, 4 tokens, chunks of 2, 2 jobs, 2 workers, 6 scenarios, 1 fault, 1 change (1.1 million) | holds |

**Why the bounds are enough.** A wrong settlement needs two workers or two
connections and one message; a second message makes the prefetch window matter,
and the third connection lets the late worker of a lost connection meet both
its successor and a restart. The last connection of an instance is not lost, so
that liveness is asked of finitely many losses; its channel may be closed, which
is an outage for good. Lifecycle needs two consumers
for an attach to fail half-way and two faults for a failure during the repair
of another. Four recipients and pages of two give a full page, an exactly full
last page and an empty one, and three followers for two places make the top
drift; every fault is possible at every step, one per behaviour. Media is about
the users of a single file: two handlings of it with one change between their
queries already reach every order of read and write, and it starts created,
shared, unrecorded, pending with and without an upload id, or on hold.
FeedIndex's properties are about one row or one post each; two friend's posts
for one candidate make the limit cut, the second may also come after the
connect, the stranger's post gives the commented row, and one connect with one
disconnect every pair of opposite jobs. For Scores two workers and two
interests make the smallest deadlock, and the sets of jobs have increments of
every kind, decrements before and after them, and the creation in any order.
Chunks of one row make every removal of two rows a partial one. Conversation
needs two runs that overlap and one membership that changes between their calls;
its scenarios are a new group, joins beside a command or a notice that does not
count (somebody may leave and come back between the two), direct conversations
with and without a document, and all early ends; one failing call at every step
covers each error path, and its expired context the ones behind it. In Push,
three tokens in chunks of two give a full and a partial chunk and a second chunk
after a refusal in the first, and a community's list names a token twice.

**What the violations show.**
* *DeliveryDrop*: a delivery is marked redelivered although its handler never
  ran (it was only prefetched when the connection was lost); its first failure
  is treated as a failed retry and the message is dropped.
* *LifecycleOutage*: `supervise` and `Healthy` look at the connection only; a
  consumer whose own channel is closed stays detached, unseen.
* *MediaHeld*: `ReleaseFile` removes (`release.go:195`) on the record it read at its start; another
  job may have put the file on hold since.

**Fairness.** Goroutines, the broker's pushes and the supervisor's timers are
weakly fair: nothing in the code can block them for ever. A handler returns
because its context has a deadline, except one that may hang (`smtp.SendMail`,
`email.go:78`, takes no context: `MayHang` in Delivery, `Hangs` in Lifecycle). A
handler that hangs has no step that could be fair, and the properties say what
that costs: supervise waits for it without a timeout (`LossRepaired`,
`SupervisorEnds`), and `EventuallySettled` is asked only of behaviours in which
no `Outage` stays for good. An outage is a consumer whose own channel is closed
while the connection is up, or a hung handler that holds the window of the live
connection or the wait of supervise. Nothing in the process ends one, but a loss
of the connection, a restart or a shutdown may; what was published is settled
after the last of them. `Retire` of a detached subscription is strongly fair,
because its workers may first take what the library had buffered, and that runs
out. `Stop` and `Boot` are fair as the drain has a timeout and the container is
restarted. Faults, signals and changes are never promised. In Fanout, Scores and
Conversation the steps of a worker, and of a goroutine that bumps, are weakly
fair, since each call has a deadline or is a statement that Postgres ends, and
the number of faults is bounded, which is the "finitely many losses" of the
contract.

`EventuallyQuiescent` and `EveryJobEnds` ask that all jobs end; `WorkedOff` that
what is on the queues of Conversation, also what comes back, is worked off.

Deadlock is not checked where a behaviour may simply end (all messages settled,
the process closed, no job left).

## 4. The proofs

Every module of the system has a proof module. What is proved holds for every
value of the constants that the module's named ASSUME admits; TLC evaluates the
ASSUME in each run. The bounds on faults and changes are constants too: the
theorems hold for any number of them. The type invariant of each module is
proved, and most runs therefore leave it to the proof.

| module | assumed of the constants | proved |
|---|---|---|
| Delivery | 1 to Prefetch workers (`applyDefaults`) | `TypeOK`, `NoSilentLoss`, `OneHolder`, `CleanDrain`, `GoneForever`, `NoPoisonSpin`; Delivery refines `QueueContract!CSpec` |
| Lifecycle | at least one consumer | `TypeOK`, `NoLeakedConnection`, `AllCancelled`, `NoAddDuringWait` |
| Fanout | at least two people, pages of at least one | `TypeOK`, `OneRowEach`, `ScopeObeyed`, `NobodyMissed` |
| MediaRelease | to begin with, no file is marked deleted, and what a record lists as attached does use the file; each message has a conversation, the empty one is none | `TypeOK`, `DeletedMeansGone`, `InUseKept`, `LastUserReleases` |
| FeedIndex | finitely many posts, numbered by age; chunks of at least one row, any limit of candidates | `TypeOK`, `RemovalComplete`, `RetractionComplete`, `ViewedStaysOut`, `TimelineRight` |
| Scores | finitely many jobs, entities and interests; workers are not loose goroutines | `TypeOK`, `AppliedOnce`, `NothingInvented`, `EngagementExact`, `BumpsExact` |
| Conversation | finitely many workers, at least one job | `TypeOK`, `PostedOnce`, `NobodyThrownOut`, `Announced`, `PromiseKept`, `ChatListRight` |
| Push | finitely many workers, chunks of at least one token | `TypeOK`, `OnlyAudience`, `SentOnce`, `AllTried`, `PruneRight` |

### The inductive invariants

**Delivery** (`IInv`). `NoSilentLoss` alone is not inductive: a worker may hold
an outcome nobody vouches for. `Evidence` says that an unsettled outcome is one
the message has had, and that a delivery marked redelivered belongs to a flagged
message; that is what the switch of `process` relies on. `OneHolder` needs
`Generations`: buffers of connections not yet opened are empty, only live
goroutines hold deliveries, dialling starts without a connection, and a live
connection has all of its workers as long as it has deliveries. `Published`
keeps unsent messages out of buffers, which the refinement needs (`Run` is
allowed for queued or gone messages only). For `NoPoisonSpin`, `Marked` adds the
converse of `Evidence` on the live connection: the delivery of a flagged message
says so. The refinement maps `Push`, `Settle` by requeue and all steps of the
supervisor to stutters, `Return` to `Run`, and `Settle` by ack to `Leave`.

**Lifecycle**. `OneConn`: only `rc.conn` can be open, and it is closed wherever
the supervisor may come to dial; after `Close` it is open only on the
supervisor's way to closing it. `Told`: who attaches holds `attachMu`, nobody
does once `Close` has its snapshot, and every subscription that can receive is
in `rc.active`, hence in the snapshot until it is cancelled.

**Fanout**. `Sound`: what a delivery has been told by its queries is a scope
that the post has had since, all rows and jobs carry the time of the post, and a
page is of people who have been members if the scope kept followers out. On it
rests `Covered`: whoever is in the audience by one and the same way throughout
has a row, or a job that is still to come to them is queued, or a worker that
has not passed them handles one. That a page has a last recipient (`LastOne`),
from which its continuation goes on, is a descent in the natural numbers.

**MediaRelease**. `Marked`: a file with an upload in parts under way is not in
the bucket, and its record is pending or held and has an upload id
(`PartsRight`); and (`Careful`) a worker about to mark a file deleted has made
sure that nothing is left, in an order that no upload in parts and no other
worker undoes. A single PUT can undo it, and then the file is in `slipped`.
`InUse`: whoever has used the file since the worker read its record is of a kind
that it has still to ask about. `LastUse` carries `LastUserReleases`: a stored file that somebody has deleted is used by somebody
else, or is in a job (`Owed`). A worker that skips a file relies on a user it
has just seen, and that needs `Attachments`: every user of the file is in the
record, in the worker's copy of it and among what the worker has still to ask,
so that the deletion of that user queues the file once more. `SameHold`: unless
somebody reports it, a file is on hold in the copy exactly if it is in the
record.

**FeedIndex**. `Progress`: what a removal or a retraction still has to take it
has found or is about to look for, and a backfill that has read what was seen
carries nothing of it. These three results are about steps, and follow from the
invariant at the step that ends the job, or writes the row. `Timeline` is for
the end of the jobs. While the viewer is connected nothing removes, and each
post that is due and missing is on its way by its own job or a backfill
(`Joined`, `Coming`); while he is not, nothing backfills, and a job or a worker will remove every row
because of the friend, those included that a fan-out adds between the scan and
the deletion (`Apart`, `Removes`).

**Scores**. `TypeOK` includes that no row is locked twice and no counter falls
below zero, and is inductive together with `Placed` (which jobs may be at which
place). `Settled`: unless something has disturbed it, a job is on its queue, or
carried by exactly one run, or has had its effect.
The sums are folds over sets of jobs, and no induction over data is at hand.
`AddsUp(g, f, S)` says that g maps each part of S to its sum; the CHOOSE in the
fold is such a g, any two agree (a smallest part on which they differ cannot
exist, for a proper subset of a finite set is below it in a well-founded order)
and one exists (by the same descent). From there `SumChanges`, `SumEqual`,
`SumZero` and `SumNat` follow, and the rest is an ordinary invariant. `Exact`:
each effect moves a table at just the rows whose totals count the job. `Below`:
neither the row nor what a handler has read of it exceeds what was executed,
also where an update is lost or the row is overwritten. `Booked`: undisturbed,
no update takes effect before the row is there, and since then counters, boost
and weight are those of the effects; with `Settled` the effects are all.

**Conversation**. `Inv`: whoever has been there since a job was sent is there,
and a run that has read the members to the end has all of these. `Budget`
counts: lines of a job, plus its ready copies, plus its runs before their
insert, never exceed one plus the redeliveries and the inserts in doubt. `Lines`:
ids are given in sequence, so that a run's line is its own and new on every
frame; `Spoken` says what the line of a run is and who must have one, `Telling`
how far a run has come in telling its audience. `Orderly` is about behaviours
without a failure in which no run saves what is out of date: the newest line is
shown or about to be saved by its run, and all older saves are known to be late
(`Shown`); whoever joined and stayed is listed and will be in every save in
time, or a run of a notice will still bring him (`Welcome`, `Kept`, `Coming`).

**Push**. `Audience`: who has a token or a membership now has had it (`Known`),
and the list of a run is of devices its job may reach (`Addressed`). `Noted`:
the tokens a run is about to clear have been refused. `OnTheWay`: a device the
job has been for throughout has been tried or is in the part of the list that is
still to be sent, or the list is yet to be read; `ListedOnce`, that a list of
the keys of a map has every key just once, is a counting argument over
`Cardinality`. `Budget` counts for `SentOnce`: the tries of a device, the ready
copies of the job and the runs that have the device still ahead never exceed one
plus the redeliveries; `NoDoubles` keeps a device from being ahead twice.

### Only model-checked

Every invariant and every action property of the passing runs is proved. The
liveness properties (`EventuallySettled`, `CloseReturns`, `LossRepaired`,
`SupervisorEnds`, `EventuallyQuiescent`, `EveryJobEnds` of Scores and `WorkedOff`
of Conversation) stay with TLC: they rest on fairness, hence on ENABLED, which
the prover cannot treat. QueueContract promises no liveness: that every message
is settled holds only without an outage, and is `EventuallySettled`.

## 5. What is abstracted

* One process: the service runs as a single replica. The Delivery model covers
  a restarted process, not two at once.
* A queue is a set (Delivery, MediaRelease, FeedIndex, Scores) or a bag (Fanout,
  Conversation, Push), not a sequence: no handler may rely on order.
* The broker requeues what a connection held in the same step in which it is
  lost; an ack that arrived before the loss counts. An ack lost on its way is a
  loss before the ack.
* Times are not modelled: a timeout is a choice. Budgets of seconds against each
  other (30 s HTTP shutdown, 8 s drain, 10 s kill) are listed as hazards. In
  Conversation and Push a passed deadline is a failing call after which all
  calls with the same context fail.
* Fanout keeps one activity; of a row its recipient and time (the key). Who
  changes from member to follower while a private community keeps followers out
  is in the audience at no time by the same way, and may be missed: `steady`
  holds ways, not people.
* MediaRelease assumes that a record learns of a new attachment in the same
  step; a concurrent whole-list write of `SaveRecord` can still lose it, and
  `InUseKept` promises only what the worker can see: the recorded users, posts,
  profiles, and messages of the conversation it asks. `LastUserReleases` is
  asked of behaviours without an error, a report or a picture, and of files not
  on hold: those wait for the sweep or for a human. A presigned single PUT that
  comes after its file was released leaves an object that the early return on
  a deleted record (`release.go:124`) will not remove: `DeletedMeansGone` and
  `LastUserReleases` except just these files. Content of other services does
  not come back once deleted. Notices and diaries, which keep a file in use as
  posts do, are not told from posts. A retried job consists of the files it had
  left: files already done are found marked, in use or held again.
* FeedIndex keeps posts for good and assumes that they may be shown: Fanout has
  deletions and scopes. The viewer and the friend reach each other's rows only
  through the follow; follows of strangers add rows no property is about. The
  run has no posts of communities: the module has them, but their rows carry the
  community as type and trigger, so that no scan of a removal selects them:
  they stay after an unfriend, and `RemovalComplete` leaves them out
  (`BecauseOf`). The limits of the code are in it: a backfill looks at the
  `CandidateLimit` newest posts (50, `handlers.go:83`), and a fan-out reaches the
  500 best followers of the moment (`community.go:262-266`), so that any follower
  may be passed over (`PassOver`); which ones these are is in Fanout.
  `TimelineRight` promises the posts that are `Due` within these limits, in
  behaviours without a fault in which a follow or unfollow waits for the jobs
  before it: the queues order nothing, so a removal that overtakes an older
  backfill, or is overtaken by a fan-out, may leave rows.
* A deadlock victim of Postgres, a bump lost with its goroutine at shutdown and
  one repeated on redelivery do happen in Scores; no text promises otherwise,
  and `AppliedOnce` is asked of jobs none of this has touched.
* Scores has one post whose row in `newsfeed_post` stays (deleting it is soft,
  and the update does not ask). Interaction weights are one unit. Updates of
  `UpdateRankingScore` can be lost when they overlap, which no text denies:
  `NothingInvented` bounds the counters from above only, and `EngagementExact`
  is asked of behaviours without an overlap.
* In Conversation the push of a notice is one step; Push shows what happens to
  the job it publishes. The endpoint of a webhook answers, fails or is too late.
  Runs that overlap and save what they had read before may leave an older
  preview or an older list (`raced`): `ChatListRight` excuses them. It promises a
  place to those who joined and stayed: who left and came back is owed one by
  the notice of his return, and may lack it if that one does not count. An
  answer whose posting runs into the rest of the webhook's own deadline stays unsaid;
  `PromiseKept` excuses it (`clean`), for the code shares the context.
* In Push a device is its token, and a list of tokens a publisher sends is used
  as it comes unless it goes to a community: `SentOnce` speaks of devices such a
  list names once (`ListsOnce`). The first push of the process makes the Firebase
  client; if that fails, the error is kept and all later pushes are dropped
  (`push.go:60`): `AllTried` counts the error as one of every run that gets it.
  That the client also keeps the first push's context is up to the library. What a message looks like is one bit, whether
  the push service takes it.

### Not modelled

* Assembling a webhook's request and formatting its answer (`commands.go`
  356-917): functions of one input without state, tested case by case in
  `commands_test.go`. Seen on the way: `clipAnswer` returns its argument, while
  the comment on `webhookAnswerLimit` says that it bounds what is posted.
* E-mail (one SMTP call without a context: it is the handler that may `Hang` in
  Delivery and the consumer in `Hangs` of Lifecycle), the HTTP endpoints besides `Healthy`, opening and closing the
  databases, logging, the data structures, and the table of queues, which is
  configuration.
* `RemoveEngagementLog` of a comment names the post as its target, so it also
  takes the log rows of the same author's other comments on that post.
  `RetractionComplete` states this; nothing in the repository says otherwise.

## 6. Plan

1. (done) All of the above: the client, fan-out, media, feed index, engagement
   log, scores and loose bumps, notices and commands, push; proofs about each.
2. (done) The properties of undisturbed behaviours (`TimelineRight`,
   `LastUserReleases`, `ChatListRight`, `EngagementExact`), the sums and the
   counting in `SentOnce` proved.
3. A model with a coarse clock for the hazards about budgets: the shutdown of
   `main.go` against the orchestrator, and the rate of requeues.
