---------------------------- MODULE Conversation ----------------------------
(***************************************************************************)
(* One conversation and the jobs that write lines in it: notices           *)
(* (conversationnotice.go), and commands (commands.go, builtins.go) whose  *)
(* answers are posted as the System bot (systemreply.go).                  *)
(*                                                                         *)
(* A run reads who is in the conversation, stores a message, saves the     *)
(* preview and, for a notice, the participants, takes the thread out of    *)
(* the archive and announces the line.  Each of these is a step; people    *)
(* join and leave between them, calls fail, deadlines pass, and deliveries *)
(* come back as Delivery shows for queues without RetryFailures.           *)
(*                                                                         *)
(* Definitions introduced by "Mutant" are faulty variants of the operator  *)
(* below them; no specification uses them.                                 *)
(***************************************************************************)
EXTENDS Naturals, FiniteSets

CONSTANTS
  People,      \* the entities that may be in the conversation
  Communities, \* those of them that are a community
  Workers,     \* the workers of both queues
  Jobs,        \* names of jobs
  Scenarios,   \* the conversations and jobs to start with
  MaxFaults,   \* bound: failed calls, passed deadlines, crashes, lost acks
  MaxChanges   \* bound: people who leave or archive, commands switched off

Job ==
  [ kind     : {"notice", "system", "webhook", "other"},
    actor    : People,                     \* of a notice: who joined
    push     : BOOLEAN,
    responds : {"none", "system", "bot"},  \* of a command's row
    valid    : BOOLEAN ]  \* the payload is complete; the envelope names the conversation

Scenario ==
  [ realm   : {"none", "group", "voice", "community"},
    members : SUBSET People,   \* community_member
    exists  : BOOLEAN,         \* the conversation has a document
    listed  : SUBSET People,   \* ... with these participant_ids
    work    : [Jobs -> Job] ]

ASSUME ConversationAssumption ==
  /\ Jobs # {} /\ IsFiniteSet(Workers)
  /\ Communities \subseteq People
  /\ Scenarios \subseteq Scenario
  /\ MaxFaults \in Nat /\ MaxChanges \in Nat

VARIABLES
  scene,     \* the scenario
  members,   \* community_member of the realm
  conv,      \* the conversation's document, and who has archived the thread
  messages,  \* the messages collection: [id, job, says]
  frames,    \* Redis: who was sent a frame about which message
  pushes,    \* who was sent a push about which message
  active,    \* the commands whose rows are active
  ready,     \* how many copies of each job are ready on their queue
  flagged,   \* the jobs the broker marks as redelivered
  sent,      \* the jobs that have been published
  worker,    \* per worker: the delivery it handles and how far it is
  faults, changes,
  steady,    \* history: per job, who was in the conversation since it was sent
  ever,      \* history: who has ever been in the conversation
  doubts,    \* history: how often each job was delivered again, or its
             \* insert failed after it was applied
  raced      \* history: a run saved what another had saved since it read

chat == <<conv, messages, frames, pushes>>
broker == <<ready, flagged, sent>>
history == <<steady, ever, doubts, raced>>
vars == <<scene, members, conv, messages, frames, pushes, active, ready, flagged,
          sent, worker, faults, changes, steady, ever, doubts, raced>>

Work(j) == scene.work[j]
Notice(j) == Work(j).kind = "notice"
Realm == scene.realm = "group"
Idle == [pc |-> "idle", job |-> CHOOSE j \in Jobs : TRUE, again |-> FALSE,
         ctx |-> "live", to |-> {}, cut |-> FALSE, says |-> "answer", got |-> "none",
         msg |-> 0, late |-> FALSE, clean |-> TRUE]

\* Who is in the conversation: the members of a realm for its notices, the
\* document's participants for everything else (conversationFacts).
Present(j) == IF Notice(j) /\ Realm THEN members
              ELSE IF conv.exists THEN conv.listed ELSE {}

\* communityChatAllowed: no community, neither as the conversation nor as the
\* sender; and a notice needs a realm that has a chat.
Allowed(j) == /\ scene.realm # "community"
              /\ Notice(j) => /\ Work(j).actor \notin Communities
                              /\ scene.realm # "voice"

(***************************************************************************)
(* The control of a run.                                                   *)
(***************************************************************************)
At(w, pc) == worker[w].pc = pc
Busy(w) == ~At(w, "idle")
JobOf(w) == worker[w].job
Set(w, new) == worker' = [worker EXCEPT ![w] = new]
Go(w, pc) == Set(w, [worker[w] EXCEPT !.pc = pc])

Fault == faults < MaxFaults /\ faults' = faults + 1
Succeeds(w) == worker[w].ctx = "live" /\ UNCHANGED faults
\* A call fails by itself or because the deadline has passed; from then on
\* every call with this context fails.
Fails(w) == IF worker[w].ctx = "live" THEN Fault ELSE UNCHANGED faults
Marred(w, pc) ==
  {[worker[w] EXCEPT !.ctx = ctx, !.clean = @ /\ worker[w].ctx = "expired", !.pc = pc] :
     ctx \in IF pc = "done" THEN {worker[w].ctx} ELSE {worker[w].ctx, "expired"}}
GoMarred(w, pc) == \E new \in Marred(w, pc) : Set(w, new)

\* Back to the queue, marked as redelivered.
Return(j) == /\ ready' = [ready EXCEPT ![j] = @ + 1]
             /\ flagged' = flagged \union {j}
             /\ UNCHANGED sent

\* An error of a notice is retried once (handleErr); a command's is logged.
Errored(w) ==
  IF Notice(JobOf(w)) /\ ~worker[w].again
  THEN Set(w, Idle) /\ Return(JobOf(w))
  ELSE GoMarred(w, "done") /\ UNCHANGED broker

\* Mutant: an incomplete payload is requeued instead of dropped.
BeginInvalidBack(w) ==
  /\ At(w, "idle")
  /\ \E j \in Jobs :
       /\ ready[j] > 0
       /\ ready' = IF Notice(j) /\ ~Work(j).valid THEN ready ELSE [ready EXCEPT ![j] = @ - 1]
       /\ Set(w, [Idle EXCEPT !.job = j, !.again = j \in flagged,
                              !.pc = IF ~Notice(j) THEN "load"
                                     ELSE IF Work(j).valid THEN "allow" ELSE "idle"])
  /\ UNCHANGED <<scene, members, chat, active, flagged, sent, faults, changes, history>>

\* A worker takes a job; it stays with the broker, unacked, until Ack.
Begin(w) ==
  /\ At(w, "idle")
  /\ \E j \in Jobs :
       /\ ready[j] > 0
       /\ ready' = [ready EXCEPT ![j] = @ - 1]
       /\ Set(w, [Idle EXCEPT !.job = j, !.again = j \in flagged,
                              !.pc = IF ~Notice(j) THEN "load"
                                     ELSE IF Work(j).valid THEN "allow" ELSE "done"])
  /\ UNCHANGED <<scene, members, chat, active, flagged, sent, faults, changes, history>>

Ack(w) ==
  /\ At(w, "done")
  /\ Set(w, Idle)
  /\ UNCHANGED <<scene, members, chat, active, broker, faults, changes, history>>

(***************************************************************************)
(* Commands.                                                               *)
(***************************************************************************)
\* loadCommand, and the dispatch by category.
Load(w) ==
  /\ At(w, "load")
  /\ \/ /\ Succeeds(w)
        /\ Go(w, IF JobOf(w) \notin active THEN "done"
                 ELSE CASE Work(JobOf(w)).kind = "system" -> "run"
                        [] Work(JobOf(w)).kind = "webhook" -> "call"
                        [] OTHER -> "done")
     \/ Fails(w) /\ GoMarred(w, "done")
  /\ UNCHANGED <<scene, members, chat, active, broker, changes, history>>

Replies(j) == Work(j).responds # "none" /\ Work(j).valid

\* runSystemCommand up to its reply: only "none" keeps an answer back.  A built-in
\* that cannot read the conversation says so; any other error is logged and not
\* posted.
RunBuiltin(w) ==
  /\ At(w, "run")
  /\ \/ Succeeds(w) /\ Go(w, IF Replies(JobOf(w)) THEN "allow" ELSE "done")
     \/ Fails(w) /\ Replies(JobOf(w)) /\ GoMarred(w, "allow")
     \/ Fails(w) /\ GoMarred(w, "done")
  /\ UNCHANGED <<scene, members, chat, active, broker, changes, history>>

WantsAnswer(j) == Work(j).responds = "system"

Posts(w, got) ==
  /\ got \in {"answer", "failed"}
  /\ WantsAnswer(JobOf(w))
  /\ Work(JobOf(w)).valid

\* Mutant: the failure is told within the deadline that has just passed.
AfterCallSameContext(w, got, ctx) ==
  [worker[w] EXCEPT !.got = got, !.clean = TRUE,
                    !.says = IF got = "failed" THEN "failure" ELSE "answer",
                    !.ctx = ctx,
                    !.pc = IF Posts(w, got) THEN "allow" ELSE "done"]

\* reportWebhookFailure has a context of its own; an answer is posted with
\* what is left of the webhook's.
AfterCall(w, got, ctx) ==
  [worker[w] EXCEPT !.got = got, !.clean = TRUE,
                    !.says = IF got = "failed" THEN "failure" ELSE "answer",
                    !.ctx = IF got = "failed" THEN "live" ELSE ctx,
                    !.pc = IF Posts(w, got) THEN "allow" ELSE "done"]

\* runWebhookCommand: the endpoint may answer, have nothing to say, refuse, or
\* not be reached in time.
CallWebhook(w) ==
  /\ At(w, "call")
  /\ \/ \E got \in {"answer", "empty"} : Set(w, AfterCall(w, got, "live"))
     \/ \E ctx \in {"live", "expired"} : Set(w, AfterCall(w, "failed", ctx))
  /\ UNCHANGED <<scene, members, chat, active, broker, faults, changes, history>>

(***************************************************************************)
(* PostConversationNotice and PostSystemReply.                             *)
(***************************************************************************)
\* Mutant: the audience of the notice is taken from the publisher's time.
ReadMembersOld(w) ==
  /\ At(w, "members")
  /\ Succeeds(w)
  /\ Set(w, [worker[w] EXCEPT !.to = scene.listed, !.pc = "insert"])
  /\ UNCHANGED <<scene, members, chat, active, broker, changes, history>>

\* communityChatAllowed; for a notice also realmOf.
Allow(w) ==
  /\ At(w, "allow")
  /\ \/ /\ Succeeds(w)
        /\ Go(w, IF Allowed(JobOf(w)) THEN "members" ELSE "done")
        /\ UNCHANGED broker
     \/ Fails(w) /\ Errored(w)
  /\ UNCHANGED <<scene, members, chat, active, changes, history>>

\* realmMembers or conversationFacts: a read that fails leaves nobody; one of
\* the members' rows that breaks off leaves those it has read.
ReadMembers(w) ==
  /\ At(w, "members")
  /\ \/ Succeeds(w) /\ Set(w, [worker[w] EXCEPT !.to = Present(JobOf(w)), !.pc = "insert"])
     \/ /\ Fails(w)
        /\ GoMarred(w, "insert")
     \/ /\ Fails(w) /\ Notice(JobOf(w)) /\ Realm
        /\ \E some \in SUBSET members \ {{}, members}, new \in Marred(w, "insert") :
             Set(w, [new EXCEPT !.to = some, !.cut = TRUE])
  /\ UNCHANGED <<scene, members, chat, active, broker, changes, history>>

NewId == Cardinality(messages) + 1
Stored(w) == messages' = messages \union
               {[id |-> NewId, job |-> JobOf(w), says |->
                   IF Notice(JobOf(w)) THEN "notice" ELSE worker[w].says]}

\* InsertOne of a message with a fresh id; an error does not say that it was
\* not stored.
Insert(w) ==
  /\ At(w, "insert")
  /\ \/ /\ Succeeds(w) /\ Stored(w)
        /\ Set(w, [worker[w] EXCEPT !.msg = NewId, !.pc = "save"])
        /\ UNCHANGED <<broker, doubts>>
     \/ /\ Fails(w) /\ Errored(w)
        /\ UNCHANGED <<messages, doubts>>
     \/ /\ Fails(w) /\ Errored(w) /\ Stored(w)
        /\ doubts' = [doubts EXCEPT ![JobOf(w)] = @ + 1]
  /\ UNCHANGED <<scene, members, conv, frames, pushes, active, changes, steady, ever, raced>>

\* Mutant: the participants are replaced also by an empty list.
SavedEmptied(w) ==
  IF Notice(JobOf(w))
  THEN [conv EXCEPT !.exists = TRUE, !.preview = worker[w].msg, !.listed = worker[w].to]
  ELSE IF conv.exists THEN [conv EXCEPT !.preview = worker[w].msg] ELSE conv

\* Mutant: a notice leaves the participants alone.
SavedPreviewOnly(w) ==
  IF Notice(JobOf(w)) \/ conv.exists
  THEN [conv EXCEPT !.exists = TRUE, !.preview = worker[w].msg] ELSE conv

\* saveNoticeConversation upserts and sets the participants, but never to
\* nobody; updateConversationPreview only updates.
Saved(w) ==
  IF Notice(JobOf(w))
  THEN [conv EXCEPT !.exists = TRUE, !.preview = worker[w].msg,
                    !.listed = IF worker[w].to = {} THEN @ ELSE worker[w].to]
  ELSE IF conv.exists THEN [conv EXCEPT !.preview = worker[w].msg] ELSE conv

\* History: who has been there all the time, and ever.
Track == /\ steady' = [j \in Jobs |-> IF j \in sent THEN steady[j] \intersect Present(j)'
                                      ELSE Present(j)']
         /\ ever' = ever \union members' \union conv'.listed

\* Mutant: an error of the update fails the job.
SaveOrFail(w) ==
  /\ At(w, "save")
  /\ \/ /\ Succeeds(w)
        /\ conv' = Saved(w)
        /\ Go(w, "unarchive")
        /\ UNCHANGED broker
     \/ Fails(w) /\ Errored(w) /\ UNCHANGED conv
  /\ UNCHANGED <<scene, members, messages, frames, pushes, active, changes, doubts, raced>>
  /\ Track

\* The update is best effort.  It makes every other run late that has read
\* and has not saved.
Save(w) ==
  /\ At(w, "save")
  /\ \/ /\ Succeeds(w) /\ conv' = Saved(w)
        /\ worker' = [v \in Workers |->
             IF v = w THEN [worker[w] EXCEPT !.pc = "unarchive"]
             ELSE [worker[v] EXCEPT !.late = @ \/ worker[v].pc \in {"insert", "save"}]]
        /\ raced' = (raced \/ worker[w].late)
     \/ /\ Fails(w) /\ UNCHANGED <<conv, raced>>
        /\ GoMarred(w, "unarchive")
  /\ UNCHANGED <<scene, members, messages, frames, pushes, active, broker, changes, doubts>>
  /\ Track

\* unarchiveForEveryone.
Unarchive(w) ==
  /\ At(w, "unarchive")
  /\ \/ /\ Succeeds(w) /\ conv' = [conv EXCEPT !.archived = {}]
        /\ Go(w, "announce")
     \/ Fails(w) /\ UNCHANGED conv /\ GoMarred(w, "announce")
  /\ UNCHANGED <<scene, members, messages, frames, pushes, active, broker, changes, history>>

AfterFrames(w) == IF Notice(JobOf(w)) /\ Work(JobOf(w)).push THEN "push" ELSE "done"

\* publishToEntities, for both events of a notice: one publish fails without
\* stopping the next.
Announce(w) ==
  /\ At(w, "announce")
  /\ \/ /\ Succeeds(w) /\ frames' = frames \union (worker[w].to \X {worker[w].msg})
        /\ Go(w, AfterFrames(w))
     \/ /\ Fails(w)
        /\ \E some \in SUBSET worker[w].to :
             frames' = frames \union (some \X {worker[w].msg})
        /\ GoMarred(w, AfterFrames(w))
  /\ UNCHANGED <<scene, members, conv, messages, pushes, active, broker, changes, history>>

\* noticePush: everybody but the actor.
Receivers(w) == worker[w].to \ {Work(JobOf(w)).actor}

\* SendPush, which reports no error.
SendPush(w) ==
  /\ At(w, "push")
  /\ \/ /\ Succeeds(w) /\ pushes' = pushes \union (Receivers(w) \X {worker[w].msg})
        /\ Go(w, "done")
     \/ /\ Fails(w)
        /\ \E some \in SUBSET Receivers(w) :
             pushes' = pushes \union (some \X {worker[w].msg})
        /\ GoMarred(w, "done")
  /\ UNCHANGED <<scene, members, conv, messages, frames, active, broker, changes, history>>

Deliver(w) ==
  \/ Begin(w) \/ Ack(w) \/ Load(w) \/ RunBuiltin(w) \/ CallWebhook(w)
  \/ Allow(w) \/ ReadMembers(w) \/ Insert(w) \/ Save(w) \/ Unarchive(w)
  \/ Announce(w) \/ SendPush(w)

(***************************************************************************)
(* What else happens.                                                      *)
(***************************************************************************)
\* The process dies: the broker still has what the worker was handling.
Crash(w) ==
  /\ Busy(w) /\ Fault
  /\ Set(w, Idle) /\ Return(JobOf(w))
  /\ doubts' = [doubts EXCEPT ![JobOf(w)] = @ + 1]
  /\ UNCHANGED <<scene, members, chat, active, changes, steady, ever, raced>>

\* The connection is lost: the job is delivered again while this run goes on;
\* or its ack is lost.
Redeliver(w) ==
  /\ Busy(w) /\ Fault
  /\ Return(JobOf(w))
  /\ doubts' = [doubts EXCEPT ![JobOf(w)] = @ + 1]
  /\ UNCHANGED <<scene, members, chat, active, worker, changes, steady, ever, raced>>

\* user_service puts somebody in the realm and publishes the notice.
Join(j) ==
  /\ j \notin sent /\ Notice(j) /\ Realm
  /\ members' = members \union {Work(j).actor}
  /\ ready' = [ready EXCEPT ![j] = 1]
  /\ sent' = sent \union {j}
  /\ UNCHANGED <<scene, conv, messages, frames, pushes, active, flagged, worker, faults,
                 changes, doubts, raced>>
  /\ Track

Leave(p) ==
  /\ p \in members /\ changes < MaxChanges /\ changes' = changes + 1
  /\ members' = members \ {p}
  /\ UNCHANGED <<scene, conv, messages, frames, pushes, active, broker, worker, faults,
                 doubts, raced>>
  /\ Track

\* Somebody puts the thread in the archive.  Kept with it, for Announced, is the
\* newest message at that time.
Archive(p) ==
  /\ p \in conv.listed /\ changes < MaxChanges /\ changes' = changes + 1
  /\ \A archive \in conv.archived : archive[1] # p
  /\ conv' = [conv EXCEPT !.archived = @ \union {<<p, Cardinality(messages)>>}]
  /\ UNCHANGED <<scene, members, messages, frames, pushes, active, broker, worker, faults,
                 history>>

\* A command is switched off, or its bot.
SwitchOff(j) ==
  /\ j \in active /\ changes < MaxChanges /\ changes' = changes + 1
  /\ active' = active \ {j}
  /\ UNCHANGED <<scene, members, chat, broker, worker, faults, history>>

-----------------------------------------------------------------------------
\* Notices of a realm follow a change of its members; everything else is on
\* its queue.
Joins(s) == {j \in Jobs : s.work[j].kind = "notice" /\ s.realm = "group"}

Init ==
  /\ scene \in Scenarios
  /\ members = scene.members
  /\ conv = [exists |-> scene.exists, listed |-> scene.listed, preview |-> 0,
             archived |-> (scene.members \union scene.listed) \X {0}]
  /\ messages = {} /\ frames = {} /\ pushes = {}
  /\ active = {j \in Jobs : Work(j).kind # "notice"}
  /\ sent = Jobs \ Joins(scene)
  /\ ready = [j \in Jobs |-> IF j \in sent THEN 1 ELSE 0]
  /\ flagged = {}
  /\ worker = [w \in Workers |-> Idle]
  /\ faults = 0 /\ changes = 0
  /\ steady = [j \in Jobs |-> Present(j)]
  /\ ever = members \union conv.listed
  /\ doubts = [j \in Jobs |-> 0]
  /\ raced = FALSE

Next ==
  \/ \E w \in Workers : Deliver(w) \/ Crash(w) \/ Redeliver(w)
  \/ \E j \in Jobs : Join(j) \/ SwitchOff(j)
  \/ \E p \in People : Leave(p) \/ Archive(p)

Spec == Init /\ [][Next]_vars

\* Workers run: every call they make has a deadline.
FairSpec == Spec /\ \A w \in Workers : WF_vars(Deliver(w))

-----------------------------------------------------------------------------
(***************************************************************************)
(* Properties.                                                             *)
(***************************************************************************)
Run ==
  [ pc    : {"idle", "load", "run", "call", "allow", "members", "insert", "save",
             "unarchive", "announce", "push", "done"},
    job   : Jobs,
    again : BOOLEAN,                      \* the delivery is marked redelivered
    ctx   : {"live", "expired"},          \* the deadline
    to    : SUBSET People,                \* the members it has read
    cut   : BOOLEAN,                      \* ... until the rows broke off
    says  : {"answer", "failure"},
    got   : {"none", "answer", "empty", "failed"},
    msg   : Nat,                          \* the message it has stored
    late  : BOOLEAN,                      \* history: others saved since it read
    clean : BOOLEAN ]                     \* history: no call has failed

Conv == [exists : BOOLEAN, listed : SUBSET People, preview : Nat,
         archived : SUBSET (People \X Nat)]
Message == [id : Nat, job : Jobs, says : {"notice", "answer", "failure"}]

TypeOK ==
  /\ scene \in Scenarios
  /\ members \subseteq People /\ ever \subseteq People
  /\ conv \in Conv
  /\ messages \subseteq Message /\ IsFiniteSet(messages)
  /\ frames \subseteq People \X Nat /\ pushes \subseteq People \X Nat
  /\ active \subseteq Jobs /\ flagged \subseteq Jobs /\ sent \subseteq Jobs
  /\ ready \in [Jobs -> Nat] /\ doubts \in [Jobs -> Nat]
  /\ steady \in [Jobs -> SUBSET People]
  /\ worker \in [Workers -> Run]
  /\ raced \in BOOLEAN
  /\ faults \in 0..MaxFaults /\ changes \in 0..MaxChanges

MessagesOf(j) == {m \in messages : m.job = j}

\* A job posts once.  It posts again only if it was delivered again by the
\* broker or its insert failed in doubt: nothing that goes wrong after the
\* insert may lead to a second line (conversationnotice.go:76-79,
\* systemreply.go:59-61).
PostedOnce == \A j \in Jobs : Cardinality(MessagesOf(j)) <= 1 + doubts[j]

\* A run that meets no failure reaches everybody who has been in the
\* conversation since its job was published and nobody who never was; whoever
\* had the thread in the archive before the line has it back
\* (systemreply.go:199-201), and a push goes to all of them but the actor.
Reached(w) ==
  LET j == JobOf(w)
      framed == {p \in People : <<p, worker[w].msg>> \in frames}
      pushed == {p \in People : <<p, worker[w].msg>> \in pushes} IN
  /\ steady[j] \subseteq framed /\ framed \subseteq ever
  /\ \A archive \in conv.archived : archive[2] >= worker[w].msg
  /\ (Notice(j) /\ Work(j).push) => pushed = framed \ {Work(j).actor}

Announced ==
  \A w \in Workers :
    (At(w, "done") /\ worker[w].clean /\ worker[w].msg # 0) => Reached(w)

\* A webhook command that promises an answer ends with one line: the answer,
\* or that there is none, also when the deadline was what failed it
\* (commands.go:319-330).  Excused are failures after the endpoint's outcome
\* is known, among them the rest of the webhook's own deadline passing while
\* the answer is being posted.  A trigger posts nothing.
PromiseKept ==
  \A w \in Workers :
    LET j == JobOf(w) IN
    (At(w, "done") /\ Work(j).kind = "webhook") =>
      /\ ~WantsAnswer(j) => worker[w].msg = 0
      /\ (/\ WantsAnswer(j) /\ Work(j).valid /\ Allowed(j) /\ worker[w].clean
          /\ worker[w].got \in {"answer", "failed"}) =>
            \E m \in MessagesOf(j) :
              /\ m.id = worker[w].msg
              /\ m.says = IF worker[w].got = "failed" THEN "failure" ELSE "answer"

\* Nobody who has been a member since the notice was published is taken out
\* of the participants, however its reads fail (conversationnotice.go:249-250)
\* - unless the rows broke off half-way.
NobodyThrownOut ==
  [][\A p \in conv.listed \ conv'.listed :
       \E w \in Workers : /\ At(w, "save")
                          /\ worker[w].cut \/ p \notin steady[JobOf(w)]]_vars

Quiet == (\A j \in Jobs : ready[j] = 0) /\ \A w \in Workers : At(w, "idle")

\* When all is done and nothing failed, those who joined and stayed are
\* participants (conversationnotice.go:30-35) and the preview shows the newest
\* line, unless a run saved what it had read before another one saved.  Who
\* left and came back is promised by the notice of his return.
ChatListRight ==
  (Quiet /\ faults = 0 /\ ~raced) =>
    /\ \A j \in sent \intersect Joins(scene) :
         (Work(j).valid /\ Allowed(j) /\ Work(j).actor \in steady[j]) =>
           Work(j).actor \in conv.listed
    /\ (conv.exists /\ messages # {}) => conv.preview = Cardinality(messages)

\* Published jobs come to their end: what is on a queue, or comes back to it,
\* is worked off.
WorkedOff == (\E j \in Jobs : ready[j] > 0) ~> Quiet

=============================================================================
