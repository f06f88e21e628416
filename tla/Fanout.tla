------------------------------- MODULE Fanout -------------------------------
(***************************************************************************)
(* The paged fan-out of one activity (a post, or a comment on it) into the *)
(* newsfeed index: runPostFanout, the store it reads and the continuation  *)
(* jobs it enqueues (src/internal/services/rabbitmq/community.go and       *)
(* fanoutjob.go).                                                          *)
(*                                                                         *)
(* A delivery reads the post's scope, then one page of recipients after    *)
(* its cursor, writes their rows and, after a full page, publishes a job   *)
(* that continues behind it; only then is it acked.  Meanwhile the         *)
(* audience and the post change in Postgres, writes are partial, publishes *)
(* are uncertain and deliveries come back: what Delivery shows a queue     *)
(* with RetryFailures to do.                                               *)
(*                                                                         *)
(* Definitions introduced by "Mutant" are faulty variants of the operator  *)
(* below them; no specification uses them.                                 *)
(***************************************************************************)
EXTENDS Integers, FiniteSets, FiniteSetsExt

CONSTANTS
  P,            \* recipients are 1..P, in the order of their ids
  Batch,        \* fanoutBatchSize
  TopFollowers, \* the LIMIT 500 on followers
  MaxScore,     \* bound: interaction scores; 0 is no follow
  Workers,      \* the consumer's workers
  Scenarios,    \* the posts and jobs to start with
  Memberships,  \* the community's members to start with
  Follows,      \* the follow scores to start with
  MaxFaults,    \* bound: failed steps, crashes and lost acks
  MaxChanges    \* bound: changes of the audience and of the post

People == 1..P
Author == 1

Scenario ==
  [ community : BOOLEAN,    \* the post is tagged to a community
    own       : BOOLEAN,    \* ... and authored by that community
    anonymous : BOOLEAN,
    private   : BOOLEAN,    \* the community is private
    state     : {"live", "dead", "missing", "invalid"},
    job       : {"post", "comment", "legacy"},  \* legacy: no comment id
    actor     : People,     \* who commented
    comment   : {"shown", "anonymous", "removed"},
    posted    : {0, 1} ]    \* the stored time of the activity; 0 is unset

ASSUME FanoutAssumption ==
  /\ P \in Nat /\ P >= 2
  /\ Batch \in Nat \ {0}
  /\ TopFollowers \in Nat
  /\ MaxScore \in Nat
  /\ Scenarios \subseteq Scenario
  /\ Memberships \subseteq SUBSET People
  /\ Follows \subseteq [People -> 0..MaxScore]
  /\ MaxFaults \in Nat /\ MaxChanges \in Nat

VARIABLES
  post,      \* the scope of the post and the comment, in Postgres
  members,   \* community_member
  score,     \* entity_follow of the author, or of the commenting actor
  queue,     \* how many copies of each job are ready on the queue
  worker,    \* per worker: the delivery it handles and how far it is
  rows,      \* newsfeed_index rows of the activity: [to, at]
  faults, changes,
  steady,    \* history: who has been in the audience all the time, and as what
  joined,    \* history: who has ever been a member
  eligible   \* history: the post could be fanned out all the time

db == <<post, members, score>>
history == <<steady, joined, eligible>>
vars == <<post, members, score, queue, worker, rows, faults, changes,
          steady, joined, eligible>>

Job == [after : 0..P, at : {0, 1}]
Row == [to : People, at : {0, 1} \union (2..(2 + MaxFaults))]
FirstJob == [after |-> 0, at |-> 0]
Idle == [pc |-> "idle", job |-> FirstJob, scope |-> {}, ids |-> {}]

(***************************************************************************)
(* What the handler derives from the scope it has read.                    *)
(***************************************************************************)
AllowsFollowerFanout(p) ==
  ~p.anonymous /\ (~p.community \/ (~p.private /\ ~p.own))

\* Mutant: followers are asked although the community is private.
HasPublicFollowerID(p) == ~p.anonymous /\ ~(p.job = "legacy" /\ p.community)

\* Whose followers are asked, if any: a legacy job about a community comment
\* cannot prove its actor.
HasFollowerID(p) == AllowsFollowerFanout(p) /\ ~(p.job = "legacy" /\ p.community)

\* A row goes to the author only if somebody else's comment brings it.
ToAuthor(p) ==
  /\ p.job = "comment" \/ (p.job = "legacy" /\ ~p.community)
  /\ p.actor # Author

\* Mutant: the time of processing becomes part of the key.
StampNow(p, job) == 2 + faults

Stamp(p, job) == IF job.at # 0 THEN job.at ELSE p.posted

\* The followers recipientPage considers: the best TopFollowers by score.
Ahead(q, p) == score[q] > score[p] \/ (score[q] = score[p] /\ q < p)
Followers ==
  {p \in People : /\ score[p] > 0
                  /\ Cardinality({q \in People : Ahead(q, p)}) < TopFollowers}

Audience(p) == (IF p.community THEN members ELSE {})
                 \union (IF HasFollowerID(p) THEN Followers ELSE {})

\* The ways to be in the audience.
Ways(p) ==
  {<<"member", r>> : r \in IF p.community THEN members ELSE {}}
    \union {<<"follower", r>> : r \in IF HasFollowerID(p) THEN Followers ELSE {}}

\* ORDER BY recipient LIMIT Batch, behind the cursor.
IsPage(ids, audience, after) ==
  LET rest == {r \in audience : r > after} IN
    /\ ids \subseteq rest
    /\ \A r \in rest : (\E i \in ids : r < i) => r \in ids
    /\ Cardinality(ids) = Batch \/ (Cardinality(ids) < Batch /\ ids = rest)

(***************************************************************************)
(* A delivery.                                                             *)
(***************************************************************************)
Fault == faults < MaxFaults /\ faults' = faults + 1
At(w, pc) == worker[w].pc = pc
Finished(w) == [Idle EXCEPT !.pc = "done", !.job = worker[w].job]
Update(w, new) == worker' = [worker EXCEPT ![w] = new]

\* A worker takes a job; it stays on the broker, unacked, until Done.
Begin(w) ==
  /\ At(w, "idle")
  /\ \E job \in Job :
       /\ queue[job] > 0
       /\ queue' = [queue EXCEPT ![job] = @ - 1]
       /\ Update(w, [Idle EXCEPT !.pc = "begun", !.job = job])
  /\ UNCHANGED <<db, rows, faults, changes, history>>

Scope(w) == CHOOSE p \in worker[w].scope : TRUE

\* Without a time the job is dropped.
Paging(w, p) ==
  IF Stamp(p, worker[w].job) = 0 THEN Finished(w)
  ELSE [worker[w] EXCEPT !.pc = "scoped", !.scope = {p}]

\* postScope: a post that is gone ends the job with nil, an invalid one with
\* ErrDrop, which is acked like a nil.
ReadScope(w) ==
  /\ At(w, "begun")
  /\ Update(w, IF post.state # "live" THEN Finished(w)
               ELSE IF post.job = "comment"
               THEN [worker[w] EXCEPT !.pc = "actor", !.scope = {post}]
               ELSE Paging(w, post))
  /\ UNCHANGED <<db, queue, rows, faults, changes, history>>

\* commentActor: a removed or anonymous comment resurfaces nothing.
ReadActor(w) ==
  /\ At(w, "actor")
  /\ Update(w, IF post.comment # "shown" THEN Finished(w) ELSE Paging(w, Scope(w)))
  /\ UNCHANGED <<db, queue, rows, faults, changes, history>>

ReadPage(w) ==
  /\ At(w, "scoped")
  /\ \E ids \in SUBSET People :
       /\ IsPage(ids, Audience(Scope(w)), worker[w].job.after)
       /\ Update(w, IF ids = {} THEN Finished(w)
                    ELSE [worker[w] EXCEPT !.pc = "paged", !.ids = ids])
  /\ UNCHANGED <<db, queue, rows, faults, changes, history>>

RowsOf(w) ==
  {[to |-> i, at |-> Stamp(Scope(w), worker[w].job)] :
     i \in {i \in worker[w].ids : i # Author \/ ToAuthor(Scope(w))}}

Emit(w) ==
  /\ At(w, "paged")
  /\ rows' = rows \union RowsOf(w)
  /\ Update(w, IF Cardinality(worker[w].ids) < Batch THEN Finished(w)
               ELSE [worker[w] EXCEPT !.pc = "written"])
  /\ UNCHANGED <<db, queue, faults, changes, history>>

\* Mutant: the cursor stays where it was.
ContinuationStuck(w) ==
  [after |-> worker[w].job.after, at |-> Stamp(Scope(w), worker[w].job)]

Continuation(w) == [after |-> Max(worker[w].ids), at |-> Stamp(Scope(w), worker[w].job)]

\* Mutant: the delivery is acked before its continuation is confirmed.
EnqueueUnconfirmed(w) ==
  /\ At(w, "written")
  /\ queue' = queue
  /\ Update(w, Finished(w))
  /\ UNCHANGED <<db, rows, faults, changes, history>>

\* publishFanoutContinuation, confirmed by the broker.
Enqueue(w) ==
  /\ At(w, "written")
  /\ queue' = [queue EXCEPT ![Continuation(w)] = @ + 1]
  /\ Update(w, Finished(w))
  /\ UNCHANGED <<db, rows, faults, changes, history>>

\* The ack.
Done(w) ==
  /\ At(w, "done")
  /\ Update(w, Idle)
  /\ UNCHANGED <<db, queue, rows, faults, changes, history>>

\* A step fails, the context expires or the process dies: the broker still
\* has the job.  Part of the batch may have been written.
Fail(w) ==
  /\ ~At(w, "idle") /\ Fault
  /\ queue' = [queue EXCEPT ![worker[w].job] = @ + 1]
  /\ Update(w, Idle)
  /\ IF At(w, "paged") THEN \E some \in SUBSET RowsOf(w) : rows' = rows \union some
     ELSE UNCHANGED rows
  /\ UNCHANGED <<db, changes, history>>

\* The connection is lost: the job is delivered again while this worker still
\* goes on with it; or its ack is lost.
Redeliver(w) ==
  /\ ~At(w, "idle") /\ Fault
  /\ queue' = [queue EXCEPT ![worker[w].job] = @ + 1]
  /\ UNCHANGED <<db, worker, rows, changes, history>>

\* The continuation is on the queue, but the publisher does not learn it.
EnqueueUncertain(w) ==
  /\ At(w, "written") /\ Fault
  /\ queue' = [queue EXCEPT ![Continuation(w)] = @ + 1, ![worker[w].job] = @ + 1]
  /\ Update(w, Idle)
  /\ UNCHANGED <<db, rows, changes, history>>

(***************************************************************************)
(* The rest of the system changes Postgres.                                *)
(***************************************************************************)
\* The activity reaches its audience.
Eligible(p) ==
  p.state = "live" /\ (p.job = "comment" => p.comment = "shown") /\ p.posted # 0

Change ==
  /\ changes < MaxChanges /\ changes' = changes + 1
  /\ steady' = steady \intersect Ways(post)'
  /\ joined' = joined \union members'
  /\ eligible' = (eligible /\ Eligible(post)')
  /\ UNCHANGED <<queue, worker, rows, faults>>

Membership(r) ==
  /\ members' = IF r \in members THEN members \ {r} ELSE members \union {r}
  /\ UNCHANGED <<post, score>>
  /\ Change

Follow(r) ==
  /\ \E s \in 0..MaxScore \ {score[r]} : score' = [score EXCEPT ![r] = s]
  /\ UNCHANGED <<post, members>>
  /\ Change

ChangePost ==
  /\ \/ /\ post.state \in {"live", "dead"}
        /\ \E s \in {"live", "dead", "missing"} : post' = [post EXCEPT !.state = s]
     \/ post.community /\ post' = [post EXCEPT !.private = ~@]
     \/ post' = [post EXCEPT !.comment = "removed"]
  /\ UNCHANGED <<members, score>>
  /\ Change

-----------------------------------------------------------------------------
Init ==
  /\ post \in Scenarios
  /\ members \in (IF post.community THEN Memberships ELSE {{}})
  /\ score \in Follows
  /\ queue = [job \in Job |-> IF job = FirstJob THEN 1 ELSE 0]
  /\ worker = [w \in Workers |-> Idle]
  /\ rows = {}
  /\ faults = 0 /\ changes = 0
  /\ steady = Ways(post)
  /\ joined = members
  /\ eligible = Eligible(post)

Deliver(w) ==
  Begin(w) \/ ReadScope(w) \/ ReadActor(w) \/ ReadPage(w) \/ Emit(w) \/ Enqueue(w) \/ Done(w)

Next ==
  \/ \E w \in Workers : Deliver(w) \/ Fail(w) \/ Redeliver(w) \/ EnqueueUncertain(w)
  \/ \E r \in People : Membership(r) \/ Follow(r)
  \/ ChangePost

Spec == Init /\ [][Next]_vars

\* Workers run; faults and changes are not promised.
FairSpec == Spec /\ \A w \in Workers : WF_vars(Deliver(w))

-----------------------------------------------------------------------------
(***************************************************************************)
(* Properties.                                                             *)
(***************************************************************************)
Handling ==
  [ pc    : {"idle", "begun", "actor", "scoped", "paged", "written", "done"},
    job   : Job,
    scope : SUBSET Scenario,  \* what it has read of the post, if anything
    ids   : SUBSET People ]   \* its page

TypeOK ==
  /\ post \in Scenario
  /\ members \in SUBSET People
  /\ score \in [People -> 0..MaxScore]
  /\ queue \in [Job -> Nat]
  /\ worker \in [Workers -> Handling]
  /\ rows \subseteq Row
  /\ faults \in 0..MaxFaults /\ changes \in 0..MaxChanges
  /\ steady \subseteq {"member", "follower"} \X People
  /\ joined \subseteq People /\ eligible \in BOOLEAN

Quiescent == (\A job \in Job : queue[job] = 0) /\ \A w \in Workers : At(w, "idle")

\* Who has been a member, or one of the followers, from the first delivery to
\* the last one has a row when the jobs are done - through page boundaries,
\* followers entering and leaving the top, retries and duplicated
\* continuations.  (Who changes from member to follower while a delivery works
\* with the scope of a private community may be missed.)
NobodyMissed ==
  (Quiescent /\ eligible) =>
    \A way \in steady :
      (way[2] # Author \/ ToAuthor(post)) => \E row \in rows : row.to = way[2]

\* A recipient has at most one row of the activity: replaying a page after a
\* partial write or an uncertain publish is idempotent (community.go:95-97).
OneRowEach == \A a, b \in rows : a.to = b.to => a = b

\* Once no delivery works with an older scope, a post that is gone gets no new
\* rows, and one that may not reach followers gets rows for members only.
ScopeObeyed ==
  [][(\A w \in Workers : worker[w].scope \subseteq {post}) =>
       \A row \in rows' \ rows :
         /\ Eligible(post)
         /\ AllowsFollowerFanout(post) \/ row.to \in joined]_vars

\* Each continuation starts behind the page that caused it, so the jobs of an
\* activity run out: the queue is empty in the end.
EventuallyQuiescent == <>Quiescent

=============================================================================
