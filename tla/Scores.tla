------------------------------- MODULE Scores -------------------------------
(***************************************************************************)
(* The score jobs (src/internal/services/rabbitmq/handlers.go): a post's   *)
(* ranking row, which UpdateRankingScore reads, computes and writes back   *)
(* and CreatePostScoreForNewPost overwrites, and the bumps, which add to   *)
(* stored scores inside a transaction; and the goroutine a batch of views  *)
(* starts for its bump and does not wait for.                              *)
(*                                                                         *)
(* Handlers log their errors and ack; a crash or a lost ack brings a job   *)
(* back.  Postgres locks a row from its update to the end of the           *)
(* transaction and breaks a cycle of waiting transactions by aborting one. *)
(* affinity_score is always 1, and ranking_score is computed from the row  *)
(* it is stored with: neither is modelled.                                 *)
(*                                                                         *)
(* Definitions introduced by "Mutant" are faulty variants of the operator  *)
(* below them; no specification uses them.                                 *)
(***************************************************************************)
EXTENDS Integers, FiniteSets, SequencesExt

CONSTANTS
  Entities, Interests,
  Scenarios,   \* the sets of jobs to start with
  Workers,
  Loose,       \* the goroutines that bump for a batch of views
  MaxFaults    \* bound: errors, crashes and lost acks

Counted == {"react", "comment", "share"}
Updates == Counted \union {"other"}
Job ==
  [kind : {"new"}]
  \union [kind : {"rank"}, id : Nat, update : Updates, change : {1, -1}]
  \union [kind : {"affinity", "view"}, entity : Entities, interests : SUBSET Interests,
          change : {1, -1}]
  \union [kind : {"connection"}, actor : Entities, members : SUBSET Entities,
          change : {1, -1}]
  \union [kind : {"follow"}, actor : Entities, receiver : Entities, change : {1, -1}]

ASSUME ScoresAssumption ==
  /\ \A sent \in Scenarios : sent \subseteq Job /\ IsFiniteSet(sent)
  /\ IsFiniteSet(Entities) /\ IsFiniteSet(Interests) /\ Workers \intersect Loose = {}
  /\ MaxFaults \in Nat

VARIABLES
  jobs,        \* the jobs on the queues
  worker,      \* per worker and goroutine: its job and how far it is
  row,         \* newsfeed_postscore of the post
  affinity,    \* entity_interest scores
  trending,    \* interest scores
  connection,  \* scores of pairs of entities
  follow,      \* scores of followers and followees
  sent,        \* history: the jobs that were sent
  applied,     \* history: how often a job took effect
  disturbed,   \* history: a fault, an abort, or jobs that do not commute
  faults

scores == <<row, affinity, trending, connection, follow>>
vars == <<jobs, worker, scores, sent, applied, disturbed, faults>>

Zero == [k \in Counted |-> 0]
\* What both handlers start from; boosts are in tenths.
Default == [there |-> FALSE, count |-> Zero, boost |-> 10, weight |-> "default"]
Rest == [pc |-> "idle", job |-> [kind |-> "new"], seen |-> Default, plan |-> <<>>, held |-> {}]

Running == Workers \union Loose
At(w, pc) == worker[w].pc = pc
Doing(w, kind) == worker[w].job.kind = kind
Update(w, new) == worker' = [worker EXCEPT ![w] = new]
Fault == faults < MaxFaults /\ faults' = faults + 1 /\ disturbed' = TRUE
Quiescent == jobs = {} /\ \A w \in Running : At(w, "idle")

\* Mutant: the rows stay locked, as no rollback is deferred.
FinishHolding(w) == Update(w, [Rest EXCEPT !.held = worker[w].held])

\* The end of a delivery, and with it of its transaction.
Finish(w) == Update(w, Rest)

Applied(w) == applied' = [applied EXCEPT ![worker[w].job] = @ + 1]

Take(w) ==
  /\ At(w, "idle")
  /\ \E job \in jobs :
       /\ jobs' = jobs \ {job}
       /\ Update(w, [worker[w] EXCEPT !.pc = "begun", !.job = job])
  /\ UNCHANGED <<scores, sent, applied, disturbed, faults>>

(***************************************************************************)
(* The ranking row.                                                        *)
(***************************************************************************)
\* Mutant: is_decrease is ignored.
AlwaysUp(job) == 1

Change(job) == job.change

Moved(count, change) == IF change = -1 /\ count = 0 THEN 0 ELSE count + change

\* Mutant: a share counts like a comment.
FlatBoost(update) == IF update \in {"comment", "share"} THEN 3 ELSE 1

Boost(update) ==
  CASE update = "comment" -> 3 [] update = "share" -> 5 [] OTHER -> 1

Rescored(old, job) ==
  [there |-> TRUE, weight |-> old.weight,
   count |-> [k \in Counted |->
     IF k = job.update THEN Moved(old.count[k], Change(job)) ELSE old.count[k]],
   boost |-> old.boost + Change(job) * Boost(job.update)]

\* UpdateRankingScore: read ...
ReadScore(w) ==
  /\ At(w, "begun") /\ Doing(w, "rank")
  /\ Update(w, [worker[w] EXCEPT !.pc = "write", !.seen = row])
  /\ UNCHANGED <<jobs, scores, sent, applied, disturbed, faults>>

\* ... and write back what follows from the row that was read.
WriteScore(w) ==
  /\ At(w, "write") /\ Doing(w, "rank")
  /\ LET seen == worker[w].seen  job == worker[w].job IN
       /\ row' = Rescored(seen, job)
       /\ disturbed' = (disturbed \/ seen # row \/ ~seen.there
                          \/ \E k \in Counted : k = job.update /\ seen.count[k] + job.change < 0)
  /\ Applied(w) /\ Finish(w)
  /\ UNCHANGED <<jobs, affinity, trending, connection, follow, sent, faults>>

\* CreatePostScoreForNewPost: read the media (a row that cannot be scanned is
\* left out) ...
ReadReferences(w) ==
  /\ At(w, "begun") /\ Doing(w, "new")
  /\ \/ /\ Update(w, [worker[w] EXCEPT !.pc = "write", !.seen.weight = "content"])
        /\ UNCHANGED <<disturbed, faults>>
     \/ /\ Fault
        /\ Update(w, [worker[w] EXCEPT !.pc = "write", !.seen.weight = "partial"])
  /\ UNCHANGED <<jobs, scores, sent, applied>>

\* ... and write a fresh row, whether there is one or not.
WriteFresh(w) ==
  /\ At(w, "write") /\ Doing(w, "new")
  /\ row' = [Default EXCEPT !.there = TRUE, !.weight = worker[w].seen.weight]
  /\ disturbed' = (disturbed \/ row.there)
  /\ Applied(w) /\ Finish(w)
  /\ UNCHANGED <<jobs, affinity, trending, connection, follow, sent, faults>>

(***************************************************************************)
(* BumpInterestAffinity: one transaction, two rows for each interest, in   *)
(* the order of a map.                                                     *)
(***************************************************************************)
RowsOf(entity, order) ==
  [k \in 1..(2 * Len(order)) |->
     [of |-> IF k % 2 = 1 THEN {entity} ELSE {}, interest |-> order[(k + 1) \div 2]]]

Begin(w) ==
  /\ At(w, "begun") /\ (Doing(w, "affinity") \/ w \in Loose)
  /\ \E order \in SetToSeqs(worker[w].job.interests) :
       Update(w, [worker[w] EXCEPT !.pc = "tx", !.plan = RowsOf(worker[w].job.entity, order)])
  /\ UNCHANGED <<jobs, scores, sent, applied, disturbed, faults>>

WaitsFor(w, v) ==
  /\ At(w, "tx") /\ worker[w].plan # <<>> /\ v # w
  /\ Head(worker[w].plan) \in worker[v].held

Exec(w) ==
  /\ At(w, "tx") /\ worker[w].plan # <<>>
  /\ \A v \in Running : ~WaitsFor(w, v)
  /\ Update(w, [worker[w] EXCEPT !.plan = Tail(@), !.held = @ \union {Head(worker[w].plan)}])
  /\ UNCHANGED <<jobs, scores, sent, applied, disturbed, faults>>

\* Postgres: a transaction in a cycle of waiting ones is aborted; the handler
\* logs the error.
Abort(w) ==
  /\ \E S \in SUBSET Running :
       w \in S /\ \A u \in S : \E v \in S : WaitsFor(u, v)
  /\ Finish(w) /\ disturbed' = TRUE
  /\ UNCHANGED <<jobs, scores, sent, applied, faults>>

Added(old, hit, change) == [x \in DOMAIN old |-> IF hit[x] THEN old[x] + change ELSE old[x]]

\* Mutant: the transaction is never committed.
CommitForgotten(w) ==
  /\ At(w, "tx") /\ worker[w].plan = <<>>
  /\ Finish(w)
  /\ UNCHANGED <<jobs, scores, sent, applied, disturbed, faults>>

\* Mutant: the trend gets the weight, not the delta.
CommitUp(w) ==
  /\ At(w, "tx") /\ worker[w].plan = <<>>
  /\ LET job == worker[w].job IN
       /\ affinity' = [affinity EXCEPT ![job.entity] =
            Added(@, [i \in Interests |-> i \in job.interests], job.change)]
       /\ trending' = Added(trending, [i \in Interests |-> i \in job.interests], 1)
  /\ Applied(w) /\ Finish(w)
  /\ UNCHANGED <<jobs, row, connection, follow, sent, disturbed, faults>>

Commit(w) ==
  /\ At(w, "tx") /\ worker[w].plan = <<>>
  /\ LET job == worker[w].job
         hit == [i \in Interests |-> i \in job.interests] IN
       /\ affinity' = [affinity EXCEPT ![job.entity] = Added(@, hit, job.change)]
       /\ trending' = Added(trending, hit, job.change)
  /\ Applied(w) /\ Finish(w)
  /\ UNCHANGED <<jobs, row, connection, follow, sent, disturbed, faults>>

(***************************************************************************)
(* SaveViewCacheEngagements as far as it concerns scores.  What it logs and *)
(* takes off the feed is in FeedIndex.                                     *)
(***************************************************************************)
\* With the interests of the posts at hand, if any, a goroutine is started that
\* has a deadline of its own ...
StartBump(w) ==
  /\ At(w, "begun") /\ Doing(w, "view")
  /\ IF worker[w].job.interests = {} THEN Update(w, [worker[w] EXCEPT !.pc = "log"])
     ELSE \E g \in Loose :
            /\ At(g, "idle")
            /\ worker' = [worker EXCEPT
                            ![g] = [Rest EXCEPT !.pc = "begun", !.job = worker[w].job],
                            ![w].pc = "log"]
  /\ UNCHANGED <<jobs, scores, sent, applied, disturbed, faults>>

\* ... and the handler writes its batch and ends, whatever became of the bump.
LogViews(w) ==
  /\ At(w, "log")
  /\ Finish(w)
  /\ UNCHANGED <<jobs, scores, sent, applied, disturbed, faults>>

(***************************************************************************)
(* InteractionScoreBump and BumpChatScore, one statement for all members,  *)
(* and FollowerInteractionScoreBump.                                       *)
(***************************************************************************)
BumpConnections(w) ==
  /\ At(w, "begun") /\ Doing(w, "connection")
  /\ LET job == worker[w].job
         receivers == job.members \ {job.actor}
         hit == [pair \in DOMAIN connection |-> \E m \in receivers : pair = {job.actor, m}] IN
       connection' = Added(connection, hit, job.change)
  /\ Applied(w) /\ Finish(w)
  /\ UNCHANGED <<jobs, row, affinity, trending, follow, sent, disturbed, faults>>

FollowerInteractionScoreBump(w) ==
  /\ At(w, "begun") /\ Doing(w, "follow")
  /\ LET job == worker[w].job
         hit == [p \in DOMAIN follow |-> p = <<job.actor, job.receiver>>] IN
       follow' = Added(follow, hit, job.change)
  /\ Applied(w) /\ Finish(w)
  /\ UNCHANGED <<jobs, row, affinity, trending, connection, sent, disturbed, faults>>

(***************************************************************************)
(* Faults.                                                                 *)
(***************************************************************************)
\* A query fails or runs into its deadline: logged, rolled back, acked.  Also a
\* goroutine that dies with the process: nothing brings its bump back.
Fail(w) ==
  /\ ~At(w, "idle") /\ Fault
  /\ Finish(w)
  /\ UNCHANGED <<jobs, scores, sent, applied>>

\* The process dies, or the delivery comes back while its handler goes on.
Redeliver(w) ==
  /\ ~At(w, "idle") /\ Fault
  /\ jobs' = jobs \union {worker[w].job}
  /\ Finish(w) \/ UNCHANGED worker
  /\ UNCHANGED <<scores, sent, applied>>

-----------------------------------------------------------------------------
Pairs == {pair \in SUBSET Entities : Cardinality(pair) = 2}

Init ==
  /\ sent \in Scenarios /\ jobs = sent
  /\ worker = [w \in Running |-> Rest]
  /\ row = Default
  /\ affinity = [e \in Entities |-> [i \in Interests |-> 0]]
  /\ trending = [i \in Interests |-> 0]
  /\ connection = [pair \in Pairs |-> 0]
  /\ follow = [p \in Entities \X Entities |-> 0]
  /\ applied = [job \in sent |-> 0]
  /\ disturbed = FALSE /\ faults = 0

UpdateRankingScore(w) == ReadScore(w) \/ WriteScore(w)
CreatePostScoreForNewPost(w) == ReadReferences(w) \/ WriteFresh(w)
BumpInterestAffinity(w) == Begin(w) \/ Exec(w) \/ Commit(w) \/ Abort(w)

SaveViewCacheEngagements(w) == StartBump(w) \/ LogViews(w)

Step(w) ==
  \/ Take(w) \/ SaveViewCacheEngagements(w) \/ UpdateRankingScore(w) \/ CreatePostScoreForNewPost(w)
  \/ BumpInterestAffinity(w) \/ BumpConnections(w) \/ FollowerInteractionScoreBump(w)

Next ==
  \/ \E w \in Workers : Step(w) \/ Fail(w) \/ Redeliver(w)
  \/ \E g \in Loose : BumpInterestAffinity(g) \/ Fail(g)

Spec ==
  /\ Init /\ [][Next]_vars
  /\ \A w \in Workers : WF_vars(Step(w))
  /\ \A g \in Loose : WF_vars(BumpInterestAffinity(g))

-----------------------------------------------------------------------------
(***************************************************************************)
(* Properties.                                                             *)
(***************************************************************************)
\* A row of the transaction: of an entity, or of the trend.
Locked == [of : SUBSET Entities, interest : Interests]
Row == [there : BOOLEAN, count : [Counted -> Nat], boost : Int,
        weight : {"default", "content", "partial"}]
Run == [pc : {"idle", "begun", "write", "tx", "log"}, job : Job, seen : Row,
        plan : Seq(Locked), held : SUBSET Locked]

\* The types: counters never go below zero, and a row of a transaction is held
\* by one worker.
TypeOK ==
  /\ sent \in Scenarios /\ jobs \subseteq sent
  /\ row \in Row
  /\ worker \in [Running -> Run]
  /\ \A w \in Running :
       /\ At(w, "idle") \/ worker[w].job \in sent
       /\ \A v \in Running \ {w} : worker[v].held \intersect worker[w].held = {}
  /\ applied \in [sent -> Nat] /\ disturbed \in BOOLEAN /\ faults \in 0..MaxFaults

\* What the effects of the jobs in J add up to, and what their changes do.
Total(J) == SumFunctionOnSet([job \in J |-> applied[job] * job.change], J)
Net(J) == SumFunctionOnSet([job \in J |-> job.change], J)

Ranks(update) == {job \in sent : job.kind = "rank" /\ job.update = update}
Of(kind) == {job \in sent : job.kind = kind}

\* However many updates are lost or repeated, a counter never shows more than
\* the increments that were executed, and never less than zero
\* (UpdateRankingScore).
NothingInvented ==
  \A k \in Counted :
    /\ row.count[k] >= 0
    /\ row.count[k] <= SumFunctionOnSet(applied, {job \in Ranks(k) : job.change = 1})

\* If the row is created first, updates do not overlap, no counter is already
\* zero when it goes down and nothing fails, then after the jobs the row has
\* the number of increments less the decrements, the boost of all of them and
\* the weight of the post's content (UpdateRankingScore).
EngagementExact ==
  (Quiescent /\ ~disturbed /\ row.there) =>
    /\ \A k \in Counted : row.count[k] = Net(Ranks(k))
    /\ row.boost = 10 + Net(Ranks("react")) + Net(Ranks("other"))
                      + 3 * Net(Ranks("comment")) + 5 * Net(Ranks("share"))
    /\ row.weight = "content"

\* The bumps lose and double nothing: the score of an entity and an interest is
\* the sum of the effects of its jobs, all interests of a job move together,
\* and the trend of an interest moves with the entities; a pair's score moves
\* once for each job, even if its actor is listed as a member
\* (BumpInterestAffinity, BumpChatScore, FollowerInteractionScoreBump).
BumpsExact ==
  /\ \A e \in Entities, i \in Interests :
       affinity[e][i] = Total({job \in Of("affinity") \union Of("view") :
                                 job.entity = e /\ i \in job.interests})
  /\ \A i \in Interests :
       trending[i] = SumFunctionOnSet([e \in Entities |-> affinity[e][i]], Entities)
  /\ \A pair \in Pairs :
       connection[pair] = Total({job \in Of("connection") :
                                   job.actor \in pair /\ pair \ {job.actor} \subseteq job.members})
  /\ \A p \in Entities \X Entities :
       follow[p] = Total({job \in Of("follow") : <<job.actor, job.receiver>> = p})

\* Without a fault and without an abort every job takes effect once, also a
\* batch of views, whose bump nobody waits for; views of posts without
\* interests have none (SaveViewCacheEngagements).
AppliedOnce ==
  (Quiescent /\ ~disturbed) =>
    \A job \in sent : applied[job] = IF job.kind = "view" /\ job.interests = {} THEN 0 ELSE 1

\* Every job leaves the queues and ends, also when transactions wait for each
\* other (BumpInterestAffinity locks in the order of a map).
EveryJobEnds == <>[]Quiescent

=============================================================================
