------------------------------ MODULE FeedIndex ------------------------------
(***************************************************************************)
(* One viewer's timeline (a bucket of newsfeed_index) and the jobs that    *)
(* write it because of one friend: fan-outs of the friend's posts and      *)
(* comments, BackfillNewFriendFeed, RemoveFeedOnUnfriend and               *)
(* SaveViewCacheEngagements; and the engagement log of a mutual friend,    *)
(* which a backfill reads and RemoveEngagementLog retracts                 *)
(* (src/internal/services/rabbitmq/handlers.go).                           *)
(*                                                                         *)
(* The jobs come from different queues and are handled in any order, query *)
(* by query; a failure is logged and acked, a crash brings the job back.   *)
(* A fan-out is what Fanout shows it to be for a single recipient: read    *)
(* the audience, then write; Fanout also shows what a post that is deleted *)
(* or hidden meanwhile does, so the posts here stay, and may be shown to   *)
(* followers.  The viewer is no member of any community.                   *)
(*                                                                         *)
(* Definitions introduced by "Mutant" are faulty variants of the operator  *)
(* below them; no specification uses them.                                 *)
(***************************************************************************)
EXTENDS Integers, FiniteSets

CONSTANTS
  Posts,        \* numbered in the order of date_posted
  ByFriend,     \* the friend's posts; the others are by strangers
  Commented,    \* bound: the posts the friend may comment on
  InCommunity,  \* posts tagged to a public community
  RowType,      \* the type the publishers of backfill and removal send
  CandidateLimit,  \* BackfillCandidateLimit
  ChunkSize,    \* FeedDeleteChunkSize
  Workers,
  First,        \* bound: which is the last of the friend's posts at first
  MaxFaults,    \* bound: errors and redeliveries
  MaxChanges    \* bound: connects, disconnects, a mutual friend's changes

ASSUME FeedAssumption ==
  /\ Posts \subseteq Nat /\ IsFiniteSet(Posts)
  /\ ByFriend \subseteq Posts /\ Commented \subseteq Posts /\ InCommunity \subseteq Posts
  /\ RowType \in {"fanout", "friend"}
  /\ CandidateLimit \in Nat /\ ChunkSize \in Nat \ {0}
  /\ First \subseteq Nat /\ MaxFaults \in Nat /\ MaxChanges \in Nat

VARIABLES
  connected,  \* the viewer follows the friend
  posted,     \* the posts there are
  commented,  \* posts the friend commented on
  discussed,  \* user_engagement_log of a mutual friend: comments and shares
  index,      \* the rows of the viewer's bucket
  viewed,     \* posts with a view of the viewer in user_engagement_log
  jobs,       \* the jobs on the queues
  worker,     \* per worker: its delivery and how far it is
  now,        \* the clock that stamps backfilled rows
  before,     \* history: views the backfill can know, logged when it began
  kept,       \* history: rows there ever since the removal or retraction began
  known,      \* history: posts discussed at the last connect or since
  earlier,    \* history: the friend's posts at the last connect
  passed,     \* history: posts whose fan-out passed the viewer over since
  disturbed,  \* history: a fault, or a (dis)connect with jobs under way
  faults, changes

facts == <<connected, posted, commented, discussed, known, earlier>>
bounds == <<faults, changes>>
vars == <<connected, posted, commented, discussed, known, earlier, passed, index, viewed,
          jobs, worker, now, before, kept, disturbed, faults, changes>>

\* A post is stamped with its own time, a comment with its own.
PostTime == 0
CommentTime == 1
Row == [post : Posts, at : Nat,
        type : {"fanout", "friend", "comment", "community"},
        by : {"friend", "stranger", "community"}]

\* A mutual friend may comment on a post twice, and share it.
LogRow == [post : Posts, act : {"comment", "share"}, n : 1..2]
Discussed == {r.post : r \in discussed}

NoPost == {}
Job ==
  [kind : {"post", "comment", "view", "retract"}, post : {{p} : p \in Posts}]
  \union [kind : {"backfill", "remove"}, post : {NoPost}]
Rest == [pc |-> "idle", job |-> [kind |-> "remove", post |-> NoPost],
         todo |-> {}, doomed |-> {}]

At(w, pc) == worker[w].pc = pc
Doing(w, kind) == worker[w].job.kind = kind
Update(w, new) == worker' = [worker EXCEPT ![w] = new]
Fault == faults < MaxFaults /\ faults' = faults + 1
Quiescent == jobs = {} /\ \A w \in Workers : At(w, "idle")

AuthorOf(p) == IF p \in ByFriend THEN "friend" ELSE "stranger"

(***************************************************************************)
(* newsfeed_index: the key is (bucket, post, created_at); an insert        *)
(* overwrites.                                                             *)
(***************************************************************************)
Upsert(rows) ==
  {r \in index : ~\E n \in rows : n.post = r.post /\ n.at = r.at} \union rows

\* What a fan-out writes for this recipient.
FanoutRow(job) ==
  LET p == CHOOSE p \in job.post : TRUE IN
    IF job.kind = "comment"
    THEN [post |-> p, at |-> CommentTime, type |-> "comment", by |-> "friend"]
    ELSE IF p \in InCommunity
    THEN [post |-> p, at |-> PostTime, type |-> "community", by |-> "community"]
    ELSE [post |-> p, at |-> PostTime, type |-> "fanout", by |-> AuthorOf(p)]

BackfillRow(p) ==
  IF p \in InCommunity
  THEN [post |-> p, at |-> now, type |-> "community", by |-> "community"]
  ELSE [post |-> p, at |-> now, type |-> RowType, by |-> AuthorOf(p)]

\* The rows RemoveFeedOnUnfriend selects: by author and type ...
Authored == {r \in index : r.post \in ByFriend /\ r.type = RowType}

\* Mutant: the second pass drops what is not fanned out.
TriggeredFanout == {r \in index : r.by = "friend" /\ r.type = "fanout"}

\* ... and by trigger, but no ordinary fan-out rows.
Triggered == {r \in index : r.by = "friend" /\ r.type # "fanout"}

(***************************************************************************)
(* History.                                                                *)
(***************************************************************************)
\* Only a backfill's and a removal's are needed, while they run.
Runs(w, kind) == worker'[w].pc # "idle" /\ worker'[w].job.kind = kind
Since(w, old, new) == IF At(w, "idle") THEN new ELSE old
Track ==
  /\ before' = [w \in Workers |->
       IF Runs(w, "backfill") THEN Since(w, before[w], viewed) ELSE {}]
  /\ kept' = [w \in Workers |->
       IF Runs(w, "remove") THEN Since(w, kept[w], index) \intersect index'
       ELSE IF Runs(w, "retract") THEN Since(w, kept[w], discussed) \intersect discussed'
       ELSE {}]

\* The timeline and the log are left alone.
Looking == UNCHANGED <<facts, index, viewed, now, disturbed, changes>> /\ Track
Reading == Looking /\ UNCHANGED <<passed, faults>>

(***************************************************************************)
(* A delivery.                                                             *)
(***************************************************************************)
Finish(w) == Update(w, Rest)

Take(w) ==
  /\ At(w, "idle")
  /\ \E job \in jobs :
       /\ jobs' = jobs \ {job}
       /\ Update(w, [Rest EXCEPT !.pc = "begun", !.job = job])
  /\ Reading

\* runPostFanout for this recipient: is there a page with the viewer on it ...
ReadAudience(w) ==
  /\ At(w, "begun") /\ worker[w].job.kind \in {"post", "comment"}
  /\ IF connected THEN Update(w, [worker[w] EXCEPT !.pc = "write"]) ELSE Finish(w)
  /\ UNCHANGED jobs /\ Reading

\* - a follower who is not among the 500 best of the moment is on none -
PassOver(w) ==
  /\ At(w, "begun") /\ worker[w].job.kind \in {"post", "comment"} /\ connected
  /\ Finish(w)
  /\ passed' = passed \union {p \in worker[w].job.post : Doing(w, "post")}
  /\ UNCHANGED <<jobs, faults>> /\ Looking

\* ... and the batch.
WriteFanout(w) ==
  /\ At(w, "write") /\ worker[w].job.kind \in {"post", "comment"}
  /\ index' = Upsert({FanoutRow(worker[w].job)})
  /\ Finish(w)
  /\ UNCHANGED <<facts, passed, viewed, jobs, now, disturbed, bounds>> /\ Track

Newest(posts) == {p \in posts : Cardinality({q \in posts : q > p}) < CandidateLimit}

\* Mutant: the candidates are the oldest posts.
ReadCandidatesOldest(w) ==
  /\ At(w, "begun") /\ Doing(w, "backfill")
  /\ LET there == posted \intersect ByFriend
         candidates == {p \in there : Cardinality({q \in there : q < p}) < CandidateLimit} IN
       Update(w, IF candidates = {} THEN Rest
                 ELSE [worker[w] EXCEPT !.pc = "read", !.todo = candidates])
  /\ UNCHANGED jobs /\ Reading

\* BackfillNewFriendFeed: the friend's newest posts and their scopes,
ReadCandidates(w) ==
  /\ At(w, "begun") /\ Doing(w, "backfill")
  /\ LET candidates == Newest(posted \intersect ByFriend) IN
       Update(w, IF candidates = {} THEN Rest
                 ELSE [worker[w] EXCEPT !.pc = "read", !.todo = candidates])
  /\ UNCHANGED jobs /\ Reading

Skip(w, pc, engaged) ==
  Update(w, [worker[w] EXCEPT !.pc = pc, !.todo = @ \ engaged])

\* what mutual friends discussed,
ReadDiscussed(w) ==
  /\ At(w, "read") /\ Skip(w, "views", Discussed)
  /\ UNCHANGED jobs /\ Reading

\* Mutant: the viewer's own views are not merged.
NoViews(w) ==
  /\ At(w, "views") /\ Skip(w, "write", {})
  /\ UNCHANGED jobs /\ Reading

\* what the viewer has seen,
ReadViewed(w) ==
  /\ At(w, "views") /\ Skip(w, "write", viewed)
  /\ UNCHANGED jobs /\ Reading

\* - a query or a scan that fails here is logged and only finds less -
ReadDiscussedPartly(w) ==
  /\ At(w, "read") /\ Fault
  /\ \E found \in SUBSET Discussed : Skip(w, "views", found)
  /\ UNCHANGED <<jobs, passed>> /\ Looking

ReadViewedPartly(w) ==
  /\ At(w, "views") /\ Fault
  /\ \E found \in SUBSET viewed :
       /\ Skip(w, "write", found)
       /\ before' = [before EXCEPT ![w] = @ \intersect found]
  /\ UNCHANGED <<facts, passed, index, viewed, jobs, now, changes, disturbed, kept>>

Seeds(w) == {BackfillRow(p) : p \in worker[w].todo}

\* and a batch of the rest, stamped with the time of processing.
WriteBackfill(w) ==
  /\ At(w, "write") /\ Doing(w, "backfill")
  /\ index' = Upsert(Seeds(w))
  /\ now' = IF Seeds(w) = {} THEN now ELSE now + 1
  /\ Finish(w)
  /\ UNCHANGED <<facts, passed, viewed, jobs, disturbed, bounds>> /\ Track

\* RemoveFeedOnUnfriend: one scan, the other scan,
ScanAuthored(w) ==
  /\ At(w, "begun") /\ Doing(w, "remove")
  /\ Update(w, [worker[w] EXCEPT !.pc = "scanned", !.doomed = Authored])
  /\ UNCHANGED jobs /\ Reading

ScanTriggered(w) ==
  /\ At(w, "scanned")
  /\ LET doomed == worker[w].doomed \union Triggered IN
       Update(w, IF doomed = {} THEN Rest
                 ELSE [worker[w] EXCEPT !.pc = "delete", !.doomed = doomed])
  /\ UNCHANGED jobs /\ Reading

\* The next chunk of the doomed rows: a full one, or what is left.
Chunks(w) ==
  {chunk \in SUBSET worker[w].doomed :
     /\ chunk # {}
     /\ \/ Cardinality(chunk) = ChunkSize
        \/ Cardinality(chunk) < ChunkSize /\ chunk = worker[w].doomed}

Without(chunk) == {r \in index : ~\E d \in chunk : d.post = r.post /\ d.at = r.at}

Deleted(w, chunk) ==
  LET left == worker[w].doomed \ chunk IN
    Update(w, IF left = {} THEN Rest ELSE [worker[w] EXCEPT !.doomed = left])

\* and one batch of deletes by key for each chunk.
DeleteChunk(w) ==
  /\ At(w, "delete")
  /\ \E chunk \in Chunks(w) : index' = Without(chunk) /\ Deleted(w, chunk)
  /\ UNCHANGED <<facts, passed, viewed, jobs, now, disturbed, bounds>> /\ Track

\* Mutant: a retraction deletes the first row it finds.
ScanLogFirst(w) ==
  /\ At(w, "begun") /\ Doing(w, "retract")
  /\ LET rows == {r \in discussed : r.act = "comment" /\ r.post \in worker[w].job.post}
         doomed == {r \in rows : \A other \in rows : r.n <= other.n} IN
       Update(w, IF doomed = {} THEN Rest
                 ELSE [worker[w] EXCEPT !.pc = "unlog", !.doomed = doomed])
  /\ UNCHANGED jobs /\ Reading

\* RemoveEngagementLog for a comment: scan for all rows of its activity and its
\* target ...
ScanLog(w) ==
  /\ At(w, "begun") /\ Doing(w, "retract")
  /\ LET doomed == {r \in discussed : r.act = "comment" /\ r.post \in worker[w].job.post} IN
       Update(w, IF doomed = {} THEN Rest
                 ELSE [worker[w] EXCEPT !.pc = "unlog", !.doomed = doomed])
  /\ UNCHANGED jobs /\ Reading

\* ... and delete them by key, chunk by chunk.
DeleteLogChunk(w) ==
  /\ At(w, "unlog")
  /\ \E chunk \in Chunks(w) : discussed' = discussed \ chunk /\ Deleted(w, chunk)
  /\ UNCHANGED <<connected, posted, commented, known, earlier, passed, index, viewed, jobs, now,
                 disturbed, bounds>>
  /\ Track

\* SaveViewCacheEngagements: one batch logs the views and drops every row of
\* the posts, whatever its time.
SaveViews(w) ==
  /\ At(w, "begun") /\ Doing(w, "view")
  /\ viewed' = viewed \union worker[w].job.post
  /\ index' = {r \in index : r.post \notin worker[w].job.post}
  /\ Finish(w)
  /\ UNCHANGED <<facts, passed, jobs, now, disturbed, bounds>> /\ Track

\* What of a batch may have been applied when it fails.
PartOfBatch(w) ==
  CASE At(w, "write") /\ Doing(w, "backfill") ->
         /\ \E some \in SUBSET Seeds(w) : index' = Upsert(some)
         /\ now' = now + 1 /\ UNCHANGED <<viewed, discussed>>
    [] At(w, "begun") /\ Doing(w, "view") ->
         /\ viewed' \in {viewed, viewed \union worker[w].job.post}
         /\ index' \in {index, {r \in index : r.post \notin worker[w].job.post}}
         /\ UNCHANGED <<now, discussed>>
    [] At(w, "delete") ->
         /\ \E chunk \in Chunks(w) \union {{}} : index' = Without(chunk)
         /\ UNCHANGED <<viewed, now, discussed>>
    [] At(w, "unlog") ->
         /\ \E chunk \in Chunks(w) \union {{}} : discussed' = discussed \ chunk
         /\ UNCHANGED <<index, viewed, now>>
    [] OTHER -> UNCHANGED <<index, viewed, now, discussed>>

\* A query or a batch fails: the failure is logged, the delivery is acked.
\* A failed fan-out stays on its queue.
GiveUp(w) ==
  /\ ~At(w, "idle") /\ Fault
  /\ PartOfBatch(w)
  /\ jobs' = IF worker[w].job.kind \in {"post", "comment"}
             THEN jobs \union {worker[w].job} ELSE jobs
  /\ Finish(w)
  /\ disturbed' = TRUE
  /\ UNCHANGED <<connected, posted, commented, known, earlier, passed, changes>> /\ Track

\* The process dies before the ack, or the ack is lost.
Redeliver(w) ==
  /\ ~At(w, "idle") /\ Fault
  /\ jobs' = jobs \union {worker[w].job}
  /\ disturbed' = TRUE
  /\ UNCHANGED <<facts, passed, index, viewed, now, changes>>
  /\ worker' \in {worker, [worker EXCEPT ![w] = Rest]}
  /\ Track

(***************************************************************************)
(* The viewer, the friend and the services that publish the jobs.          *)
(***************************************************************************)
Send(kind, post) == jobs' = jobs \union {[kind |-> kind, post |-> post]}

Connect ==
  /\ ~connected /\ changes < MaxChanges
  /\ connected' = TRUE /\ changes' = changes + 1
  /\ Send("backfill", NoPost)
  /\ known' = Discussed /\ earlier' = posted \intersect ByFriend /\ passed' = {}
  /\ disturbed' = (disturbed \/ ~Quiescent)
  /\ UNCHANGED <<posted, commented, discussed, index, viewed, worker, now, faults>>
  /\ Track

Disconnect ==
  /\ connected /\ changes < MaxChanges
  /\ connected' = FALSE /\ changes' = changes + 1
  /\ Send("remove", NoPost)
  /\ UNCHANGED <<known, earlier, passed>>
  /\ disturbed' = (disturbed \/ ~Quiescent)
  /\ UNCHANGED <<posted, commented, discussed, index, viewed, worker, now, faults>>
  /\ Track

CreatePost(p) ==
  /\ p \in ByFriend \ posted /\ \A q \in posted \intersect ByFriend : q < p
  /\ posted' = posted \union {p}
  /\ Send("post", {p})
  /\ UNCHANGED <<connected, commented, discussed, known, earlier, passed, index, viewed, worker,
                 now, disturbed, bounds>>
  /\ Track

CommentOn(p) ==
  /\ p \in (posted \intersect Commented) \ commented
  /\ commented' = commented \union {p}
  /\ Send("comment", {p})
  /\ UNCHANGED <<connected, posted, discussed, known, earlier, passed, index, viewed, worker,
                 now, disturbed, bounds>>
  /\ Track

ViewPost(p) ==
  /\ p \notin viewed /\ \E r \in index : r.post = p
  /\ Send("view", {p})
  /\ UNCHANGED <<facts, passed, index, viewed, worker, now, disturbed, bounds>> /\ Track

\* A mutual friend comments on a post again.
Discuss(r) ==
  /\ r \in LogRow \ discussed /\ r.act = "comment" /\ r.post \in Discussed
  /\ changes < MaxChanges /\ changes' = changes + 1
  /\ discussed' = discussed \union {r} /\ known' = known \union {r.post}
  /\ UNCHANGED <<connected, posted, commented, earlier, passed, index, viewed, jobs, worker, now,
                 disturbed, faults>>
  /\ Track

\* A mutual friend deletes a comment.
Uncomment(r) ==
  /\ r \in discussed /\ r.act = "comment"
  /\ changes < MaxChanges /\ changes' = changes + 1
  /\ Send("retract", {r.post})
  /\ UNCHANGED <<facts, passed, index, viewed, worker, now, disturbed, faults>> /\ Track

-----------------------------------------------------------------------------
\* The friend's posts there are may have one comment, two, or a comment and a
\* share.
InitialLogs ==
  LET seen == posted \intersect ByFriend IN
    {[post : seen, act : {"comment"}, n : 1..k] : k \in 0..2}
    \union {[post : seen, act : {"comment", "share"}, n : {1}]}

Init ==
  /\ connected = FALSE
  /\ \E last \in First : posted = Posts \ {p \in ByFriend : p > last}
  /\ commented = {}
  /\ discussed \in InitialLogs /\ known = Discussed
  /\ earlier = {} /\ passed = {}
  /\ index = {} /\ viewed = {} /\ jobs = {}
  /\ worker = [w \in Workers |-> Rest]
  /\ now = 2
  /\ before = [w \in Workers |-> {}]
  /\ kept = [w \in Workers |-> {}]
  /\ disturbed = FALSE
  /\ faults = 0 /\ changes = 0

BulkFanoutToCache(w) == ReadAudience(w) \/ PassOver(w) \/ WriteFanout(w)
BackfillNewFriendFeed(w) ==
  \/ ReadCandidates(w) \/ ReadDiscussed(w) \/ ReadViewed(w) \/ WriteBackfill(w)
  \/ ReadDiscussedPartly(w) \/ ReadViewedPartly(w)
RemoveFeedOnUnfriend(w) == ScanAuthored(w) \/ ScanTriggered(w) \/ DeleteChunk(w)
RemoveEngagementLog(w) == ScanLog(w) \/ DeleteLogChunk(w)

Next ==
  \/ \E w \in Workers :
       \/ Take(w) \/ BulkFanoutToCache(w) \/ BackfillNewFriendFeed(w)
       \/ RemoveFeedOnUnfriend(w) \/ RemoveEngagementLog(w) \/ SaveViews(w)
       \/ GiveUp(w) \/ Redeliver(w)
  \/ Connect \/ Disconnect
  \/ \E p \in Posts : CreatePost(p) \/ CommentOn(p) \/ ViewPost(p)
  \/ \E r \in LogRow : Discuss(r) \/ Uncomment(r)

Spec == Init /\ [][Next]_vars

-----------------------------------------------------------------------------
(***************************************************************************)
(* Properties.                                                             *)
(***************************************************************************)
Run ==
  [ pc     : {"idle", "begun", "read", "views", "write", "scanned", "delete", "unlog"},
    job    : Job,
    todo   : SUBSET Posts,                \* what a backfill may bring
    doomed : SUBSET (Row \union LogRow) ] \* what a removal or a retraction deletes

TypeOK ==
  /\ connected \in BOOLEAN
  /\ posted \subseteq Posts /\ commented \subseteq posted
  /\ discussed \subseteq LogRow /\ known \subseteq Posts /\ viewed \subseteq Posts
  /\ earlier \subseteq Posts /\ passed \subseteq Posts
  /\ index \subseteq Row
  /\ jobs \subseteq Job
  /\ worker \in [Workers -> Run]
  /\ \A w \in Workers : At(w, "idle") => worker[w] = Rest
  /\ now \in Nat \ {PostTime, CommentTime}
  /\ before \in [Workers -> SUBSET Posts]
  /\ kept \in [Workers -> SUBSET (Row \union LogRow)]

\* Rows that are there because of the friend.
BecauseOf(r) ==
  \/ r.post \in ByFriend /\ r.type = RowType
  \/ r.by = "friend" /\ r.type # "fanout"

EndsWell(w, kind) ==
  /\ Doing(w, kind) /\ ~At(w, "idle")
  /\ worker'[w].pc = "idle" /\ faults' = faults

\* A removal that ends without an error has removed every row because of the
\* friend that was there when it began - whatever other fan-outs, views,
\* backfills and removals do meanwhile (RemoveFeedOnUnfriend).
RemovalComplete ==
  [][\A w \in Workers : EndsWell(w, "remove") =>
       \A r \in kept[w] \intersect index' : ~BecauseOf(r)]_vars

\* A retraction that ends without an error leaves no row of a comment on the
\* post that was logged when it began, so that the next backfill brings the
\* post; and no step takes a share's row, or one of a post whose comments
\* nobody deleted (RemoveEngagementLog).
RetractionComplete ==
  [][/\ \A w \in Workers : EndsWell(w, "retract") =>
          \A r \in kept[w] \intersect discussed' :
            r.act = "comment" => r.post \notin worker[w].job.post
     /\ \A r \in discussed \ discussed' :
          /\ r.act = "comment"
          /\ \E w \in Workers : Doing(w, "retract") /\ r.post \in worker[w].job.post]_vars

\* What a backfill brings is no post of which a view of the viewer was logged
\* when it began - unless its own scan of these views failed (handlers.go:918)
\* and missed the post; nothing else excuses it.
ViewedStaysOut ==
  [][\A r \in index' \ index : r.at >= 2 =>
       \E w \in Workers :
         /\ At(w, "write") /\ ~At(w, "write")' /\ Doing(w, "backfill")
         /\ r.post \notin before[w]]_vars

\* The posts that belong on a connected viewer's timeline: of those older than
\* the connect the friend's CandidateLimit newest, and the later ones for which
\* the viewer was among the 500 best followers.
Due ==
  LET there == posted \intersect ByFriend IN
    (Newest(there) \intersect earlier) \union (there \ (earlier \union passed))

\* If no connect or disconnect overtakes older jobs and no job fails, then
\* after the jobs a connected viewer has a row of each post that is due, unless
\* it was seen or known from a mutual friend, at the connect or since; and a
\* disconnected viewer has no row because of the friend.
TimelineRight ==
  (Quiescent /\ ~disturbed) =>
    IF connected
    THEN \A p \in Due \ (viewed \union known) : \E r \in index : r.post = p
    ELSE \A r \in index : ~BecauseOf(r)

=============================================================================
