--------------------------- MODULE FeedIndexProofs ---------------------------
(***************************************************************************)
(* Theorems about FeedIndex: types, what a removal and a retraction leave  *)
(* behind, that no backfill brings back what was seen, and what the        *)
(* timeline shows after undisturbed jobs.                                  *)
(***************************************************************************)
EXTENDS FeedIndex, FiniteSetTheorems, TLAPS

(***************************************************************************)
(* The inductive invariant.                                                *)
(***************************************************************************)
\* Where a delivery can be fits its kind.
Fits(w) ==
  /\ At(w, "begun") => worker[w].todo = {}
  /\ At(w, "read") \/ At(w, "views") => Doing(w, "backfill")
  /\ At(w, "write") => worker[w].job.kind \in {"post", "comment", "backfill"}
  /\ At(w, "scanned") \/ At(w, "delete") => Doing(w, "remove")
  /\ At(w, "unlog") => Doing(w, "retract")

\* A backfill that has read what was seen brings nothing of it.
Spared(w) ==
  /\ before[w] \subseteq viewed
  /\ (At(w, "write") /\ Doing(w, "backfill")) => worker[w].todo \intersect before[w] = {}

\* What a removal still has to take away it has found or is about to look for.
Found(w) ==
  /\ (~At(w, "idle") /\ Doing(w, "remove")) => kept[w] \subseteq index
  /\ At(w, "scanned") =>
       \A r \in kept[w] : (r.post \in ByFriend /\ r.type = RowType) => r \in worker[w].doomed
  /\ At(w, "delete") => \A r \in kept[w] : BecauseOf(r) => r \in worker[w].doomed

\* A retraction has found the comments on its post, all of them and no others.
Retracting(w, r) == r.act = "comment" /\ r.post \in worker[w].job.post
FoundLog(w) ==
  /\ (~At(w, "idle") /\ Doing(w, "retract")) => kept[w] \subseteq discussed
  /\ At(w, "unlog") =>
       /\ \A r \in kept[w] : Retracting(w, r) => r \in worker[w].doomed
       /\ \A r \in worker[w].doomed : Retracting(w, r)

Progress(w) == Fits(w) /\ Spared(w) /\ Found(w) /\ FoundLog(w)
IInv == TypeOK /\ \A w \in Workers : Progress(w)

(***************************************************************************)
(* Jobs, rows and workers.                                                 *)
(***************************************************************************)
LEMMA JobType ==
  ASSUME NEW job \in Job
  PROVE  /\ job.kind \in {"post", "comment", "view", "retract", "backfill", "remove"}
         /\ job.post \subseteq Posts
         /\ job.kind \in {"post", "comment"} => \E p \in Posts : job.post = {p}
BY DEF Job, NoPost

LEMMA RestRun == Rest \in Run /\ Rest.pc = "idle"
BY DEF Rest, Run, Job, NoPost

LEMMA RunType ==
  ASSUME TypeOK, NEW w \in Workers
  PROVE  /\ worker[w] \in Run /\ worker[w].job \in Job
         /\ worker[w].todo \subseteq Posts /\ worker[w].doomed \subseteq Row \union LogRow
BY DEF TypeOK, Run

LEMMA UpdateType ==
  ASSUME TypeOK, NEW w \in Workers, NEW new, Update(w, new)
  PROVE  /\ worker'[w] = new /\ \A v \in Workers \ {w} : worker'[v] = worker[v]
         /\ new \in Run => worker' \in [Workers -> Run]
         /\ (new \in Run /\ (new.pc = "idle" => new = Rest)) =>
              \A v \in Workers : At(v, "idle")' => worker'[v] = Rest
BY DEF TypeOK, Update, At

LEMMA FanoutRowType ==
  ASSUME NEW job \in Job, job.kind \in {"post", "comment"}
  PROVE  FanoutRow(job) \in Row /\ FanoutRow(job).at \in {PostTime, CommentTime}
<1>1. PICK p \in Posts : job.post = {p}
  BY JobType
<1>2. (CHOOSE q \in job.post : TRUE) = p
  BY <1>1
<1> QED
  BY <1>1, <1>2 DEF FanoutRow, Row, PostTime, CommentTime, AuthorOf

LEMMA SeedType ==
  ASSUME TypeOK, NEW w \in Workers
  PROVE  /\ Seeds(w) \subseteq Row
         /\ \A r \in Seeds(w) : r.post \in worker[w].todo /\ r.at = now
<1>1. worker[w].todo \subseteq Posts /\ now \in Nat
  BY RunType DEF TypeOK
<1>2. ASSUME NEW p \in Posts
      PROVE  BackfillRow(p) \in Row /\ BackfillRow(p).post = p /\ BackfillRow(p).at = now
  BY <1>1, FeedAssumption DEF BackfillRow, Row, AuthorOf
<1> QED
  BY <1>1, <1>2 DEF Seeds

LEMMA UpsertType ==
  ASSUME TypeOK, NEW rows, rows \subseteq Row
  PROVE  Upsert(rows) \subseteq Row /\ Upsert(rows) \ index \subseteq rows
BY DEF TypeOK, Upsert

(***************************************************************************)
(* The histories.                                                          *)
(***************************************************************************)
LEMMA Tracked ==
  ASSUME Track, NEW v \in Workers
  PROVE  /\ before'[v] \subseteq IF At(v, "idle") THEN viewed ELSE before[v]
         /\ ~At(v, "idle") => kept'[v] \subseteq kept[v]
         /\ Runs(v, "remove") => kept'[v] \subseteq index'
         /\ (Runs(v, "retract") /\ ~Runs(v, "remove")) => kept'[v] \subseteq discussed'
         /\ kept'[v] \subseteq kept[v] \union index \union discussed
BY DEF Track, Since

LEMMA TrackType ==
  ASSUME TypeOK, Track
  PROVE  before' \in [Workers -> SUBSET Posts] /\ kept' \in [Workers -> SUBSET (Row \union LogRow)]
<1>1. ASSUME NEW v \in Workers
      PROVE  before'[v] \subseteq Posts /\ kept'[v] \subseteq Row \union LogRow
  BY <1>1, Tracked DEF TypeOK
<1>2. before' = [v \in Workers |-> before'[v]] /\ kept' = [v \in Workers |-> kept'[v]]
  BY DEF Track
<1> QED
  BY <1>1, <1>2

\* A worker that does not move keeps what it has achieved.
LEMMA Standing ==
  ASSUME TypeOK, Track, viewed \subseteq viewed', NEW v \in Workers,
         worker'[v] = worker[v], Progress(v)
  PROVE  Progress(v)'
<1> USE DEF At, Doing
<1>1. Fits(v)'
  BY DEF Progress, Fits
<1>2. Spared(v)'
  BY Tracked DEF Progress, Spared
<1>3. Found(v)'
  BY Tracked DEF Progress, Found, Runs, BecauseOf
<1>4. FoundLog(v)'
  BY Tracked DEF Progress, FoundLog, Runs, Retracting
<1> QED
  BY <1>1, <1>2, <1>3, <1>4 DEF Progress

\* A worker that rests has nothing to keep.
LEMMA Resting ==
  ASSUME TypeOK, Track, viewed \subseteq viewed', NEW w \in Workers,
         worker'[w] = Rest, Progress(w)
  PROVE  Progress(w)'
<1> USE DEF At, Doing
<1>1. worker'[w].pc = "idle"
  BY RestRun
<1>2. before'[w] \subseteq viewed'
  BY Tracked DEF Progress, Spared
<1> QED
  BY <1>1, <1>2 DEF Progress, Fits, Spared, Found, FoundLog

(***************************************************************************)
(* Every step keeps the invariant.                                         *)
(***************************************************************************)
\* A step that moves one worker, tracks the history and keeps the types.
LEMMA OneMoves ==
  ASSUME IInv, Track, viewed \subseteq viewed', NEW w \in Workers, NEW new \in Run,
         Update(w, new), new.pc = "idle" => new = Rest,
         new # Rest => Progress(w)',
         connected' \in BOOLEAN, posted' \subseteq Posts, commented' \subseteq posted',
         discussed' \subseteq LogRow, known' \subseteq Posts, viewed' \subseteq Posts,
         earlier' \subseteq Posts, passed' \subseteq Posts,
         index' \subseteq Row, jobs' \subseteq Job, now' \in Nat \ {PostTime, CommentTime}
  PROVE  IInv'
<1>1. TypeOK
  BY DEF IInv
<1>2. /\ worker'[w] = new /\ \A v \in Workers \ {w} : worker'[v] = worker[v]
      /\ worker' \in [Workers -> Run]
      /\ \A v \in Workers : At(v, "idle")' => worker'[v] = Rest
  BY <1>1, UpdateType
<1>3. TypeOK'
  BY <1>1, <1>2, TrackType DEF TypeOK
<1>4. Progress(w)'
  BY <1>1, <1>2, Resting DEF IInv
<1>5. \A v \in Workers \ {w} : Progress(v)'
  BY <1>1, <1>2, Standing DEF IInv
<1> QED
  BY <1>3, <1>4, <1>5 DEF IInv

\* A step that only reads.
LEMMA OneReads ==
  ASSUME IInv, Looking, NEW w \in Workers, NEW new \in Run, Update(w, new),
         new.pc = "idle" => new = Rest, new # Rest => Progress(w)', jobs' \subseteq Job,
         passed' \subseteq Posts
  PROVE  IInv'
<1>1. /\ Track /\ viewed' = viewed /\ connected' = connected /\ posted' = posted
      /\ commented' = commented /\ discussed' = discussed /\ known' = known
      /\ earlier' = earlier /\ index' = index /\ now' = now
  BY DEF Looking, facts
<1> QED
  BY <1>1, OneMoves DEF IInv, TypeOK

LEMMA TakeKeeps ==
  ASSUME IInv, NEW w \in Workers, Take(w)
  PROVE  IInv'
<1>1. PICK job \in jobs :
        jobs' = jobs \ {job} /\ Update(w, [Rest EXCEPT !.pc = "begun", !.job = job])
  BY DEF Take
<1> DEFINE new == [Rest EXCEPT !.pc = "begun", !.job = job]
<1>2. TypeOK /\ At(w, "idle") /\ Looking /\ passed' = passed /\ job \in Job
  BY <1>1 DEF IInv, TypeOK, Take, Reading
<1>3. new \in Run /\ new.pc = "begun" /\ new.job = job /\ new.todo = {}
  BY <1>2, RestRun DEF Run, Rest
<1> HIDE DEF new
<1>4. worker'[w] = new
  BY <1>1, <1>2, UpdateType DEF new
<1>5. Track /\ viewed' = viewed
  BY <1>2 DEF Looking
<1>6. Progress(w)'
  <2>1. Fits(w)' /\ Spared(w)'
    BY <1>2, <1>3, <1>4, <1>5, Tracked DEF Fits, Spared, At
  <2>2. Found(w)' /\ FoundLog(w)'
    BY <1>3, <1>4, <1>5, Tracked DEF Found, FoundLog, At, Doing, Runs
  <2> QED
    BY <2>1, <2>2 DEF Progress
<1> QED
  BY <1>1, <1>2, <1>3, <1>6, OneReads DEF new, IInv, TypeOK

LEMMA FanoutKeeps ==
  ASSUME IInv, NEW w \in Workers, BulkFanoutToCache(w)
  PROVE  IInv'
<1>1. TypeOK /\ Progress(w) /\ worker[w] \in Run /\ worker[w].job \in Job
  BY RunType DEF IInv
<1>2. CASE ReadAudience(w)
  <2> DEFINE new == IF connected THEN [worker[w] EXCEPT !.pc = "write"] ELSE Rest
  <2>1. Update(w, new) /\ Looking /\ passed' = passed /\ jobs' = jobs
        /\ worker[w].job.kind \in {"post", "comment"} /\ At(w, "begun")
    BY <1>2 DEF ReadAudience, Finish, Reading
  <2>2. new \in Run /\ (new.pc = "idle" => new = Rest)
        /\ (new # Rest => new.pc = "write" /\ new.job = worker[w].job)
    BY <1>1, RestRun DEF Run
  <2>3. worker'[w] = new
    BY <1>1, <2>1, UpdateType
  <2> HIDE DEF new
  <2>4. new # Rest => Progress(w)'
    <3> SUFFICES ASSUME new # Rest PROVE Progress(w)'
      OBVIOUS
    <3>1. before'[w] \subseteq viewed'
      BY <1>1, <2>1, Tracked DEF Looking, At, Progress, Spared
    <3> QED
      BY <1>1, <2>1, <2>2, <2>3, <3>1 DEF Progress, Fits, Spared, Found, FoundLog, At, Doing
  <2> QED
    BY <1>1, <2>1, <2>2, <2>4, OneReads DEF TypeOK
<1>3. CASE PassOver(w)
  <2>1. Update(w, Rest) /\ Looking /\ jobs' = jobs /\ passed' \subseteq Posts
    BY <1>1, <1>3, JobType DEF PassOver, Finish, TypeOK
  <2> QED
    BY <1>1, <2>1, RestRun, OneReads DEF TypeOK
<1>4. CASE WriteFanout(w)
  <2>1. Update(w, Rest) /\ Track /\ viewed' = viewed /\ jobs' = jobs /\ now' = now
        /\ passed' = passed /\ UNCHANGED facts
    BY <1>4 DEF WriteFanout, Finish
  <2>2. index' \subseteq Row
    BY <1>1, <1>4, FanoutRowType, UpsertType DEF WriteFanout
  <2> QED
    BY <1>1, <2>1, <2>2, RestRun, OneMoves DEF TypeOK, facts
<1> QED
  BY <1>2, <1>3, <1>4 DEF BulkFanoutToCache

LEMMA ReadCandidatesKeeps ==
  ASSUME IInv, NEW w \in Workers, ReadCandidates(w)
  PROVE  IInv'
<1> DEFINE candidates == Newest(posted \intersect ByFriend)
           new == IF candidates = {} THEN Rest
                  ELSE [worker[w] EXCEPT !.pc = "read", !.todo = candidates]
<1>1. TypeOK /\ Progress(w) /\ worker[w] \in Run
  BY RunType DEF IInv
<1>2. /\ Update(w, new) /\ Looking /\ passed' = passed /\ jobs' = jobs
      /\ At(w, "begun") /\ Doing(w, "backfill")
  BY DEF ReadCandidates, Reading
<1>3. new \in Run /\ (new.pc = "idle" => new = Rest)
      /\ (new # Rest => new.pc = "read" /\ new.job = worker[w].job)
  BY <1>1, RestRun DEF Run, TypeOK, Newest
<1>4. worker'[w] = new
  BY <1>1, <1>2, UpdateType
<1> HIDE DEF new
<1>5. before'[w] \subseteq viewed'
  BY <1>1, <1>2, Tracked DEF Looking, At, Progress, Spared
<1>6. new # Rest => Progress(w)'
  BY <1>1, <1>2, <1>3, <1>4, <1>5 DEF Progress, Fits, Spared, Found, FoundLog, At, Doing
<1> QED
  BY <1>1, <1>2, <1>3, <1>6, OneReads DEF TypeOK

\* A backfill that skips some posts goes on; before the batch these are all
\* that was seen when it began.
LEMMA SkipKeeps ==
  ASSUME IInv, NEW w \in Workers, NEW pc, NEW engaged, Skip(w, pc, engaged), Looking,
         \/ At(w, "read") /\ pc = "views"
         \/ At(w, "views") /\ pc = "write" /\ before'[w] \subseteq engaged,
         UNCHANGED <<jobs, passed>>
  PROVE  IInv'
<1> DEFINE new == [worker[w] EXCEPT !.pc = pc, !.todo = @ \ engaged]
<1>1. TypeOK /\ Progress(w) /\ worker[w] \in Run
  BY RunType DEF IInv
<1>2. new \in Run /\ new.pc = pc /\ new.job = worker[w].job
      /\ new.todo = worker[w].todo \ engaged
  BY <1>1 DEF Run
<1>3. worker'[w] = new
  BY <1>1, UpdateType DEF Skip
<1>4. Doing(w, "backfill")
  BY <1>1 DEF Progress, Fits
<1> HIDE DEF new
<1>5. before'[w] \subseteq viewed'
  BY <1>1, Tracked DEF Looking, At, Progress, Spared
<1>6. Progress(w)'
  BY <1>2, <1>3, <1>4, <1>5 DEF Progress, Fits, Spared, Found, FoundLog, At, Doing
<1>7. new.pc # "idle"
  BY <1>2
<1> QED
  BY <1>1, <1>2, <1>6, <1>7, OneReads DEF Skip, new, TypeOK

LEMMA ReadDiscussedKeeps ==
  ASSUME IInv, NEW w \in Workers, ReadDiscussed(w) \/ ReadDiscussedPartly(w)
  PROVE  IInv'
BY SkipKeeps DEF ReadDiscussed, ReadDiscussedPartly, Reading

LEMMA ReadViewedKeeps ==
  ASSUME IInv, NEW w \in Workers, ReadViewed(w)
  PROVE  IInv'
<1>1. At(w, "views") /\ Skip(w, "write", viewed) /\ Looking /\ UNCHANGED <<jobs, passed>>
  BY DEF ReadViewed, Reading
<1>2. before'[w] \subseteq before[w]
  BY <1>1, Tracked DEF Looking, At
<1>3. before[w] \subseteq viewed
  BY DEF IInv, Progress, Spared
<1> QED
  BY <1>1, <1>2, <1>3, SkipKeeps

\* A scan that breaks off knows of no more views than it has found.
LEMMA ReadViewedPartlyKeeps ==
  ASSUME IInv, NEW w \in Workers, ReadViewedPartly(w)
  PROVE  IInv'
<1>1. PICK found \in SUBSET viewed :
        /\ Skip(w, "write", found)
        /\ before' = [before EXCEPT ![w] = @ \intersect found]
  BY DEF ReadViewedPartly
<1> DEFINE new == [worker[w] EXCEPT !.pc = "write", !.todo = @ \ found]
<1>2. /\ TypeOK /\ worker[w] \in Run /\ At(w, "views") /\ Doing(w, "backfill")
      /\ UNCHANGED <<facts, passed, index, viewed, jobs, now, kept>>
  BY RunType DEF IInv, Progress, Fits, ReadViewedPartly
<1>3. new \in Run /\ new.pc = "write" /\ new.job = worker[w].job
      /\ new.todo = worker[w].todo \ found
  BY <1>2 DEF Run
<1> HIDE DEF new
<1>4. /\ worker'[w] = new /\ \A v \in Workers \ {w} : worker'[v] = worker[v]
      /\ worker' \in [Workers -> Run]
      /\ \A v \in Workers : At(v, "idle")' => worker'[v] = Rest
  BY <1>1, <1>2, <1>3, UpdateType DEF Skip, new
<1>5. before' \in [Workers -> SUBSET Posts] /\ before'[w] = before[w] \intersect found
      /\ \A v \in Workers \ {w} : before'[v] = before[v]
  BY <1>1, <1>2 DEF TypeOK
<1>6. TypeOK'
  BY <1>2, <1>4, <1>5 DEF TypeOK, facts
<1>7. Progress(w)'
  BY <1>1, <1>2, <1>3, <1>4, <1>5 DEF Progress, Fits, Spared, Found, FoundLog, At, Doing
<1>8. ASSUME NEW v \in Workers \ {w}
      PROVE  Progress(v)'
  <2>1. worker'[v] = worker[v] /\ before'[v] = before[v] /\ kept' = kept /\ index' = index
        /\ viewed' = viewed /\ discussed' = discussed /\ Progress(v)
    BY <1>2, <1>4, <1>5 DEF IInv, facts
  <2> QED
    BY <2>1 DEF Progress, Fits, Spared, Found, FoundLog, At, Doing, BecauseOf, Retracting
<1> QED
  BY <1>6, <1>7, <1>8 DEF IInv

LEMMA WriteBackfillKeeps ==
  ASSUME IInv, NEW w \in Workers, WriteBackfill(w)
  PROVE  IInv'
<1>1. /\ TypeOK /\ Update(w, Rest) /\ Track /\ viewed' = viewed /\ jobs' = jobs
      /\ UNCHANGED <<facts, passed>> /\ index' = Upsert(Seeds(w)) /\ now' \in {now, now + 1}
  BY DEF IInv, WriteBackfill, Finish
<1>2. index' \subseteq Row
  BY <1>1, SeedType, UpsertType
<1>3. now' \in Nat \ {PostTime, CommentTime}
  BY <1>1 DEF TypeOK, PostTime, CommentTime
<1> QED
  BY <1>1, <1>2, <1>3, RestRun, OneMoves DEF TypeOK, facts

LEMMA ScanAuthoredKeeps ==
  ASSUME IInv, NEW w \in Workers, ScanAuthored(w)
  PROVE  IInv'
<1> DEFINE new == [worker[w] EXCEPT !.pc = "scanned", !.doomed = Authored]
<1>1. /\ TypeOK /\ Progress(w) /\ worker[w] \in Run /\ Update(w, new) /\ Looking
      /\ passed' = passed /\ jobs' = jobs /\ At(w, "begun") /\ Doing(w, "remove")
  BY RunType DEF IInv, Reading, ScanAuthored
<1>2. new \in Run /\ new.pc = "scanned" /\ new.job = worker[w].job /\ new.doomed = Authored
  BY <1>1 DEF Run, TypeOK, Authored
<1>3. worker'[w] = new
  BY <1>1, UpdateType
<1> HIDE DEF new
<1>4. Track /\ index' = index /\ viewed' = viewed
  BY <1>1 DEF Looking
<1>5. before'[w] \subseteq viewed' /\ kept'[w] \subseteq kept[w] /\ kept[w] \subseteq index
  BY <1>1, <1>4, Tracked DEF At, Progress, Spared, Found
<1>6. Found(w)'
  BY <1>2, <1>3, <1>4, <1>5 DEF Found, At, Authored
<1>7. Fits(w)' /\ Spared(w)' /\ FoundLog(w)'
  BY <1>1, <1>2, <1>3, <1>5 DEF Fits, Spared, FoundLog, At, Doing
<1>8. new.pc # "idle"
  BY <1>2
<1> QED
  BY <1>1, <1>2, <1>6, <1>7, <1>8, OneReads DEF Progress, new, TypeOK

\* After both scans a removal has found all it has to take away.
LEMMA BothScans ==
  ASSUME IInv, NEW w \in Workers, ScanTriggered(w), NEW r \in kept[w], BecauseOf(r)
  PROVE  r \in worker[w].doomed \union Triggered
<1>1. At(w, "scanned") /\ Doing(w, "remove") /\ kept[w] \subseteq index
  BY DEF ScanTriggered, IInv, Progress, Fits, Found, At
<1> QED
  BY <1>1 DEF BecauseOf, Triggered, IInv, Progress, Found

LEMMA ScanTriggeredKeeps ==
  ASSUME IInv, NEW w \in Workers, ScanTriggered(w)
  PROVE  IInv'
<1> DEFINE doomed == worker[w].doomed \union Triggered
           new == IF doomed = {} THEN Rest ELSE [worker[w] EXCEPT !.pc = "delete", !.doomed = doomed]
<1>1. /\ TypeOK /\ Progress(w) /\ worker[w] \in Run /\ Update(w, new) /\ Looking
      /\ passed' = passed /\ jobs' = jobs /\ At(w, "scanned") /\ Doing(w, "remove")
  BY RunType DEF IInv, Reading, ScanTriggered, Progress, Fits
<1>2. /\ new \in Run /\ (new.pc = "idle" => new = Rest)
      /\ new # Rest => new.pc = "delete" /\ new.job = worker[w].job /\ new.doomed = doomed
  BY <1>1, RestRun DEF Run, TypeOK, Triggered
<1>3. worker'[w] = new
  BY <1>1, UpdateType
<1>4. \A r \in kept[w] : BecauseOf(r) => r \in doomed
  BY BothScans
<1> HIDE DEF new, doomed
<1>5. Track /\ index' = index /\ viewed' = viewed
  BY <1>1 DEF Looking
<1>6. before'[w] \subseteq viewed' /\ kept'[w] \subseteq kept[w] /\ kept[w] \subseteq index
  BY <1>1, <1>5, Tracked DEF At, Progress, Spared, Found
<1>7. new # Rest => Progress(w)'
  <2> SUFFICES ASSUME new # Rest PROVE Progress(w)'
    OBVIOUS
  <2>1. Found(w)'
    BY <1>2, <1>3, <1>4, <1>5, <1>6 DEF Found, At, BecauseOf
  <2>2. Fits(w)' /\ Spared(w)' /\ FoundLog(w)'
    BY <1>1, <1>2, <1>3, <1>6 DEF Fits, Spared, FoundLog, At, Doing
  <2> QED
    BY <2>1, <2>2 DEF Progress
<1> QED
  BY <1>1, <1>2, <1>7, OneReads DEF new, doomed, TypeOK

\* The rows of a chunk are gone; the rest stays as it is.
LEMMA ChunkGone ==
  ASSUME TypeOK, NEW w \in Workers, NEW chunk
  PROVE  Without(chunk) \subseteq index /\ \A r \in Without(chunk) : r \notin chunk
BY DEF Without

\* A worker that has deleted a chunk ends or goes on with what is left.
LEMMA DeletedType ==
  ASSUME TypeOK, NEW w \in Workers, NEW chunk, Deleted(w, chunk), ~At(w, "idle")
  PROVE  \E new \in Run :
           /\ Update(w, new) /\ worker'[w] = new
           /\ new.pc = "idle" => new = Rest
           /\ worker[w].doomed \subseteq chunk => new = Rest
           /\ new # Rest => /\ new.pc = worker[w].pc /\ new.job = worker[w].job
                            /\ new.doomed = worker[w].doomed \ chunk
<1> DEFINE left == worker[w].doomed \ chunk
           new == IF left = {} THEN Rest ELSE [worker[w] EXCEPT !.doomed = left]
<1>1. worker[w] \in Run /\ Update(w, new)
  BY RunType DEF Deleted
<1>2. worker'[w] = new
  BY <1>1, UpdateType
<1>3. new \in Run /\ (new.pc = "idle" => new = Rest)
      /\ (new # Rest => new.pc = worker[w].pc /\ new.job = worker[w].job /\ new.doomed = left)
  BY <1>1, RestRun DEF Run, At
<1>4. worker[w].doomed \subseteq chunk => left = {}
  OBVIOUS
<1> QED
  BY <1>1, <1>2, <1>3, <1>4

LEMMA DeleteChunkKeeps ==
  ASSUME IInv, NEW w \in Workers, DeleteChunk(w)
  PROVE  IInv'
<1>1. PICK chunk \in Chunks(w) : index' = Without(chunk) /\ Deleted(w, chunk)
  BY DEF DeleteChunk
<1>2. /\ TypeOK /\ Progress(w) /\ At(w, "delete") /\ Doing(w, "remove") /\ Track
      /\ UNCHANGED <<facts, passed, viewed, jobs, now>>
  BY DEF IInv, DeleteChunk, Progress, Fits
<1>3. PICK new \in Run :
        /\ Update(w, new) /\ worker'[w] = new
        /\ new.pc = "idle" => new = Rest
        /\ new # Rest => /\ new.pc = worker[w].pc /\ new.job = worker[w].job
                         /\ new.doomed = worker[w].doomed \ chunk
  BY <1>1, <1>2, DeletedType DEF At
<1>4. index' \subseteq index /\ \A r \in index' : r \notin chunk
  BY <1>1, <1>2, ChunkGone
<1>5. new # Rest => Progress(w)'
  <2> SUFFICES ASSUME new # Rest PROVE Progress(w)'
    OBVIOUS
  <2>1. Runs(w, "remove")
    BY <1>2, <1>3 DEF Runs, At, Doing
  <2>2. before'[w] \subseteq viewed' /\ kept'[w] \subseteq kept[w] /\ kept'[w] \subseteq index'
    BY <1>2, <2>1, Tracked DEF At, Progress, Spared
  <2>3. \A r \in kept[w] : BecauseOf(r) => r \in worker[w].doomed
    BY <1>2 DEF Progress, Found
  <2>4. Found(w)'
    BY <1>2, <1>3, <1>4, <2>2, <2>3 DEF Found, At, BecauseOf
  <2>5. Fits(w)' /\ Spared(w)' /\ FoundLog(w)'
    BY <1>2, <1>3, <2>2 DEF Fits, Spared, FoundLog, At, Doing
  <2> QED
    BY <2>4, <2>5 DEF Progress
<1> QED
  BY <1>2, <1>3, <1>4, <1>5, OneMoves DEF TypeOK, facts

LEMMA ScanLogKeeps ==
  ASSUME IInv, NEW w \in Workers, ScanLog(w)
  PROVE  IInv'
<1> DEFINE doomed == {r \in discussed : r.act = "comment" /\ r.post \in worker[w].job.post}
           new == IF doomed = {} THEN Rest ELSE [worker[w] EXCEPT !.pc = "unlog", !.doomed = doomed]
<1>1. /\ TypeOK /\ Progress(w) /\ worker[w] \in Run /\ Update(w, new) /\ Looking
      /\ passed' = passed /\ jobs' = jobs /\ At(w, "begun") /\ Doing(w, "retract")
  BY RunType DEF IInv, Reading, ScanLog
<1>2. /\ new \in Run /\ (new.pc = "idle" => new = Rest)
      /\ new # Rest => new.pc = "unlog" /\ new.job = worker[w].job /\ new.doomed = doomed
  BY <1>1, RestRun DEF Run, TypeOK
<1>3. worker'[w] = new
  BY <1>1, UpdateType
<1>4. \A r : r \in doomed <=> r \in discussed /\ Retracting(w, r)
  BY DEF Retracting
<1> HIDE DEF new, doomed
<1>5. Track /\ viewed' = viewed
  BY <1>1 DEF Looking
<1>6. before'[w] \subseteq viewed' /\ kept'[w] \subseteq kept[w] /\ kept[w] \subseteq discussed
  BY <1>1, <1>5, Tracked DEF At, Progress, Spared, FoundLog
<1>7. new # Rest => Progress(w)'
  <2> SUFFICES ASSUME new # Rest PROVE Progress(w)'
    OBVIOUS
  <2>1. discussed' = discussed
    BY <1>1 DEF Looking, facts
  <2>2. FoundLog(w)'
    BY <1>2, <1>3, <1>4, <1>6, <2>1 DEF FoundLog, At, Retracting
  <2>3. Fits(w)' /\ Spared(w)' /\ Found(w)'
    BY <1>1, <1>2, <1>3, <1>6 DEF Fits, Spared, Found, At, Doing
  <2> QED
    BY <2>2, <2>3 DEF Progress
<1> QED
  BY <1>1, <1>2, <1>7, OneReads DEF new, doomed, TypeOK

LEMMA DeleteLogChunkKeeps ==
  ASSUME IInv, NEW w \in Workers, DeleteLogChunk(w)
  PROVE  IInv'
<1>1. PICK chunk \in Chunks(w) : discussed' = discussed \ chunk /\ Deleted(w, chunk)
  BY DEF DeleteLogChunk
<1>2. /\ TypeOK /\ Progress(w) /\ At(w, "unlog") /\ Doing(w, "retract") /\ Track
      /\ UNCHANGED <<connected, posted, commented, known, earlier, passed, index, viewed, jobs,
                     now>>
  BY DEF IInv, DeleteLogChunk, Progress, Fits
<1>3. PICK new \in Run :
        /\ Update(w, new) /\ worker'[w] = new
        /\ new.pc = "idle" => new = Rest
        /\ new # Rest => /\ new.pc = worker[w].pc /\ new.job = worker[w].job
                         /\ new.doomed = worker[w].doomed \ chunk
  BY <1>1, <1>2, DeletedType DEF At
<1>4. new # Rest => Progress(w)'
  <2> SUFFICES ASSUME new # Rest PROVE Progress(w)'
    OBVIOUS
  <2>1. Runs(w, "retract") /\ ~Runs(w, "remove")
    BY <1>2, <1>3 DEF Runs, At, Doing
  <2>2. before'[w] \subseteq viewed' /\ kept'[w] \subseteq kept[w] /\ kept'[w] \subseteq discussed'
    BY <1>2, <2>1, Tracked DEF At, Progress, Spared
  <2>3. /\ \A r \in kept[w] : Retracting(w, r) => r \in worker[w].doomed
        /\ \A r \in worker[w].doomed : Retracting(w, r)
    BY <1>2 DEF Progress, FoundLog
  <2>4. FoundLog(w)'
    BY <1>1, <1>2, <1>3, <2>2, <2>3 DEF FoundLog, At, Retracting
  <2>5. Fits(w)' /\ Spared(w)' /\ Found(w)'
    BY <1>2, <1>3, <2>2 DEF Fits, Spared, Found, At, Doing
  <2> QED
    BY <2>4, <2>5 DEF Progress
<1>5. discussed' \subseteq LogRow
  BY <1>1, <1>2 DEF TypeOK
<1> QED
  BY <1>2, <1>3, <1>4, <1>5, OneMoves DEF TypeOK

LEMMA SaveViewsKeeps ==
  ASSUME IInv, NEW w \in Workers, SaveViews(w)
  PROVE  IInv'
<1>1. /\ TypeOK /\ worker[w].job \in Job /\ Update(w, Rest) /\ Track
      /\ UNCHANGED <<facts, passed, jobs, now>> /\ index' \subseteq index
      /\ viewed' = viewed \union worker[w].job.post
  BY RunType DEF IInv, SaveViews, Finish
<1>2. viewed' \subseteq Posts /\ index' \subseteq Row
  BY <1>1, JobType DEF TypeOK
<1> QED
  BY <1>1, <1>2, RestRun, OneMoves DEF TypeOK, facts

\* What may be left of a batch that fails.
LEMMA PartType ==
  ASSUME IInv, NEW w \in Workers, PartOfBatch(w)
  PROVE  /\ index' \subseteq Row /\ index' \ index \subseteq Seeds(w)
         /\ index' # index => (At(w, "write") /\ Doing(w, "backfill")) \/ index' \subseteq index
         /\ viewed \subseteq viewed' /\ viewed' \subseteq Posts
         /\ discussed' \subseteq discussed
         /\ \A r \in discussed \ discussed' : Doing(w, "retract") /\ Retracting(w, r)
         /\ now' \in Nat \ {PostTime, CommentTime}
<1>1. TypeOK /\ Seeds(w) \subseteq Row /\ worker[w].job.post \subseteq Posts /\ now' \in {now, now + 1}
  BY SeedType, RunType, JobType DEF IInv, PartOfBatch
<1>2. now' \in Nat \ {PostTime, CommentTime}
  BY <1>1 DEF TypeOK, PostTime, CommentTime
<1>3. CASE At(w, "write") /\ Doing(w, "backfill")
  <2>1. PICK some \in SUBSET Seeds(w) : index' = Upsert(some)
    BY <1>3 DEF PartOfBatch, At
  <2>2. index' \subseteq Row /\ index' \ index \subseteq some
    BY <1>1, <2>1, UpsertType
  <2>3. UNCHANGED <<viewed, discussed>>
    BY <1>3 DEF PartOfBatch, At
  <2> QED
    BY <1>1, <1>2, <1>3, <2>2, <2>3 DEF TypeOK
<1>4. CASE At(w, "begun") /\ Doing(w, "view")
  BY <1>1, <1>2, <1>4 DEF PartOfBatch, TypeOK, At
<1>5. CASE At(w, "delete")
  BY <1>1, <1>2, <1>5 DEF PartOfBatch, TypeOK, At, Without
<1>6. CASE At(w, "unlog")
  <2>1. PICK chunk \in Chunks(w) \union {{}} : discussed' = discussed \ chunk
    BY <1>6 DEF PartOfBatch, At
  <2>2. chunk \subseteq worker[w].doomed
    BY DEF Chunks
  <2>3. Doing(w, "retract") /\ \A r \in worker[w].doomed : Retracting(w, r)
    BY <1>6 DEF IInv, Progress, Fits, FoundLog
  <2>4. UNCHANGED <<index, viewed>>
    BY <1>6 DEF PartOfBatch, At
  <2> QED
    BY <1>1, <1>2, <2>1, <2>2, <2>3, <2>4 DEF TypeOK
<1>7. CASE ~(At(w, "write") /\ Doing(w, "backfill")) /\ ~(At(w, "begun") /\ Doing(w, "view"))
           /\ ~At(w, "delete") /\ ~At(w, "unlog")
  BY <1>1, <1>2, <1>7 DEF PartOfBatch, TypeOK
<1> QED
  BY <1>3, <1>4, <1>5, <1>6, <1>7

LEMMA GiveUpKeeps ==
  ASSUME IInv, NEW w \in Workers, GiveUp(w)
  PROVE  IInv'
<1>1. /\ TypeOK /\ PartOfBatch(w) /\ Update(w, Rest) /\ Track
      /\ jobs' \subseteq jobs \union {worker[w].job} /\ worker[w].job \in Job
      /\ UNCHANGED <<connected, posted, commented, known, earlier, passed>>
  BY RunType DEF IInv, GiveUp, Finish
<1>2. /\ index' \subseteq Row /\ viewed \subseteq viewed' /\ viewed' \subseteq Posts
      /\ discussed' \subseteq LogRow /\ now' \in Nat \ {PostTime, CommentTime}
  BY <1>1, PartType DEF TypeOK
<1> QED
  BY <1>1, <1>2, RestRun, OneMoves DEF TypeOK

\* A step of which the workers know nothing.
LEMMA NobodyMoves ==
  ASSUME IInv, Track, worker' = worker, viewed' = viewed, index' = index, now' = now,
         connected' \in BOOLEAN, posted' \subseteq Posts, commented' \subseteq posted',
         discussed' \subseteq LogRow, known' \subseteq Posts, earlier' \subseteq Posts,
         passed' \subseteq Posts, jobs' \subseteq Job
  PROVE  IInv'
<1>1. TypeOK' /\ TypeOK
  BY TrackType DEF IInv, TypeOK, At
<1>2. \A v \in Workers : Progress(v)'
  BY <1>1, Standing DEF IInv
<1> QED
  BY <1>1, <1>2 DEF IInv

LEMMA RedeliverKeeps ==
  ASSUME IInv, NEW w \in Workers, Redeliver(w)
  PROVE  IInv'
<1>1. /\ TypeOK /\ Track /\ UNCHANGED <<facts, passed, index, viewed, now>>
      /\ jobs' \subseteq Job /\ worker' \in {worker, [worker EXCEPT ![w] = Rest]}
  BY RunType DEF IInv, Redeliver, TypeOK
<1>2. CASE worker' = worker
  BY <1>1, <1>2, NobodyMoves DEF TypeOK, facts
<1>3. CASE worker' = [worker EXCEPT ![w] = Rest]
  BY <1>1, <1>3, RestRun, OneMoves DEF TypeOK, facts, Update
<1> QED
  BY <1>1, <1>2, <1>3

LEMMA SendType ==
  ASSUME TypeOK, NEW kind, NEW post, Send(kind, post),
         \/ kind \in {"backfill", "remove"} /\ post = NoPost
         \/ kind \in {"post", "comment", "view", "retract"} /\ \E p \in Posts : post = {p}
  PROVE  jobs' \subseteq Job
BY DEF TypeOK, Send, Job

LEMMA ConnectKeeps ==
  ASSUME IInv, Connect \/ Disconnect
  PROVE  IInv'
<1>1. TypeOK
  BY DEF IInv
<1>2. Discussed \subseteq Posts
  BY <1>1 DEF Discussed, TypeOK, LogRow
<1>3. jobs' \subseteq Job
  BY <1>1, SendType DEF Connect, Disconnect
<1> QED
  BY <1>1, <1>2, <1>3, NobodyMoves DEF Connect, Disconnect, TypeOK

LEMMA PostKeeps ==
  ASSUME IInv, NEW p \in Posts, CreatePost(p) \/ CommentOn(p) \/ ViewPost(p)
  PROVE  IInv'
<1>1. TypeOK
  BY DEF IInv
<1>2. jobs' \subseteq Job
  BY <1>1, SendType DEF CreatePost, CommentOn, ViewPost
<1> QED
  BY <1>1, <1>2, NobodyMoves DEF CreatePost, CommentOn, ViewPost, TypeOK, facts

LEMMA DiscussKeeps ==
  ASSUME IInv, NEW r \in LogRow, Discuss(r) \/ Uncomment(r)
  PROVE  IInv'
<1>1. TypeOK /\ r.post \in Posts
  BY DEF IInv, LogRow
<1>2. jobs' \subseteq Job
  BY <1>1, SendType DEF Discuss, Uncomment, TypeOK
<1> QED
  BY <1>1, <1>2, NobodyMoves DEF Discuss, Uncomment, TypeOK, facts

LEMMA IInvInit == Init => IInv
<1> SUFFICES ASSUME Init PROVE IInv
  OBVIOUS
<1>1. discussed \subseteq LogRow
  <2> DEFINE seen == posted \intersect ByFriend
  <2>1. \/ \E k \in 0..2 : discussed = [post : seen, act : {"comment"}, n : 1..k]
        \/ discussed = [post : seen, act : {"comment", "share"}, n : {1}]
    BY DEF Init, InitialLogs
  <2>2. seen \subseteq Posts
    BY FeedAssumption
  <2> HIDE DEF seen
  <2>3. ASSUME NEW k \in 0..2
        PROVE  [post : seen, act : {"comment"}, n : 1..k] \subseteq LogRow
    <3>1. 1..k \subseteq 1..2
      OBVIOUS
    <3> QED
      BY <2>2, <3>1 DEF LogRow
  <2>4. [post : seen, act : {"comment", "share"}, n : {1}] \subseteq LogRow
    BY <2>2 DEF LogRow
  <2> QED
    BY <2>1, <2>3, <2>4
<1>2. known \subseteq Posts
  BY <1>1 DEF Init, Discussed, LogRow
<1>3. /\ worker \in [Workers -> Run] /\ \A w \in Workers : At(w, "idle") => worker[w] = Rest
      /\ before \in [Workers -> SUBSET Posts] /\ kept \in [Workers -> SUBSET (Row \union LogRow)]
  BY RestRun DEF Init
<1>4. TypeOK
  <2>1. /\ connected \in BOOLEAN /\ posted \subseteq Posts /\ commented \subseteq posted
        /\ earlier \subseteq Posts /\ passed \subseteq Posts
    BY DEF Init
  <2>2. viewed \subseteq Posts /\ index \subseteq Row /\ jobs \subseteq Job
    BY DEF Init
  <2>3. now \in Nat \ {PostTime, CommentTime}
    BY DEF Init, PostTime, CommentTime
  <2> QED
    BY <1>1, <1>2, <1>3, <2>1, <2>2, <2>3 DEF TypeOK
<1>5. \A w \in Workers : Progress(w)
  BY RestRun DEF Init, Progress, Fits, Spared, Found, FoundLog, At
<1> QED
  BY <1>4, <1>5 DEF IInv

LEMMA IInvStep == IInv /\ [Next]_vars => IInv'
<1> SUFFICES ASSUME IInv, [Next]_vars PROVE IInv'
  OBVIOUS
<1>1. CASE UNCHANGED vars
  BY <1>1 DEF vars, IInv, TypeOK, Progress, Fits, Spared, Found, FoundLog, Retracting,
              At, Doing, BecauseOf
<1>2. ASSUME NEW w \in Workers, Take(w)
      PROVE  IInv'
  BY <1>2, TakeKeeps
<1>3. ASSUME NEW w \in Workers, BulkFanoutToCache(w)
      PROVE  IInv'
  BY <1>3, FanoutKeeps
<1>4. ASSUME NEW w \in Workers, BackfillNewFriendFeed(w)
      PROVE  IInv'
  BY <1>4, ReadCandidatesKeeps, ReadDiscussedKeeps, ReadViewedKeeps, ReadViewedPartlyKeeps,
     WriteBackfillKeeps DEF BackfillNewFriendFeed
<1>5. ASSUME NEW w \in Workers, RemoveFeedOnUnfriend(w)
      PROVE  IInv'
  BY <1>5, ScanAuthoredKeeps, ScanTriggeredKeeps, DeleteChunkKeeps DEF RemoveFeedOnUnfriend
<1>6. ASSUME NEW w \in Workers, RemoveEngagementLog(w)
      PROVE  IInv'
  BY <1>6, ScanLogKeeps, DeleteLogChunkKeeps DEF RemoveEngagementLog
<1>7. ASSUME NEW w \in Workers, SaveViews(w) \/ GiveUp(w) \/ Redeliver(w)
      PROVE  IInv'
  BY <1>7, SaveViewsKeeps, GiveUpKeeps, RedeliverKeeps
<1>8. CASE Connect \/ Disconnect
  BY <1>8, ConnectKeeps
<1>9. ASSUME NEW p \in Posts, CreatePost(p) \/ CommentOn(p) \/ ViewPost(p)
      PROVE  IInv'
  BY <1>9, PostKeeps
<1>10. ASSUME NEW r \in LogRow, Discuss(r) \/ Uncomment(r)
       PROVE  IInv'
  BY <1>10, DiscussKeeps
<1> QED
  BY <1>1, <1>2, <1>3, <1>4, <1>5, <1>6, <1>7, <1>8, <1>9, <1>10 DEF Next

LEMMA Invariant == Spec => []IInv
BY IInvInit, IInvStep, PTL DEF Spec

\* The types of FeedIndex.
THEOREM TypeCorrect == Spec => []TypeOK
<1>1. IInv => TypeOK
  BY DEF IInv
<1> QED
  BY <1>1, Invariant, PTL

(***************************************************************************)
(* The counters behind MaxFaults and MaxChanges.                           *)
(***************************************************************************)
Bounds == faults \in Nat /\ changes \in Nat

LEMMA BoundsStep == Bounds /\ [Next]_vars => Bounds'
<1> SUFFICES ASSUME Bounds, [Next]_vars PROVE Bounds'
  OBVIOUS
<1> USE DEF Bounds
<1>1. CASE UNCHANGED vars
  BY <1>1 DEF vars
<1>2. ASSUME NEW w \in Workers,
             Take(w) \/ BulkFanoutToCache(w) \/ SaveViews(w) \/ RemoveFeedOnUnfriend(w)
               \/ RemoveEngagementLog(w)
      PROVE  Bounds'
  BY <1>2 DEF Take, BulkFanoutToCache, ReadAudience, PassOver, WriteFanout, SaveViews, Reading,
              Looking, bounds,
              RemoveFeedOnUnfriend, ScanAuthored, ScanTriggered, DeleteChunk,
              RemoveEngagementLog, ScanLog, DeleteLogChunk
<1>3. ASSUME NEW w \in Workers, BackfillNewFriendFeed(w) \/ GiveUp(w) \/ Redeliver(w)
      PROVE  Bounds'
  BY <1>3 DEF BackfillNewFriendFeed, ReadCandidates, ReadDiscussed, ReadDiscussedPartly,
              ReadViewed, ReadViewedPartly, WriteBackfill, GiveUp, Redeliver, Fault, Reading,
              Looking, bounds
<1>4. CASE Connect \/ Disconnect
  BY <1>4 DEF Connect, Disconnect
<1>5. ASSUME NEW p \in Posts, CreatePost(p) \/ CommentOn(p) \/ ViewPost(p)
      PROVE  Bounds'
  BY <1>5 DEF CreatePost, CommentOn, ViewPost, bounds
<1>6. ASSUME NEW r \in LogRow, Discuss(r) \/ Uncomment(r)
      PROVE  Bounds'
  BY <1>6 DEF Discuss, Uncomment
<1> QED
  BY <1>1, <1>2, <1>3, <1>4, <1>5, <1>6 DEF Next

LEMMA Bounded == Spec => []Bounds
<1>1. Init => Bounds
  BY DEF Init, Bounds
<1> QED
  BY <1>1, BoundsStep, PTL DEF Spec

(***************************************************************************)
(* Removals and retractions.                                               *)
(***************************************************************************)
\* A job ends without an error only by a step of its own.
LEMMA Ends ==
  ASSUME IInv, Bounds, [Next]_vars, NEW w \in Workers, NEW kind \in {"remove", "retract"},
         EndsWell(w, kind)
  PROVE  \/ kind = "remove" /\ (ScanTriggered(w) \/ DeleteChunk(w))
         \/ kind = "retract" /\ (ScanLog(w) \/ DeleteLogChunk(w))
<1>1. /\ TypeOK /\ Fits(w) /\ worker[w].job.kind = kind /\ faults' = faults
      /\ worker[w].pc # "idle" /\ worker'[w].pc = "idle"
  BY DEF IInv, Progress, EndsWell, Doing, At
<1>2. ASSUME NEW u \in Workers, NEW new, Update(u, new)
      PROVE  u = w
  BY <1>1, <1>2, UpdateType
<1>3. CASE UNCHANGED vars \/ Connect \/ Disconnect
  BY <1>1, <1>3 DEF vars, Connect, Disconnect
<1>4. ASSUME NEW p \in Posts, CreatePost(p) \/ CommentOn(p) \/ ViewPost(p)
      PROVE  FALSE
  BY <1>1, <1>4 DEF CreatePost, CommentOn, ViewPost
<1>5. ASSUME NEW r \in LogRow, Discuss(r) \/ Uncomment(r)
      PROVE  FALSE
  BY <1>1, <1>5 DEF Discuss, Uncomment
<1>6. ASSUME NEW u \in Workers, Take(u)
      PROVE  FALSE
  BY <1>1, <1>2, <1>6 DEF Take, At
<1>7. ASSUME NEW u \in Workers, BulkFanoutToCache(u) \/ SaveViews(u)
      PROVE  FALSE
  <2>1. u = w
    BY <1>2, <1>7 DEF BulkFanoutToCache, ReadAudience, PassOver, WriteFanout, SaveViews, Finish
  <2> QED
    BY <1>1, <1>7, <2>1 DEF BulkFanoutToCache, ReadAudience, PassOver, WriteFanout, SaveViews,
                            Doing
<1>8. ASSUME NEW u \in Workers, BackfillNewFriendFeed(u)
      PROVE  FALSE
  <2>1. u = w
    BY <1>2, <1>8 DEF BackfillNewFriendFeed, ReadCandidates, ReadDiscussed, ReadDiscussedPartly,
                      ReadViewed, ReadViewedPartly, WriteBackfill, Skip, Finish
  <2> QED
    BY <1>1, <1>8, <2>1 DEF BackfillNewFriendFeed, ReadCandidates, ReadDiscussed,
                            ReadDiscussedPartly, ReadViewed, ReadViewedPartly, WriteBackfill,
                            Doing, Fits
<1>9. ASSUME NEW u \in Workers, RemoveFeedOnUnfriend(u)
      PROVE  kind = "remove" /\ (ScanTriggered(w) \/ DeleteChunk(w))
  <2>1. u = w
    BY <1>2, <1>9 DEF RemoveFeedOnUnfriend, ScanAuthored, ScanTriggered, DeleteChunk, Deleted
  <2>2. kind = "remove"
    BY <1>1, <1>9, <2>1 DEF RemoveFeedOnUnfriend, ScanAuthored, ScanTriggered, DeleteChunk,
                            Fits, Doing
  <2>3. ~ScanAuthored(w)
    <3> SUFFICES ASSUME ScanAuthored(w) PROVE FALSE
      OBVIOUS
    <3>1. worker'[w] = [worker[w] EXCEPT !.pc = "scanned", !.doomed = Authored]
      BY <1>1, UpdateType DEF ScanAuthored
    <3>2. worker'[w].pc = "scanned"
      BY <1>1, <3>1, RunType DEF Run
    <3> QED
      BY <1>1, <3>2
  <2> QED
    BY <1>9, <2>1, <2>2, <2>3 DEF RemoveFeedOnUnfriend
<1>10. ASSUME NEW u \in Workers, RemoveEngagementLog(u)
       PROVE  kind = "retract" /\ (ScanLog(w) \/ DeleteLogChunk(w))
  <2>1. u = w
    BY <1>2, <1>10 DEF RemoveEngagementLog, ScanLog, DeleteLogChunk, Deleted
  <2> QED
    BY <1>1, <1>10, <2>1 DEF RemoveEngagementLog, ScanLog, DeleteLogChunk, Fits, Doing
<1>11. ASSUME NEW u \in Workers, GiveUp(u) \/ Redeliver(u)
       PROVE  FALSE
  BY <1>1, <1>11 DEF GiveUp, Redeliver, Fault, Bounds
<1> QED
  BY <1>1, <1>3, <1>4, <1>5, <1>6, <1>7, <1>8, <1>9, <1>10, <1>11 DEF Next, vars

Removed(w) == EndsWell(w, "remove") => \A r \in kept[w] \intersect index' : ~BecauseOf(r)

LEMMA RemovedStep ==
  ASSUME IInv, Bounds, [Next]_vars, NEW w \in Workers
  PROVE  Removed(w)
<1> SUFFICES ASSUME EndsWell(w, "remove"), NEW r \in kept[w] \intersect index', BecauseOf(r)
             PROVE  FALSE
  BY DEF Removed
<1>1. ScanTriggered(w) \/ DeleteChunk(w)
  BY Ends
<1>2. TypeOK /\ worker[w] \in Run /\ worker'[w].pc = "idle"
  BY RunType DEF IInv, EndsWell
<1>3. CASE ScanTriggered(w)
  <2> DEFINE doomed == worker[w].doomed \union Triggered
  <2>1. doomed # {}
    BY <1>3, BothScans
  <2>2. Update(w, [worker[w] EXCEPT !.pc = "delete", !.doomed = doomed])
    BY <1>3, <2>1 DEF ScanTriggered
  <2>3. worker'[w] = [worker[w] EXCEPT !.pc = "delete", !.doomed = doomed]
    BY <1>2, <2>2, UpdateType
  <2>4. worker'[w].pc = "delete"
    BY <1>2, <2>3 DEF Run
  <2> QED
    BY <1>2, <2>4
<1>4. CASE DeleteChunk(w)
  <2>1. PICK chunk \in Chunks(w) : index' = Without(chunk) /\ Deleted(w, chunk)
    BY <1>4 DEF DeleteChunk
  <2>2. r \in worker[w].doomed
    BY <1>4 DEF DeleteChunk, IInv, Progress, Found
  <2>3. r \notin chunk
    BY <1>2, <2>1, ChunkGone
  <2>4. Update(w, [worker[w] EXCEPT !.doomed = worker[w].doomed \ chunk])
    BY <2>1, <2>2, <2>3 DEF Deleted
  <2>5. worker'[w].pc = worker[w].pc
    BY <1>2, <2>4, UpdateType DEF Run
  <2> QED
    BY <1>2, <1>4, <2>5 DEF DeleteChunk, At
<1> QED
  BY <1>1, <1>3, <1>4

\* A removal that ends without an error has taken away every row because of the
\* friend that was there when it began (RemoveFeedOnUnfriend), for any posts,
\* chunks and workers.
THEOREM NothingOfTheFriend == Spec => RemovalComplete
<1>1. IInv /\ Bounds /\ [Next]_vars =>
        [\A w \in Workers : EndsWell(w, "remove") =>
           \A r \in kept[w] \intersect index' : ~BecauseOf(r)]_vars
  BY RemovedStep DEF Removed
<1> QED
  BY <1>1, Invariant, Bounded, PTL DEF Spec, RemovalComplete

\* A step that takes a row from the log is a retraction's, of its own comments.
LEMMA LogKept ==
  ASSUME IInv, [Next]_vars, NEW r \in discussed \ discussed'
  PROVE  /\ r.act = "comment"
         /\ \E w \in Workers : Doing(w, "retract") /\ r.post \in worker[w].job.post
<1>1. CASE UNCHANGED <<discussed>>
  BY <1>1
<1>2. ASSUME NEW w \in Workers, DeleteLogChunk(w)
      PROVE  Doing(w, "retract") /\ Retracting(w, r)
  <2>1. r \in worker[w].doomed
    BY <1>2 DEF DeleteLogChunk, Chunks
  <2> QED
    BY <1>2, <2>1 DEF DeleteLogChunk, IInv, Progress, Fits, FoundLog
<1>3. ASSUME NEW w \in Workers, GiveUp(w)
      PROVE  Doing(w, "retract") /\ Retracting(w, r)
  BY <1>3, PartType DEF GiveUp
<1>4. CASE Connect \/ Disconnect \/ UNCHANGED vars
  BY <1>4 DEF Connect, Disconnect, vars
<1>5. ASSUME NEW p \in Posts, CreatePost(p) \/ CommentOn(p) \/ ViewPost(p)
      PROVE  FALSE
  BY <1>5 DEF CreatePost, CommentOn, ViewPost, facts
<1>6. ASSUME NEW x \in LogRow, Discuss(x) \/ Uncomment(x)
      PROVE  FALSE
  BY <1>6 DEF Discuss, Uncomment, facts
<1>7. ASSUME NEW w \in Workers,
             Take(w) \/ BulkFanoutToCache(w) \/ SaveViews(w) \/ RemoveFeedOnUnfriend(w)
               \/ ScanLog(w)
      PROVE  FALSE
  BY <1>7 DEF Take, BulkFanoutToCache, ReadAudience, PassOver, WriteFanout, SaveViews, Reading,
              Looking, facts,
              RemoveFeedOnUnfriend, ScanAuthored, ScanTriggered, DeleteChunk, ScanLog
<1>8. ASSUME NEW w \in Workers, BackfillNewFriendFeed(w) \/ Redeliver(w)
      PROVE  FALSE
  BY <1>8 DEF BackfillNewFriendFeed, ReadCandidates, ReadDiscussed, ReadDiscussedPartly,
              ReadViewed, ReadViewedPartly, WriteBackfill, Redeliver, Reading, Looking, facts
<1> QED
  BY <1>2, <1>3, <1>4, <1>5, <1>6, <1>7, <1>8 DEF Next, RemoveEngagementLog, Retracting

LEMMA RetractedStep ==
  ASSUME IInv, Bounds, [Next]_vars, NEW w \in Workers, EndsWell(w, "retract"),
         NEW r \in kept[w] \intersect discussed', Retracting(w, r)
  PROVE  FALSE
<1>1. ScanLog(w) \/ DeleteLogChunk(w)
  BY Ends
<1>2. TypeOK /\ worker[w] \in Run /\ worker'[w].pc = "idle" /\ Doing(w, "retract")
      /\ ~At(w, "idle")
  BY RunType DEF IInv, EndsWell
<1>3. r \in discussed
  BY <1>2 DEF IInv, Progress, FoundLog
<1>4. CASE ScanLog(w)
  <2> DEFINE doomed == {x \in discussed : x.act = "comment" /\ x.post \in worker[w].job.post}
  <2>1. r \in doomed
    BY <1>3 DEF Retracting
  <2>2. Update(w, [worker[w] EXCEPT !.pc = "unlog", !.doomed = doomed])
    BY <1>4, <2>1 DEF ScanLog
  <2>3. worker'[w] = [worker[w] EXCEPT !.pc = "unlog", !.doomed = doomed]
    BY <1>2, <2>2, UpdateType
  <2>4. worker'[w].pc = "unlog"
    BY <1>2, <2>3 DEF Run
  <2> QED
    BY <1>2, <2>4
<1>5. CASE DeleteLogChunk(w)
  <2>1. PICK chunk \in Chunks(w) : discussed' = discussed \ chunk /\ Deleted(w, chunk)
    BY <1>5 DEF DeleteLogChunk
  <2>2. r \in worker[w].doomed
    BY <1>5 DEF DeleteLogChunk, IInv, Progress, FoundLog
  <2>3. Update(w, [worker[w] EXCEPT !.doomed = worker[w].doomed \ chunk])
    BY <2>1, <2>2 DEF Deleted
  <2>4. worker'[w].pc = worker[w].pc
    BY <1>2, <2>3, UpdateType DEF Run
  <2> QED
    BY <1>2, <1>5, <2>4 DEF DeleteLogChunk, At
<1> QED
  BY <1>1, <1>4, <1>5

\* A retraction that ends without an error leaves no row of a comment that was
\* logged when it began, and nothing else takes a row (RemoveEngagementLog).
THEOREM CommentsRetracted == Spec => RetractionComplete
<1>1. IInv /\ Bounds /\ [Next]_vars =>
        [/\ \A w \in Workers : EndsWell(w, "retract") =>
              \A r \in kept[w] \intersect discussed' :
                r.act = "comment" => r.post \notin worker[w].job.post
         /\ \A r \in discussed \ discussed' :
              /\ r.act = "comment"
              /\ \E w \in Workers : Doing(w, "retract") /\ r.post \in worker[w].job.post]_vars
  BY RetractedStep, LogKept DEF Retracting
<1> QED
  BY <1>1, Invariant, Bounded, PTL DEF Spec, RetractionComplete

(***************************************************************************)
(* What was seen.                                                          *)
(***************************************************************************)
\* The backfill that brings r as it ends, and that did not know r as seen.
Brought(w, r) ==
  At(w, "write") /\ ~At(w, "write")' /\ Doing(w, "backfill") /\ r.post \notin before[w]

LEMMA SeenStep ==
  ASSUME IInv, [Next]_vars, NEW r \in index' \ index, r.at >= 2
  PROVE  \E w \in Workers : Brought(w, r)
<1>1. TypeOK
  BY DEF IInv
\* A seed is none of what the backfill has skipped.
<1>2. ASSUME NEW w \in Workers, At(w, "write"), Doing(w, "backfill"), r \in Seeds(w),
             Update(w, Rest)
      PROVE  Brought(w, r)
  <2>1. worker'[w].pc = "idle"
    BY <1>1, <1>2, UpdateType, RestRun
  <2> QED
    BY <1>1, <1>2, <2>1, SeedType DEF IInv, Progress, Spared, Brought, At
<1>3. ASSUME NEW w \in Workers, WriteBackfill(w)
      PROVE  Brought(w, r)
  <2>1. r \in Seeds(w)
    BY <1>1, <1>3, SeedType, UpsertType DEF WriteBackfill
  <2> QED
    BY <1>2, <1>3, <2>1 DEF WriteBackfill, Finish
<1>4. ASSUME NEW w \in Workers, GiveUp(w)
      PROVE  Brought(w, r)
  BY <1>2, <1>4, PartType DEF GiveUp, Finish
<1>5. ASSUME NEW w \in Workers, BulkFanoutToCache(w)
      PROVE  FALSE
  <2>1. WriteFanout(w)
    BY <1>5 DEF BulkFanoutToCache, ReadAudience, PassOver, Reading, Looking
  <2>2. r = FanoutRow(worker[w].job) /\ r.at \in {PostTime, CommentTime}
    BY <1>1, <2>1, RunType, FanoutRowType, UpsertType DEF WriteFanout
  <2> QED
    BY <2>2 DEF PostTime, CommentTime
<1>6. CASE Connect \/ Disconnect \/ UNCHANGED vars
  BY <1>6 DEF Connect, Disconnect, vars
<1>7. ASSUME NEW p \in Posts, CreatePost(p) \/ CommentOn(p) \/ ViewPost(p)
      PROVE  FALSE
  BY <1>7 DEF CreatePost, CommentOn, ViewPost
<1>8. ASSUME NEW x \in LogRow, Discuss(x) \/ Uncomment(x)
      PROVE  FALSE
  BY <1>8 DEF Discuss, Uncomment
<1>9. ASSUME NEW w \in Workers,
             Take(w) \/ SaveViews(w) \/ RemoveFeedOnUnfriend(w) \/ RemoveEngagementLog(w)
      PROVE  FALSE
  BY <1>9 DEF Take, SaveViews, RemoveFeedOnUnfriend, ScanAuthored, ScanTriggered, DeleteChunk,
              Without, RemoveEngagementLog, ScanLog, DeleteLogChunk, Reading, Looking
<1>10. ASSUME NEW w \in Workers,
              \/ ReadCandidates(w) \/ ReadDiscussed(w) \/ ReadDiscussedPartly(w)
              \/ ReadViewed(w) \/ ReadViewedPartly(w) \/ Redeliver(w)
       PROVE  FALSE
  BY <1>10 DEF ReadCandidates, ReadDiscussed, ReadDiscussedPartly, ReadViewed, ReadViewedPartly,
               Redeliver, Reading, Looking
<1> QED
  BY <1>3, <1>4, <1>5, <1>6, <1>7, <1>8, <1>9, <1>10 DEF Next, BackfillNewFriendFeed

\* A step that stamps a row as a backfill does is the last of a backfill, and
\* the post is none of which that backfill's scan knew a view logged when it
\* began: all of them, unless the scan failed (handlers.go:918).
THEOREM SeenStaysOut == Spec => ViewedStaysOut
<1>1. IInv /\ [Next]_vars =>
        [\A r \in index' \ index : r.at >= 2 =>
           \E w \in Workers :
             /\ At(w, "write") /\ ~At(w, "write")' /\ Doing(w, "backfill")
             /\ r.post \notin before[w]]_vars
  BY SeenStep DEF Brought
<1> QED
  BY <1>1, Invariant, PTL DEF Spec, ViewedStaysOut

(***************************************************************************)
(* The timeline.  The invariant: as long as no fault happened and every    *)
(* connect and disconnect found the queues empty, what a connected viewer  *)
(* misses is being brought, and what reminds a disconnected one of the     *)
(* friend is being taken away - and nothing does the opposite meanwhile.   *)
(***************************************************************************)
PostJob(p) == [kind |-> "post", post |-> {p}]

\* Will w bring p, as one of the posts there were at the connect, or a later one?
Brings(w, p) ==
  \/ p \notin earlier /\ worker[w].job = PostJob(p) /\ worker[w].pc \in {"begun", "write"}
  \/ Doing(w, "backfill") /\ ((At(w, "begun") /\ p \in earlier) \/ p \in worker[w].todo)

Coming(p) ==
  \/ \E r \in index : r.post = p
  \/ p \notin earlier /\ PostJob(p) \in jobs
  \/ p \in earlier /\ \E job \in jobs : job.kind = "backfill"
  \/ \E w \in Workers : Brings(w, p)

Joined ==
  /\ \A job \in jobs : job.kind # "remove"
  /\ \A w \in Workers : Doing(w, "remove") => At(w, "idle")
  /\ \A p \in Due \ (viewed \union known) : Coming(p)

\* Will w remove all rows there are because of the friend?
Removes(w) ==
  /\ Doing(w, "remove")
  /\ \/ At(w, "begun")
     \/ At(w, "scanned") /\ Authored \subseteq worker[w].doomed
     \/ At(w, "delete") /\ \A r \in index : BecauseOf(r) => r \in worker[w].doomed

Apart ==
  /\ \A job \in jobs : job.kind # "backfill"
  /\ \A w \in Workers : ~At(w, "write") /\ ~Doing(w, "backfill")
  /\ \/ \A r \in index : ~BecauseOf(r)
     \/ \E job \in jobs : job.kind = "remove"
     \/ \E w \in Workers : Removes(w)

Timeline ==
  /\ Discussed \subseteq known /\ earlier \subseteq posted \intersect ByFriend
  /\ (~disturbed /\ connected) => Joined
  /\ (~disturbed /\ ~connected) => Apart

\* Among fewer posts the newest of more are the newest, too.
LEMMA NewestOfFewer ==
  ASSUME NEW more \in SUBSET Posts, NEW fewer \in SUBSET more, NEW p \in fewer, p \in Newest(more)
  PROVE  p \in Newest(fewer)
<1> DEFINE later(posts) == {q \in posts : q > p}
<1>1. IsFiniteSet(later(more)) /\ later(fewer) \subseteq later(more)
  BY FS_Subset, FeedAssumption
<1>2. IsFiniteSet(later(fewer)) /\ Cardinality(later(fewer)) <= Cardinality(later(more))
  BY <1>1, FS_Subset
<1>3. Cardinality(later(fewer)) \in Nat /\ Cardinality(later(more)) \in Nat
  BY <1>1, <1>2, FS_CardinalityType
<1>4. Cardinality(later(more)) < CandidateLimit
  BY DEF Newest
<1>5. Cardinality(later(fewer)) < CandidateLimit
  BY <1>2, <1>3, <1>4, FeedAssumption
<1> QED
  BY <1>5 DEF Newest

\* Known discussions stay known.
LEMMA FewerDiscussed ==
  ASSUME Discussed \subseteq known, discussed' \subseteq discussed, known \subseteq known'
  PROVE  Discussed' \subseteq known'
BY DEF Discussed

\* A step of one worker's, the viewer being connected.
LEMMA JoinedMoves ==
  ASSUME Joined, NEW w \in Workers, \A v \in Workers \ {w} : worker'[v] = worker[v],
         posted' = posted, known' = known, earlier' = earlier, passed \subseteq passed',
         viewed \subseteq viewed',
         \A r \in index : r.post \notin viewed' => \E n \in index' : n.post = r.post,
         \A job \in jobs' : job.kind # "remove",
         Doing(w, "remove")' => At(w, "idle")',
         \A job \in jobs : job \in jobs' \/ (worker'[w].job = job /\ worker'[w].pc = "begun"),
         \A p \in Due' : (p \notin viewed' \union known /\ Brings(w, p)) =>
            Brings(w, p)' \/ \E r \in index' : r.post = p
  PROVE  Joined'
<1>1. ASSUME NEW p \in Due', p \notin viewed' \union known
      PROVE  Coming(p)'
  <2>1. Coming(p)
    BY <1>1 DEF Joined, Due, Newest
  <2>2. CASE \E r \in index : r.post = p
    BY <1>1, <2>2 DEF Coming
  <2>3. ASSUME NEW job \in jobs,
               \/ p \notin earlier /\ job = PostJob(p)
               \/ p \in earlier /\ job.kind = "backfill"
        PROVE  Coming(p)'
    <3>1. CASE job \in jobs'
      BY <2>3, <3>1 DEF Coming, PostJob
    <3>2. CASE worker'[w].job = job /\ worker'[w].pc = "begun"
      BY <2>3, <3>2 DEF Coming, Brings, PostJob, Doing, At
    <3> QED
      BY <3>1, <3>2
  <2>4. ASSUME NEW v \in Workers, Brings(v, p)
        PROVE  Coming(p)'
    <3>1. CASE v = w
      BY <1>1, <2>4, <3>1 DEF Coming
    <3>2. CASE v # w
      BY <2>4, <3>2 DEF Coming, Brings, PostJob, Doing, At
    <3> QED
      BY <3>1, <3>2
  <2> QED
    BY <2>1, <2>2, <2>3, <2>4 DEF Coming
<1>2. \A v \in Workers : Doing(v, "remove")' => At(v, "idle")'
  BY DEF Joined, Doing, At
<1> QED
  BY <1>1, <1>2 DEF Joined

\* A removal keeps what it has found.
LEMMA StillRemoves ==
  ASSUME NEW v \in Workers, Removes(v), worker'[v] = worker[v], index' \subseteq index
  PROVE  Removes(v)'
<1>1. Authored' \subseteq Authored /\ \A r \in index' : BecauseOf(r)' <=> BecauseOf(r)
  BY DEF Authored, BecauseOf
<1> QED
  BY <1>1 DEF Removes, Doing, At

\* A step of one worker's, the viewer being disconnected.
LEMMA ApartMoves ==
  ASSUME Apart, NEW w \in Workers, \A v \in Workers \ {w} : worker'[v] = worker[v],
         index' \subseteq index, jobs' \subseteq jobs,
         worker'[w].pc # "write", worker'[w].job.kind # "backfill",
         \A job \in jobs : job.kind = "remove" => job \in jobs' \/ Removes(w)',
         Removes(w) => Removes(w)' \/ \A r \in index' : ~BecauseOf(r)
  PROVE  Apart'
<1>1. /\ \A job \in jobs' : job.kind # "backfill"
      /\ \A v \in Workers : ~At(v, "write")' /\ ~Doing(v, "backfill")'
  BY DEF Apart, At, Doing
<1>2. CASE \A r \in index : ~BecauseOf(r)
  BY <1>1, <1>2 DEF Apart, BecauseOf
<1>3. CASE \E job \in jobs : job.kind = "remove"
  BY <1>1, <1>3 DEF Apart
<1>4. ASSUME NEW v \in Workers, Removes(v)
      PROVE  Apart'
  <2>1. v # w => Removes(v)'
    BY <1>4, StillRemoves
  <2> QED
    BY <1>1, <1>4, <2>1 DEF Apart, BecauseOf
<1> QED
  BY <1>2, <1>3, <1>4 DEF Apart

\* A step that moves no worker and at most sends a job.
LEMMA NobodyBrings ==
  ASSUME Timeline, UNCHANGED <<connected, disturbed, worker, index, viewed, earlier, passed>>,
         jobs \subseteq jobs', \A job \in jobs' \ jobs : job.kind \notin {"backfill", "remove"},
         known \subseteq known', Discussed' \subseteq known',
         posted \subseteq posted', posted' \subseteq Posts, \A p \in posted' \ posted : PostJob(p) \in jobs'
  PROVE  Timeline'
<1>1. ASSUME Joined PROVE Joined'
  <2>1. ASSUME NEW p, Coming(p) PROVE Coming(p)'
    BY <2>1 DEF Coming, Brings, PostJob, Doing, At
  <2>2. ASSUME NEW p \in Due', p \notin viewed' \union known'
        PROVE  Coming(p)'
    <3> DEFINE there == posted \intersect ByFriend
    <3>1. ASSUME p \in earlier PROVE p \in Due
      <4>1. p \in there /\ p \in Newest(there')
        BY <2>2, <3>1 DEF Due, Timeline
      <4>2. p \in Newest(there)
        BY <4>1, NewestOfFewer
      <4> QED
        BY <3>1, <4>2 DEF Due
    <3>2. ASSUME p \notin earlier, p \in posted PROVE p \in Due
      BY <2>2, <3>2 DEF Due
    <3>3. ASSUME p \notin earlier, p \notin posted PROVE Coming(p)'
      BY <2>2, <3>3 DEF Due, Coming, PostJob
    <3>4. p \in Due => Coming(p)'
      BY <1>1, <2>1, <2>2 DEF Joined
    <3> QED
      BY <3>1, <3>2, <3>3, <3>4
  <2> QED
    BY <1>1, <2>2 DEF Joined, Doing, At
<1>2. ASSUME Apart PROVE Apart'
  <2>1. \A v \in Workers : Removes(v) => Removes(v)'
    BY StillRemoves
  <2> QED
    BY <1>2, <2>1 DEF Apart, BecauseOf, Doing, At
<1> QED
  BY <1>1, <1>2 DEF Timeline

LEMMA TakeTimeline ==
  ASSUME IInv, Timeline, NEW w \in Workers, Take(w)
  PROVE  Timeline'
<1>1. PICK job \in jobs :
        jobs' = jobs \ {job} /\ Update(w, [Rest EXCEPT !.pc = "begun", !.job = job])
  BY DEF Take
<1> DEFINE new == [Rest EXCEPT !.pc = "begun", !.job = job]
<1>2. /\ TypeOK /\ At(w, "idle") /\ worker[w] = Rest
      /\ UNCHANGED <<facts, passed, index, viewed, disturbed>>
  BY DEF IInv, TypeOK, Take, Reading, Looking
<1>3. new.pc = "begun" /\ new.job = job
  BY DEF Rest
<1> HIDE DEF new
<1>4. worker'[w] = new /\ \A v \in Workers \ {w} : worker'[v] = worker[v]
  BY <1>1, <1>2, UpdateType DEF new
<1>5. ~Removes(w) /\ \A p : ~Brings(w, p)
  BY <1>2 DEF Removes, Brings, At, Doing, Rest
<1>6. ASSUME Joined PROVE Joined'
  <2>1. \A j \in jobs' : j.kind # "remove"
    BY <1>1, <1>6 DEF Joined
  <2>2. Doing(w, "remove")' => At(w, "idle")'
    BY <1>3, <1>4, <1>6 DEF Joined, Doing
  <2>3. UNCHANGED <<posted, known, earlier, passed, viewed, index>>
    BY <1>2 DEF facts
  <2> QED
    BY <1>1, <1>3, <1>4, <1>5, <1>6, <2>1, <2>2, <2>3, JoinedMoves
<1>7. ASSUME Apart PROVE Apart'
  <2>1. job.kind # "backfill" /\ (job.kind = "remove" => Removes(w)')
    BY <1>3, <1>4, <1>7 DEF Apart, Removes, At, Doing
  <2> QED
    BY <1>1, <1>2, <1>3, <1>4, <1>5, <1>7, <2>1, ApartMoves
<1> QED
  BY <1>2, <1>6, <1>7 DEF Timeline, facts, Discussed

\* A step of w's that leaves the log and what is known alone, in both cases.
LEMMA EitherCase ==
  ASSUME Timeline, UNCHANGED <<connected, posted, known, earlier, disturbed>>,
         discussed' \subseteq discussed,
         (connected /\ Joined) => Joined', (~connected /\ Apart) => Apart'
  PROVE  Timeline'
BY FewerDiscussed DEF Timeline

LEMMA FanoutTimeline ==
  ASSUME IInv, Timeline, NEW w \in Workers, BulkFanoutToCache(w)
  PROVE  Timeline'
<1>1. /\ TypeOK /\ worker[w] \in Run /\ worker[w].job \in Job
      /\ worker[w].job.kind \in {"post", "comment"}
      /\ UNCHANGED <<facts, viewed, jobs, disturbed>> /\ passed \subseteq passed'
  BY RunType DEF IInv, BulkFanoutToCache, ReadAudience, PassOver, WriteFanout, Reading, Looking
<1>2. ~Removes(w)
  BY <1>1 DEF Removes, Doing
<1>3. CASE ReadAudience(w)
  <2> DEFINE new == IF connected THEN [worker[w] EXCEPT !.pc = "write"] ELSE Rest
  <2>1. Update(w, new) /\ index' = index /\ At(w, "begun")
    BY <1>3 DEF ReadAudience, Finish, Reading, Looking
  <2>2. /\ connected => new.pc = "write" /\ new.job = worker[w].job /\ new.todo = worker[w].todo
        /\ ~connected => new = Rest
    BY <1>1 DEF Run
  <2>3. worker'[w] = new /\ \A v \in Workers \ {w} : worker'[v] = worker[v]
    BY <1>1, <2>1, UpdateType
  <2> HIDE DEF new
  <2>4. ASSUME connected, Joined PROVE Joined'
    <3>1. \A p : Brings(w, p) => Brings(w, p)'
      BY <1>1, <2>1, <2>2, <2>3, <2>4 DEF Brings, Doing, PostJob, At, facts
    <3>2. ~Doing(w, "remove")'
      BY <1>1, <2>2, <2>3, <2>4 DEF Doing
    <3>3. \A job \in jobs' : job.kind # "remove"
      BY <1>1, <2>4 DEF Joined
    <3> QED
      BY <1>1, <2>1, <2>3, <2>4, <3>1, <3>2, <3>3, JoinedMoves DEF facts
  <2>5. ASSUME ~connected, Apart PROVE Apart'
    <3>1. worker'[w].pc # "write" /\ worker'[w].job.kind # "backfill"
      BY <2>2, <2>3, <2>5 DEF Rest
    <3> QED
      BY <1>1, <1>2, <2>1, <2>3, <2>5, <3>1, ApartMoves
  <2> QED
    BY <1>1, <2>4, <2>5, EitherCase DEF facts
<1>4. CASE PassOver(w)
  <2>1. Update(w, Rest) /\ index' = index /\ connected
        /\ passed' = passed \union {p \in worker[w].job.post : Doing(w, "post")}
    BY <1>4 DEF PassOver, Finish, Looking
  <2>2. worker'[w] = Rest /\ \A v \in Workers \ {w} : worker'[v] = worker[v]
    BY <1>1, <2>1, UpdateType
  <2>3. ASSUME Joined PROVE Joined'
    <3>1. ASSUME NEW p \in Due', Brings(w, p) PROVE FALSE
      <4>1. p \notin earlier /\ worker[w].job = PostJob(p)
        BY <1>1, <3>1 DEF Brings, Doing
      <4>2. p \in passed'
        BY <2>1, <4>1 DEF PostJob, Doing
      <4> QED
        BY <1>1, <3>1, <4>1, <4>2 DEF Due, facts
    <3>2. At(w, "idle")'
      BY <2>2, RestRun DEF At
    <3>3. \A job \in jobs' : job.kind # "remove"
      BY <1>1, <2>3 DEF Joined
    <3> QED
      BY <1>1, <2>1, <2>2, <2>3, <3>1, <3>2, <3>3, JoinedMoves DEF facts
  <2> QED
    BY <1>1, <2>1, <2>3, EitherCase DEF facts
<1>5. CASE WriteFanout(w)
  <2>1. Update(w, Rest) /\ index' = Upsert({FanoutRow(worker[w].job)}) /\ At(w, "write")
    BY <1>5 DEF WriteFanout, Finish
  <2>2. worker'[w] = Rest /\ \A v \in Workers \ {w} : worker'[v] = worker[v]
    BY <1>1, <2>1, UpdateType
  <2>3. ASSUME Joined PROVE Joined'
    <3>1. \A r \in index : \E n \in index' : n.post = r.post
      BY <2>1 DEF Upsert
    <3>2. ASSUME NEW p, Brings(w, p) PROVE \E r \in index' : r.post = p
      <4>1. worker[w].job = PostJob(p)
        BY <1>1, <3>2 DEF Brings, Doing
      <4>2. (CHOOSE q \in PostJob(p).post : TRUE) = p
        BY DEF PostJob
      <4>3. FanoutRow(worker[w].job).post = p
        BY <4>1, <4>2 DEF FanoutRow, PostJob
      <4> QED
        BY <2>1, <4>3 DEF Upsert
    <3>3. At(w, "idle")'
      BY <2>2, RestRun DEF At
    <3>4. \A job \in jobs' : job.kind # "remove"
      BY <1>1, <2>3 DEF Joined
    <3> QED
      BY <1>1, <2>2, <2>3, <3>1, <3>2, <3>3, <3>4, JoinedMoves DEF facts
  <2>4. ~Apart
    BY <2>1 DEF Apart
  <2> QED
    BY <1>1, <2>3, <2>4, EitherCase DEF facts
<1> QED
  BY <1>3, <1>4, <1>5 DEF BulkFanoutToCache

LEMMA BackfillTimeline ==
  ASSUME IInv, Timeline, NEW w \in Workers, BackfillNewFriendFeed(w)
  PROVE  Timeline'
<1> USE DEF BackfillNewFriendFeed
<1>1. /\ TypeOK /\ Fits(w) /\ worker[w] \in Run /\ Discussed \subseteq known
      /\ UNCHANGED <<facts, passed, viewed, jobs, disturbed>>
  BY RunType DEF IInv, Progress, Timeline, ReadCandidates, ReadDiscussed, ReadDiscussedPartly,
                 ReadViewed, ReadViewedPartly, WriteBackfill, Reading, Looking
<1>2. Doing(w, "backfill") /\ worker[w].job.kind = "backfill"
  BY <1>1 DEF ReadCandidates, ReadDiscussed, ReadDiscussedPartly, ReadViewed, ReadViewedPartly,
              WriteBackfill, Fits, Doing
<1>3. ASSUME NEW new, Update(w, new), new = Rest \/ new.job = worker[w].job,
             \A r \in index : \E n \in index' : n.post = r.post,
             \A p \in Due : (p \notin viewed \union known /\ Brings(w, p)) =>
                (new # Rest /\ p \in new.todo) \/ \E r \in index' : r.post = p
      PROVE  Timeline'
  <2>1. worker'[w] = new /\ \A v \in Workers \ {w} : worker'[v] = worker[v]
    BY <1>1, <1>3, UpdateType
  <2>2. ASSUME Joined PROVE Joined'
    <3>1. Doing(w, "remove")' => At(w, "idle")'
      BY <1>2, <1>3, <2>1, RestRun DEF Doing, At
    <3>2. \A p \in Due' : (p \notin viewed' \union known /\ Brings(w, p)) =>
             Brings(w, p)' \/ \E r \in index' : r.post = p
      <4>1. Due' = Due
        BY <1>1 DEF Due, Newest, facts
      <4> QED
        BY <1>1, <1>2, <1>3, <2>1, <4>1 DEF Brings, Doing
    <3>3. \A job \in jobs' : job.kind # "remove"
      BY <1>1, <2>2 DEF Joined
    <3> QED
      BY <1>1, <1>3, <2>1, <2>2, <3>1, <3>2, <3>3, JoinedMoves DEF facts
  <2>3. ~Apart
    BY <1>2 DEF Apart
  <2> QED
    BY <1>1, <2>2, <2>3, EitherCase DEF facts
<1>4. CASE ReadCandidates(w)
  <2> DEFINE candidates == Newest(posted \intersect ByFriend)
             new == IF candidates = {} THEN Rest
                    ELSE [worker[w] EXCEPT !.pc = "read", !.todo = candidates]
  <2>1. Update(w, new) /\ index' = index /\ At(w, "begun")
    BY <1>4 DEF ReadCandidates, Reading, Looking
  <2>2. new = Rest \/ (new.job = worker[w].job /\ new.todo = candidates)
    BY <1>1 DEF Run
  <2>3. candidates # {} => new.pc = "read"
    BY <1>1 DEF Run
  <2>4. candidates # {} => new # Rest
    BY <2>3, RestRun
  \* What is due of the older posts is a candidate.
  <2>5. ASSUME NEW p \in Due, Brings(w, p) PROVE p \in candidates
    <3>1. p \in earlier \/ p \in worker[w].todo
      BY <1>2, <2>5 DEF Brings, Doing, PostJob
    <3>2. worker[w].todo = {}
      BY <1>1, <2>1 DEF Fits
    <3> QED
      BY <2>5, <3>1, <3>2 DEF Due
  <2> HIDE DEF new, candidates
  <2> QED
    BY <1>3, <2>1, <2>2, <2>4, <2>5
\* A scan finds what is known, or seen, and no more.
<1>5. ASSUME NEW pc, pc # "idle", NEW found, found \subseteq Discussed \/ found \subseteq viewed,
             Skip(w, pc, found), index' = index, ~At(w, "begun")
      PROVE  Timeline'
  <2> DEFINE new == [worker[w] EXCEPT !.pc = pc, !.todo = @ \ found]
  <2>1. Update(w, new)
    BY <1>5 DEF Skip
  <2>2. new.pc = pc /\ new.job = worker[w].job /\ new.todo = worker[w].todo \ found
    BY <1>1 DEF Run
  <2>3. new # Rest
    BY <1>5, <2>2, RestRun
  <2> HIDE DEF new
  <2>4. ASSUME NEW p, p \notin viewed \union known, Brings(w, p)
        PROVE  p \in new.todo
    <3>1. p \in worker[w].todo
      BY <1>2, <1>5, <2>4 DEF Brings, Doing, PostJob
    <3> QED
      BY <1>1, <1>5, <2>2, <2>4, <3>1
  <2> QED
    BY <1>3, <1>5, <2>1, <2>2, <2>3, <2>4
<1>6. CASE ReadDiscussed(w) \/ ReadViewed(w)
  BY <1>5, <1>6 DEF ReadDiscussed, ReadViewed, Reading, Looking, At
<1>7. CASE ReadDiscussedPartly(w)
  BY <1>5, <1>7 DEF ReadDiscussedPartly, Looking, At
<1>8. CASE ReadViewedPartly(w)
  BY <1>5, <1>8 DEF ReadViewedPartly, At
<1>9. CASE WriteBackfill(w)
  <2>1. Update(w, Rest) /\ index' = Upsert(Seeds(w)) /\ At(w, "write")
    BY <1>9 DEF WriteBackfill, Finish
  <2>2. \A r \in index : \E n \in index' : n.post = r.post
    BY <2>1 DEF Upsert
  <2>3. ASSUME NEW p, Brings(w, p)
        PROVE  \E r \in index' : r.post = p
    <3>1. p \in worker[w].todo
      BY <1>2, <2>1, <2>3 DEF Brings, At, Doing, PostJob
    <3>2. BackfillRow(p) \in index' /\ BackfillRow(p).post = p
      BY <2>1, <3>1 DEF Upsert, Seeds, BackfillRow
    <3> QED
      BY <3>2
  <2> QED
    BY <1>3, <2>1, <2>2, <2>3
<1> QED
  BY <1>4, <1>6, <1>7, <1>8, <1>9

LEMMA RemovalTimeline ==
  ASSUME IInv, Timeline, NEW w \in Workers, RemoveFeedOnUnfriend(w)
  PROVE  Timeline'
<1>1. /\ TypeOK /\ Fits(w) /\ worker[w] \in Run /\ UNCHANGED <<facts, passed, viewed, jobs, disturbed>>
      /\ worker[w].pc \in {"begun", "scanned", "delete"}
  BY RunType DEF IInv, Progress, RemoveFeedOnUnfriend, ScanAuthored, ScanTriggered, DeleteChunk,
                 Reading, Looking, At
<1>2. Doing(w, "remove")
  BY <1>1 DEF RemoveFeedOnUnfriend, ScanAuthored, ScanTriggered, DeleteChunk, Fits
<1>3. ~Joined
  BY <1>1, <1>2 DEF Joined, At
<1>4. ASSUME Apart, NEW new, Update(w, new), index' \subseteq index,
             new = Rest \/ (new.pc # "write" /\ new.job = worker[w].job),
             Removes(w) => Removes(w)' \/ \A r \in index' : ~BecauseOf(r)
      PROVE  Apart'
  <2>1. worker'[w] = new /\ \A v \in Workers \ {w} : worker'[v] = worker[v]
    BY <1>1, <1>4, UpdateType
  <2>2. worker'[w].pc # "write" /\ worker'[w].job.kind # "backfill"
    BY <1>2, <1>4, <2>1 DEF Rest, Doing
  <2> QED
    BY <1>1, <1>4, <2>1, <2>2, ApartMoves
<1>5. ASSUME ScanAuthored(w), Apart PROVE Apart'
  <2> DEFINE new == [worker[w] EXCEPT !.pc = "scanned", !.doomed = Authored]
  <2>1. Update(w, new) /\ index' = index
    BY <1>5 DEF ScanAuthored, Reading, Looking
  <2>2. new.pc = "scanned" /\ new.job = worker[w].job /\ new.doomed = Authored
    BY <1>1 DEF Run
  <2> HIDE DEF new
  <2>3. worker'[w] = new
    BY <1>1, <2>1, UpdateType
  <2>4. Removes(w)'
    BY <1>2, <2>1, <2>2, <2>3 DEF Removes, Doing, At, Authored
  <2> QED
    BY <1>4, <1>5, <2>1, <2>2, <2>4
<1>6. ASSUME ScanTriggered(w), Apart PROVE Apart'
  <2> DEFINE doomed == worker[w].doomed \union Triggered
             new == IF doomed = {} THEN Rest
                    ELSE [worker[w] EXCEPT !.pc = "delete", !.doomed = doomed]
  <2>1. Update(w, new) /\ index' = index /\ At(w, "scanned")
    BY <1>6 DEF ScanTriggered, Reading, Looking
  <2>2. doomed # {} => new.pc = "delete" /\ new.job = worker[w].job /\ new.doomed = doomed
    BY <1>1 DEF Run
  <2>3. doomed = {} => new = Rest
    OBVIOUS
  <2>4. Removes(w) => \A r \in index : BecauseOf(r) => r \in doomed
    BY <2>1 DEF Removes, At, BecauseOf, Authored, Triggered
  <2> HIDE DEF new, doomed
  <2>5. worker'[w] = new
    BY <1>1, <2>1, UpdateType DEF new, doomed
  <2>6. Removes(w) => Removes(w)' \/ \A r \in index' : ~BecauseOf(r)
    <3>1. CASE doomed = {}
      BY <2>1, <2>4, <3>1
    <3>2. CASE doomed # {}
      BY <1>2, <2>1, <2>2, <2>4, <2>5, <3>2 DEF Removes, Doing, At, BecauseOf
    <3> QED
      BY <3>1, <3>2
  <2> QED
    BY <1>4, <1>6, <2>1, <2>2, <2>3, <2>6
<1>7. ASSUME DeleteChunk(w), Apart PROVE Apart'
  <2>1. PICK chunk \in Chunks(w) : index' = Without(chunk) /\ Deleted(w, chunk)
    BY <1>7 DEF DeleteChunk
  <2>2. At(w, "delete")
    BY <1>7 DEF DeleteChunk
  <2>3. PICK new \in Run :
          /\ Update(w, new) /\ worker'[w] = new
          /\ worker[w].doomed \subseteq chunk => new = Rest
          /\ new # Rest => /\ new.pc = worker[w].pc /\ new.job = worker[w].job
                           /\ new.doomed = worker[w].doomed \ chunk
    BY <1>1, <2>1, <2>2, DeletedType DEF At
  <2>4. index' \subseteq index /\ \A r \in index' : r \notin chunk
    BY <1>1, <2>1, ChunkGone
  <2>5. Removes(w) => Removes(w)' \/ \A r \in index' : ~BecauseOf(r)
    <3> SUFFICES ASSUME Removes(w) PROVE Removes(w)' \/ \A r \in index' : ~BecauseOf(r)
      OBVIOUS
    <3>1. \A r \in index' : BecauseOf(r) => r \in worker[w].doomed \ chunk
      BY <2>2, <2>4 DEF Removes, At
    <3>2. CASE new = Rest
      <4>1. worker[w].doomed \ chunk = {}
        <5> SUFFICES ASSUME worker[w].doomed \ chunk # {} PROVE FALSE
          OBVIOUS
        <5>1. worker'[w] = [worker[w] EXCEPT !.doomed = worker[w].doomed \ chunk]
          BY <1>1, <2>1, UpdateType DEF Deleted
        <5>2. worker'[w].pc = "delete"
          BY <1>1, <2>2, <5>1 DEF Run, At
        <5> QED
          BY <2>3, <3>2, <5>2, RestRun
      <4> QED
        BY <3>1, <4>1
    <3>3. CASE new # Rest
      BY <1>2, <2>2, <2>3, <3>1, <3>3 DEF Removes, Doing, At, BecauseOf
    <3> QED
      BY <3>2, <3>3
  <2> QED
    BY <1>4, <1>7, <2>2, <2>3, <2>4, <2>5 DEF At
<1> QED
  BY <1>1, <1>3, <1>5, <1>6, <1>7, EitherCase DEF facts, RemoveFeedOnUnfriend

LEMMA ViewTimeline ==
  ASSUME IInv, Timeline, NEW w \in Workers, SaveViews(w)
  PROVE  Timeline'
<1>1. /\ TypeOK /\ Update(w, Rest) /\ Doing(w, "view") /\ UNCHANGED <<facts, passed, jobs, disturbed>>
      /\ viewed' = viewed \union worker[w].job.post
      /\ index' = {r \in index : r.post \notin worker[w].job.post}
  BY DEF IInv, SaveViews, Finish
<1>2. worker'[w] = Rest /\ \A v \in Workers \ {w} : worker'[v] = worker[v]
  BY <1>1, UpdateType
<1>3. ~Removes(w) /\ \A p : ~Brings(w, p)
  BY <1>1 DEF Removes, Brings, Doing, PostJob
<1>4. ASSUME Joined PROVE Joined'
  <2>1. At(w, "idle")'
    BY <1>2, RestRun DEF At
  <2>2. \A job \in jobs' : job.kind # "remove"
    BY <1>1, <1>4 DEF Joined
  <2>3. viewed \subseteq viewed' /\ UNCHANGED <<jobs, posted, known, earlier, passed>>
    BY <1>1 DEF facts
  <2>4. \A r \in index : r.post \notin viewed' => \E n \in index' : n.post = r.post
    BY <1>1
  <2> QED
    BY <1>2, <1>3, <1>4, <2>1, <2>2, <2>3, <2>4, JoinedMoves
<1>5. ASSUME Apart PROVE Apart'
  <2>1. worker'[w].pc # "write" /\ worker'[w].job.kind # "backfill"
    BY <1>2 DEF Rest
  <2> QED
    BY <1>1, <1>2, <1>3, <1>5, <2>1, ApartMoves
<1> QED
  BY <1>1, <1>4, <1>5, EitherCase DEF facts

LEMMA RetractTimeline ==
  ASSUME IInv, Timeline, NEW w \in Workers, RemoveEngagementLog(w)
  PROVE  Timeline'
<1>1. /\ TypeOK /\ Fits(w) /\ worker[w] \in Run /\ discussed' \subseteq discussed
      /\ UNCHANGED <<connected, posted, known, earlier, passed, index, viewed, jobs, disturbed>>
  BY RunType DEF IInv, Progress, RemoveEngagementLog, ScanLog, DeleteLogChunk, Reading, Looking,
                 facts
<1>2. Doing(w, "retract") /\ worker[w].pc \in {"begun", "unlog"}
  BY <1>1 DEF RemoveEngagementLog, ScanLog, DeleteLogChunk, Fits, At
<1>3. worker'[w] = Rest \/ (worker'[w].pc = "unlog" /\ worker'[w].job = worker[w].job)
  <2>1. CASE ScanLog(w)
    <3> DEFINE doomed == {r \in discussed : r.act = "comment" /\ r.post \in worker[w].job.post}
               new == IF doomed = {} THEN Rest
                      ELSE [worker[w] EXCEPT !.pc = "unlog", !.doomed = doomed]
    <3>1. Update(w, new)
      BY <2>1 DEF ScanLog
    <3>2. new = Rest \/ (new.pc = "unlog" /\ new.job = worker[w].job)
      BY <1>1 DEF Run
    <3> HIDE DEF new
    <3> QED
      BY <1>1, <3>1, <3>2, UpdateType
  <2>2. CASE DeleteLogChunk(w)
    <3>1. PICK chunk \in Chunks(w) : Deleted(w, chunk)
      BY <2>2 DEF DeleteLogChunk
    <3> QED
      BY <1>1, <2>2, <3>1, DeletedType DEF DeleteLogChunk, At
  <2> QED
    BY <2>1, <2>2 DEF RemoveEngagementLog
<1>4. \A v \in Workers \ {w} : worker'[v] = worker[v]
  BY <1>1, UpdateType DEF RemoveEngagementLog, ScanLog, DeleteLogChunk, Deleted
<1>5. ~Removes(w) /\ \A p : ~Brings(w, p)
  BY <1>2 DEF Removes, Brings, Doing, PostJob
<1>6. ASSUME Joined PROVE Joined'
  <2>1. Doing(w, "remove")' => At(w, "idle")'
    BY <1>2, <1>3, RestRun DEF At, Doing
  <2>2. \A job \in jobs' : job.kind # "remove"
    BY <1>1, <1>6 DEF Joined
  <2> QED
    BY <1>1, <1>4, <1>5, <1>6, <2>1, <2>2, JoinedMoves
<1>7. ASSUME Apart PROVE Apart'
  <2>1. worker'[w].pc # "write" /\ worker'[w].job.kind # "backfill"
    BY <1>2, <1>3 DEF Rest, Doing
  <2> QED
    BY <1>1, <1>4, <1>5, <1>7, <2>1, ApartMoves
<1> QED
  BY <1>1, <1>6, <1>7, EitherCase

\* After a fault the timeline is not promised any more.
LEMMA FaultTimeline ==
  ASSUME IInv, Timeline, NEW w \in Workers, GiveUp(w) \/ Redeliver(w)
  PROVE  Timeline'
<1>1. disturbed' /\ UNCHANGED <<posted, known, earlier>> /\ discussed' \subseteq discussed
  BY PartType DEF GiveUp, Redeliver, facts
<1> QED
  BY <1>1, FewerDiscussed DEF Timeline

\* A connect or disconnect that finds nothing under way starts afresh.
LEMMA ConnectTimeline ==
  ASSUME IInv, Timeline, Connect \/ Disconnect
  PROVE  Timeline'
<1>1. /\ UNCHANGED <<posted, discussed, index, viewed, worker>>
      /\ Discussed \subseteq known' /\ disturbed' = (disturbed \/ ~Quiescent)
      /\ earlier' \subseteq posted \intersect ByFriend
  BY DEF Connect, Disconnect, Timeline
<1>2. Discussed' \subseteq known'
  BY <1>1 DEF Discussed
<1>3. CASE ~Quiescent
  BY <1>1, <1>2, <1>3 DEF Timeline
<1>4. CASE Quiescent
  <2>1. \A w \in Workers : worker'[w] = Rest
    BY <1>1, <1>4 DEF Quiescent, IInv, TypeOK
  <2>2. CASE Connect
    <3>1. jobs' = {[kind |-> "backfill", post |-> NoPost]} /\ connected'
      BY <1>4, <2>2 DEF Connect, Quiescent, Send
    <3>2. \A p \in Due' : Coming(p)'
      BY <1>1, <2>2, <3>1 DEF Connect, Due, Coming
    <3>3. Joined'
      BY <2>1, <3>1, <3>2, RestRun DEF Joined, At
    <3> QED
      BY <1>1, <1>2, <3>1, <3>3 DEF Timeline
  <2>3. CASE Disconnect
    <3>1. jobs' = {[kind |-> "remove", post |-> NoPost]} /\ ~connected'
      BY <1>4, <2>3 DEF Disconnect, Quiescent, Send
    <3>2. Apart'
      BY <2>1, <3>1 DEF Apart, At, Doing, Rest
    <3> QED
      BY <1>1, <1>2, <3>1, <3>2 DEF Timeline
  <2> QED
    BY <2>2, <2>3
<1> QED
  BY <1>3, <1>4

LEMMA OthersTimeline ==
  ASSUME IInv, Timeline,
         \/ \E p \in Posts : CreatePost(p) \/ CommentOn(p) \/ ViewPost(p)
         \/ \E r \in LogRow : Discuss(r) \/ Uncomment(r)
  PROVE  Timeline'
<1> posted \subseteq Posts
  BY DEF IInv, TypeOK
<1>1. ASSUME NEW p \in Posts, CreatePost(p) PROVE Timeline'
  <2>1. /\ UNCHANGED <<connected, disturbed, worker, index, viewed, discussed, known, earlier,
                     passed>>
        /\ jobs' = jobs \union {PostJob(p)} /\ posted' = posted \union {p}
    BY <1>1 DEF CreatePost, Send, PostJob
  <2>2. PostJob(p).kind = "post" /\ Discussed' = Discussed
    BY <2>1 DEF PostJob, Discussed
  <2> QED
    BY <2>1, <2>2, NobodyBrings DEF Timeline
<1>2. ASSUME NEW p \in Posts, CommentOn(p) \/ ViewPost(p) PROVE Timeline'
  <2>1. /\ UNCHANGED <<connected, disturbed, worker, index, viewed, discussed, known, earlier,
                     passed, posted>>
        /\ \E kind \in {"comment", "view"} : jobs' = jobs \union {[kind |-> kind, post |-> {p}]}
    BY <1>2 DEF CommentOn, ViewPost, Send, facts
  <2>2. /\ \A job \in jobs' \ jobs : job.kind \notin {"backfill", "remove"}
        /\ jobs \subseteq jobs' /\ Discussed' = Discussed
    BY <2>1 DEF Discussed
  <2> QED
    BY <2>1, <2>2, NobodyBrings DEF Timeline
<1>3. ASSUME NEW r \in LogRow, Discuss(r) PROVE Timeline'
  <2>1. /\ UNCHANGED <<connected, disturbed, worker, index, viewed, jobs, earlier, passed,
                     posted>>
        /\ discussed' = discussed \union {r} /\ known' = known \union {r.post}
    BY <1>3 DEF Discuss
  <2>2. Discussed' \subseteq known'
    BY <2>1 DEF Timeline, Discussed
  <2> QED
    BY <2>1, <2>2, NobodyBrings
<1>4. ASSUME NEW r \in LogRow, Uncomment(r) PROVE Timeline'
  <2>1. /\ UNCHANGED <<connected, disturbed, worker, index, viewed, discussed, known, earlier,
                     passed, posted>>
        /\ jobs' = jobs \union {[kind |-> "retract", post |-> {r.post}]}
    BY <1>4 DEF Uncomment, Send, facts
  <2>2. Discussed' = Discussed
    BY <2>1 DEF Discussed
  <2> QED
    BY <2>1, <2>2, NobodyBrings DEF Timeline
<1> QED
  BY <1>1, <1>2, <1>3, <1>4

LEMMA TimelineInit == Init => Timeline
<1> SUFFICES ASSUME Init PROVE Timeline
  OBVIOUS
<1>1. \A w \in Workers : ~At(w, "write") /\ ~Doing(w, "backfill")
  BY DEF Init, At, Doing, Rest
<1> QED
  BY <1>1 DEF Init, Timeline, Apart

LEMMA TimelineStep == IInv /\ Timeline /\ [Next]_vars => Timeline'
<1> SUFFICES ASSUME IInv, Timeline, [Next]_vars PROVE Timeline'
  OBVIOUS
<1>1. CASE UNCHANGED vars
  <2>1. /\ UNCHANGED <<connected, disturbed, worker, index, viewed, jobs, posted, known, earlier,
                     passed>>
        /\ Discussed' = Discussed
    BY <1>1 DEF vars, Discussed
  <2> QED
    BY <2>1, NobodyBrings DEF Timeline, IInv, TypeOK
<1>2. ASSUME NEW w \in Workers,
             Take(w) \/ BulkFanoutToCache(w) \/ RemoveFeedOnUnfriend(w) \/ SaveViews(w)
               \/ RemoveEngagementLog(w)
      PROVE  Timeline'
  BY <1>2, TakeTimeline, FanoutTimeline, RemovalTimeline, ViewTimeline, RetractTimeline
<1>3. ASSUME NEW w \in Workers, BackfillNewFriendFeed(w) \/ GiveUp(w) \/ Redeliver(w)
      PROVE  Timeline'
  BY <1>3, BackfillTimeline, FaultTimeline
<1>4. CASE Connect \/ Disconnect
  BY <1>4, ConnectTimeline
<1>5. CASE \/ \E p \in Posts : CreatePost(p) \/ CommentOn(p) \/ ViewPost(p)
           \/ \E r \in LogRow : Discuss(r) \/ Uncomment(r)
  BY <1>5, OthersTimeline
<1> QED
  BY <1>1, <1>2, <1>3, <1>4, <1>5 DEF Next

\* When the jobs are done a connected viewer has a row of each post that is due
\* (the older ones among the BackfillCandidateLimit newest, the later ones whose
\* fan-outs counted the viewer among the best 500 followers) and not seen or
\* known, and a disconnected one nothing because of the friend: for any posts,
\* limits, chunks and workers and in every order of the jobs and of their
\* queries, as long as no job fails and no connect or disconnect overtakes older
\* jobs; a failed scan of what was discussed or seen does not matter
\* (BackfillNewFriendFeed, RemoveFeedOnUnfriend).
THEOREM TimelineIsRight == Spec => []TimelineRight
<1>1. IInv /\ Timeline => TimelineRight
  <2> SUFFICES ASSUME IInv, Timeline, Quiescent, ~disturbed PROVE TimelineRight
    BY DEF TimelineRight
  <2>1. \A w \in Workers : ~Removes(w) /\ \A p : ~Brings(w, p)
    BY DEF Quiescent, Removes, Brings, At, Doing, Rest, IInv, TypeOK
  <2>2. CASE connected
    <3>1. ASSUME NEW p, Coming(p) PROVE \E r \in index : r.post = p
      BY <2>1, <3>1 DEF Coming, Quiescent
    <3> QED
      BY <2>2, <3>1 DEF Timeline, Joined, TimelineRight
  <2>3. CASE ~connected
    BY <2>1, <2>3 DEF Timeline, Apart, Quiescent, TimelineRight
  <2> QED
    BY <2>2, <2>3
<1> QED
  BY <1>1, Invariant, TimelineInit, TimelineStep, PTL DEF Spec
=============================================================================
