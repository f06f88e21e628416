---------------------------- MODULE FanoutProofs ----------------------------
(***************************************************************************)
(* Theorems about Fanout: types, that a replay writes no second row, that  *)
(* a delivery obeys the scope it has read, and that the pages of an        *)
(* activity leave nobody out.                                              *)
(***************************************************************************)
EXTENDS Fanout, FiniteSetTheorems, WellFoundedInduction, TLAPS

\* A page has a last recipient.  (P - s is a natural number that decreases as
\* s grows, and every set of natural numbers has a least element.)
LEMMA Descent == IsWellFoundedOn({ss \in Nat \X Nat : ss[1] < ss[2]}, Nat)
BY NatLessThanWellFounded DEF OpToRel

LEMMA LastOne ==
  ASSUME NEW S \in SUBSET People, S # {}
  PROVE  Max(S) \in S /\ \A s \in S : s <= Max(S)
<1> DEFINE R == {ss \in Nat \X Nat : ss[1] < ss[2]}
           T == {P - s : s \in S}
<1>1. P \in Nat /\ S \subseteq 1..P
  BY FanoutAssumption DEF People
<1>2. T \subseteq Nat /\ T # {}
  <2>1. \A s \in S : P - s \in Nat
    BY <1>1
  <2>2. PICK s \in S : TRUE
    OBVIOUS
  <2>3. P - s \in T
    OBVIOUS
  <2> QED
    BY <2>1, <2>3
<1>3. PICK x \in T : \A y \in T : ~ (<<y, x>> \in R)
  <2> HIDE DEF T
  <2> QED
    BY <1>2, Descent, WFMin
<1>4. PICK m \in S : x = P - m
  BY <1>3
<1>5. \A s \in S : s <= m
  <2> SUFFICES ASSUME NEW s \in S PROVE s <= m
    OBVIOUS
  <2>1. P - s \in T
    OBVIOUS
  <2>2. ~(P - s < x)
    BY <1>1, <1>2, <1>3, <2>1
  <2> QED
    BY <1>1, <1>4, <2>2
<1> QED
  BY <1>1, <1>4, <1>5 DEF Max

(***************************************************************************)
(* How a worker moves.                                                     *)
(***************************************************************************)
LEMMA IdleType == Idle \in Handling /\ Idle.pc = "idle" /\ Idle.job = FirstJob /\ FirstJob.at = 0
BY FanoutAssumption DEF Idle, Handling, FirstJob, Job

LEMMA WorkerType ==
  ASSUME TypeOK, NEW w \in Workers
  PROVE  /\ worker[w] \in Handling /\ worker[w].job \in Job
         /\ worker[w].scope \subseteq Scenario /\ worker[w].ids \subseteq People
BY DEF TypeOK, Handling

LEMMA UpdateType ==
  ASSUME TypeOK, NEW w \in Workers, NEW new \in Handling, Update(w, new)
  PROVE  /\ worker' \in [Workers -> Handling] /\ worker'[w] = new
         /\ \A v \in Workers \ {w} : worker'[v] = worker[v]
BY DEF TypeOK, Update

LEMMA StampType ==
  ASSUME NEW p \in Scenario, NEW job \in Job
  PROVE  Stamp(p, job) \in {0, 1}
BY DEF Stamp, Scenario, Job

LEMMA FinishedType ==
  ASSUME TypeOK, NEW w \in Workers
  PROVE  Finished(w) \in Handling /\ Finished(w).pc = "done" /\ Finished(w).job = worker[w].job
BY WorkerType, IdleType DEF Finished, Handling

LEMMA PagingType ==
  ASSUME TypeOK, NEW w \in Workers, NEW p \in Scenario
  PROVE  /\ Paging(w, p) \in Handling /\ Paging(w, p).job = worker[w].job
         /\ \/ Stamp(p, worker[w].job) = 0 /\ Paging(w, p).pc = "done"
            \/ /\ Stamp(p, worker[w].job) # 0
               /\ Paging(w, p).pc = "scoped" /\ Paging(w, p).scope = {p}
<1>1. worker[w] \in Handling
  BY WorkerType
<1>2. [worker[w] EXCEPT !.pc = "scoped", !.scope = {p}] \in Handling
  BY <1>1 DEF Handling
<1>3. /\ [worker[w] EXCEPT !.pc = "scoped", !.scope = {p}].pc = "scoped"
      /\ [worker[w] EXCEPT !.pc = "scoped", !.scope = {p}].scope = {p}
      /\ [worker[w] EXCEPT !.pc = "scoped", !.scope = {p}].job = worker[w].job
  BY <1>1 DEF Handling
<1> QED
  BY <1>2, <1>3, FinishedType DEF Paging

\* Where a step takes the worker that takes it.
Moved(w) ==
  worker' \in [Workers -> Handling] /\ \A v \in Workers \ {w} : worker'[v] = worker[v]

LEMMA BeginMove ==
  ASSUME TypeOK, NEW w \in Workers, Begin(w)
  PROVE  /\ Moved(w) /\ worker'[w].pc = "begun"
         /\ queue[worker'[w].job] > 0
         /\ queue' = [queue EXCEPT ![worker'[w].job] = @ - 1]
<1>1. PICK job \in Job :
        /\ queue[job] > 0 /\ queue' = [queue EXCEPT ![job] = @ - 1]
        /\ Update(w, [Idle EXCEPT !.pc = "begun", !.job = job])
  BY DEF Begin
<1>2. /\ [Idle EXCEPT !.pc = "begun", !.job = job] \in Handling
      /\ [Idle EXCEPT !.pc = "begun", !.job = job].pc = "begun"
      /\ [Idle EXCEPT !.pc = "begun", !.job = job].job = job
  BY IdleType DEF Handling
<1> QED
  BY <1>1, <1>2, UpdateType DEF Moved

LEMMA ReadScopeMove ==
  ASSUME TypeOK, NEW w \in Workers, ReadScope(w)
  PROVE  /\ Moved(w) /\ worker'[w].job = worker[w].job
         /\ \/ worker'[w].pc = "done" /\ (post.state # "live" \/ Stamp(post, worker[w].job) = 0)
            \/ /\ post.state = "live" /\ worker'[w].scope = {post}
               /\ \/ worker'[w].pc = "actor" /\ post.job = "comment"
                  \/ /\ worker'[w].pc = "scoped" /\ post.job # "comment"
                     /\ Stamp(post, worker[w].job) # 0
<1>1. post \in Scenario /\ worker[w] \in Handling
  BY WorkerType DEF TypeOK
<1>2. CASE post.state # "live"
  BY <1>2, FinishedType, UpdateType DEF ReadScope, Moved
<1>3. CASE post.state = "live" /\ post.job = "comment"
  <2> DEFINE new == [worker[w] EXCEPT !.pc = "actor", !.scope = {post}]
  <2>1. new \in Handling /\ new.pc = "actor" /\ new.scope = {post} /\ new.job = worker[w].job
    BY <1>1 DEF Handling
  <2>2. Update(w, new)
    BY <1>3 DEF ReadScope
  <2> HIDE DEF new
  <2> QED
    BY <1>3, <2>1, <2>2, UpdateType DEF Moved
<1>4. CASE post.state = "live" /\ post.job # "comment"
  <2>1. Update(w, Paging(w, post))
    BY <1>4 DEF ReadScope
  <2> QED
    BY <1>1, <1>4, <2>1, PagingType, UpdateType DEF Moved
<1> QED
  BY <1>2, <1>3, <1>4

LEMMA ReadActorMove ==
  ASSUME TypeOK, NEW w \in Workers, ReadActor(w), Scope(w) \in Scenario
  PROVE  /\ Moved(w) /\ worker'[w].job = worker[w].job
         /\ \/ /\ worker'[w].pc = "done"
               /\ post.comment # "shown" \/ Stamp(Scope(w), worker[w].job) = 0
            \/ /\ worker'[w].pc = "scoped" /\ worker'[w].scope = {Scope(w)}
               /\ post.comment = "shown" /\ Stamp(Scope(w), worker[w].job) # 0
<1>1. CASE post.comment # "shown"
  BY <1>1, FinishedType, UpdateType DEF ReadActor, Moved
<1>2. CASE post.comment = "shown"
  <2>1. Update(w, Paging(w, Scope(w)))
    BY <1>2 DEF ReadActor
  <2> QED
    BY <1>2, <2>1, PagingType, UpdateType DEF Moved
<1> QED
  BY <1>1, <1>2

LEMMA ReadPageMove ==
  ASSUME TypeOK, NEW w \in Workers, ReadPage(w)
  PROVE  /\ Moved(w) /\ worker'[w].job = worker[w].job
         /\ \E ids \in SUBSET People :
              /\ IsPage(ids, Audience(Scope(w)), worker[w].job.after)
              /\ \/ ids = {} /\ worker'[w].pc = "done"
                 \/ /\ ids # {} /\ worker'[w].pc = "paged" /\ worker'[w].ids = ids
                    /\ worker'[w].scope = worker[w].scope
<1>1. PICK ids \in SUBSET People :
        /\ IsPage(ids, Audience(Scope(w)), worker[w].job.after)
        /\ Update(w, IF ids = {} THEN Finished(w)
                     ELSE [worker[w] EXCEPT !.pc = "paged", !.ids = ids])
  BY DEF ReadPage
<1>2. CASE ids = {}
  BY <1>1, <1>2, FinishedType, UpdateType DEF Moved
<1>3. CASE ids # {}
  <2> DEFINE new == [worker[w] EXCEPT !.pc = "paged", !.ids = ids]
  <2>1. /\ new \in Handling /\ new.pc = "paged" /\ new.ids = ids /\ new.job = worker[w].job
        /\ new.scope = worker[w].scope
    BY WorkerType DEF Handling
  <2>2. Update(w, new)
    BY <1>1, <1>3
  <2> HIDE DEF new
  <2> QED
    BY <1>1, <1>3, <2>1, <2>2, UpdateType DEF Moved
<1> QED
  BY <1>2, <1>3

LEMMA EmitMove ==
  ASSUME TypeOK, NEW w \in Workers, Emit(w)
  PROVE  /\ Moved(w) /\ worker'[w].job = worker[w].job
         /\ \/ worker'[w].pc = "done" /\ Cardinality(worker[w].ids) < Batch
            \/ /\ worker'[w].pc = "written" /\ worker'[w].scope = worker[w].scope
               /\ worker'[w].ids = worker[w].ids
<1>1. CASE Cardinality(worker[w].ids) < Batch
  BY <1>1, FinishedType, UpdateType DEF Emit, Moved
<1>2. CASE ~(Cardinality(worker[w].ids) < Batch)
  <2> DEFINE new == [worker[w] EXCEPT !.pc = "written"]
  <2>1. /\ new \in Handling /\ new.pc = "written" /\ new.ids = worker[w].ids
        /\ new.job = worker[w].job /\ new.scope = worker[w].scope
    BY WorkerType DEF Handling
  <2>2. Update(w, new)
    BY <1>2 DEF Emit
  <2> HIDE DEF new
  <2> QED
    BY <2>1, <2>2, UpdateType DEF Moved
<1> QED
  BY <1>1, <1>2

\* The worker has handed the job on, or given it back.
LEMMA LeaveMove ==
  ASSUME TypeOK, NEW w \in Workers, Enqueue(w) \/ Done(w) \/ Fail(w) \/ EnqueueUncertain(w)
  PROVE  /\ Moved(w)
         /\ \/ worker'[w].pc = "done" /\ worker'[w].job = worker[w].job
            \/ worker'[w].pc = "idle" /\ worker'[w].job = FirstJob
BY FinishedType, IdleType, UpdateType DEF Enqueue, Done, Fail, EnqueueUncertain, Moved

(***************************************************************************)
(* The invariant: what a worker has read of the post is of this activity,  *)
(* and says no more than it passed.  Every job and every row bears the     *)
(* time of the activity.                                                   *)
(***************************************************************************)
Reading == {"actor", "scoped", "paged", "written"}

\* p is a version of the post that could be fanned out when it was read.
Seen(p) ==
  /\ p \in Scenario
  /\ p.job = post.job /\ p.actor = post.actor /\ p.community = post.community
  /\ p.own = post.own /\ p.anonymous = post.anonymous /\ p.posted = post.posted
  /\ p.state = "live"
  /\ post.comment = "shown" => p.comment = "shown"
  /\ (\E r \in People : <<"follower", r>> \in steady) => HasFollowerID(p)

Told(w) ==
  LET me == worker[w]
      p == Scope(w) IN
    /\ me.job.at \in {0, post.posted}
    /\ me.pc \in Reading => me.scope = {p} /\ Seen(p)
    /\ me.pc = "actor" => p.job = "comment"
    /\ me.pc \in Reading \ {"actor"} =>
         Stamp(p, me.job) # 0 /\ (p.job = "comment" => p.comment = "shown")
    /\ me.pc \in {"paged", "written"} =>
         me.ids # {} /\ \A i \in me.ids : AllowsFollowerFanout(p) \/ i \in joined

Times ==
  /\ \A job \in Job : queue[job] > 0 => job.at \in {0, post.posted}
  /\ \A row \in rows : row.at = post.posted

Past == members \subseteq joined /\ steady \subseteq Ways(post) /\ (eligible => Eligible(post))

Sound == TypeOK /\ Past /\ Times /\ \A w \in Workers : Told(w)

\* How the rest of the system changes under a worker.
Onward ==
  /\ post' \in Scenario
  /\ post'.job = post.job /\ post'.actor = post.actor /\ post'.community = post.community
  /\ post'.own = post.own /\ post'.anonymous = post.anonymous /\ post'.posted = post.posted
  /\ post'.comment = "shown" => post.comment = "shown"
  /\ steady' \subseteq steady /\ joined \subseteq joined'
  /\ eligible' => eligible
  /\ Past'

LEMMA WaysType ==
  ASSUME members \subseteq People, NEW p
  PROVE  Ways(p) \subseteq {"member", "follower"} \X People
<1> SUFFICES ASSUME NEW way \in Ways(p) PROVE way \in {"member", "follower"} \X People
  OBVIOUS
<1>1. CASE \E r \in People : way = <<"member", r>>
  BY <1>1
<1>2. CASE \E r \in People : way = <<"follower", r>>
  BY <1>2
<1>3. Followers \subseteq People
  BY DEF Followers
<1> QED
  BY <1>1, <1>2, <1>3 DEF Ways

LEMMA ChangeOnward ==
  ASSUME Sound, \/ \E r \in People : Membership(r) \/ Follow(r)
                \/ ChangePost
  PROVE  Onward /\ TypeOK' /\ UNCHANGED <<queue, worker, rows>>
<1>1. TypeOK /\ Past
  BY DEF Sound
<1>2. /\ post' \in Scenario
      /\ post'.job = post.job /\ post'.actor = post.actor /\ post'.community = post.community
      /\ post'.own = post.own /\ post'.anonymous = post.anonymous /\ post'.posted = post.posted
      /\ post'.comment = "shown" => post.comment = "shown"
  <2>1. CASE post' = post
    BY <1>1, <2>1 DEF TypeOK
  <2>2. CASE ChangePost
    BY <1>1, <2>2 DEF ChangePost, TypeOK, Scenario
  <2> QED
    BY <2>1, <2>2 DEF Membership, Follow
<1>3. members' \in SUBSET People /\ score' \in [People -> 0..MaxScore]
  BY <1>1 DEF TypeOK, Membership, Follow, ChangePost
<1>4. Change
  BY DEF Membership, Follow, ChangePost
<1>5. /\ steady' = steady \intersect Ways(post)' /\ joined' = joined \union members'
      /\ eligible' = (eligible /\ Eligible(post)') /\ UNCHANGED <<queue, worker, rows, faults>>
      /\ changes' = changes + 1 /\ changes < MaxChanges
  BY <1>4 DEF Change
<1>6. Onward
  BY <1>1, <1>2, <1>5 DEF Onward, Past
<1>7. TypeOK'
  BY <1>1, <1>2, <1>3, <1>5, FanoutAssumption DEF TypeOK
<1> QED
  BY <1>5, <1>6, <1>7

\* A step of a worker.
LEMMA WorkOnward ==
  ASSUME Sound, UNCHANGED <<post, members, score, steady, joined, eligible>>
  PROVE  Onward
BY DEF Sound, TypeOK, Onward, Past, Eligible, Ways, HasFollowerID, AllowsFollowerFanout,
       Followers, Ahead

LEMMA SeenStays ==
  ASSUME Onward, NEW p, Seen(p)
  PROVE  Seen(p)'
BY DEF Onward, Seen, HasFollowerID, AllowsFollowerFanout

LEMMA ToldStays ==
  ASSUME Sound, Onward, NEW w \in Workers, worker'[w] = worker[w]
  PROVE  Told(w)'
<1>1. Told(w) /\ Scope(w)' = Scope(w)
  BY DEF Sound, Scope
<1> QED
  BY <1>1, SeenStays DEF Told, Onward, Reading, AllowsFollowerFanout

\* The time of the activity.
LEMMA StampRight ==
  ASSUME Sound, NEW p, p.posted = post.posted, NEW job \in Job, job.at \in {0, post.posted}
  PROVE  Stamp(p, job) = post.posted
BY DEF Stamp

LEMMA RowsRight ==
  ASSUME Sound, NEW w \in Workers, At(w, "paged")
  PROVE  /\ RowsOf(w) \subseteq Row
         /\ \A row \in RowsOf(w) : row.at = post.posted /\ row.to \in worker[w].ids
         /\ Scope(w) \in Scenario /\ Seen(Scope(w))
<1>1. Seen(Scope(w)) /\ Scope(w) \in Scenario /\ worker[w].job.at \in {0, post.posted}
  BY DEF Sound, Told, At, Reading, Seen
<1>2. TypeOK /\ worker[w].job \in Job /\ worker[w].ids \subseteq People
  BY WorkerType DEF Sound
<1>3. Stamp(Scope(w), worker[w].job) = post.posted
  BY <1>1, <1>2, StampRight DEF Seen
<1>4. post.posted \in {0, 1}
  BY <1>2 DEF TypeOK, Scenario
<1> QED
  BY <1>1, <1>2, <1>3, <1>4 DEF RowsOf, Row

LEMMA ContinuationRight ==
  ASSUME Sound, NEW w \in Workers, At(w, "written")
  PROVE  /\ Continuation(w) \in Job /\ Continuation(w).at = post.posted
         /\ Continuation(w).after = Max(worker[w].ids)
         /\ \A i \in worker[w].ids : i <= Max(worker[w].ids)
         /\ Max(worker[w].ids) \in worker[w].ids
<1>1. Seen(Scope(w)) /\ worker[w].job.at \in {0, post.posted} /\ worker[w].ids # {}
  BY DEF Sound, Told, At, Reading
<1>2. TypeOK /\ worker[w].job \in Job /\ worker[w].ids \subseteq People
  BY WorkerType DEF Sound
<1>3. Stamp(Scope(w), worker[w].job) = post.posted /\ post.posted \in {0, 1}
  BY <1>1, <1>2, StampRight DEF Seen, TypeOK, Scenario
<1>4. /\ Max(worker[w].ids) \in worker[w].ids
      /\ \A i \in worker[w].ids : i <= Max(worker[w].ids)
  BY <1>1, <1>2, LastOne
<1>5. Max(worker[w].ids) \in 0..P
  BY <1>2, <1>4, FanoutAssumption DEF People
<1> QED
  BY <1>3, <1>4, <1>5 DEF Continuation, Job

LEMMA SoundInit == Init => Sound
<1> SUFFICES ASSUME Init PROVE Sound
  OBVIOUS
<1>1. post \in Scenario /\ members \subseteq People /\ score \in [People -> 0..MaxScore]
  BY FanoutAssumption DEF Init
<1>2. TypeOK
  <2>1. queue \in [Job -> Nat] /\ worker \in [Workers -> Handling] /\ rows \subseteq Row
    BY IdleType DEF Init
  <2>2. faults \in 0..MaxFaults /\ changes \in 0..MaxChanges
    BY FanoutAssumption DEF Init
  <2>3. steady \subseteq {"member", "follower"} \X People
    BY <1>1, WaysType DEF Init
  <2>4. eligible \in BOOLEAN
    BY DEF Init, Eligible
  <2>5. joined \subseteq People
    BY <1>1 DEF Init
  <2> QED
    BY <1>1, <2>1, <2>2, <2>3, <2>4, <2>5 DEF TypeOK
<1>3. Past
  BY DEF Init, Past
<1>4. Times
  BY IdleType DEF Init, Times
<1>5. ASSUME NEW w \in Workers PROVE Told(w)
  BY IdleType DEF Init, Told, Reading
<1> QED
  BY <1>2, <1>3, <1>4, <1>5 DEF Sound

\* A step of a worker keeps the invariant if it leaves that worker well told,
\* the queue and the rows with the right times.
LEMMA WorkSound ==
  ASSUME Sound, NEW w \in Workers, Moved(w),
         UNCHANGED <<post, members, score, changes, steady, joined, eligible>>,
         Told(w)', Times', queue' \in [Job -> Nat], rows' \subseteq Row,
         faults' \in 0..MaxFaults
  PROVE  Sound'
<1>1. Onward
  BY WorkOnward
<1>2. ASSUME NEW v \in Workers, v # w PROVE Told(v)'
  BY <1>1, <1>2, ToldStays DEF Moved
<1>3. TypeOK'
  BY DEF Sound, TypeOK, Moved
<1> QED
  BY <1>1, <1>2, <1>3 DEF Sound, Onward

LEMMA SoundStep == Sound /\ [Next]_vars => Sound'
<1> SUFFICES ASSUME Sound, [Next]_vars PROVE Sound'
  OBVIOUS
<1> USE DEF db, history
<1>1. TypeOK /\ Times /\ Past
  BY DEF Sound
<1>2. CASE UNCHANGED vars
  <2>1. Onward
    BY <1>2, WorkOnward DEF vars
  <2>2. \A w \in Workers : Told(w)'
    BY <1>2, <2>1, ToldStays DEF vars
  <2> QED
    BY <1>1, <1>2, <2>1, <2>2 DEF vars, Sound, TypeOK, Times, Onward
<1>3. CASE (\E r \in People : Membership(r) \/ Follow(r)) \/ ChangePost
  <2>1. Onward /\ TypeOK' /\ UNCHANGED <<queue, worker, rows>>
    BY <1>3, ChangeOnward
  <2>2. \A w \in Workers : Told(w)'
    BY <2>1, ToldStays
  <2> QED
    BY <1>1, <2>1, <2>2 DEF Sound, Times, Onward
<1>4. ASSUME NEW w \in Workers
      PROVE  Told(w) /\ worker[w].job \in Job /\ worker[w].job.at \in {0, post.posted}
  BY <1>1, WorkerType DEF Sound, Told
\* Where a worker that is done or idle ends is well told.
<1>5. ASSUME NEW w \in Workers, UNCHANGED <<post>>,
             \/ worker'[w].pc = "done" /\ worker'[w].job = worker[w].job
             \/ worker'[w].pc = "idle" /\ worker'[w].job = FirstJob
      PROVE  Told(w)'
  BY <1>4, <1>5, IdleType DEF Told, Reading
\* The job a worker gives back is as it was.
<1>6. ASSUME NEW w \in Workers, UNCHANGED <<post, rows>>,
             queue' = [queue EXCEPT ![worker[w].job] = @ + 1]
      PROVE  Times' /\ queue' \in [Job -> Nat]
  BY <1>1, <1>4, <1>6 DEF Times, TypeOK
<1>7. ASSUME NEW w \in Workers, Begin(w) PROVE Sound'
  <2>1. /\ Moved(w) /\ worker'[w].pc = "begun" /\ queue[worker'[w].job] > 0
        /\ queue' = [queue EXCEPT ![worker'[w].job] = @ - 1]
    BY <1>1, <1>7, BeginMove
  <2>2. worker'[w].job \in Job
    BY <2>1 DEF Moved, Handling
  <2>3. Told(w)'
    BY <1>1, <1>7, <2>1, <2>2 DEF Times, Told, Reading, Begin
  <2>4. queue' \in [Job -> Nat] /\ \A job \in Job : queue'[job] > 0 => queue[job] > 0
    BY <1>1, <2>1, <2>2 DEF TypeOK
  <2>5. Times'
    BY <1>1, <1>7, <2>4 DEF Times, Begin
  <2> QED
    BY <1>1, <1>7, <2>1, <2>3, <2>4, <2>5, WorkSound DEF Begin, TypeOK
<1>8. ASSUME NEW w \in Workers, ReadScope(w) PROVE Sound'
  <2>1. Told(w)'
    <3>1. CASE worker'[w].pc = "done"
      BY <1>1, <1>5, <1>8, <3>1, ReadScopeMove DEF ReadScope
    <3>2. CASE worker'[w].pc # "done"
      <4>1. /\ post.state = "live" /\ worker'[w].scope = {post} /\ worker'[w].job = worker[w].job
            /\ \/ worker'[w].pc = "actor" /\ post.job = "comment"
               \/ /\ worker'[w].pc = "scoped" /\ post.job # "comment"
                  /\ Stamp(post, worker[w].job) # 0
        BY <1>1, <1>8, <3>2, ReadScopeMove
      <4>2. Scope(w)' = post
        BY <4>1 DEF Scope
      <4>3. Seen(post)
        BY <1>1, <4>1 DEF Seen, TypeOK, Past, Ways
      <4>4. UNCHANGED <<post, steady, joined>>
        BY <1>8 DEF ReadScope
      <4>5. Seen(post)'
        BY <4>3, <4>4 DEF Seen, HasFollowerID, AllowsFollowerFanout
      <4> QED
        BY <1>4, <4>1, <4>2, <4>4, <4>5 DEF Told, Reading, Stamp
    <3> QED
      BY <3>1, <3>2
  <2>2. Times'
    BY <1>1, <1>8 DEF Times, ReadScope
  <2> QED
    BY <1>1, <1>8, <2>1, <2>2, ReadScopeMove, WorkSound DEF ReadScope, TypeOK
<1>9. ASSUME NEW w \in Workers, ReadActor(w) PROVE Sound'
  <2>1. Seen(Scope(w)) /\ Scope(w) \in Scenario
    BY <1>4, <1>9 DEF ReadActor, At, Told, Reading, Seen
  <2>2. Told(w)'
    <3>1. CASE worker'[w].pc = "done"
      BY <1>1, <1>5, <1>9, <2>1, <3>1, ReadActorMove DEF ReadActor
    <3>2. CASE worker'[w].pc # "done"
      <4>1. /\ worker'[w].pc = "scoped" /\ worker'[w].scope = {Scope(w)}
            /\ worker'[w].job = worker[w].job
            /\ post.comment = "shown" /\ Stamp(Scope(w), worker[w].job) # 0
        BY <1>1, <1>9, <2>1, <3>2, ReadActorMove
      <4>2. Scope(w)' = Scope(w)
        BY <4>1 DEF Scope
      <4>3. UNCHANGED <<post, steady, joined>>
        BY <1>9 DEF ReadActor
      <4>4. Seen(Scope(w))'
        BY <2>1, <4>2, <4>3 DEF Seen, HasFollowerID, AllowsFollowerFanout
      <4>5. Scope(w).comment = "shown"
        BY <2>1, <4>1 DEF Seen
      <4> QED
        BY <1>4, <4>1, <4>2, <4>3, <4>4, <4>5 DEF Told, Reading, Stamp
    <3> QED
      BY <3>1, <3>2
  <2>3. Times'
    BY <1>1, <1>9 DEF Times, ReadActor
  <2> QED
    BY <1>1, <1>9, <2>1, <2>2, <2>3, ReadActorMove, WorkSound DEF ReadActor, TypeOK
<1>10. ASSUME NEW w \in Workers, ReadPage(w) PROVE Sound'
  <2>1. PICK ids \in SUBSET People :
          /\ IsPage(ids, Audience(Scope(w)), worker[w].job.after)
          /\ \/ ids = {} /\ worker'[w].pc = "done"
             \/ /\ ids # {} /\ worker'[w].pc = "paged" /\ worker'[w].ids = ids
                /\ worker'[w].scope = worker[w].scope
    BY <1>1, <1>10, ReadPageMove
  <2>2. Moved(w) /\ worker'[w].job = worker[w].job
    BY <1>1, <1>10, ReadPageMove
  <2>3. UNCHANGED <<post, steady, joined>>
    BY <1>10 DEF ReadPage
  <2>4. Told(w)'
    <3>1. CASE ids = {}
      BY <1>5, <2>1, <2>2, <2>3, <3>1
    <3>2. CASE ids # {}
      <4>1. Scope(w)' = Scope(w)
        BY <2>1, <3>2 DEF Scope
      <4>2. Seen(Scope(w)) /\ worker[w].scope = {Scope(w)} /\ Stamp(Scope(w), worker[w].job) # 0
            /\ (Scope(w).job = "comment" => Scope(w).comment = "shown")
        BY <1>4, <1>10 DEF ReadPage, At, Told, Reading
      <4>3. Seen(Scope(w))'
        BY <2>3, <4>1, <4>2 DEF Seen, HasFollowerID, AllowsFollowerFanout
      <4>4. ids \subseteq Audience(Scope(w))
        BY <2>1 DEF IsPage
      <4>5. \A i \in ids : AllowsFollowerFanout(Scope(w)) \/ i \in joined
        BY <1>1, <4>4 DEF Audience, HasFollowerID, Past
      <4>6. AllowsFollowerFanout(Scope(w))' = AllowsFollowerFanout(Scope(w))
        BY <4>1 DEF AllowsFollowerFanout
      <4>7. Stamp(Scope(w), worker[w].job)' = Stamp(Scope(w), worker[w].job)
        BY <2>2, <4>1 DEF Stamp
      <4> QED
        BY <1>4, <2>1, <2>2, <2>3, <3>2, <4>1, <4>2, <4>3, <4>5, <4>6, <4>7 DEF Told, Reading
    <3> QED
      BY <3>1, <3>2
  <2>5. Times'
    BY <1>1, <1>10 DEF Times, ReadPage
  <2> QED
    BY <1>1, <1>10, <2>2, <2>4, <2>5, WorkSound DEF ReadPage, TypeOK
<1>11. ASSUME NEW w \in Workers, Emit(w) PROVE Sound'
  <2>1. Told(w)'
    <3>1. CASE worker'[w].pc = "done"
      BY <1>1, <1>5, <1>11, <3>1, EmitMove DEF Emit
    <3>2. CASE worker'[w].pc # "done"
      <4>1. /\ worker'[w].pc = "written" /\ worker'[w].scope = worker[w].scope
            /\ worker'[w].ids = worker[w].ids /\ worker'[w].job = worker[w].job
        BY <1>1, <1>11, <3>2, EmitMove
      <4>2. Scope(w)' = Scope(w) /\ UNCHANGED <<post, steady, joined>> /\ worker[w].pc = "paged"
        BY <1>11, <4>1 DEF Scope, Emit, At
      <4>3. Seen(Scope(w)) => Seen(Scope(w))'
        BY <4>2 DEF Seen, HasFollowerID, AllowsFollowerFanout
      <4>4. AllowsFollowerFanout(Scope(w))' = AllowsFollowerFanout(Scope(w))
        BY <4>2 DEF AllowsFollowerFanout
      <4>5. Stamp(Scope(w), worker[w].job)' = Stamp(Scope(w), worker[w].job)
        BY <4>1, <4>2 DEF Stamp
      <4> QED
        BY <1>4, <4>1, <4>2, <4>3, <4>4, <4>5 DEF Told, Reading
    <3> QED
      BY <3>1, <3>2
  <2>2. Times' /\ rows' \subseteq Row
    BY <1>1, <1>11, RowsRight DEF Times, Emit, TypeOK
  <2> QED
    BY <1>1, <1>11, <2>1, <2>2, EmitMove, WorkSound DEF Emit, TypeOK
<1>12. ASSUME NEW w \in Workers, Enqueue(w) PROVE Sound'
  <2>1. Times' /\ queue' \in [Job -> Nat]
    BY <1>1, <1>12, ContinuationRight DEF Enqueue, Times, TypeOK
  <2>2. Told(w)'
    BY <1>1, <1>5, <1>12, LeaveMove DEF Enqueue
  <2> QED
    BY <1>1, <1>12, <2>1, <2>2, LeaveMove, WorkSound DEF Enqueue, TypeOK
<1>13. ASSUME NEW w \in Workers, Done(w) PROVE Sound'
  <2>1. Times'
    BY <1>1, <1>13 DEF Done, Times
  <2>2. Told(w)'
    BY <1>1, <1>5, <1>13, LeaveMove DEF Done
  <2> QED
    BY <1>1, <1>13, <2>1, <2>2, LeaveMove, WorkSound DEF Done, TypeOK
<1>14. ASSUME NEW w \in Workers, Fail(w) PROVE Sound'
  <2>1. rows' \subseteq Row /\ \A row \in rows' : row.at = post.posted
    BY <1>1, <1>14, RowsRight DEF Fail, Times, TypeOK
  <2>2. queue' \in [Job -> Nat] /\ \A job \in Job : queue'[job] > 0 => job.at \in {0, post.posted}
    BY <1>1, <1>4, <1>14 DEF Fail, Times, TypeOK
  <2>3. Told(w)'
    BY <1>1, <1>5, <1>14, LeaveMove DEF Fail
  <2>4. Times'
    BY <1>14, <2>1, <2>2 DEF Fail, Times
  <2>5. faults' \in 0..MaxFaults
    BY <1>1, <1>14, FanoutAssumption DEF Fail, Fault, TypeOK
  <2> QED
    BY <1>1, <1>14, <2>1, <2>2, <2>3, <2>4, <2>5, LeaveMove, WorkSound DEF Fail
<1>15. ASSUME NEW w \in Workers, EnqueueUncertain(w) PROVE Sound'
  <2>1. queue' \in [Job -> Nat] /\ \A job \in Job : queue'[job] > 0 => job.at \in {0, post.posted}
    BY <1>1, <1>4, <1>15, ContinuationRight DEF EnqueueUncertain, Times, TypeOK
  <2>2. Told(w)'
    BY <1>1, <1>5, <1>15, LeaveMove DEF EnqueueUncertain
  <2>3. Times'
    BY <1>1, <1>15, <2>1 DEF EnqueueUncertain, Times
  <2>4. faults' \in 0..MaxFaults
    BY <1>1, <1>15, FanoutAssumption DEF EnqueueUncertain, Fault, TypeOK
  <2> QED
    BY <1>1, <1>15, <2>1, <2>2, <2>3, <2>4, LeaveMove, WorkSound DEF EnqueueUncertain, TypeOK
<1>16. ASSUME NEW w \in Workers, Redeliver(w) PROVE Sound'
  <2>1. Times' /\ queue' \in [Job -> Nat]
    BY <1>6, <1>16 DEF Redeliver
  <2>2. Onward /\ UNCHANGED <<worker, rows>>
    BY <1>16, WorkOnward DEF Redeliver
  <2>3. \A v \in Workers : Told(v)'
    BY <2>2, ToldStays
  <2>4. faults' \in 0..MaxFaults
    BY <1>1, <1>16, FanoutAssumption DEF Redeliver, Fault, TypeOK
  <2>5. TypeOK'
    BY <1>1, <1>16, <2>1, <2>4 DEF Redeliver, TypeOK
  <2> QED
    BY <2>1, <2>2, <2>3, <2>5 DEF Sound, Onward
<1> QED
  BY <1>2, <1>3, <1>7, <1>8, <1>9, <1>10, <1>11, <1>12, <1>13, <1>14, <1>15, <1>16
  DEF Next, Deliver

\* Fanout is type correct for any audience, page size and activity.
THEOREM TypeCorrect == Spec => []TypeOK
<1>1. Sound => TypeOK
  BY DEF Sound
<1> QED
  BY <1>1, SoundInit, SoundStep, PTL DEF Spec

\* Replaying a page, a job or a continuation any number of times gives nobody
\* a second row of the activity (community.go:95-97).
THEOREM NoSecondRow == Spec => []OneRowEach
<1>1. Sound => OneRowEach
  <2> SUFFICES ASSUME Sound, NEW a \in rows, NEW b \in rows, a.to = b.to PROVE a = b
    BY DEF OneRowEach
  <2>1. a \in Row /\ b \in Row /\ a.at = b.at
    BY DEF Sound, TypeOK, Times
  <2> QED
    BY <2>1 DEF Row
<1> QED
  BY <1>1, SoundInit, SoundStep, PTL DEF Spec

(***************************************************************************)
(* Scope.                                                                  *)
(***************************************************************************)
LEMMA RowsObey ==
  ASSUME Sound, [Next]_vars, \A w \in Workers : worker[w].scope \subseteq {post},
         NEW row \in rows' \ rows
  PROVE  Eligible(post) /\ (AllowsFollowerFanout(post) \/ row.to \in joined)
<1> USE DEF db, history
<1>1. PICK w \in Workers : At(w, "paged") /\ row \in RowsOf(w)
  <2>1. PICK w \in Workers : Emit(w) \/ Fail(w)
    BY DEF vars, Next, Deliver, Begin, ReadScope, ReadActor, ReadPage, Enqueue, Done, Redeliver,
           EnqueueUncertain, Membership, Follow, ChangePost, Change
  <2> QED
    BY <2>1 DEF Emit, Fail
<1>2. Told(w) /\ worker[w].pc = "paged" /\ row.to \in worker[w].ids
  BY <1>1, RowsRight DEF Sound, At
<1>3. Scope(w) = post
  BY <1>2 DEF Told, Reading
<1>4. Seen(post) /\ Stamp(post, worker[w].job) # 0 /\ (post.job = "comment" => post.comment = "shown")
      /\ (AllowsFollowerFanout(post) \/ row.to \in joined)
  BY <1>2, <1>3 DEF Told, Reading
<1>5. post.posted # 0
  BY <1>2, <1>4 DEF Told, Stamp
<1> QED
  BY <1>4, <1>5 DEF Eligible, Seen

\* New rows obey the post a delivery has read, for any pages and faults.
THEOREM RowsInScope == Spec => ScopeObeyed
<1>1. Sound /\ [Next]_vars =>
        [(\A w \in Workers : worker[w].scope \subseteq {post}) =>
           \A row \in rows' \ rows :
             /\ Eligible(post)
             /\ AllowsFollowerFanout(post) \/ row.to \in joined]_vars
  BY RowsObey
<1> QED
  BY <1>1, SoundInit, SoundStep, PTL DEF Spec, ScopeObeyed

(***************************************************************************)
(* Nobody is missed.  The invariant: whoever should have a row has one, or *)
(* there is a job on the queue, or in the hands of a worker that has not   *)
(* passed them, whose cursor is before them.                               *)
(***************************************************************************)
Due(r) == r # Author \/ ToAuthor(post)

Reached(r) == \E row \in rows : row.to = r
Coming(r) == \E job \in Job : queue[job] > 0 /\ job.after < r
Handled(w, r) ==
  /\ worker[w].pc \in {"begun", "actor", "scoped", "paged", "written"}
  /\ worker[w].job.after < r
  /\ worker[w].pc = "paged" =>
       r \in worker[w].ids \/ (Cardinality(worker[w].ids) = Batch /\ \A i \in worker[w].ids : i < r)
  /\ worker[w].pc = "written" => \A i \in worker[w].ids : i < r

OnTheWay(r) == Reached(r) \/ Coming(r) \/ \E w \in Workers : Handled(w, r)

Covered == eligible => \A way \in steady : Due(way[2]) => OnTheWay(way[2])

LEMMA SteadyPerson ==
  ASSUME Sound, NEW way \in steady
  PROVE  /\ way[2] \in People /\ way[2] > 0
         /\ ~(way[2] < 0)
BY FanoutAssumption DEF Sound, TypeOK, People

\* Whoever has always been in the audience is in the one a worker reads.
LEMMA SteadyInAudience ==
  ASSUME Sound, NEW way \in steady, NEW p, Seen(p)
  PROVE  way[2] \in Audience(p)
<1>1. way \in Ways(post)
  BY DEF Sound, Past
<1>2. CASE \E r \in members : way = <<"member", r>> /\ post.community
  BY <1>2 DEF Seen, Audience
<1>3. CASE \E r \in Followers : way = <<"follower", r>> /\ HasFollowerID(post)
  BY <1>3 DEF Seen, Audience, Followers
<1> QED
  BY <1>1, <1>2, <1>3 DEF Ways

LEMMA CoveredInit == Init => Covered
<1> SUFFICES ASSUME Init, NEW way \in steady PROVE OnTheWay(way[2])
  BY DEF Covered
<1>1. way[2] > 0 /\ FirstJob.after = 0 /\ FirstJob \in Job
  BY SoundInit, SteadyPerson, FanoutAssumption DEF FirstJob, Job
<1>2. queue[FirstJob] > 0
  BY <1>1 DEF Init
<1> QED
  BY <1>1, <1>2 DEF OnTheWay, Coming

\* The page a worker reads reaches r, or is full and ends before it.
LEMMA PageReaches ==
  ASSUME NEW audience \in SUBSET People, NEW after \in 0..P, NEW ids, IsPage(ids, audience, after),
         NEW r \in audience, after < r
  PROVE  /\ ids # {}
         /\ r \in ids \/ (Cardinality(ids) = Batch /\ \A i \in ids : i < r)
<1>1. PICK rest : rest = {q \in audience : q > after}
  OBVIOUS
<1>2. r \in Int /\ after \in Int /\ audience \subseteq Int
  BY FanoutAssumption DEF People
<1>3. r \in rest /\ ids \subseteq rest
  BY <1>1, <1>2 DEF IsPage
<1>4. \A q \in rest : (\E i \in ids : q < i) => q \in ids
  BY <1>1 DEF IsPage
<1>5. Cardinality(ids) = Batch \/ ids = rest
  BY <1>1 DEF IsPage
<1>6. ids # {}
  BY <1>3, <1>5, FS_EmptySet, FanoutAssumption
<1>7. ASSUME r \notin ids, NEW i \in ids PROVE i < r
  BY <1>1, <1>2, <1>3, <1>4, <1>7
<1> QED
  BY <1>3, <1>5, <1>6, <1>7

\* A step of w under which whoever was on the way by w still is.
LEMMA WorkCovered ==
  ASSUME Sound, Covered, NEW w \in Workers, Moved(w),
         UNCHANGED <<post, steady, eligible>>, rows \subseteq rows',
         \A r \in People : Coming(r) => Coming(r)' \/ Handled(w, r)',
         \A way \in steady : eligible /\ Due(way[2]) /\ Handled(w, way[2])
                               => OnTheWay(way[2])'
  PROVE  Covered'
<1> SUFFICES ASSUME eligible, NEW way \in steady, Due(way[2]) PROVE OnTheWay(way[2])'
  BY DEF Covered, Due, ToAuthor
<1>1. OnTheWay(way[2]) /\ way[2] \in People
  BY SteadyPerson DEF Covered
<1>2. CASE Reached(way[2])
  BY <1>2 DEF OnTheWay, Reached
<1>3. CASE Coming(way[2])
  BY <1>1, <1>3 DEF OnTheWay
<1>4. ASSUME NEW v \in Workers \ {w}, Handled(v, way[2]) PROVE OnTheWay(way[2])'
  <2>1. Handled(v, way[2])'
    BY <1>4 DEF Moved, Handled
  <2> QED
    BY <2>1 DEF OnTheWay
<1>5. CASE Handled(w, way[2])
  BY <1>5
<1> QED
  BY <1>1, <1>2, <1>3, <1>4, <1>5 DEF OnTheWay

LEMMA CoveredStep == Sound /\ Covered /\ [Next]_vars => Covered'
<1> SUFFICES ASSUME Sound, Covered, [Next]_vars PROVE Covered'
  OBVIOUS
<1> USE DEF db, history
<1>1. TypeOK /\ Past
  BY DEF Sound
<1>2. CASE UNCHANGED vars
  BY <1>2 DEF vars, Covered, Due, ToAuthor, OnTheWay, Reached, Coming, Handled
<1>3. CASE (\E r \in People : Membership(r) \/ Follow(r)) \/ ChangePost
  <2>1. Onward /\ UNCHANGED <<queue, worker, rows>>
    BY <1>3, ChangeOnward
  <2> SUFFICES ASSUME eligible', NEW way \in steady', Due(way[2])' PROVE OnTheWay(way[2])'
    BY DEF Covered
  <2>2. eligible /\ way \in steady /\ Due(way[2])
    BY <2>1 DEF Onward, Due, ToAuthor
  <2>3. OnTheWay(way[2])
    BY <2>2 DEF Covered
  <2> QED
    BY <2>1, <2>3 DEF OnTheWay, Reached, Coming, Handled
<1>4. ASSUME NEW w \in Workers
      PROVE  Told(w) /\ worker[w].job \in Job /\ worker[w] \in Handling
  BY <1>1, WorkerType DEF Sound
<1>5. eligible => post.state = "live" /\ (post.job = "comment" => post.comment = "shown")
                    /\ post.posted # 0
  BY <1>1 DEF Past, Eligible
\* A step that leaves the queue alone, or adds to it.
<1>6. ASSUME queue' = queue PROVE \A r \in People : Coming(r) => Coming(r)'
  BY <1>6 DEF Coming
<1>7. ASSUME NEW job \in Job, queue' = [queue EXCEPT ![job] = @ + 1]
      PROVE  /\ \A r \in People : Coming(r) => Coming(r)'
             /\ \A r \in People : job.after < r => Coming(r)'
  <2>1. \A j \in Job : queue[j] \in Nat /\ (queue[j] > 0 => queue'[j] > 0) /\ queue'[job] > 0
    BY <1>1, <1>7 DEF TypeOK
  <2> QED
    BY <2>1 DEF Coming
<1>8. ASSUME NEW w \in Workers, Begin(w) PROVE Covered'
  <2>1. /\ Moved(w) /\ worker'[w].pc = "begun" /\ queue[worker'[w].job] > 0
        /\ queue' = [queue EXCEPT ![worker'[w].job] = @ - 1]
    BY <1>1, <1>8, BeginMove
  <2>2. ASSUME NEW r \in People, Coming(r) PROVE Coming(r)' \/ Handled(w, r)'
    <3>1. PICK job \in Job : queue[job] > 0 /\ job.after < r
      BY <2>2 DEF Coming
    <3>2. CASE job = worker'[w].job
      BY <2>1, <3>1, <3>2 DEF Handled
    <3>3. CASE job # worker'[w].job
      BY <1>1, <2>1, <3>1, <3>3 DEF Coming, TypeOK
    <3> QED
      BY <3>2, <3>3
  <2>3. \A r : ~Handled(w, r)
    BY <1>8 DEF Begin, At, Handled
  <2> QED
    BY <1>8, <2>1, <2>2, <2>3, WorkCovered DEF Begin
<1>9. ASSUME NEW w \in Workers, ReadScope(w) PROVE Covered'
  <2>1. Moved(w) /\ worker'[w].job = worker[w].job
    BY <1>1, <1>9, ReadScopeMove
  <2>2. ASSUME NEW way \in steady, eligible, Handled(w, way[2]) PROVE OnTheWay(way[2])'
    <3>1. Stamp(post, worker[w].job) # 0
      BY <1>5, <2>2 DEF Stamp
    <3>2. worker'[w].pc \in {"actor", "scoped"}
      BY <1>1, <1>5, <1>9, <2>2, <3>1, ReadScopeMove
    <3>3. Handled(w, way[2])'
      BY <2>1, <2>2, <3>2 DEF Handled
    <3> QED
      BY <3>3 DEF OnTheWay
  <2> QED
    BY <1>6, <1>9, <2>1, <2>2, WorkCovered DEF ReadScope
<1>10. ASSUME NEW w \in Workers, ReadActor(w) PROVE Covered'
  <2>1. Seen(Scope(w)) /\ Scope(w) \in Scenario /\ Scope(w).job = "comment"
    BY <1>4, <1>10 DEF ReadActor, At, Told, Reading, Seen
  <2>2. Moved(w) /\ worker'[w].job = worker[w].job
    BY <1>1, <1>10, <2>1, ReadActorMove
  <2>3. ASSUME NEW way \in steady, eligible, Handled(w, way[2]) PROVE OnTheWay(way[2])'
    <3>1. Stamp(Scope(w), worker[w].job) # 0 /\ post.comment = "shown"
      BY <1>5, <2>1, <2>3 DEF Stamp, Seen
    <3>2. worker'[w].pc = "scoped"
      BY <1>1, <1>10, <2>1, <3>1, ReadActorMove
    <3>3. Handled(w, way[2])'
      BY <2>2, <2>3, <3>2 DEF Handled
    <3> QED
      BY <3>3 DEF OnTheWay
  <2> QED
    BY <1>6, <1>10, <2>2, <2>3, WorkCovered DEF ReadActor
<1>11. ASSUME NEW w \in Workers, ReadPage(w) PROVE Covered'
  <2>1. Seen(Scope(w))
    BY <1>4, <1>11 DEF ReadPage, At, Told, Reading
  <2>2. PICK ids \in SUBSET People :
          /\ IsPage(ids, Audience(Scope(w)), worker[w].job.after)
          /\ \/ ids = {} /\ worker'[w].pc = "done"
             \/ /\ ids # {} /\ worker'[w].pc = "paged" /\ worker'[w].ids = ids
                /\ worker'[w].scope = worker[w].scope
    BY <1>1, <1>11, ReadPageMove
  <2>3. Moved(w) /\ worker'[w].job = worker[w].job
    BY <1>1, <1>11, ReadPageMove
  <2>4. ASSUME NEW way \in steady, Handled(w, way[2]) PROVE OnTheWay(way[2])'
    <3>1. way[2] \in Audience(Scope(w)) /\ Audience(Scope(w)) \subseteq People
      BY <1>1, <2>1, SteadyInAudience DEF Audience, Followers, TypeOK
    <3>2. worker[w].job.after \in 0..P /\ worker[w].job.after < way[2]
      BY <1>4, <2>4 DEF Job, Handled
    <3>3. /\ ids # {}
          /\ way[2] \in ids \/ (Cardinality(ids) = Batch /\ \A i \in ids : i < way[2])
      BY <2>2, <3>1, <3>2, PageReaches
    <3>4. Handled(w, way[2])'
      BY <2>2, <2>3, <3>2, <3>3 DEF Handled
    <3> QED
      BY <3>4 DEF OnTheWay
  <2> QED
    BY <1>6, <1>11, <2>3, <2>4, WorkCovered DEF ReadPage
<1>12. ASSUME NEW w \in Workers, Emit(w) PROVE Covered'
  <2>1. Seen(Scope(w)) /\ worker[w].pc = "paged"
    BY <1>4, <1>12 DEF Emit, At, Told, Reading
  <2>2. Moved(w) /\ worker'[w].job = worker[w].job
    BY <1>1, <1>12, EmitMove
  <2>3. ASSUME NEW way \in steady, Due(way[2]), Handled(w, way[2]) PROVE OnTheWay(way[2])'
    <3>1. CASE way[2] \in worker[w].ids
      <4>1. ToAuthor(Scope(w)) = ToAuthor(post)
        BY <2>1 DEF Seen, ToAuthor
      <4> DEFINE row == [to |-> way[2], at |-> Stamp(Scope(w), worker[w].job)]
      <4>2. row \in RowsOf(w)
        BY <2>3, <3>1, <4>1 DEF RowsOf, Due
      <4>3. row \in rows' /\ row.to = way[2]
        BY <1>12, <4>2 DEF Emit
      <4> QED
        BY <4>3 DEF OnTheWay, Reached
    <3>2. CASE way[2] \notin worker[w].ids
      <4>1. Cardinality(worker[w].ids) = Batch /\ \A i \in worker[w].ids : i < way[2]
        BY <2>1, <2>3, <3>2 DEF Handled
      <4>2. worker'[w].pc = "written" /\ worker'[w].ids = worker[w].ids
        BY <1>1, <1>12, <4>1, EmitMove, FanoutAssumption
      <4>3. Handled(w, way[2])'
        BY <2>2, <2>3, <4>1, <4>2 DEF Handled
      <4> QED
        BY <4>3 DEF OnTheWay
    <3> QED
      BY <3>1, <3>2
  <2> QED
    BY <1>6, <1>12, <2>2, <2>3, WorkCovered DEF Emit
<1>13. ASSUME NEW w \in Workers, Enqueue(w) PROVE Covered'
  <2>1. At(w, "written") /\ Moved(w)
    BY <1>1, <1>13, LeaveMove DEF Enqueue
  <2>2. /\ Continuation(w) \in Job /\ Continuation(w).after = Max(worker[w].ids)
        /\ Max(worker[w].ids) \in worker[w].ids
    BY <2>1, ContinuationRight
  <2>3. ASSUME NEW way \in steady, Handled(w, way[2]) PROVE OnTheWay(way[2])'
    <3>1. Continuation(w).after < way[2]
      BY <2>1, <2>2, <2>3 DEF Handled, At
    <3> QED
      BY <1>7, <1>13, <2>2, <3>1, SteadyPerson DEF Enqueue, OnTheWay
  <2> QED
    BY <1>7, <1>13, <2>1, <2>2, <2>3, WorkCovered DEF Enqueue
<1>14. ASSUME NEW w \in Workers, Done(w) PROVE Covered'
  <2>1. \A r : ~Handled(w, r)
    BY <1>14 DEF Done, At, Handled
  <2> QED
    BY <1>1, <1>6, <1>14, <2>1, LeaveMove, WorkCovered DEF Done
<1>15. ASSUME NEW w \in Workers, Fail(w) PROVE Covered'
  <2>1. queue' = [queue EXCEPT ![worker[w].job] = @ + 1] /\ rows \subseteq rows'
    BY <1>15 DEF Fail
  <2>2. ASSUME NEW way \in steady, Handled(w, way[2]) PROVE OnTheWay(way[2])'
    BY <1>4, <1>7, <2>1, <2>2, SteadyPerson DEF Handled, OnTheWay
  <2> QED
    BY <1>1, <1>4, <1>7, <1>15, <2>1, <2>2, LeaveMove, WorkCovered DEF Fail
<1>16. ASSUME NEW w \in Workers, Redeliver(w) PROVE Covered'
  <2>1. queue' = [queue EXCEPT ![worker[w].job] = @ + 1]
    BY <1>16 DEF Redeliver
  <2>2. UNCHANGED <<post, steady, eligible, worker, rows>>
    BY <1>16 DEF Redeliver
  <2> SUFFICES ASSUME eligible, NEW way \in steady, Due(way[2]) PROVE OnTheWay(way[2])'
    BY <2>2 DEF Covered, Due, ToAuthor
  <2>3. OnTheWay(way[2]) /\ way[2] \in People
    BY SteadyPerson DEF Covered
  <2>4. Coming(way[2]) => Coming(way[2])'
    BY <1>4, <1>7, <2>1, <2>3
  <2> QED
    BY <2>2, <2>3, <2>4 DEF OnTheWay, Reached, Handled
<1>17. ASSUME NEW w \in Workers, EnqueueUncertain(w) PROVE Covered'
  <2>1. At(w, "written") /\ Moved(w)
    BY <1>1, <1>17, LeaveMove DEF EnqueueUncertain
  <2>2. Continuation(w) \in Job
    BY <2>1, ContinuationRight
  <2>3. queue' = [queue EXCEPT ![Continuation(w)] = @ + 1, ![worker[w].job] = @ + 1]
    BY <1>17 DEF EnqueueUncertain
  <2>4. \A j \in Job : (queue[j] > 0 => queue'[j] > 0) /\ queue'[worker[w].job] > 0
    BY <1>1, <1>4, <2>2, <2>3 DEF TypeOK
  <2>5. \A r \in People : Coming(r) => Coming(r)'
    BY <2>4 DEF Coming
  <2>6. ASSUME NEW way \in steady, Handled(w, way[2]) PROVE OnTheWay(way[2])'
    BY <1>4, <2>4, <2>6 DEF Handled, OnTheWay, Coming
  <2> QED
    BY <1>17, <2>1, <2>5, <2>6, WorkCovered DEF EnqueueUncertain
<1> QED
  BY <1>2, <1>3, <1>8, <1>9, <1>10, <1>11, <1>12, <1>13, <1>14, <1>15, <1>16, <1>17
  DEF Next, Deliver

\* The pages of an activity reach everybody who has been a member, or one of
\* the followers, all the time: for any audience, page size, number of workers,
\* faults and changes.
THEOREM EverybodyReached == Spec => []NobodyMissed
<1>1. Covered => NobodyMissed
  BY DEF Covered, NobodyMissed, Due, OnTheWay, Reached, Coming, Handled, Quiescent, At
<1>2. Sound /\ Covered /\ [Next]_vars => (Sound /\ Covered)'
  BY SoundStep, CoveredStep
<1> QED
  BY <1>1, <1>2, SoundInit, CoveredInit, PTL DEF Spec
=============================================================================
