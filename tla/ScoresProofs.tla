---------------------------- MODULE ScoresProofs ----------------------------
(***************************************************************************)
(* Theorems about Scores: types, among them that no counter goes below     *)
(* zero and that no row is locked twice; that without a fault every job    *)
(* takes effect once; and what the effects add up to in the bumped scores  *)
(* and in the row of the post.                                             *)
(***************************************************************************)
EXTENDS Scores, FiniteSetTheorems, SequenceTheorems, TLAPS

(***************************************************************************)
(* Types.                                                                  *)
(***************************************************************************)
LEMMA RestRun == Rest \in Run /\ Default \in Row
<1>1. Default \in Row
  BY DEF Default, Row, Zero, Counted
<1>2. [kind |-> "new"] \in Job
  BY DEF Job
<1>3. <<>> \in Seq(Locked)
  OBVIOUS
<1> QED
  BY <1>1, <1>2, <1>3 DEF Rest, Run

\* What a job of each kind says.
LEMMA JobType ==
  ASSUME NEW job \in Job
  PROVE  /\ job.kind = "rank" => job.update \in Updates /\ job.change \in {1, -1}
         /\ job.kind \in {"affinity", "view"} =>
              job.entity \in Entities /\ job.interests \in SUBSET Interests
BY DEF Job

LEMMA RunType ==
  ASSUME TypeOK, NEW w \in Running
  PROVE  worker[w] \in Run /\ worker[w].job \in Job /\ worker[w].seen \in Row
BY DEF TypeOK, Run

LEMMA SentJobs ==
  ASSUME TypeOK
  PROVE  sent \subseteq Job /\ jobs \subseteq Job
BY ScoresAssumption DEF TypeOK

LEMMA UpdateType ==
  ASSUME TypeOK, NEW w \in Running, NEW new \in Run, Update(w, new)
  PROVE  /\ worker' \in [Running -> Run] /\ worker'[w] = new
         /\ \A v \in Running \ {w} : worker'[v] = worker[v]
BY DEF TypeOK, Update

\* A counter that goes down stops at zero.
LEMMA RescoredType ==
  ASSUME NEW old \in Row, NEW job \in Job, job.kind = "rank"
  PROVE  Rescored(old, job) \in Row
<1>1. job.change \in {1, -1} /\ job.update \in Updates
  BY JobType
<1>2. \A k \in Counted : old.count[k] \in Nat /\ Moved(old.count[k], Change(job)) \in Nat
  BY <1>1 DEF Row, Moved, Change
<1>3. old.boost + Change(job) * Boost(job.update) \in Int
  <2>1. Boost(job.update) \in Int /\ old.boost \in Int /\ Change(job) \in Int
    BY <1>1 DEF Boost, Row, Change
  <2> QED
    BY <2>1
<1>4. [k \in Counted |-> IF k = job.update THEN Moved(old.count[k], Change(job))
                         ELSE old.count[k]] \in [Counted -> Nat]
  BY <1>2
<1>5. old.weight \in {"default", "content", "partial"}
  BY DEF Row
<1> QED
  BY <1>3, <1>4, <1>5 DEF Rescored, Row

\* The statements of a transaction lock an entity's row and the trend's.
LEMMA RowsType ==
  ASSUME NEW entity \in Entities, NEW interests \in SUBSET Interests,
         NEW order \in SetToSeqs(interests)
  PROVE  RowsOf(entity, order) \in Seq(Locked)
<1> DEFINE n == Cardinality(interests)
<1>1. n \in Nat
  BY ScoresAssumption, FS_Subset, FS_CardinalityType
<1>2. order \in [1..n -> interests]
  BY DEF SetToSeqs
<1>3. Len(order) = n
  BY <1>1, <1>2, LenProperties, SeqDef
<1> HIDE DEF n
<1>4. ASSUME NEW k \in 1..(2 * n) PROVE (k + 1) \div 2 \in 1..n
  BY <1>1, <1>4
<1>5. RowsOf(entity, order) \in [1..(2 * n) -> Locked]
  BY <1>2, <1>3, <1>4 DEF RowsOf, Locked
<1>6. \A k \in Nat : [1..k -> Locked] \subseteq Seq(Locked)
  BY SeqDef
<1> DEFINE m == 2 * n
<1>7. m \in Nat /\ RowsOf(entity, order) \in [1..m -> Locked]
  BY <1>1, <1>5
<1> HIDE DEF m
<1> QED
  BY <1>6, <1>7

LEMMA TypeInit == Init => TypeOK
<1> SUFFICES ASSUME Init PROVE TypeOK
  OBVIOUS
<1>1. worker \in [Running -> Run] /\ row \in Row
  BY RestRun DEF Init
<1>2. \A w \in Running : At(w, "idle") /\ worker[w].held = {}
  BY DEF Init, At, Rest
<1>3. applied \in [sent -> Nat]
  BY DEF Init
<1>4. disturbed \in BOOLEAN
  BY DEF Init
<1>5. faults \in 0..MaxFaults
  BY ScoresAssumption DEF Init
<1> QED
  BY <1>1, <1>2, <1>3, <1>4, <1>5 DEF Init, TypeOK

\* A run that goes on with the same locks, or gives them up.
LEMMA StepType ==
  ASSUME TypeOK, NEW w \in Running, worker' \in [Running -> Run],
         \A v \in Running \ {w} : worker'[v] = worker[v],
         worker'[w].held \subseteq worker[w].held,
         worker'[w].pc = "idle" \/ worker'[w].job \in sent,
         sent' = sent, jobs' \subseteq sent, row' \in Row,
         applied' \in [sent -> Nat], disturbed' \in BOOLEAN, faults' \in 0..MaxFaults
  PROVE  TypeOK'
<1>1. ASSUME NEW u \in Running
      PROVE  /\ At(u, "idle")' \/ worker'[u].job \in sent
             /\ worker'[u].held \subseteq worker[u].held
  BY <1>1 DEF TypeOK, At
<1>2. ASSUME NEW u \in Running, NEW v \in Running \ {u}
      PROVE  worker'[v].held \intersect worker'[u].held = {}
  BY <1>1, <1>2 DEF TypeOK
<1> QED
  BY <1>1, <1>2 DEF TypeOK

LEMMA AppliedType ==
  ASSUME TypeOK, NEW w \in Running, ~At(w, "idle"), Applied(w)
  PROVE  /\ worker[w].job \in sent /\ applied' \in [sent -> Nat]
         /\ applied'[worker[w].job] = applied[worker[w].job] + 1
         /\ \A job \in sent \ {worker[w].job} : applied'[job] = applied[job]
BY DEF TypeOK, Applied

\* A run that ends.
LEMMA FinishType ==
  ASSUME TypeOK, NEW w \in Running, Finish(w)
  PROVE  /\ worker' \in [Running -> Run] /\ worker'[w] = Rest
         /\ worker'[w].pc = "idle" /\ worker'[w].held = {}
         /\ \A v \in Running \ {w} : worker'[v] = worker[v]
<1>1. worker' \in [Running -> Run] /\ worker'[w] = Rest
      /\ \A v \in Running \ {w} : worker'[v] = worker[v]
  BY RestRun, UpdateType DEF Finish
<1> QED
  BY <1>1 DEF Rest

LEMMA FaultType ==
  ASSUME TypeOK, Fault
  PROVE  faults' \in 0..MaxFaults /\ disturbed' = TRUE
BY ScoresAssumption DEF TypeOK, Fault

\* A run that goes on with the same job; nothing is applied.
LEMMA OnType ==
  ASSUME TypeOK, NEW w \in Running, ~At(w, "idle"), NEW new \in Run, Update(w, new),
         new.job = worker[w].job, new.held = worker[w].held,
         UNCHANGED <<jobs, scores, sent, applied>>,
         disturbed' \in BOOLEAN, faults' \in 0..MaxFaults
  PROVE  TypeOK'
<1>1. /\ worker' \in [Running -> Run] /\ worker'[w] = new
      /\ \A v \in Running \ {w} : worker'[v] = worker[v]
  BY UpdateType
<1>2. worker'[w].job \in sent
  BY <1>1 DEF TypeOK
<1> QED
  BY <1>1, <1>2, StepType DEF scores, TypeOK

\* A run that ends, and what it leaves.
LEMMA EndType ==
  ASSUME TypeOK, NEW w \in Running, Finish(w), sent' = sent, jobs' \subseteq sent,
         row' \in Row, applied' \in [sent -> Nat],
         disturbed' \in BOOLEAN, faults' \in 0..MaxFaults
  PROVE  TypeOK'
BY FinishType, StepType

(***************************************************************************)
(* Which run is where: a goroutine carries a batch of views with interests, *)
(* and only a batch of its kind comes to the steps of a handler.           *)
(***************************************************************************)
Placed ==
  /\ \A g \in Loose : ~At(g, "idle") =>
       /\ Doing(g, "view") /\ worker[g].job.interests # {} /\ worker[g].pc \in {"begun", "tx"}
  /\ \A w \in Workers :
       /\ At(w, "log") => Doing(w, "view")
       /\ At(w, "write") => Doing(w, "rank") \/ Doing(w, "new")
       /\ At(w, "tx") => Doing(w, "affinity")

LEMMA TypeStep == TypeOK /\ Placed /\ [Next]_vars => TypeOK'
<1> SUFFICES ASSUME TypeOK, Placed, [Next]_vars PROVE TypeOK'
  OBVIOUS
<1>0. /\ row \in Row /\ jobs \subseteq sent /\ applied \in [sent -> Nat]
      /\ disturbed \in BOOLEAN /\ faults \in 0..MaxFaults
  BY DEF TypeOK
<1>1. CASE UNCHANGED vars
  BY <1>1 DEF TypeOK, At, vars, scores
<1>2. ASSUME NEW w \in Running, Take(w) PROVE TypeOK'
  <2>1. PICK job \in jobs : /\ jobs' = jobs \ {job}
                            /\ Update(w, [worker[w] EXCEPT !.pc = "begun", !.job = job])
    BY <1>2 DEF Take
  <2> DEFINE new == [worker[w] EXCEPT !.pc = "begun", !.job = job]
  <2>2. job \in Job /\ job \in sent
    BY <1>0, SentJobs
  <2>3. new \in Run /\ new.job = job /\ new.held = worker[w].held
    BY <2>2, RunType DEF Run
  <2>4. /\ worker' \in [Running -> Run] /\ worker'[w] = new
        /\ \A v \in Running \ {w} : worker'[v] = worker[v]
    BY <2>1, <2>3, UpdateType
  <2> HIDE DEF new
  <2>5. jobs' \subseteq sent /\ sent' = sent /\ row' = row /\ applied' = applied
        /\ disturbed' = disturbed /\ faults' = faults
    BY <1>0, <1>2, <2>1 DEF Take, scores
  <2> QED
    BY <1>0, <2>2, <2>3, <2>4, <2>5, StepType
<1>3. ASSUME NEW w \in Running, ReadScore(w) PROVE TypeOK'
  <2> DEFINE new == [worker[w] EXCEPT !.pc = "write", !.seen = row]
  <2>1. new \in Run /\ new.job = worker[w].job /\ new.held = worker[w].held
    BY <1>0, RunType DEF Run
  <2>2. ~At(w, "idle") /\ Update(w, new)
    BY <1>3 DEF ReadScore, At
  <2> HIDE DEF new
  <2> QED
    BY <1>0, <1>3, <2>1, <2>2, OnType DEF ReadScore
<1>4. ASSUME NEW w \in Running, ReadReferences(w) PROVE TypeOK'
  <2>1. PICK weight \in {"content", "partial"} :
          Update(w, [worker[w] EXCEPT !.pc = "write", !.seen.weight = weight])
    BY <1>4 DEF ReadReferences
  <2> DEFINE new == [worker[w] EXCEPT !.pc = "write", !.seen.weight = weight]
  <2>2. new \in Run /\ new.job = worker[w].job /\ new.held = worker[w].held
    <3>1. [worker[w].seen EXCEPT !.weight = weight] \in Row
      BY RunType DEF Row
    <3> QED
      BY <3>1, RunType DEF Run
  <2>3. ~At(w, "idle") /\ Update(w, new)
    BY <1>4, <2>1 DEF ReadReferences, At
  <2>4. disturbed' \in BOOLEAN /\ faults' \in 0..MaxFaults
    BY <1>0, <1>4, FaultType DEF ReadReferences
  <2> HIDE DEF new
  <2> QED
    BY <1>4, <2>2, <2>3, <2>4, OnType DEF ReadReferences
<1>5. ASSUME NEW w \in Running, Begin(w) PROVE TypeOK'
  <2>1. PICK order \in SetToSeqs(worker[w].job.interests) :
          Update(w, [worker[w] EXCEPT !.pc = "tx", !.plan = RowsOf(worker[w].job.entity, order)])
    BY <1>5 DEF Begin
  <2>2. ~At(w, "idle") /\ worker[w].job.kind \in {"affinity", "view"}
    BY <1>5 DEF Begin, At, Placed, Doing
  <2>3. worker[w].job.entity \in Entities /\ worker[w].job.interests \in SUBSET Interests
    BY <2>2, RunType, JobType
  <2>4. RowsOf(worker[w].job.entity, order) \in Seq(Locked)
    BY <2>3, RowsType
  <2> DEFINE new == [worker[w] EXCEPT !.pc = "tx", !.plan = RowsOf(worker[w].job.entity, order)]
  <2>5. new \in Run /\ new.job = worker[w].job /\ new.held = worker[w].held
    BY <2>4, RunType DEF Run
  <2>6. Update(w, new)
    BY <2>1
  <2> HIDE DEF new
  <2> QED
    BY <1>0, <1>5, <2>2, <2>5, <2>6, OnType DEF Begin
<1>6. ASSUME NEW w \in Running, Exec(w) PROVE TypeOK'
  <2> DEFINE lock == Head(worker[w].plan)
             new == [worker[w] EXCEPT !.plan = Tail(@), !.held = @ \union {lock}]
  <2>1. worker[w] \in Run /\ worker[w].plan \in Seq(Locked) /\ worker[w].plan # <<>>
    BY <1>6, RunType DEF Exec, Run
  <2>2. lock \in Locked /\ Tail(worker[w].plan) \in Seq(Locked)
    BY <2>1
  <2>3. /\ new \in Run /\ new.job = worker[w].job /\ new.pc = worker[w].pc
        /\ new.held = worker[w].held \union {lock}
    BY <2>1, <2>2 DEF Run
  <2>4. \A v \in Running \ {w} : lock \notin worker[v].held
    BY <1>6 DEF Exec, WaitsFor
  <2>5. Update(w, new)
    BY <1>6 DEF Exec
  <2> HIDE DEF new, lock
  <2>6. /\ worker' \in [Running -> Run] /\ worker'[w] = new
        /\ \A v \in Running \ {w} : worker'[v] = worker[v]
    BY <2>3, <2>5, UpdateType
  <2>7. ASSUME NEW u \in Running, NEW v \in Running \ {u}
        PROVE  worker'[v].held \intersect worker'[u].held = {}
    BY <2>3, <2>4, <2>6, <2>7 DEF TypeOK
  <2>8. \A u \in Running : At(u, "idle")' \/ worker'[u].job \in sent
    BY <2>3, <2>6 DEF TypeOK, At
  <2> QED
    BY <1>0, <1>6, <2>6, <2>7, <2>8 DEF Exec, TypeOK, scores
<1>7. ASSUME NEW w \in Running, WriteScore(w) \/ WriteFresh(w) PROVE TypeOK'
  <2>1. row' \in Row
    <3>1. CASE WriteScore(w)
      <4>1. row' = Rescored(worker[w].seen, worker[w].job) /\ worker[w].job.kind = "rank"
        BY <3>1 DEF WriteScore, Doing
      <4> QED
        BY <4>1, RunType, RescoredType
    <3>2. CASE WriteFresh(w)
      <4>1. row' = [Default EXCEPT !.there = TRUE, !.weight = worker[w].seen.weight]
        BY <3>2 DEF WriteFresh
      <4>2. worker[w].seen.weight \in {"default", "content", "partial"}
        BY RunType DEF Row
      <4> QED
        BY <4>1, <4>2, RestRun DEF Row
    <3> QED
      BY <1>7, <3>1, <3>2
  <2>2. disturbed' \in BOOLEAN
    BY <1>0, <1>7 DEF WriteScore, WriteFresh
  <2>3. ~At(w, "idle") /\ Applied(w) /\ Finish(w) /\ UNCHANGED <<jobs, sent, faults>>
    BY <1>7 DEF WriteScore, WriteFresh, At
  <2> QED
    BY <1>0, <2>1, <2>2, <2>3, AppliedType, EndType
<1>8. ASSUME NEW w \in Running,
             Commit(w) \/ BumpConnections(w) \/ FollowerInteractionScoreBump(w)
      PROVE  TypeOK'
  <2>1. /\ ~At(w, "idle") /\ Applied(w) /\ Finish(w)
        /\ UNCHANGED <<jobs, row, sent, disturbed, faults>>
    BY <1>8 DEF Commit, BumpConnections, FollowerInteractionScoreBump, At
  <2> QED
    BY <1>0, <2>1, AppliedType, EndType
<1>9. ASSUME NEW w \in Running, Abort(w) \/ LogViews(w) PROVE TypeOK'
  <2>1. /\ Finish(w) /\ UNCHANGED <<jobs, row, sent, applied, faults>>
        /\ disturbed' \in BOOLEAN
    BY <1>0, <1>9 DEF Abort, LogViews, scores
  <2> QED
    BY <1>0, <2>1, EndType
<1>10. ASSUME NEW w \in Workers, StartBump(w) PROVE TypeOK'
  <2>0. w \in Running /\ ~At(w, "idle") /\ worker[w] \in Run /\ worker[w].job \in sent
        /\ UNCHANGED <<jobs, scores, sent, applied, disturbed, faults>>
    BY <1>10, RunType DEF StartBump, At, Running, TypeOK
  <2> DEFINE new == [worker[w] EXCEPT !.pc = "log"]
  <2>1. new \in Run /\ new.job = worker[w].job /\ new.held = worker[w].held
    BY <2>0 DEF Run
  <2>2. CASE Update(w, new)
    <3> HIDE DEF new
    <3> QED
      BY <1>0, <2>0, <2>1, <2>2, OnType
  <2>3. CASE \E g \in Loose :
               /\ At(g, "idle")
               /\ worker' = [worker EXCEPT
                               ![g] = [Rest EXCEPT !.pc = "begun", !.job = worker[w].job],
                               ![w].pc = "log"]
    <3>1. PICK g \in Loose :
            worker' = [worker EXCEPT ![g] = [Rest EXCEPT !.pc = "begun", !.job = worker[w].job],
                                     ![w].pc = "log"]
      BY <2>3
    <3> DEFINE started == [Rest EXCEPT !.pc = "begun", !.job = worker[w].job]
    <3>2. started \in Run /\ started.job = worker[w].job /\ started.held = {}
      BY <2>0, RestRun, RunType DEF Run, Rest
    <3>3. g \in Running /\ g # w
      BY <1>10, ScoresAssumption DEF Running
    <3> HIDE DEF started
    <3>4. /\ worker' \in [Running -> Run] /\ worker'[w] = new /\ worker'[g] = started
          /\ \A v \in Running \ {w, g} : worker'[v] = worker[v]
      <4>1. worker' = [[worker EXCEPT ![g] = started] EXCEPT ![w] = new]
        BY <3>1, <3>3 DEF started
      <4> QED
        BY <2>0, <2>1, <3>2, <3>3, <4>1 DEF TypeOK
    <3> HIDE DEF new
    <3>5. ASSUME NEW u \in Running
          PROVE  /\ At(u, "idle")' \/ worker'[u].job \in sent
                 /\ worker'[u].held \subseteq worker[u].held
      BY <2>0, <2>1, <3>2, <3>4 DEF TypeOK, At
    <3>6. ASSUME NEW u \in Running, NEW v \in Running \ {u}
          PROVE  worker'[v].held \intersect worker'[u].held = {}
      BY <3>5, <3>6 DEF TypeOK
    <3> QED
      BY <1>0, <2>0, <3>4, <3>5, <3>6 DEF TypeOK, scores
  <2> QED
    BY <1>10, <2>2, <2>3 DEF StartBump
<1>11. ASSUME NEW w \in Running, Fail(w) PROVE TypeOK'
  <2>1. Fault /\ Finish(w) /\ UNCHANGED <<jobs, row, sent, applied>>
    BY <1>11 DEF Fail, scores
  <2> QED
    BY <1>0, <2>1, FaultType, EndType
<1>12. ASSUME NEW w \in Running, Redeliver(w) PROVE TypeOK'
  <2>1. /\ Fault /\ UNCHANGED <<row, sent, applied>>
        /\ jobs' \subseteq sent
        /\ Finish(w) \/ UNCHANGED worker
    BY <1>0, <1>12 DEF Redeliver, scores, TypeOK
  <2>2. CASE Finish(w)
    BY <1>0, <2>1, <2>2, FaultType, EndType
  <2>3. CASE UNCHANGED worker
    BY <1>0, <2>1, <2>3, FaultType DEF TypeOK, At
  <2> QED
    BY <2>1, <2>2, <2>3
<1> QED
  <2>1. Workers \subseteq Running /\ Loose \subseteq Running
    BY DEF Running
  <2> QED
    BY <1>1, <1>2, <1>3, <1>4, <1>5, <1>6, <1>7, <1>8, <1>9, <1>10, <1>11, <1>12, <2>1
       DEF Next, Step, SaveViewCacheEngagements, UpdateRankingScore, CreatePostScoreForNewPost,
           BumpInterestAffinity

LEMMA PlacedInit == Init => Placed
<1> SUFFICES ASSUME Init PROVE Placed
  OBVIOUS
<1>1. \A w \in Running : worker[w].pc = "idle"
  BY DEF Init, Rest
<1> QED
  BY <1>1 DEF Placed, At, Running

\* A run that moves, and the others that do not.
LEMMA PlacedMove ==
  ASSUME TypeOK, Placed, NEW w \in Running,
         \A v \in Running \ {w} : worker'[v] = worker[v],
         w \in Loose => \/ worker'[w].pc = "idle"
                        \/ /\ worker'[w].job = worker[w].job /\ worker[w].pc # "idle"
                           /\ worker'[w].pc \in {"begun", "tx"},
         w \in Workers =>
           /\ worker'[w].pc = "log" => worker'[w].job.kind = "view"
           /\ worker'[w].pc = "write" => worker'[w].job.kind \in {"rank", "new"}
           /\ worker'[w].pc = "tx" => worker'[w].job.kind = "affinity"
  PROVE  Placed'
BY DEF Placed, At, Doing, Running

LEMMA PlacedStep == TypeOK /\ Placed /\ [Next]_vars => Placed'
<1> SUFFICES ASSUME TypeOK, Placed, [Next]_vars PROVE Placed'
  OBVIOUS
<1>0. Workers \subseteq Running /\ Loose \subseteq Running /\ Workers \intersect Loose = {}
  BY ScoresAssumption DEF Running
<1>1. CASE UNCHANGED worker
  BY <1>1 DEF Placed, At, Doing
<1>2. ASSUME NEW w \in Running, Finish(w) PROVE Placed'
  BY <1>2, FinishType, PlacedMove
<1>3. ASSUME NEW w \in Workers, Take(w) PROVE Placed'
  <2>1. PICK job \in jobs : Update(w, [worker[w] EXCEPT !.pc = "begun", !.job = job])
    BY <1>3 DEF Take
  <2>2. /\ worker'[w] = [worker[w] EXCEPT !.pc = "begun", !.job = job]
        /\ \A v \in Running \ {w} : worker'[v] = worker[v]
    BY <1>0, <2>1 DEF Update, TypeOK
  <2>3. worker'[w].pc = "begun" /\ worker[w] \in Run
    BY <1>0, <2>2, RunType DEF Run
  <2> QED
    BY <1>0, <2>2, <2>3, PlacedMove
<1>4. ASSUME NEW w \in Workers, ReadScore(w) \/ ReadReferences(w) PROVE Placed'
  <2>1. worker[w] \in Run /\ worker[w].job.kind \in {"rank", "new"}
    BY <1>0, <1>4, RunType DEF ReadScore, ReadReferences, Doing
  <2>2. /\ worker'[w].job = worker[w].job /\ worker'[w].pc = "write"
        /\ \A v \in Running \ {w} : worker'[v] = worker[v]
    <3>1. CASE ReadScore(w)
      BY <1>0, <2>1, <3>1 DEF ReadScore, Update, TypeOK, Run
    <3>2. CASE ReadReferences(w)
      <4>1. PICK weight \in {"content", "partial"} :
              Update(w, [worker[w] EXCEPT !.pc = "write", !.seen.weight = weight])
        BY <3>2 DEF ReadReferences
      <4> QED
        BY <1>0, <2>1, <4>1 DEF Update, TypeOK, Run
    <3> QED
      BY <1>4, <3>1, <3>2
  <2> QED
    BY <1>0, <2>1, <2>2, PlacedMove
<1>5. ASSUME NEW w \in Running, Begin(w) PROVE Placed'
  <2>1. PICK plan : Update(w, [worker[w] EXCEPT !.pc = "tx", !.plan = plan])
    BY <1>5 DEF Begin
  <2>2. worker[w] \in Run /\ (w \in Workers => worker[w].job.kind = "affinity")
        /\ worker[w].pc = "begun"
    BY <1>0, <1>5, RunType DEF Begin, Doing, At
  <2>3. /\ worker'[w].job = worker[w].job /\ worker'[w].pc = "tx"
        /\ \A v \in Running \ {w} : worker'[v] = worker[v]
    BY <2>1, <2>2 DEF Update, TypeOK, Run
  <2> QED
    BY <2>2, <2>3, PlacedMove
<1>6. ASSUME NEW w \in Running, Exec(w) PROVE Placed'
  <2>1. PICK plan, held : Update(w, [worker[w] EXCEPT !.plan = plan, !.held = held])
    BY <1>6 DEF Exec
  <2>2. worker[w] \in Run /\ worker[w].pc = "tx"
    BY <1>6, RunType DEF Exec, At
  <2>3. /\ worker'[w].job = worker[w].job /\ worker'[w].pc = "tx"
        /\ \A v \in Running \ {w} : worker'[v] = worker[v]
    BY <2>1, <2>2 DEF Update, TypeOK, Run
  <2>4. w \in Workers => worker[w].job.kind = "affinity"
    BY <2>2 DEF Placed, At, Doing
  <2> QED
    BY <2>2, <2>3, <2>4, PlacedMove
<1>7. ASSUME NEW w \in Workers, StartBump(w) PROVE Placed'
  <2>0. w \in Running /\ worker[w] \in Run /\ worker[w].job.kind = "view"
    BY <1>0, <1>7, RunType DEF StartBump, Doing
  <2>1. CASE worker[w].job.interests = {}
    <3>1. Update(w, [worker[w] EXCEPT !.pc = "log"])
      BY <1>7, <2>1 DEF StartBump
    <3>2. /\ worker'[w].job = worker[w].job /\ worker'[w].pc = "log"
          /\ \A v \in Running \ {w} : worker'[v] = worker[v]
      BY <2>0, <3>1 DEF Update, TypeOK, Run
    <3> QED
      BY <1>0, <2>0, <3>2, PlacedMove
  <2>2. CASE worker[w].job.interests # {}
    <3>1. PICK g \in Loose :
            worker' = [worker EXCEPT ![g] = [Rest EXCEPT !.pc = "begun", !.job = worker[w].job],
                                     ![w].pc = "log"]
      BY <1>7, <2>2 DEF StartBump
    <3>2. g \in Running /\ g # w
      BY <1>0
    <3>3. /\ worker'[w].job = worker[w].job /\ worker'[w].pc = "log"
          /\ worker'[g].job = worker[w].job /\ worker'[g].pc = "begun"
          /\ \A v \in Running \ {w, g} : worker'[v] = worker[v]
      BY <2>0, <3>1, <3>2 DEF TypeOK, Run, Rest
    <3> QED
      BY <1>0, <2>0, <2>2, <3>3 DEF Placed, At, Doing
  <2> QED
    BY <2>1, <2>2
<1>8. ASSUME NEW w \in Running,
             \/ WriteScore(w) \/ WriteFresh(w) \/ Commit(w) \/ BumpConnections(w) \/ Abort(w)
             \/ LogViews(w) \/ FollowerInteractionScoreBump(w) \/ Fail(w) \/ Redeliver(w)
      PROVE  Placed'
  BY <1>1, <1>2, <1>8 DEF WriteScore, WriteFresh, Commit, BumpConnections, Abort, LogViews,
                          FollowerInteractionScoreBump, Fail, Redeliver
<1> QED
  BY <1>0, <1>1, <1>3, <1>4, <1>5, <1>6, <1>7, <1>8
     DEF Next, Step, SaveViewCacheEngagements, UpdateRankingScore, CreatePostScoreForNewPost,
         BumpInterestAffinity, vars

\* Counters stay above zero, a row is locked once, and the state is what
\* TypeOK says, for any jobs, workers and goroutines.
THEOREM TypeCorrect == Spec => []TypeOK
BY TypeInit, TypeStep, PlacedInit, PlacedStep, PTL DEF Spec

(***************************************************************************)
(* As long as nothing disturbs them, a job is on its queue, carried by one *)
(* run, or has had its effect.                                             *)
(***************************************************************************)
Carries(w, job) == worker[w].job = job /\ worker[w].pc \in {"begun", "write", "tx"}
Due(job) == IF job.kind = "view" /\ job.interests = {} THEN 0 ELSE 1

Once ==
  \A job \in sent :
    /\ job \in jobs => applied[job] = 0 /\ \A w \in Running : ~Carries(w, job)
    /\ \A w \in Running : Carries(w, job) =>
         /\ applied[job] = 0
         /\ \A v \in Running \ {w} : ~Carries(v, job)
    /\ (job \notin jobs /\ \A w \in Running : ~Carries(w, job)) => applied[job] = Due(job)

Settled == ~disturbed => Once

LEMMA OnceInit == Init => Settled
<1> SUFFICES ASSUME Init PROVE Once
  BY DEF Settled
<1>1. \A w \in Running, job \in sent : ~Carries(w, job)
  BY DEF Init, Carries, Rest
<1> QED
  BY <1>1 DEF Init, Once

\* A run that goes on with its job.
LEMMA CarryOn ==
  ASSUME Once, UNCHANGED <<jobs, sent, applied>>,
         \A w \in Running, job \in sent : Carries(w, job)' <=> Carries(w, job)
  PROVE  Once'
BY DEF Once, Due

\* A run whose job takes effect.
LEMMA TakeEffect ==
  ASSUME TypeOK, Once, NEW w \in Running, NEW job \in sent, Carries(w, job), Due(job) = 1,
         Applied(w), Finish(w), UNCHANGED <<jobs, sent>>
  PROVE  Once'
<1>0. ~At(w, "idle") /\ worker[w].job = job
  BY DEF Carries, At
<1>1. /\ applied'[job] = applied[job] + 1
      /\ \A k \in sent \ {job} : applied'[k] = applied[k]
  BY <1>0, AppliedType
<1>2. /\ worker'[w].pc = "idle" /\ \A v \in Running \ {w} : worker'[v] = worker[v]
  BY FinishType
<1>3. applied[job] = 0 /\ job \notin jobs /\ \A v \in Running \ {w} : ~Carries(v, job)
  BY DEF Once
<1>4. \A k \in sent : ~Carries(w, k)'
  BY <1>2 DEF Carries
<1>5. \A v \in Running \ {w}, k \in sent : Carries(v, k)' <=> Carries(v, k)
  BY <1>2 DEF Carries
<1>6. \A k \in sent \ {job} : ~Carries(w, k)
  BY <1>0 DEF Carries
<1>7. applied'[job] = Due(job)
  BY <1>1, <1>3
<1> SUFFICES ASSUME NEW k \in sent
             PROVE  /\ k \in jobs => applied'[k] = 0 /\ \A u \in Running : ~Carries(u, k)'
                    /\ \A u \in Running : Carries(u, k)' =>
                         /\ applied'[k] = 0
                         /\ \A v \in Running \ {u} : ~Carries(v, k)'
                    /\ (k \notin jobs /\ \A u \in Running : ~Carries(u, k)') =>
                         applied'[k] = Due(k)
  BY DEF Once, Due
<1>8. CASE k = job
  BY <1>3, <1>4, <1>5, <1>7, <1>8
<1>9. CASE k # job
  BY <1>1, <1>4, <1>5, <1>6, <1>9 DEF Once
<1> QED
  BY <1>8, <1>9

LEMMA OnceStep == TypeOK /\ Placed /\ Settled /\ [Next]_vars => Settled'
<1> SUFFICES ASSUME TypeOK, Placed, Settled, [Next]_vars, ~disturbed' PROVE Once'
  BY DEF Settled
<1>0. /\ Workers \subseteq Running /\ Loose \subseteq Running /\ Workers \intersect Loose = {}
      /\ sent \subseteq Job
  BY ScoresAssumption, SentJobs DEF Running
<1>1. CASE UNCHANGED vars
  BY <1>1, CarryOn DEF Settled, Carries, vars
<1>2. ASSUME NEW w \in Running, Abort(w) \/ Fail(w) \/ Redeliver(w) PROVE FALSE
  BY <1>2 DEF Abort, Fail, Redeliver, Fault
<1>3. ASSUME NEW w \in Workers, Take(w) PROVE Once'
  <2>1. PICK job \in jobs : /\ jobs' = jobs \ {job}
                            /\ Update(w, [worker[w] EXCEPT !.pc = "begun", !.job = job])
    BY <1>3 DEF Take
  <2>2. /\ worker'[w].pc = "begun" /\ worker'[w].job = job /\ worker[w].pc = "idle"
        /\ \A v \in Running \ {w} : worker'[v] = worker[v]
    BY <1>0, <1>3, <2>1, RunType DEF Update, TypeOK, Run, Take, At
  <2>3. Once /\ sent' = sent /\ applied' = applied
    BY <1>3 DEF Take, Settled
  <2>4. /\ \A k \in sent : Carries(w, k)' <=> k = job
        /\ \A k \in sent : ~Carries(w, k)
        /\ \A v \in Running \ {w}, k \in sent : Carries(v, k)' <=> Carries(v, k)
    BY <2>2 DEF Carries
  <2> SUFFICES ASSUME NEW k \in sent
               PROVE  /\ k \in jobs' => applied[k] = 0 /\ \A u \in Running : ~Carries(u, k)'
                      /\ \A u \in Running : Carries(u, k)' =>
                           /\ applied[k] = 0
                           /\ \A v \in Running \ {u} : ~Carries(v, k)'
                      /\ (k \notin jobs' /\ \A u \in Running : ~Carries(u, k)') =>
                           applied[k] = Due(k)
    BY <2>3 DEF Once, Due
  <2>5. CASE k = job
    BY <1>0, <2>1, <2>3, <2>4, <2>5 DEF Once
  <2>6. CASE k # job
    BY <2>1, <2>3, <2>4, <2>6 DEF Once
  <2> QED
    BY <2>5, <2>6
\* Steps of a run between its beginning and its effect.
<1>4. ASSUME NEW w \in Running, worker'[w].job = worker[w].job,
             worker[w].pc \in {"begun", "tx"}, worker'[w].pc \in {"write", "tx"},
             \A v \in Running \ {w} : worker'[v] = worker[v],
             UNCHANGED <<jobs, sent, applied, disturbed>>
      PROVE  Once'
  BY <1>4, CarryOn DEF Settled, Carries
<1>5. ASSUME NEW w \in Running, ReadScore(w) \/ ReadReferences(w) PROVE Once'
  <2>1. PICK seen : Update(w, [worker[w] EXCEPT !.pc = "write", !.seen = seen])
    <3>1. CASE ReadScore(w)
      BY <3>1 DEF ReadScore
    <3>2. CASE ReadReferences(w)
      BY <3>2 DEF ReadReferences
    <3> QED
      BY <1>5, <3>1, <3>2
  <2>2. UNCHANGED <<jobs, sent, applied, disturbed>> /\ worker[w].pc = "begun"
    BY <1>5 DEF ReadScore, ReadReferences, Fault, At
  <2> QED
    BY <1>4, <2>1, <2>2, RunType DEF Update, TypeOK, Run
<1>6. ASSUME NEW w \in Running, Begin(w) \/ Exec(w) PROVE Once'
  <2>1. PICK plan, held : Update(w, [worker[w] EXCEPT !.pc = "tx", !.plan = plan, !.held = held])
    <3>1. CASE Begin(w)
      <4>1. PICK plan : Update(w, [worker[w] EXCEPT !.pc = "tx", !.plan = plan])
        BY <3>1 DEF Begin
      <4>2. [worker[w] EXCEPT !.pc = "tx", !.plan = plan]
              = [worker[w] EXCEPT !.pc = "tx", !.plan = plan, !.held = worker[w].held]
        BY RunType DEF Run
      <4> QED
        BY <4>1, <4>2
    <3>2. CASE Exec(w)
      <4>1. worker[w].pc = "tx"
            /\ Update(w, [worker[w] EXCEPT !.plan = Tail(@),
                                           !.held = @ \union {Head(worker[w].plan)}])
        BY <3>2 DEF Exec, At
      <4>2. \A plan, held : [worker[w] EXCEPT !.plan = plan, !.held = held]
              = [worker[w] EXCEPT !.pc = "tx", !.plan = plan, !.held = held]
        BY <4>1, RunType DEF Run
      <4> QED
        BY <4>1, <4>2
    <3> QED
      BY <1>6, <3>1, <3>2
  <2>2. UNCHANGED <<jobs, sent, applied, disturbed>> /\ worker[w].pc \in {"begun", "tx"}
    BY <1>6 DEF Begin, Exec, At
  <2> QED
    BY <1>4, <2>1, <2>2, RunType DEF Update, TypeOK, Run
<1>7. ASSUME NEW w \in Running,
             \/ WriteScore(w) \/ WriteFresh(w) \/ BumpConnections(w)
             \/ FollowerInteractionScoreBump(w) \/ Commit(w)
      PROVE  Once'
  <2>1. /\ worker[w].pc \in {"begun", "write", "tx"} /\ Applied(w) /\ Finish(w)
        /\ UNCHANGED <<jobs, sent>>
    BY <1>7 DEF WriteScore, WriteFresh, BumpConnections, FollowerInteractionScoreBump, Commit, At
  <2>2. ~disturbed
    BY <1>7 DEF WriteScore, WriteFresh, BumpConnections, FollowerInteractionScoreBump, Commit
  <2>3. worker[w].job \in sent
    BY <2>1 DEF TypeOK, At
  <2>4. Due(worker[w].job) = 1
    <3>1. CASE Commit(w)
      BY <3>1 DEF Commit, Placed, At, Doing, Due, Running
    <3>2. CASE ~Commit(w)
      BY <1>7, <3>2 DEF WriteScore, WriteFresh, BumpConnections, FollowerInteractionScoreBump,
                        Doing, Due
    <3> QED
      BY <3>1, <3>2
  <2>5. Carries(w, worker[w].job)
    BY <2>1 DEF Carries
  <2> QED
    BY <2>1, <2>2, <2>3, <2>4, <2>5, TakeEffect DEF Settled
<1>8. ASSUME NEW w \in Workers, StartBump(w) PROVE Once'
  <2>0. /\ w \in Running /\ worker[w] \in Run /\ worker[w].job.kind = "view"
        /\ worker[w].pc = "begun" /\ worker[w].job \in sent
        /\ UNCHANGED <<jobs, sent, applied, disturbed>> /\ Once
    BY <1>0, <1>8, RunType DEF StartBump, Doing, At, TypeOK, Settled
  <2> DEFINE job == worker[w].job
  <2>1. /\ \A k \in sent : Carries(w, k) <=> k = job
        /\ applied[job] = 0 /\ job \notin jobs /\ \A v \in Running \ {w} : ~Carries(v, job)
    BY <2>0 DEF Carries, Once
  <2>2. CASE worker[w].job.interests = {}
    <3>1. Update(w, [worker[w] EXCEPT !.pc = "log"])
      BY <1>8, <2>2 DEF StartBump
    <3>2. /\ worker'[w].pc = "log"
          /\ \A v \in Running \ {w} : worker'[v] = worker[v]
      BY <2>0, <3>1 DEF Update, TypeOK, Run
    <3>3. /\ \A k \in sent : ~Carries(w, k)'
          /\ \A v \in Running \ {w}, k \in sent : Carries(v, k)' <=> Carries(v, k)
      BY <3>2 DEF Carries
    <3>4. Due(job) = 0
      BY <2>0, <2>2 DEF Due
    <3> HIDE DEF job
    <3> QED
      BY <2>0, <2>1, <3>3, <3>4 DEF Once, Due
  <2>3. CASE worker[w].job.interests # {}
    <3>1. PICK g \in Loose :
            /\ At(g, "idle")
            /\ worker' = [worker EXCEPT ![g] = [Rest EXCEPT !.pc = "begun", !.job = worker[w].job],
                                        ![w].pc = "log"]
      BY <1>8, <2>3 DEF StartBump
    <3>2. g \in Running /\ g # w
      BY <1>0
    <3>3. /\ worker'[w].pc = "log"
          /\ worker'[g].job = job /\ worker'[g].pc = "begun"
          /\ \A v \in Running \ {w, g} : worker'[v] = worker[v]
      BY <2>0, <3>1, <3>2 DEF TypeOK, Run, Rest
    <3>4. /\ \A k \in sent : ~Carries(w, k)'
          /\ \A k \in sent : Carries(g, k)' <=> k = job
          /\ \A k \in sent : ~Carries(g, k)
          /\ \A v \in Running \ {w, g}, k \in sent : Carries(v, k)' <=> Carries(v, k)
      BY <3>1, <3>3 DEF Carries, At
    <3> HIDE DEF job
    <3> SUFFICES ASSUME NEW k \in sent
                 PROVE  /\ k \in jobs => applied[k] = 0 /\ \A u \in Running : ~Carries(u, k)'
                        /\ \A u \in Running : Carries(u, k)' =>
                             /\ applied[k] = 0
                             /\ \A v \in Running \ {u} : ~Carries(v, k)'
                        /\ (k \notin jobs /\ \A u \in Running : ~Carries(u, k)') =>
                             applied[k] = Due(k)
      BY <2>0 DEF Once, Due
    <3>5. CASE k = job
      BY <2>0, <2>1, <3>2, <3>4, <3>5
    <3>6. CASE k # job
      BY <2>0, <2>1, <3>2, <3>4, <3>6 DEF Once
    <3> QED
      BY <3>5, <3>6
  <2> QED
    BY <2>2, <2>3
<1>9. ASSUME NEW w \in Workers, LogViews(w) PROVE Once'
  <2>1. /\ worker[w].pc = "log" /\ Finish(w) /\ UNCHANGED <<jobs, sent, applied, disturbed>>
    BY <1>9 DEF LogViews, At
  <2>2. worker'[w].pc = "idle" /\ \A v \in Running \ {w} : worker'[v] = worker[v]
    BY <1>0, <2>1, FinishType
  <2>3. \A v \in Running, k \in sent : Carries(v, k)' <=> Carries(v, k)
    BY <2>1, <2>2 DEF Carries
  <2> QED
    BY <2>1, <2>3, CarryOn DEF Settled
<1> QED
  BY <1>0, <1>1, <1>2, <1>3, <1>5, <1>6, <1>7, <1>8, <1>9
     DEF Next, Step, SaveViewCacheEngagements, UpdateRankingScore, CreatePostScoreForNewPost,
         BumpInterestAffinity

\* Without a fault and without an aborted transaction every job has had its
\* effect once when the queues are empty and everybody has ended, also a batch
\* of views whose bump nobody waits for (SaveViewCacheEngagements).
THEOREM EffectOnce == Spec => []AppliedOnce
<1>1. TypeOK /\ Settled => AppliedOnce
  <2> SUFFICES ASSUME TypeOK, Settled, Quiescent, ~disturbed, NEW job \in sent
               PROVE  applied[job] = Due(job)
    BY DEF AppliedOnce, Due
  <2>1. \A w \in Running : ~Carries(w, job)
    BY DEF Quiescent, At, Carries
  <2> QED
    BY <2>1 DEF Quiescent, Settled, Once
<1> QED
  BY <1>1, TypeInit, TypeStep, PlacedInit, PlacedStep, OnceInit, OnceStep, PTL DEF Spec

(***************************************************************************)
(* Finite sums.  SumFunctionOnSet is a fold: a recursive function over the *)
(* parts of the set, which a function that adds up determines.             *)
(***************************************************************************)
\* g gives the sum of f over each part of S.
AddsUp(g, f, S) ==
  /\ g \in [SUBSET S -> Int] /\ g[{}] = 0
  /\ \A s \in SUBSET S : \A x \in s : g[s] = f[x] + g[s \ {x}]

LEMMA SmallestPart ==
  ASSUME NEW S, IsFiniteSet(S), NEW B, B \subseteq SUBSET S, B # {}
  PROVE  \E s \in B : \A x \in s : s \ {x} \notin B
<1>1. FiniteSubsetsOf(S) = SUBSET S
  BY FS_FiniteSubsetsOfFinite
<1>2. PICK s \in B : \A r \in B : ~(<<r, s>> \in StrictSubsetOrdering(S))
  BY <1>1, FS_StrictSubsetOrderingWellFounded, WFMin
<1>3. ASSUME NEW x \in s PROVE s \ {x} \notin B
  BY <1>2 DEF StrictSubsetOrdering
<1> QED
  BY <1>3

LEMMA SumIs ==
  ASSUME NEW S, IsFiniteSet(S), NEW f, NEW g, AddsUp(g, f, S)
  PROVE  SumFunctionOnSet(f, S) = g[S]
<1> DEFINE some(s) == CHOOSE x \in s : TRUE
           iter == CHOOSE h : h = [s \in SUBSET S |->
                     IF s = {} THEN 0 ELSE f[some(s)] + h[s \ {some(s)}]]
<1>1. SumFunctionOnSet(f, S) = iter[S]
  BY DEF SumFunctionOnSet, FoldFunctionOnSet, MapThenFoldSet
<1>2. \A s \in SUBSET S : s # {} => some(s) \in s
  OBVIOUS
<1> HIDE DEF some
<1>3. g = [s \in SUBSET S |-> IF s = {} THEN 0 ELSE f[some(s)] + g[s \ {some(s)}]]
  BY <1>2 DEF AddsUp
<1>4. iter = [s \in SUBSET S |-> IF s = {} THEN 0 ELSE f[some(s)] + iter[s \ {some(s)}]]
  BY <1>3
<1> HIDE DEF iter
<1> DEFINE B == {s \in SUBSET S : iter[s] # g[s]}
<1>5. B = {}
  <2> SUFFICES ASSUME B # {} PROVE FALSE
    OBVIOUS
  <2>1. PICK s \in B : \A x \in s : s \ {x} \notin B
    BY SmallestPart
  <2>2. s # {}
    BY <1>4, <2>1 DEF AddsUp
  <2>3. iter[s \ {some(s)}] = g[s \ {some(s)}]
    BY <1>2, <2>1, <2>2
  <2> QED
    BY <1>2, <1>3, <1>4, <2>1, <2>2, <2>3
<1> QED
  BY <1>1, <1>5

\* Every finite sum exists.
LEMMA SumExists ==
  ASSUME NEW S, IsFiniteSet(S), NEW f, \A x \in S : f[x] \in Int
  PROVE  \E g : AddsUp(g, f, S)
<1> DEFINE B == {s \in SUBSET S : ~ \E g : AddsUp(g, f, s)}
<1>1. B = {}
  <2> SUFFICES ASSUME B # {} PROVE FALSE
    OBVIOUS
  <2>1. PICK s \in B : \A x \in s : s \ {x} \notin B
    BY SmallestPart
  <2>2. s # {}
    <3>1. SUBSET {} = {{}}
      OBVIOUS
    <3>2. AddsUp([r \in SUBSET {} |-> 0], f, {})
      BY <3>1 DEF AddsUp
    <3> QED
      BY <2>1, <3>2
  <2>3. PICK x \in s : TRUE
    BY <2>2
  <2>4. PICK h : AddsUp(h, f, s \ {x})
    BY <2>1, <2>3
  <2> DEFINE g == [r \in SUBSET s |-> IF x \in r THEN f[x] + h[r \ {x}] ELSE h[r]]
  <2>5. f[x] \in Int /\ \A r \in SUBSET (s \ {x}) : h[r] \in Int
    BY <2>3, <2>4 DEF AddsUp
  <2>6. g \in [SUBSET s -> Int]
    BY <2>5
  <2>7. ASSUME NEW r \in SUBSET s, NEW y \in r PROVE g[r] = f[y] + g[r \ {y}]
    <3>1. CASE y = x
      BY <3>1
    <3>2. CASE y # x /\ x \in r
      <4>1. y \in r \ {x} /\ r \ {x} \in SUBSET (s \ {x})
        BY <3>2
      <4>2. h[r \ {x}] = f[y] + h[(r \ {x}) \ {y}]
        BY <2>4, <4>1 DEF AddsUp
      <4>3. (r \ {x}) \ {y} = (r \ {y}) \ {x} /\ x \in r \ {y} /\ r \ {y} \in SUBSET s
        BY <3>2
      <4>4. f[y] \in Int /\ h[(r \ {y}) \ {x}] \in Int
        BY <2>5
      <4>5. g[r] = f[x] + h[r \ {x}] /\ g[r \ {y}] = f[x] + h[(r \ {y}) \ {x}]
        BY <3>2, <4>3
      <4>6. h[r \ {x}] = f[y] + h[(r \ {y}) \ {x}]
        BY <4>2, <4>3
      <4> HIDE DEF g
      <4> QED
        BY <2>5, <4>4, <4>5, <4>6
    <3>3. CASE x \notin r
      BY <2>4, <3>3 DEF AddsUp
    <3> QED
      BY <3>1, <3>2, <3>3
  <2>8. g[{}] = 0
    BY <2>4 DEF AddsUp
  <2>9. AddsUp(g, f, s)
    BY <2>6, <2>7, <2>8 DEF AddsUp
  <2> QED
    BY <2>1, <2>9
<1> QED
  BY <1>1

\* A sum is an integer; of nothing it is zero; and it grows by each summand.
LEMMA SumWith ==
  ASSUME NEW S, IsFiniteSet(S), NEW f, \A x \in S : f[x] \in Int
  PROVE  /\ SumFunctionOnSet(f, S) \in Int
         /\ S = {} => SumFunctionOnSet(f, S) = 0
         /\ \A x \in S : SumFunctionOnSet(f, S) = f[x] + SumFunctionOnSet(f, S \ {x})
<1>1. PICK g : AddsUp(g, f, S)
  BY SumExists
<1>2. SumFunctionOnSet(f, S) = g[S]
  BY <1>1, SumIs
<1>3. ASSUME NEW x \in S PROVE SumFunctionOnSet(f, S \ {x}) = g[S \ {x}]
  <2> DEFINE h == [r \in SUBSET (S \ {x}) |-> g[r]]
  <2>1. AddsUp(h, f, S \ {x})
    <3>1. \A r \in SUBSET (S \ {x}) : r \in SUBSET S /\ h[r] = g[r]
      OBVIOUS
    <3>2. \A r \in SUBSET (S \ {x}) : \A y \in r : r \ {y} \in SUBSET (S \ {x})
      OBVIOUS
    <3>3. h \in [SUBSET (S \ {x}) -> Int]
      BY <1>1, <3>1 DEF AddsUp
    <3> HIDE DEF h
    <3> QED
      BY <1>1, <3>1, <3>2, <3>3 DEF AddsUp
  <2>2. IsFiniteSet(S \ {x})
    BY FS_Subset
  <2> HIDE DEF h
  <2>3. h[S \ {x}] = g[S \ {x}]
    BY DEF h
  <2> QED
    BY <2>1, <2>2, <2>3, SumIs
<1> QED
  BY <1>1, <1>2, <1>3 DEF AddsUp

\* A sum depends on its summands only.
LEMMA SumEqual ==
  ASSUME NEW S, IsFiniteSet(S), NEW f, NEW h, \A x \in S : f[x] \in Int /\ h[x] = f[x]
  PROVE  SumFunctionOnSet(h, S) = SumFunctionOnSet(f, S)
<1>1. PICK g : AddsUp(g, f, S)
  BY SumExists
<1>2. AddsUp(g, h, S)
  <2>1. \A s \in SUBSET S : \A x \in s : h[x] = f[x]
    OBVIOUS
  <2> QED
    BY <1>1, <2>1 DEF AddsUp
<1> QED
  BY <1>1, <1>2, SumIs

\* When one summand changes, the sum changes by as much.
LEMMA SumChanges ==
  ASSUME NEW S, IsFiniteSet(S), NEW f, NEW h, NEW x \in S,
         \A y \in S : f[y] \in Int /\ h[y] \in Int,
         \A y \in S \ {x} : h[y] = f[y]
  PROVE  SumFunctionOnSet(h, S) = SumFunctionOnSet(f, S) + h[x] - f[x]
<1>1. IsFiniteSet(S \ {x})
  BY FS_Subset
<1>2. SumFunctionOnSet(h, S \ {x}) = SumFunctionOnSet(f, S \ {x})
  BY <1>1, SumEqual
<1>3. SumFunctionOnSet(h, S) = h[x] + SumFunctionOnSet(h, S \ {x})
  BY SumWith
<1>4. SumFunctionOnSet(f, S) = f[x] + SumFunctionOnSet(f, S \ {x})
  BY SumWith
<1>5. SumFunctionOnSet(f, S \ {x}) \in Int
  BY <1>1, SumWith
<1> QED
  BY <1>2, <1>3, <1>4, <1>5

\* A sum of zeros is zero.
LEMMA SumZero ==
  ASSUME NEW S, IsFiniteSet(S), NEW f, \A x \in S : f[x] = 0
  PROVE  SumFunctionOnSet(f, S) = 0
<1> DEFINE g == [s \in SUBSET S |-> 0]
<1>1. AddsUp(g, f, S)
  BY DEF AddsUp
<1>2. g[S] = 0
  OBVIOUS
<1> HIDE DEF g
<1> QED
  BY <1>1, <1>2, SumIs

(***************************************************************************)
(* What the bumps add up to.                                               *)
(***************************************************************************)
AffinityJobs(e, i) ==
  {job \in Of("affinity") \union Of("view") : job.entity = e /\ i \in job.interests}
ConnectionJobs(pair) ==
  {job \in Of("connection") : job.actor \in pair /\ pair \ {job.actor} \subseteq job.members}
FollowJobs(p) == {job \in Of("follow") : <<job.actor, job.receiver>> = p}

\* Who changes a score by what.
LEMMA ChangeType ==
  ASSUME NEW job \in Job, job.kind # "new"
  PROVE  job.change \in {1, -1}
BY DEF Job

LEMMA BumpType ==
  ASSUME NEW job \in Job
  PROVE  /\ job.kind = "connection" => job.actor \in Entities /\ job.members \in SUBSET Entities
         /\ job.kind = "follow" => job.actor \in Entities /\ job.receiver \in Entities
BY DEF Job

\* The total of some jobs grows with the effect of one of them.
LEMMA TotalGrows ==
  ASSUME TypeOK, NEW w \in Running, ~At(w, "idle"), Applied(w),
         NEW J \in SUBSET sent, \A job \in J : job.kind # "new"
  PROVE  /\ Total(J) \in Int
         /\ SumFunctionOnSet([job \in J |-> applied'[job] * job.change], J)
              = Total(J) + IF worker[w].job \in J THEN worker[w].job.change ELSE 0
<1> DEFINE f == [job \in J |-> applied[job] * job.change]
           h == [job \in J |-> applied'[job] * job.change]
           mine == worker[w].job
<1>1. IsFiniteSet(J)
  BY FS_Subset, ScoresAssumption DEF TypeOK
<1>2. \A job \in J : job.change \in {1, -1} /\ applied[job] \in Nat /\ applied'[job] \in Nat
  BY SentJobs, ChangeType, AppliedType DEF TypeOK
<1>3. \A job \in J : f[job] \in Int /\ h[job] \in Int
  BY <1>2
<1>4. Total(J) = SumFunctionOnSet(f, J)
  BY DEF Total
<1>5. \A job \in J \ {mine} : h[job] = f[job]
  BY AppliedType DEF TypeOK
<1>6. mine \in J => h[mine] = f[mine] + mine.change
  <2> SUFFICES ASSUME mine \in J PROVE applied'[mine] * mine.change = applied[mine] * mine.change + mine.change
    OBVIOUS
  <2>1. applied'[mine] = applied[mine] + 1 /\ mine.change \in {1, -1} /\ applied[mine] \in Nat
    BY <1>2, AppliedType
  <2>2. CASE mine.change = 1
    BY <2>1, <2>2
  <2>3. CASE mine.change = -1
    BY <2>1, <2>3
  <2> QED
    BY <2>1, <2>2, <2>3
<1> HIDE DEF f, h, mine
<1>7. SumFunctionOnSet(f, J) \in Int
  BY <1>1, <1>3, SumWith
<1>8. CASE mine \in J
  <2>1. SumFunctionOnSet(h, J) = SumFunctionOnSet(f, J) + h[mine] - f[mine]
    BY <1>1, <1>3, <1>5, <1>8, SumChanges
  <2>2. f[mine] \in Int /\ mine.change \in Int
    BY <1>2, <1>3, <1>8
  <2> QED
    BY <1>4, <1>6, <1>7, <1>8, <2>1, <2>2 DEF h, mine
<1>9. CASE mine \notin J
  <2>1. SumFunctionOnSet(h, J) = SumFunctionOnSet(f, J)
    BY <1>1, <1>3, <1>5, <1>9, SumEqual
  <2> QED
    BY <1>4, <1>7, <1>9, <2>1 DEF h, mine
<1> QED
  BY <1>8, <1>9

Tables ==
  /\ affinity \in [Entities -> [Interests -> Int]] /\ trending \in [Interests -> Int]
  /\ connection \in [Pairs -> Int] /\ follow \in [Entities \X Entities -> Int]

Exact == Tables /\ BumpsExact

LEMMA ExactInit == Init => Exact
<1> SUFFICES ASSUME Init PROVE Exact
  OBVIOUS
<1>1. Tables
  BY DEF Init, Tables
<1>2. sent \in Scenarios /\ IsFiniteSet(sent) /\ sent \subseteq Job /\ IsFiniteSet(Entities)
      /\ applied = [job \in sent |-> 0]
  BY ScoresAssumption DEF Init
<1>3. ASSUME NEW J \in SUBSET sent, \A job \in J : job.kind # "new" PROVE Total(J) = 0
  <2>1. IsFiniteSet(J)
    BY <1>2, FS_Subset
  <2>2. \A job \in J : [k \in J |-> applied[k] * k.change][job] = 0
    <3> SUFFICES ASSUME NEW job \in J PROVE applied[job] * job.change = 0
      OBVIOUS
    <3>1. job.change \in {1, -1}
      BY <1>2, <1>3, ChangeType
    <3> QED
      BY <1>2, <3>1
  <2> QED
    BY <2>1, <2>2, SumZero DEF Total
<1>4. \A e \in Entities, i \in Interests : affinity[e][i] = Total(AffinityJobs(e, i))
  BY <1>3 DEF AffinityJobs, Of, Init
<1>5. \A i \in Interests : trending[i] = SumFunctionOnSet([e \in Entities |-> affinity[e][i]], Entities)
  <2> SUFFICES ASSUME NEW i \in Interests
               PROVE  SumFunctionOnSet([e \in Entities |-> affinity[e][i]], Entities) = 0
    BY DEF Init
  <2>1. \A e \in Entities : [d \in Entities |-> affinity[d][i]][e] = 0
    BY DEF Init
  <2> QED
    BY <1>2, <2>1, SumZero
<1>6. \A pair \in Pairs : connection[pair] = Total(ConnectionJobs(pair))
  BY <1>3 DEF ConnectionJobs, Of, Init
<1>7. \A p \in Entities \X Entities : follow[p] = Total(FollowJobs(p))
  BY <1>3 DEF FollowJobs, Of, Init
<1> QED
  BY <1>1, <1>4, <1>5, <1>6, <1>7
     DEF Exact, BumpsExact, AffinityJobs, ConnectionJobs, FollowJobs

\* What a job's effect does to the totals: those it counts for change with it.
LEMMA TotalsGrow ==
  ASSUME TypeOK, NEW w \in Running, ~At(w, "idle"), Applied(w), sent' = sent
  PROVE  LET job == worker[w].job IN
         /\ \A e \in Entities, i \in Interests :
              Total(AffinityJobs(e, i))' = Total(AffinityJobs(e, i))
                + IF job \in AffinityJobs(e, i) THEN job.change ELSE 0
         /\ \A pair \in Pairs :
              Total(ConnectionJobs(pair))' = Total(ConnectionJobs(pair))
                + IF job \in ConnectionJobs(pair) THEN job.change ELSE 0
         /\ \A p \in Entities \X Entities :
              Total(FollowJobs(p))' = Total(FollowJobs(p))
                + IF job \in FollowJobs(p) THEN job.change ELSE 0
<1>1. \A kind : Of(kind)' = Of(kind)
  BY DEF Of
<1>2. ASSUME NEW e \in Entities, NEW i \in Interests
      PROVE  Total(AffinityJobs(e, i))' = Total(AffinityJobs(e, i))
               + IF worker[w].job \in AffinityJobs(e, i) THEN worker[w].job.change ELSE 0
  <2>1. AffinityJobs(e, i)' = AffinityJobs(e, i)
    BY <1>1 DEF AffinityJobs
  <2>2. AffinityJobs(e, i) \in SUBSET sent /\ \A job \in AffinityJobs(e, i) : job.kind # "new"
    BY DEF AffinityJobs, Of
  <2> QED
    BY <2>1, <2>2, TotalGrows DEF Total
<1>3. ASSUME NEW pair \in Pairs
      PROVE  Total(ConnectionJobs(pair))' = Total(ConnectionJobs(pair))
               + IF worker[w].job \in ConnectionJobs(pair) THEN worker[w].job.change ELSE 0
  <2>1. ConnectionJobs(pair)' = ConnectionJobs(pair)
    BY <1>1 DEF ConnectionJobs
  <2>2. ConnectionJobs(pair) \in SUBSET sent /\ \A job \in ConnectionJobs(pair) : job.kind # "new"
    BY DEF ConnectionJobs, Of
  <2> QED
    BY <2>1, <2>2, TotalGrows DEF Total
<1>4. ASSUME NEW p \in Entities \X Entities
      PROVE  Total(FollowJobs(p))' = Total(FollowJobs(p))
               + IF worker[w].job \in FollowJobs(p) THEN worker[w].job.change ELSE 0
  <2>1. FollowJobs(p)' = FollowJobs(p)
    BY <1>1 DEF FollowJobs
  <2>2. FollowJobs(p) \in SUBSET sent /\ \A job \in FollowJobs(p) : job.kind # "new"
    BY DEF FollowJobs, Of
  <2> QED
    BY <2>1, <2>2, TotalGrows DEF Total
<1> QED
  BY <1>2, <1>3, <1>4

\* The members of a pair are its two; one of them is the other's receiver.
LEMMA PairOf ==
  ASSUME NEW pair \in Pairs, NEW actor \in pair
  PROVE  \E m \in pair \ {actor} : pair = {actor, m}
<1>1. IsFiniteSet(pair) /\ Cardinality(pair) = 2
  BY ScoresAssumption, FS_Subset DEF Pairs
<1>2. IsFiniteSet(pair \ {actor}) /\ Cardinality(pair \ {actor}) = 1
  BY <1>1, FS_RemoveElement
<1>3. PICK m : pair \ {actor} = {m}
  BY <1>2, FS_Singleton
<1> QED
  BY <1>3

\* What an update of a table adds.
LEMMA AddedIs ==
  ASSUME NEW K, NEW old \in [K -> Int], NEW hit, NEW change \in Int
  PROVE  /\ Added(old, hit, change) \in [K -> Int]
         /\ \A x \in K : Added(old, hit, change)[x] = IF hit[x] THEN old[x] + change ELSE old[x]
<1>1. Added(old, hit, change) = [x \in K |-> IF hit[x] THEN old[x] + change ELSE old[x]]
  BY Zenon DEF Added
<1>2. \A x \in K : old[x] \in Int /\ old[x] + change \in Int
  OBVIOUS
<1> QED
  BY <1>1, <1>2

\* A step that leaves the bumped scores alone, and has no effect that counts
\* for them.
LEMMA ExactStays ==
  ASSUME TypeOK, Exact, UNCHANGED <<sent, affinity, trending, connection, follow>>,
         \/ applied' = applied
         \/ \E w \in Running : /\ ~At(w, "idle") /\ Applied(w)
                               /\ worker[w].job.kind \in {"rank", "new"}
  PROVE  Exact'
<1>0. ASSUME \A e \in Entities, i \in Interests :
               Total(AffinityJobs(e, i))' = Total(AffinityJobs(e, i)),
             \A pair \in Pairs : Total(ConnectionJobs(pair))' = Total(ConnectionJobs(pair)),
             \A p \in Entities \X Entities : Total(FollowJobs(p))' = Total(FollowJobs(p))
      PROVE  Exact'
  <2>1. Tables' /\ \A i \in Interests :
          trending'[i] = SumFunctionOnSet([e \in Entities |-> affinity'[e][i]], Entities)
    BY DEF Exact, Tables, BumpsExact
  <2>2. /\ \A e \in Entities, i \in Interests : affinity'[e][i] = Total(AffinityJobs(e, i))'
        /\ \A pair \in Pairs : connection'[pair] = Total(ConnectionJobs(pair))'
        /\ \A p \in Entities \X Entities : follow'[p] = Total(FollowJobs(p))'
    <3>1. /\ \A e \in Entities, i \in Interests : affinity[e][i] = Total(AffinityJobs(e, i))
          /\ \A pair \in Pairs : connection[pair] = Total(ConnectionJobs(pair))
          /\ \A p \in Entities \X Entities : follow[p] = Total(FollowJobs(p))
      BY DEF Exact, BumpsExact, AffinityJobs, ConnectionJobs, FollowJobs
    <3> QED
      BY <1>0, <3>1
  <2> QED
    BY <2>1, <2>2 DEF Exact, BumpsExact, AffinityJobs, ConnectionJobs, FollowJobs
<1>1. CASE applied' = applied
  <2>1. \A e \in Entities, i \in Interests : AffinityJobs(e, i)' = AffinityJobs(e, i)
    BY DEF AffinityJobs, Of
  <2>2. \A pair \in Pairs : ConnectionJobs(pair)' = ConnectionJobs(pair)
    BY DEF ConnectionJobs, Of
  <2>3. \A p \in Entities \X Entities : FollowJobs(p)' = FollowJobs(p)
    BY DEF FollowJobs, Of
  <2>4. /\ \A e \in Entities, i \in Interests :
             Total(AffinityJobs(e, i))' = Total(AffinityJobs(e, i))
        /\ \A pair \in Pairs : Total(ConnectionJobs(pair))' = Total(ConnectionJobs(pair))
        /\ \A p \in Entities \X Entities : Total(FollowJobs(p))' = Total(FollowJobs(p))
    BY <1>1, <2>1, <2>2, <2>3 DEF Total
  <2> QED
    BY <1>0, <2>4
<1>2. CASE \E w \in Running : /\ ~At(w, "idle") /\ Applied(w)
                              /\ worker[w].job.kind \in {"rank", "new"}
  <2>1. PICK w \in Running : /\ ~At(w, "idle") /\ Applied(w)
                             /\ worker[w].job.kind \in {"rank", "new"}
    BY <1>2
  <2>2. worker[w].job.kind \notin {"affinity", "view", "connection", "follow"}
    BY <2>1
  <2>3. /\ \A e \in Entities, i \in Interests : worker[w].job \notin AffinityJobs(e, i)
        /\ \A pair \in Pairs : worker[w].job \notin ConnectionJobs(pair)
        /\ \A p \in Entities \X Entities : worker[w].job \notin FollowJobs(p)
    BY <2>2 DEF AffinityJobs, ConnectionJobs, FollowJobs, Of
  <2>4. /\ \A e \in Entities, i \in Interests : Total(AffinityJobs(e, i)) \in Int
        /\ \A pair \in Pairs : Total(ConnectionJobs(pair)) \in Int
        /\ \A p \in Entities \X Entities : Total(FollowJobs(p)) \in Int
    <3>1. /\ \A e \in Entities, i \in Interests : affinity[e][i] = Total(AffinityJobs(e, i))
          /\ \A pair \in Pairs : connection[pair] = Total(ConnectionJobs(pair))
          /\ \A p \in Entities \X Entities : follow[p] = Total(FollowJobs(p))
      BY DEF Exact, BumpsExact, AffinityJobs, ConnectionJobs, FollowJobs
    <3> QED
      BY <3>1 DEF Exact, Tables
  <2>5. /\ \A e \in Entities, i \in Interests :
             Total(AffinityJobs(e, i))' = Total(AffinityJobs(e, i))
        /\ \A pair \in Pairs : Total(ConnectionJobs(pair))' = Total(ConnectionJobs(pair))
        /\ \A p \in Entities \X Entities : Total(FollowJobs(p))' = Total(FollowJobs(p))
    BY <2>1, <2>3, <2>4, TotalsGrow
  <2> QED
    BY <1>0, <2>5
<1> QED
  BY <1>1, <1>2

\* The transaction of a bump: both tables move, by the same.
LEMMA ExactCommit ==
  ASSUME TypeOK, Placed, Exact, NEW w \in Running, Commit(w)
  PROVE  Exact'
<1> DEFINE job == worker[w].job
           hit == [i \in Interests |-> i \in job.interests]
<1>1. /\ ~At(w, "idle") /\ Applied(w)
      /\ affinity' = [affinity EXCEPT ![job.entity] = Added(@, hit, job.change)]
      /\ trending' = Added(trending, hit, job.change)
      /\ UNCHANGED <<sent, connection, follow>>
  BY DEF Commit, At
<1>2. job \in Job /\ job \in sent /\ job.kind \in {"affinity", "view"}
  BY <1>1, RunType DEF Commit, At, Placed, Doing, Running, TypeOK
<1>3. job.entity \in Entities /\ job.interests \in SUBSET Interests /\ job.change \in {1, -1}
  BY <1>2, JobType, ChangeType
<1>4. /\ affinity \in [Entities -> [Interests -> Int]] /\ trending \in [Interests -> Int]
      /\ connection \in [Pairs -> Int] /\ follow \in [Entities \X Entities -> Int]
  BY DEF Exact, Tables
<1>5. \A e \in Entities, i \in Interests :
        affinity'[e][i] = affinity[e][i]
          + IF e = job.entity /\ i \in job.interests THEN job.change ELSE 0
  <2> SUFFICES ASSUME NEW e \in Entities, NEW i \in Interests
               PROVE  affinity'[e][i] = affinity[e][i]
                        + IF e = job.entity /\ i \in job.interests THEN job.change ELSE 0
    OBVIOUS
  <2> HIDE DEF job
  <2>1. affinity[e][i] \in Int /\ DOMAIN affinity[e] = Interests
    BY <1>4
  <2>2. CASE e = job.entity
    <3>1. affinity'[e] = Added(affinity[e], hit, job.change)
      BY <1>1, <1>4, <2>2
    <3>2. affinity[e] \in [Interests -> Int] /\ job.change \in Int
      BY <1>3, <1>4
    <3>3. hit[i] <=> i \in job.interests
      OBVIOUS
    <3> HIDE DEF hit
    <3>4. affinity'[e][i] = IF hit[i] THEN affinity[e][i] + job.change ELSE affinity[e][i]
      BY <3>1, <3>2, AddedIs
    <3> QED
      BY <2>1, <2>2, <3>2, <3>3, <3>4
  <2>3. CASE e # job.entity
    BY <1>1, <1>4, <2>1, <2>3
  <2> QED
    BY <2>2, <2>3
<1>6. \A i \in Interests :
        trending'[i] = trending[i] + IF i \in job.interests THEN job.change ELSE 0
  <2> HIDE DEF job
  <2>1. \A i \in Interests : hit[i] <=> i \in job.interests
    OBVIOUS
  <2> HIDE DEF hit
  <2>2. \A i \in Interests :
          trending'[i] = IF hit[i] THEN trending[i] + job.change ELSE trending[i]
    BY <1>1, <1>3, <1>4, AddedIs
  <2>3. \A i \in Interests : trending[i] \in Int
    BY <1>4
  <2> QED
    BY <1>3, <2>1, <2>2, <2>3
<1>7. Tables'
  <2>1. affinity' \in [Entities -> [Interests -> Int]]
    <3> HIDE DEF job
    <3>1. Added(affinity[job.entity], hit, job.change) \in [Interests -> Int]
      BY <1>3, <1>4 DEF Added
    <3> QED
      BY <1>1, <1>4, <3>1
  <2>2. trending' \in [Interests -> Int]
    <3> HIDE DEF job
    <3> QED
      BY <1>1, <1>3, <1>4 DEF Added
  <2> QED
    BY <1>1, <1>4, <2>1, <2>2 DEF Tables
<1>8. \A e \in Entities, i \in Interests : affinity'[e][i] = Total(AffinityJobs(e, i))'
  <2> SUFFICES ASSUME NEW e \in Entities, NEW i \in Interests
               PROVE  affinity'[e][i] = Total(AffinityJobs(e, i))'
    OBVIOUS
  <2>1. affinity[e][i] = Total(AffinityJobs(e, i))
    BY DEF Exact, BumpsExact, AffinityJobs
  <2>2. job \in AffinityJobs(e, i) <=> e = job.entity /\ i \in job.interests
    BY <1>2 DEF AffinityJobs, Of
  <2>3. Total(AffinityJobs(e, i))' = Total(AffinityJobs(e, i))
          + IF job \in AffinityJobs(e, i) THEN job.change ELSE 0
    BY <1>1, TotalsGrow
  <2> QED
    BY <1>5, <2>1, <2>2, <2>3
<1>9. \A i \in Interests :
        trending'[i] = SumFunctionOnSet([e \in Entities |-> affinity'[e][i]], Entities)
  <2> SUFFICES ASSUME NEW i \in Interests
               PROVE  trending'[i] = SumFunctionOnSet([e \in Entities |-> affinity'[e][i]], Entities)
    OBVIOUS
  <2> DEFINE f == [e \in Entities |-> affinity[e][i]]
             h == [e \in Entities |-> affinity'[e][i]]
  <2>1. IsFiniteSet(Entities)
    BY ScoresAssumption
  <2>2. trending[i] = SumFunctionOnSet(f, Entities)
    BY DEF Exact, BumpsExact
  <2>3. \A e \in Entities : f[e] \in Int /\ h[e] \in Int
    BY <1>4, <1>7 DEF Tables
  <2>4. \A e \in Entities : h[e] = f[e]
          + IF e = job.entity /\ i \in job.interests THEN job.change ELSE 0
    BY <1>5
  <2> HIDE DEF f, h, job
  <2>5. CASE i \in job.interests
    <3>1. \A e \in Entities \ {job.entity} : h[e] = f[e]
      BY <2>3, <2>4
    <3> DEFINE x == job.entity
    <3>2. SumFunctionOnSet(h, Entities)
            = SumFunctionOnSet(f, Entities) + h[x] - f[x]
      <4>1. x \in Entities /\ \A e \in Entities \ {x} : h[e] = f[e]
        BY <1>3, <3>1
      <4> HIDE DEF x
      <4> QED
        BY <2>1, <2>3, <4>1, SumChanges
    <3>3. h[job.entity] = f[job.entity] + job.change /\ f[job.entity] \in Int
      BY <1>3, <2>3, <2>4, <2>5
    <3>4. trending'[i] = trending[i] + job.change /\ trending[i] \in Int
      BY <1>4, <1>6, <2>5
    <3>5. SumFunctionOnSet(h, Entities) = trending[i] + job.change
      BY <1>3, <2>2, <3>2, <3>3, <3>4
    <3> QED
      BY <3>4, <3>5 DEF h
  <2>6. CASE i \notin job.interests
    <3>1. \A e \in Entities : f[e] \in Int /\ h[e] = f[e]
      BY <2>3, <2>4, <2>6
    <3>2. SumFunctionOnSet(h, Entities) = SumFunctionOnSet(f, Entities)
      BY <2>1, <3>1, SumEqual
    <3>3. trending'[i] = trending[i]
      BY <1>4, <1>6, <2>6
    <3> QED
      BY <2>2, <3>2, <3>3 DEF h
  <2> QED
    BY <2>5, <2>6
<1>10. /\ \A pair \in Pairs : job \notin ConnectionJobs(pair)
       /\ \A p \in Entities \X Entities : job \notin FollowJobs(p)
  BY <1>2 DEF ConnectionJobs, FollowJobs, Of
<1>11. /\ \A pair \in Pairs : connection'[pair] = Total(ConnectionJobs(pair))'
       /\ \A p \in Entities \X Entities : follow'[p] = Total(FollowJobs(p))'
  <2>1. /\ \A pair \in Pairs : connection[pair] = Total(ConnectionJobs(pair))
        /\ \A p \in Entities \X Entities : follow[p] = Total(FollowJobs(p))
    BY DEF Exact, BumpsExact, ConnectionJobs, FollowJobs
  <2>2. /\ \A pair \in Pairs : Total(ConnectionJobs(pair))' = Total(ConnectionJobs(pair)) + 0
        /\ \A p \in Entities \X Entities : Total(FollowJobs(p))' = Total(FollowJobs(p)) + 0
    BY <1>1, <1>10, TotalsGrow
  <2> QED
    BY <1>1, <1>4, <2>1, <2>2
<1> QED
  BY <1>7, <1>8, <1>9, <1>11
     DEF Exact, BumpsExact, AffinityJobs, ConnectionJobs, FollowJobs

\* A chat's or an interaction's bump: every pair of the actor and a receiver,
\* once.
LEMMA ExactConnections ==
  ASSUME TypeOK, Placed, Exact, NEW w \in Running, BumpConnections(w)
  PROVE  Exact'
<1> DEFINE job == worker[w].job
           receivers == job.members \ {job.actor}
           hit == [pair \in DOMAIN connection |-> \E m \in receivers : pair = {job.actor, m}]
<1>1. /\ ~At(w, "idle") /\ Applied(w) /\ connection' = Added(connection, hit, job.change)
      /\ UNCHANGED <<sent, affinity, trending, follow>> /\ job.kind = "connection"
  BY DEF BumpConnections, At, Doing
<1>2. job \in Job /\ job \in sent /\ job.change \in {1, -1}
  BY <1>1, RunType, ChangeType DEF TypeOK, At
<1>3. connection \in [Pairs -> Int] /\ Tables
  BY DEF Exact, Tables
<1>4. ASSUME NEW pair \in Pairs PROVE hit[pair] <=> job \in ConnectionJobs(pair)
  <2>1. (\E m \in receivers : pair = {job.actor, m}) =>
          job.actor \in pair /\ pair \ {job.actor} \subseteq job.members
    OBVIOUS
  <2>2. ASSUME job.actor \in pair, pair \ {job.actor} \subseteq job.members
        PROVE  \E m \in receivers : pair = {job.actor, m}
    BY <2>2, PairOf
  <2>3. job \in ConnectionJobs(pair) <=>
          job.actor \in pair /\ pair \ {job.actor} \subseteq job.members
    BY <1>1, <1>2 DEF ConnectionJobs, Of
  <2>4. hit[pair] <=> \E m \in receivers : pair = {job.actor, m}
    BY <1>3
  <2> QED
    BY <2>1, <2>2, <2>3, <2>4
<1> HIDE DEF hit
<1>5. connection' \in [Pairs -> Int]
  <2> HIDE DEF job
  <2> QED
    BY <1>1, <1>2, <1>3 DEF Added
<1>6. Tables'
  BY <1>1, <1>3, <1>5 DEF Tables
<1>7. \A pair \in Pairs : connection'[pair] = Total(ConnectionJobs(pair))'
  <2> SUFFICES ASSUME NEW pair \in Pairs PROVE connection'[pair] = Total(ConnectionJobs(pair))'
    OBVIOUS
  <2>1. connection[pair] = Total(ConnectionJobs(pair))
    BY DEF Exact, BumpsExact, ConnectionJobs
  <2>2. connection'[pair] = connection[pair] + IF hit[pair] THEN job.change ELSE 0
    <3> HIDE DEF job
    <3> QED
      BY <1>1, <1>2, <1>3 DEF Added
  <2>3. Total(ConnectionJobs(pair))' = Total(ConnectionJobs(pair))
          + IF job \in ConnectionJobs(pair) THEN job.change ELSE 0
    BY <1>1, TotalsGrow
  <2> QED
    BY <1>4, <2>1, <2>2, <2>3
<1>8. /\ \A e \in Entities, i \in Interests : job \notin AffinityJobs(e, i)
      /\ \A p \in Entities \X Entities : job \notin FollowJobs(p)
  BY <1>1 DEF AffinityJobs, FollowJobs, Of
<1>9. /\ \A e \in Entities, i \in Interests : affinity'[e][i] = Total(AffinityJobs(e, i))'
      /\ \A p \in Entities \X Entities : follow'[p] = Total(FollowJobs(p))'
  <2>1. /\ \A e \in Entities, i \in Interests : affinity[e][i] = Total(AffinityJobs(e, i))
        /\ \A p \in Entities \X Entities : follow[p] = Total(FollowJobs(p))
    BY DEF Exact, BumpsExact, AffinityJobs, FollowJobs
  <2>2. /\ \A e \in Entities, i \in Interests :
             Total(AffinityJobs(e, i))' = Total(AffinityJobs(e, i)) + 0
        /\ \A p \in Entities \X Entities : Total(FollowJobs(p))' = Total(FollowJobs(p)) + 0
    BY <1>1, <1>8, TotalsGrow
  <2> QED
    BY <1>1, <1>3, <2>1, <2>2 DEF Tables
<1>10. \A i \in Interests :
         trending'[i] = SumFunctionOnSet([e \in Entities |-> affinity'[e][i]], Entities)
  BY <1>1 DEF Exact, BumpsExact
<1> QED
  BY <1>6, <1>7, <1>9, <1>10
     DEF Exact, BumpsExact, AffinityJobs, ConnectionJobs, FollowJobs

\* An interaction's bump for a followee: one row.
LEMMA ExactFollow ==
  ASSUME TypeOK, Placed, Exact, NEW w \in Running, FollowerInteractionScoreBump(w)
  PROVE  Exact'
<1> DEFINE job == worker[w].job
           hit == [p \in DOMAIN follow |-> p = <<job.actor, job.receiver>>]
<1>1. /\ ~At(w, "idle") /\ Applied(w) /\ follow' = Added(follow, hit, job.change)
      /\ UNCHANGED <<sent, affinity, trending, connection>> /\ job.kind = "follow"
  BY DEF FollowerInteractionScoreBump, At, Doing
<1>2. job \in Job /\ job \in sent /\ job.change \in {1, -1}
  BY <1>1, RunType, ChangeType DEF TypeOK, At
<1>3. follow \in [Entities \X Entities -> Int] /\ Tables
  BY DEF Exact, Tables
<1>4. ASSUME NEW p \in Entities \X Entities PROVE hit[p] <=> job \in FollowJobs(p)
  <2>1. hit[p] <=> p = <<job.actor, job.receiver>>
    BY <1>3
  <2> QED
    BY <1>1, <1>2, <2>1 DEF FollowJobs, Of
<1> HIDE DEF hit
<1>5. follow' \in [Entities \X Entities -> Int]
  BY <1>1, <1>2, <1>3, AddedIs
<1>6. Tables'
  BY <1>1, <1>3, <1>5 DEF Tables
<1>7. \A p \in Entities \X Entities : follow'[p] = Total(FollowJobs(p))'
  <2> SUFFICES ASSUME NEW p \in Entities \X Entities PROVE follow'[p] = Total(FollowJobs(p))'
    OBVIOUS
  <2>1. follow[p] = Total(FollowJobs(p))
    BY DEF Exact, BumpsExact, FollowJobs
  <2>2. follow'[p] = IF hit[p] THEN follow[p] + job.change ELSE follow[p]
    BY <1>1, <1>2, <1>3, AddedIs
  <2>3. Total(FollowJobs(p))' = Total(FollowJobs(p))
          + IF job \in FollowJobs(p) THEN job.change ELSE 0
    BY <1>1, TotalsGrow
  <2>4. follow[p] \in Int
    BY <1>3
  <2> QED
    BY <1>4, <2>1, <2>2, <2>3, <2>4
<1>8. /\ \A e \in Entities, i \in Interests : job \notin AffinityJobs(e, i)
      /\ \A pair \in Pairs : job \notin ConnectionJobs(pair)
  BY <1>1 DEF AffinityJobs, ConnectionJobs, Of
<1>9. /\ \A e \in Entities, i \in Interests : affinity'[e][i] = Total(AffinityJobs(e, i))'
      /\ \A pair \in Pairs : connection'[pair] = Total(ConnectionJobs(pair))'
  <2>1. /\ \A e \in Entities, i \in Interests : affinity[e][i] = Total(AffinityJobs(e, i))
        /\ \A pair \in Pairs : connection[pair] = Total(ConnectionJobs(pair))
    BY DEF Exact, BumpsExact, AffinityJobs, ConnectionJobs
  <2>2. /\ \A e \in Entities, i \in Interests :
             Total(AffinityJobs(e, i))' = Total(AffinityJobs(e, i)) + 0
        /\ \A pair \in Pairs : Total(ConnectionJobs(pair))' = Total(ConnectionJobs(pair)) + 0
    BY <1>1, <1>8, TotalsGrow
  <2> QED
    BY <1>1, <1>3, <2>1, <2>2 DEF Tables
<1>10. \A i \in Interests :
         trending'[i] = SumFunctionOnSet([e \in Entities |-> affinity'[e][i]], Entities)
  BY <1>1 DEF Exact, BumpsExact
<1> QED
  BY <1>6, <1>7, <1>9, <1>10
     DEF Exact, BumpsExact, AffinityJobs, ConnectionJobs, FollowJobs

LEMMA ExactStep == TypeOK /\ Placed /\ Exact /\ [Next]_vars => Exact'
<1> SUFFICES ASSUME TypeOK, Placed, Exact, [Next]_vars PROVE Exact'
  OBVIOUS
<1>0. Workers \subseteq Running /\ Loose \subseteq Running
  BY DEF Running
<1>1. CASE UNCHANGED vars
  BY <1>1, ExactStays DEF vars, scores
<1>2. ASSUME NEW w \in Running,
             \/ Take(w) \/ StartBump(w) \/ LogViews(w) \/ ReadScore(w) \/ ReadReferences(w)
             \/ Begin(w) \/ Exec(w) \/ Abort(w) \/ Fail(w) \/ Redeliver(w)
      PROVE  Exact'
  <2>1. UNCHANGED <<scores, sent, applied>>
    BY <1>2 DEF Take, StartBump, LogViews, ReadScore, ReadReferences, Begin, Exec, Abort, Fail,
                Redeliver
  <2> QED
    BY <2>1, ExactStays DEF scores
<1>3. ASSUME NEW w \in Running, WriteScore(w) \/ WriteFresh(w) PROVE Exact'
  <2>1. /\ ~At(w, "idle") /\ Applied(w) /\ worker[w].job.kind \in {"rank", "new"}
        /\ UNCHANGED <<sent, affinity, trending, connection, follow>>
    BY <1>3 DEF WriteScore, WriteFresh, At, Doing
  <2> QED
    BY <2>1, ExactStays
<1> QED
  BY <1>0, <1>1, <1>2, <1>3, ExactCommit, ExactConnections, ExactFollow
     DEF Next, Step, SaveViewCacheEngagements, UpdateRankingScore, CreatePostScoreForNewPost,
         BumpInterestAffinity

\* Whatever fails, comes back or waits for whom, a stored score is the sum of
\* what the executed jobs changed, and the trend of an interest the sum over
\* the entities (BumpInterestAffinity, BumpChatScore,
\* FollowerInteractionScoreBump).
THEOREM BumpsAddUp == Spec => []BumpsExact
<1>1. Exact => BumpsExact
  BY DEF Exact
<1> QED
  BY <1>1, TypeInit, TypeStep, PlacedInit, PlacedStep, ExactInit, ExactStep, PTL DEF Spec

(***************************************************************************)
(* What a post's counters and boost add up to.                             *)
(***************************************************************************)
\* A sum of natural numbers is not negative.
LEMMA SumNat ==
  ASSUME NEW S, IsFiniteSet(S), NEW f, \A x \in S : f[x] \in Nat
  PROVE  SumFunctionOnSet(f, S) \in Nat
<1>1. PICK g : AddsUp(g, f, S)
  BY SumExists
<1> DEFINE B == {s \in SUBSET S : g[s] \notin Nat}
<1>2. B = {}
  <2> SUFFICES ASSUME B # {} PROVE FALSE
    OBVIOUS
  <2>1. PICK s \in B : \A x \in s : s \ {x} \notin B
    BY SmallestPart
  <2>2. s # {}
    <3>1. g[{}] \in Nat
      BY <1>1 DEF AddsUp
    <3> QED
      BY <2>1, <3>1
  <2>3. PICK x \in s : TRUE
    BY <2>2
  <2>4. g[s \ {x}] \in Nat /\ f[x] \in Nat /\ g[s] = f[x] + g[s \ {x}]
    BY <1>1, <2>1, <2>3 DEF AddsUp
  <2> QED
    BY <2>1, <2>4
<1> QED
  BY <1>1, <1>2, SumIs

\* The increments of a counter, and how many of them were executed.
Increments(k) == {job \in Ranks(k) : job.change = 1}
Executed(k) == SumFunctionOnSet(applied, Increments(k))

LEMMA ExecutedGrows ==
  ASSUME TypeOK, NEW w \in Running, ~At(w, "idle"), Applied(w), sent' = sent, NEW k
  PROVE  Executed(k)' = Executed(k) + IF worker[w].job \in Increments(k) THEN 1 ELSE 0
<1> DEFINE J == Increments(k)
           mine == worker[w].job
<1>1. J \in SUBSET sent /\ Increments(k)' = J
  BY DEF Increments, Ranks
<1>2. IsFiniteSet(J)
  BY <1>1, FS_Subset, ScoresAssumption DEF TypeOK
<1>3. \A job \in J : applied[job] \in Int /\ applied'[job] \in Int
  BY <1>1, AppliedType DEF TypeOK
<1>4. \A job \in J \ {mine} : applied'[job] = applied[job]
  BY <1>1, AppliedType
<1>5. applied'[mine] = applied[mine] + 1
  BY AppliedType
<1>6. Executed(k)' = SumFunctionOnSet(applied', J) /\ Executed(k) = SumFunctionOnSet(applied, J)
  BY <1>1 DEF Executed
<1> HIDE DEF J, mine
<1>7. SumFunctionOnSet(applied, J) \in Int
  BY <1>2, <1>3, SumWith
<1>8. CASE mine \in J
  <2>1. SumFunctionOnSet(applied', J) = SumFunctionOnSet(applied, J) + applied'[mine] - applied[mine]
    <3> DEFINE f == applied
               h == applied'
    <3>1. /\ \A job \in J : f[job] \in Int /\ h[job] \in Int
          /\ \A job \in J \ {mine} : h[job] = f[job]
      BY <1>3, <1>4
    <3> HIDE DEF f, h
    <3>2. SumFunctionOnSet(h, J) = SumFunctionOnSet(f, J) + h[mine] - f[mine]
      BY <1>2, <1>8, <3>1, SumChanges
    <3> QED
      BY <3>2 DEF f, h
  <2>2. applied[mine] \in Int
    BY <1>3, <1>8
  <2> QED
    BY <1>5, <1>6, <1>7, <1>8, <2>1, <2>2 DEF J, mine
<1>9. CASE mine \notin J
  <2>1. SumFunctionOnSet(applied', J) = SumFunctionOnSet(applied, J)
    BY <1>2, <1>3, <1>4, <1>9, SumEqual
  <2> QED
    BY <1>6, <1>7, <1>9, <2>1 DEF J, mine
<1> QED
  BY <1>8, <1>9

LEMMA ExecutedType ==
  ASSUME TypeOK, NEW k
  PROVE  Executed(k) \in Nat
<1>1. Increments(k) \in SUBSET sent
  BY DEF Increments, Ranks
<1>2. IsFiniteSet(Increments(k)) /\ \A job \in Increments(k) : applied[job] \in Nat
  BY <1>1, FS_Subset, ScoresAssumption DEF TypeOK
<1> QED
  BY <1>2, SumNat DEF Executed

\* Only reading starts a writer.
LEMMA Writers ==
  ASSUME TypeOK, NEW w \in Running,
         \/ Take(w) \/ StartBump(w) \/ LogViews(w) \/ WriteScore(w) \/ WriteFresh(w)
         \/ Begin(w) \/ Exec(w) \/ Commit(w) \/ Abort(w) \/ BumpConnections(w)
         \/ FollowerInteractionScoreBump(w) \/ Fail(w) \/ Redeliver(w)
  PROVE  \A v \in Running : At(v, "write")' => At(v, "write") /\ worker'[v] = worker[v]
<1>1. CASE Finish(w)
  BY <1>1, FinishType DEF At
<1>2. CASE UNCHANGED worker
  BY <1>2 DEF At
<1>3. CASE Take(w)
  <2>1. PICK job : Update(w, [worker[w] EXCEPT !.pc = "begun", !.job = job])
    BY <1>3 DEF Take
  <2> QED
    BY <2>1, RunType DEF Update, TypeOK, Run, At
<1>4. CASE Begin(w)
  <2>1. PICK plan : Update(w, [worker[w] EXCEPT !.pc = "tx", !.plan = plan])
    BY <1>4 DEF Begin
  <2> QED
    BY <2>1, RunType DEF Update, TypeOK, Run, At
<1>5. CASE Exec(w)
  <2>1. /\ worker[w].pc = "tx"
        /\ Update(w, [worker[w] EXCEPT !.plan = Tail(@), !.held = @ \union {Head(worker[w].plan)}])
    BY <1>5 DEF Exec, At
  <2>2. worker'[w].pc = "tx" /\ \A v \in Running \ {w} : worker'[v] = worker[v]
    BY <2>1, RunType DEF Update, TypeOK, Run
  <2> QED
    BY <2>2 DEF At
<1>6. CASE StartBump(w)
  <2>1. CASE worker[w].job.interests = {}
    <3>1. Update(w, [worker[w] EXCEPT !.pc = "log"])
      BY <1>6, <2>1 DEF StartBump
    <3> QED
      BY <3>1, RunType DEF Update, TypeOK, Run, At
  <2>2. CASE worker[w].job.interests # {}
    <3>1. PICK g \in Loose :
            /\ At(g, "idle")
            /\ worker' = [worker EXCEPT ![g] = [Rest EXCEPT !.pc = "begun", !.job = worker[w].job],
                                        ![w].pc = "log"]
      BY <1>6, <2>2 DEF StartBump
    <3>2. g \in Running /\ g # w
      BY <1>6, <3>1 DEF Running, StartBump, At
    <3>3. /\ worker'[w].pc = "log" /\ worker'[g].pc = "begun"
          /\ \A v \in Running \ {w, g} : worker'[v] = worker[v]
      BY <3>1, <3>2, RunType DEF TypeOK, Run, Rest
    <3> QED
      BY <3>3 DEF At
  <2> QED
    BY <2>1, <2>2
<1> QED
  BY <1>1, <1>2, <1>3, <1>4, <1>5, <1>6
     DEF LogViews, WriteScore, WriteFresh, Commit, Abort, BumpConnections,
         FollowerInteractionScoreBump, Fail, Redeliver

\* Neither the row nor what a handler has read of it shows more than the
\* increments that were executed.
Below ==
  \A k \in Counted :
    /\ row.count[k] <= Executed(k)
    /\ \A w \in Running : At(w, "write") /\ Doing(w, "rank") => worker[w].seen.count[k] <= Executed(k)

LEMMA BelowInit == Init => Below
<1> SUFFICES ASSUME Init, NEW k \in Counted
             PROVE  /\ row.count[k] <= Executed(k)
                    /\ \A w \in Running : ~At(w, "write")
  BY DEF Below
<1>1. Executed(k) \in Nat
  BY TypeInit, ExecutedType
<1>2. row.count[k] = 0
  BY DEF Init, Default, Zero
<1> QED
  BY <1>1, <1>2 DEF Init, At, Rest

LEMMA BelowStep == TypeOK /\ Placed /\ Below /\ [Next]_vars => Below'
<1> SUFFICES ASSUME TypeOK, Below, [Next]_vars, NEW k \in Counted
             PROVE  /\ row'.count[k] <= Executed(k)'
                    /\ \A w \in Running : At(w, "write")' /\ Doing(w, "rank")' =>
                         worker'[w].seen.count[k] <= Executed(k)'
  BY DEF Below
<1>0. /\ Workers \subseteq Running /\ Loose \subseteq Running
      /\ Executed(k) \in Nat /\ row.count[k] \in Nat /\ row.count[k] <= Executed(k)
      /\ \A w \in Running : worker[w].seen.count[k] \in Nat
      /\ \A w \in Running : At(w, "write") /\ Doing(w, "rank") =>
           worker[w].seen.count[k] <= Executed(k)
  <2>1. row.count[k] \in Nat /\ \A w \in Running : worker[w].seen.count[k] \in Nat
    BY RunType DEF TypeOK, Row
  <2> QED
    BY <2>1, ExecutedType DEF Below, Running
\* What was executed never shrinks.
<1>1. ASSUME Executed(k)' \in Nat, Executed(k)' >= Executed(k), row' = row,
             \A v \in Running : At(v, "write")' => At(v, "write") /\ worker'[v] = worker[v]
      PROVE  /\ row'.count[k] <= Executed(k)'
             /\ \A w \in Running : At(w, "write")' /\ Doing(w, "rank")' =>
                  worker'[w].seen.count[k] <= Executed(k)'
  BY <1>0, <1>1 DEF Doing
<1>2. ASSUME UNCHANGED <<sent, applied>> PROVE Executed(k)' = Executed(k)
  BY <1>2 DEF Executed, Increments, Ranks
<1>3. CASE UNCHANGED vars
  BY <1>0, <1>1, <1>2, <1>3 DEF vars, scores, At
<1>4. ASSUME NEW w \in Running,
             \/ Take(w) \/ StartBump(w) \/ LogViews(w) \/ Begin(w) \/ Exec(w) \/ Abort(w)
             \/ Fail(w) \/ Redeliver(w)
      PROVE  /\ row'.count[k] <= Executed(k)'
             /\ \A u \in Running : At(u, "write")' /\ Doing(u, "rank")' =>
                  worker'[u].seen.count[k] <= Executed(k)'
  <2>1. UNCHANGED <<scores, sent, applied>>
    BY <1>4 DEF Take, StartBump, LogViews, Begin, Exec, Abort, Fail, Redeliver
  <2>2. \A v \in Running : At(v, "write")' => At(v, "write") /\ worker'[v] = worker[v]
    BY <1>4, Writers
  <2>3. Executed(k)' = Executed(k) /\ row' = row
    BY <1>2, <2>1 DEF scores
  <2> QED
    BY <1>0, <1>1, <2>2, <2>3
<1>5. ASSUME NEW w \in Running, ReadScore(w) \/ ReadReferences(w)
      PROVE  /\ row'.count[k] <= Executed(k)'
             /\ \A u \in Running : At(u, "write")' /\ Doing(u, "rank")' =>
                  worker'[u].seen.count[k] <= Executed(k)'
  <2>1. UNCHANGED <<scores, sent, applied>>
    BY <1>5 DEF ReadScore, ReadReferences
  <2>2. Executed(k)' = Executed(k) /\ row' = row
    BY <1>2, <2>1 DEF scores
  <2>3. /\ \A v \in Running \ {w} : worker'[v] = worker[v]
        /\ Doing(w, "rank")' => worker'[w].seen.count[k] = row.count[k]
    <3>1. CASE ReadScore(w)
      BY <3>1, RunType DEF ReadScore, Update, TypeOK, Run
    <3>2. CASE ReadReferences(w)
      <4>1. PICK seen : Update(w, [worker[w] EXCEPT !.pc = "write", !.seen = seen])
        BY <3>2 DEF ReadReferences
      <4>2. worker'[w].job.kind = "new" /\ \A v \in Running \ {w} : worker'[v] = worker[v]
        BY <3>2, <4>1, RunType DEF Update, TypeOK, Run, Doing, ReadReferences
      <4> QED
        BY <4>2 DEF Doing
    <3> QED
      BY <1>5, <3>1, <3>2
  <2> QED
    BY <1>0, <2>2, <2>3 DEF At, Doing
<1>6. ASSUME NEW w \in Running,
             \/ WriteScore(w) \/ WriteFresh(w) \/ Commit(w) \/ BumpConnections(w)
             \/ FollowerInteractionScoreBump(w)
      PROVE  /\ row'.count[k] <= Executed(k)'
             /\ \A u \in Running : At(u, "write")' /\ Doing(u, "rank")' =>
                  worker'[u].seen.count[k] <= Executed(k)'
  <2> DEFINE mine == worker[w].job
  <2>1. ~At(w, "idle") /\ Applied(w) /\ sent' = sent
    BY <1>6 DEF WriteScore, WriteFresh, Commit, BumpConnections, FollowerInteractionScoreBump, At
  <2>2. Executed(k)' = Executed(k) + IF mine \in Increments(k) THEN 1 ELSE 0
    BY <2>1, ExecutedGrows
  <2>3. Executed(k)' \in Nat /\ Executed(k)' >= Executed(k)
    BY <1>0, <2>2
  <2>4. \A v \in Running : At(v, "write")' => At(v, "write") /\ worker'[v] = worker[v]
    BY <1>6, Writers
  <2>5. \A u \in Running : At(u, "write")' /\ Doing(u, "rank")' =>
          worker'[u].seen.count[k] <= Executed(k)'
    BY <1>0, <2>3, <2>4 DEF Doing
  <2>6. row'.count[k] <= Executed(k)'
    <3>1. CASE WriteFresh(w)
      <4>1. row'.count[k] = 0
        BY <3>1 DEF WriteFresh, Default, Zero
      <4> QED
        BY <2>3, <4>1
    <3>2. CASE WriteScore(w)
      <4> DEFINE old == worker[w].seen.count[k]
      <4>1. /\ mine \in Job /\ mine \in sent /\ mine.kind = "rank" /\ mine.change \in {1, -1}
            /\ old \in Nat /\ old <= Executed(k)
        BY <1>0, <2>1, <3>2, RunType, ChangeType DEF WriteScore, Doing, TypeOK
      <4>2. row'.count[k] = IF k = mine.update THEN Moved(old, mine.change) ELSE old
        BY <3>2 DEF WriteScore, Rescored, Change
      <4>3. CASE k # mine.update
        BY <1>0, <2>3, <4>1, <4>2, <4>3
      <4>4. CASE k = mine.update /\ mine.change = 1
        <5>1. mine \in Increments(k)
          BY <4>1, <4>4 DEF Increments, Ranks
        <5> HIDE DEF mine, old
        <5> QED
          BY <1>0, <2>2, <4>1, <4>2, <4>4, <5>1 DEF Moved
      <4>5. CASE k = mine.update /\ mine.change = -1
        <5> HIDE DEF mine, old
        <5> QED
          BY <1>0, <2>3, <4>1, <4>2, <4>5 DEF Moved
      <4> QED
        BY <4>1, <4>3, <4>4, <4>5
    <3>3. CASE row' = row
      BY <1>0, <2>3, <3>3
    <3> QED
      BY <1>6, <3>1, <3>2, <3>3 DEF Commit, BumpConnections, FollowerInteractionScoreBump
  <2> QED
    BY <2>5, <2>6
<1> QED
  BY <1>0, <1>3, <1>4, <1>5, <1>6
     DEF Next, Step, SaveViewCacheEngagements, UpdateRankingScore, CreatePostScoreForNewPost,
         BumpInterestAffinity

\* However many updates are lost or repeated, and whoever overwrites the row, a
\* counter never shows more than the increments that were executed, and never
\* less than zero (UpdateRankingScore).
THEOREM NothingComesOfNothing == Spec => []NothingInvented
<1>1. TypeOK /\ Below => NothingInvented
  <2> SUFFICES ASSUME TypeOK, Below, NEW k \in Counted
               PROVE  row.count[k] >= 0 /\ row.count[k] <= Executed(k)
    BY DEF NothingInvented, Executed, Increments
  <2>1. row.count[k] \in Nat
    BY DEF TypeOK, Row
  <2> QED
    BY <2>1 DEF Below
<1> QED
  BY <1>1, TypeInit, TypeStep, PlacedInit, PlacedStep, BelowInit, BelowStep, PTL DEF Spec

LEMMA RanksType ==
  ASSUME TypeOK, NEW u
  PROVE  /\ Ranks(u) \in SUBSET sent /\ IsFiniteSet(Ranks(u))
         /\ \A job \in Ranks(u) : job.change \in {1, -1} /\ applied[job] \in Nat
         /\ Total(Ranks(u)) \in Int
<1>1. Ranks(u) \in SUBSET sent /\ IsFiniteSet(Ranks(u))
  BY FS_Subset, ScoresAssumption DEF Ranks, TypeOK
<1>2. \A job \in Ranks(u) : job.change \in {1, -1} /\ applied[job] \in Nat
  BY <1>1, SentJobs, ChangeType DEF Ranks, TypeOK
<1>3. \A job \in Ranks(u) : applied[job] * job.change \in Int
  BY <1>2
<1>4. Total(Ranks(u)) \in Int
  <2> DEFINE f == [job \in Ranks(u) |-> applied[job] * job.change]
  <2>1. \A job \in Ranks(u) : f[job] \in Int
    BY <1>3
  <2> HIDE DEF f
  <2>2. SumFunctionOnSet(f, Ranks(u)) \in Int
    BY <1>1, <2>1, SumWith
  <2> QED
    BY <2>2 DEF f, Total
<1> QED
  BY <1>1, <1>2, <1>4

\* The row of a post that nothing disturbed: there is none before the post is
\* created, and then it shows what was executed.
Booked ==
  ~disturbed =>
    /\ \A w \in Running : At(w, "write") /\ Doing(w, "new") => worker[w].seen.weight = "content"
    /\ ~row.there => \A u \in Updates : \A job \in Ranks(u) : applied[job] = 0
    /\ row.there =>
         /\ row.weight = "content"
         /\ \A k \in Counted : row.count[k] = Total(Ranks(k))
         /\ row.boost = 10 + Total(Ranks("react")) + Total(Ranks("other"))
                           + 3 * Total(Ranks("comment")) + 5 * Total(Ranks("share"))

LEMMA BookedInit == Init => Booked
BY DEF Init, Booked, At, Rest, Default, Ranks

\* An effect counts for the updates of its kind only.
LEMMA RanksGrow ==
  ASSUME TypeOK, NEW w \in Running, ~At(w, "idle"), Applied(w), sent' = sent, NEW u
  PROVE  /\ Ranks(u)' = Ranks(u)
         /\ Total(Ranks(u))' = Total(Ranks(u))
              + IF worker[w].job \in Ranks(u) THEN worker[w].job.change ELSE 0
         /\ worker[w].job \notin Ranks(u) => \A job \in Ranks(u) : applied'[job] = applied[job]
<1>1. Ranks(u)' = Ranks(u)
  BY DEF Ranks
<1>2. Ranks(u) \in SUBSET sent /\ \A job \in Ranks(u) : job.kind # "new"
  BY DEF Ranks
<1>3. Total(Ranks(u))' = SumFunctionOnSet([job \in Ranks(u) |-> applied'[job] * job.change], Ranks(u))
  BY <1>1 DEF Total
<1>4. \A job \in sent \ {worker[w].job} : applied'[job] = applied[job]
  BY AppliedType
<1> QED
  BY <1>1, <1>2, <1>3, <1>4, TotalGrows

LEMMA BookedStep == TypeOK /\ Placed /\ Booked /\ [Next]_vars => Booked'
<1> SUFFICES ASSUME TypeOK, Placed, Booked, [Next]_vars, ~disturbed' PROVE Booked'
  BY DEF Booked
<1>0. Workers \subseteq Running /\ Loose \subseteq Running
  BY DEF Running
<1>1. ASSUME UNCHANGED <<sent, applied, row, disturbed>>,
             \A v \in Running : At(v, "write")' => worker'[v] = worker[v] /\ At(v, "write")
      PROVE  Booked'
  <2>1. \A u : Ranks(u)' = Ranks(u) /\ Total(Ranks(u))' = Total(Ranks(u))
    BY <1>1 DEF Ranks, Total
  <2>2. /\ \A w \in Running : At(w, "write")' /\ Doing(w, "new")' =>
             worker'[w].seen.weight = "content"
        /\ ~disturbed
    BY <1>1 DEF Booked, Doing
  <2> QED
    BY <1>1, <2>1, <2>2 DEF Booked
<1>2. CASE UNCHANGED vars
  BY <1>1, <1>2 DEF vars, scores, At
<1>3. ASSUME NEW w \in Running,
             Take(w) \/ StartBump(w) \/ LogViews(w) \/ Begin(w) \/ Exec(w)
      PROVE  Booked'
  <2>1. UNCHANGED <<scores, sent, applied, disturbed>>
    BY <1>3 DEF Take, StartBump, LogViews, Begin, Exec
  <2>2. \A v \in Running : At(v, "write")' => At(v, "write") /\ worker'[v] = worker[v]
    BY <1>3, Writers
  <2> QED
    BY <1>1, <2>1, <2>2 DEF scores
<1>4. ASSUME NEW w \in Running, Abort(w) \/ Fail(w) \/ Redeliver(w) PROVE FALSE
  BY <1>4 DEF Abort, Fail, Redeliver, Fault
<1>5. ASSUME NEW w \in Running, ReadScore(w) \/ ReadReferences(w) PROVE Booked'
  <2>1. UNCHANGED <<scores, sent, applied, disturbed>>
    BY <1>5 DEF ReadScore, ReadReferences, Fault
  <2>2. /\ \A v \in Running \ {w} : worker'[v] = worker[v]
        /\ Doing(w, "new")' => worker'[w].seen.weight = "content"
    <3>1. CASE ReadScore(w)
      <4>1. worker[w].job.kind = "rank"
            /\ Update(w, [worker[w] EXCEPT !.pc = "write", !.seen = row])
        BY <3>1 DEF ReadScore, Doing
      <4>2. worker'[w].job.kind = "rank" /\ \A v \in Running \ {w} : worker'[v] = worker[v]
        BY <4>1, RunType DEF Update, TypeOK, Run
      <4> QED
        BY <4>2 DEF Doing
    <3>2. CASE ReadReferences(w)
      <4>1. Update(w, [worker[w] EXCEPT !.pc = "write", !.seen.weight = "content"])
        BY <3>2 DEF ReadReferences, Fault
      <4>2. worker[w] \in Run /\ worker[w].seen \in Row
        BY RunType
      <4>3. worker' = [worker EXCEPT ![w] =
              [worker[w] EXCEPT !.pc = "write", !.seen = [worker[w].seen EXCEPT !.weight = "content"]]]
        BY <4>1 DEF Update
      <4>4. worker'[w].seen = [worker[w].seen EXCEPT !.weight = "content"]
            /\ \A v \in Running \ {w} : worker'[v] = worker[v]
        BY <4>2, <4>3 DEF TypeOK, Run
      <4>5. worker'[w].seen.weight = "content"
        BY <4>2, <4>4 DEF Row
      <4> QED
        BY <4>4, <4>5
    <3> QED
      BY <1>5, <3>1, <3>2
  <2>3. \A u : Ranks(u)' = Ranks(u) /\ Total(Ranks(u))' = Total(Ranks(u))
    BY <2>1 DEF Ranks, Total
  <2>4. \A v \in Running : At(v, "write")' /\ Doing(v, "new")' =>
          worker'[v].seen.weight = "content"
    BY <2>1, <2>2 DEF Booked, Doing, At
  <2> QED
    BY <2>1, <2>3, <2>4 DEF Booked, scores
<1>6. ASSUME NEW w \in Running,
             \/ WriteScore(w) \/ WriteFresh(w) \/ Commit(w) \/ BumpConnections(w)
             \/ FollowerInteractionScoreBump(w)
      PROVE  Booked'
  <2> DEFINE mine == worker[w].job
  <2>1. ~At(w, "idle") /\ Applied(w) /\ sent' = sent /\ ~disturbed
    <3>1. ~At(w, "idle") /\ Applied(w) /\ sent' = sent
      BY <1>6 DEF WriteScore, WriteFresh, Commit, BumpConnections, FollowerInteractionScoreBump, At
    <3>2. ~disturbed
      BY <1>6 DEF WriteScore, WriteFresh, Commit, BumpConnections, FollowerInteractionScoreBump
    <3> QED
      BY <3>1, <3>2
  <2>2. mine \in sent /\ mine \in Job
    BY <2>1, RunType DEF TypeOK
  <2>3. \A v \in Running : At(v, "write")' /\ Doing(v, "new")' =>
          worker'[v].seen.weight = "content"
    <3>1. \A v \in Running : At(v, "write")' => At(v, "write") /\ worker'[v] = worker[v]
      BY <1>6, Writers
    <3> QED
      BY <2>1, <3>1 DEF Booked, Doing
  <2>4. \A u : /\ Ranks(u)' = Ranks(u)
               /\ Total(Ranks(u))' = Total(Ranks(u)) + IF mine \in Ranks(u) THEN mine.change ELSE 0
               /\ mine \notin Ranks(u) => \A job \in Ranks(u) : applied'[job] = applied[job]
    BY <2>1, RanksGrow
  <2>5. \A u : Total(Ranks(u)) \in Int
    BY RanksType
  <2>6. CASE WriteScore(w)
    <3> DEFINE boost == row.boost
    <3>1. /\ mine.kind = "rank" /\ mine.change \in {1, -1} /\ mine.update \in Updates
          /\ worker[w].seen = row /\ row.there
          /\ \A k \in Counted : k = mine.update => row.count[k] + mine.change >= 0
          /\ row' = Rescored(row, mine)
      <4>1. mine.kind = "rank"
        BY <2>6 DEF WriteScore, Doing
      <4>2. mine.change \in {1, -1} /\ mine.update \in Updates
        BY <2>2, <4>1, JobType
      <4>3. /\ worker[w].seen = row /\ worker[w].seen.there
            /\ ~ \E k \in Counted : k = mine.update /\ worker[w].seen.count[k] + mine.change < 0
            /\ row' = Rescored(worker[w].seen, mine)
        BY <2>6 DEF WriteScore
      <4>4. \A k \in Counted : row.count[k] \in Int
        BY DEF TypeOK, Row
      <4> HIDE DEF mine
      <4> QED
        BY <4>1, <4>2, <4>3, <4>4
    <3>2. \A u : mine \in Ranks(u) <=> u = mine.update
      BY <2>2, <3>1 DEF Ranks
    <3>3. /\ row.weight = "content" /\ \A k \in Counted : row.count[k] = Total(Ranks(k))
          /\ boost = 10 + Total(Ranks("react")) + Total(Ranks("other"))
                        + 3 * Total(Ranks("comment")) + 5 * Total(Ranks("share"))
          /\ boost \in Int
      BY <2>1, <3>1 DEF Booked, TypeOK, Row
    <3>4. \A k \in Counted : row'.count[k] = Total(Ranks(k))'
      <4> SUFFICES ASSUME NEW k \in Counted PROVE row'.count[k] = Total(Ranks(k))'
        OBVIOUS
      <4> DEFINE old == row.count[k]
      <4>1. row'.count[k] = IF k = mine.update THEN Moved(old, mine.change) ELSE old
        BY <3>1 DEF Rescored, Change
      <4>2. old = Total(Ranks(k)) /\ old \in Nat /\ (k = mine.update => old + mine.change >= 0)
        BY <3>1, <3>3 DEF TypeOK, Row
      <4>3. Total(Ranks(k))' = Total(Ranks(k)) + IF k = mine.update THEN mine.change ELSE 0
        BY <2>4, <3>2
      <4> HIDE DEF mine, old
      <4> QED
        BY <3>1, <4>1, <4>2, <4>3 DEF Moved
    <3>5. row'.boost = 10 + Total(Ranks("react"))' + Total(Ranks("other"))'
                          + 3 * Total(Ranks("comment"))' + 5 * Total(Ranks("share"))'
      <4>1. row'.boost = boost + mine.change * Boost(mine.update)
        BY <3>1 DEF Rescored, Change
      <4> DEFINE t(u) == Total(Ranks(u))
                 now(u) == Total(Ranks(u))'
      <4>2. \A u : now(u) = t(u) + IF u = mine.update THEN mine.change ELSE 0
        BY <2>4, <3>2
      <4>3. boost = 10 + t("react") + t("other") + 3 * t("comment") + 5 * t("share")
        BY <3>3
      <4>4. \A u : t(u) \in Int
        BY <2>5
      <4> HIDE DEF mine, boost, t, now
      <4>5. row'.boost = 10 + now("react") + now("other") + 3 * now("comment") + 5 * now("share")
        BY <3>1, <3>3, <4>1, <4>2, <4>3, <4>4 DEF Boost, Updates, Counted
      <4> QED
        BY <4>5 DEF now
    <3>6. row'.there /\ row'.weight = "content"
      BY <3>1, <3>3 DEF Rescored
    <3> QED
      BY <2>3, <3>4, <3>5, <3>6 DEF Booked
  <2>7. CASE WriteFresh(w)
    <3>1. /\ mine.kind = "new" /\ ~row.there /\ worker[w].seen.weight = "content"
          /\ row' = [Default EXCEPT !.there = TRUE, !.weight = "content"]
      BY <2>1, <2>7 DEF WriteFresh, Booked, Doing, At
    <3>2. \A u : mine \notin Ranks(u)
      BY <3>1 DEF Ranks
    <3>3. ASSUME NEW u \in Updates PROVE Total(Ranks(u))' = 0
      <4> DEFINE f == [job \in Ranks(u) |-> applied[job] * job.change]
      <4>1. \A job \in Ranks(u) : f[job] = 0
        <5> SUFFICES ASSUME NEW job \in Ranks(u) PROVE applied[job] * job.change = 0
          OBVIOUS
        <5>1. applied[job] = 0 /\ job.change \in {1, -1}
          BY <2>1, <3>1, RanksType DEF Booked
        <5> QED
          BY <5>1
      <4>2. IsFiniteSet(Ranks(u))
        BY RanksType
      <4> HIDE DEF f
      <4>3. SumFunctionOnSet(f, Ranks(u)) = 0
        BY <4>1, <4>2, SumZero
      <4>4. Total(Ranks(u)) = 0
        BY <4>3 DEF f, Total
      <4> QED
        BY <2>4, <3>2, <4>4
    <3>4. /\ row'.there /\ row'.weight = "content" /\ row'.boost = 10
          /\ \A k \in Counted : row'.count[k] = 0
      BY <3>1 DEF Default, Zero
    <3> HIDE DEF mine
    <3>5. /\ \A k \in Counted : Total(Ranks(k))' = 0
          /\ Total(Ranks("react"))' = 0 /\ Total(Ranks("other"))' = 0
          /\ Total(Ranks("comment"))' = 0 /\ Total(Ranks("share"))' = 0
      BY <3>3 DEF Updates, Counted
    <3> QED
      BY <2>3, <3>4, <3>5 DEF Booked
  <2>8. CASE Commit(w) \/ BumpConnections(w) \/ FollowerInteractionScoreBump(w)
    <3>1. row' = row
      BY <2>8 DEF Commit, BumpConnections, FollowerInteractionScoreBump
    <3>2. mine.kind # "rank"
      BY <2>8 DEF Commit, BumpConnections, FollowerInteractionScoreBump, Doing, Placed, At, Running
    <3>3. \A u : mine \notin Ranks(u)
      BY <3>2 DEF Ranks
    <3>4. \A u : /\ Ranks(u)' = Ranks(u) /\ Total(Ranks(u))' = Total(Ranks(u))
                 /\ \A job \in Ranks(u) : applied'[job] = applied[job]
      BY <2>4, <2>5, <3>3
    <3> QED
      BY <2>1, <2>3, <3>1, <3>4 DEF Booked
  <2> QED
    BY <1>6, <2>6, <2>7, <2>8
<1> QED
  BY <1>0, <1>2, <1>3, <1>4, <1>5, <1>6
     DEF Next, Step, SaveViewCacheEngagements, UpdateRankingScore, CreatePostScoreForNewPost,
         BumpInterestAffinity

\* A post whose row is created first, whose updates do not overlap and with
\* which nothing fails ends with the counters, the boost and the weight that
\* its jobs say (UpdateRankingScore, CreatePostScoreForNewPost).
THEOREM EngagementAddsUp == Spec => []EngagementExact
<1>1. TypeOK /\ Settled /\ Booked => EngagementExact
  <2> SUFFICES ASSUME TypeOK, Settled, Booked, Quiescent, ~disturbed, row.there
               PROVE  /\ \A k \in Counted : row.count[k] = Net(Ranks(k))
                      /\ row.boost = 10 + Net(Ranks("react")) + Net(Ranks("other"))
                                        + 3 * Net(Ranks("comment")) + 5 * Net(Ranks("share"))
                      /\ row.weight = "content"
    BY DEF EngagementExact
  <2>1. ASSUME NEW u PROVE Total(Ranks(u)) = Net(Ranks(u))
    <3>1. ASSUME NEW job \in Ranks(u) PROVE applied[job] = 1
      <4>1. job \in sent /\ Due(job) = 1
        BY DEF Ranks, Due
      <4>2. \A w \in Running : ~Carries(w, job)
        BY <4>1 DEF Quiescent, At, Carries
      <4> QED
        BY <4>1, <4>2 DEF Quiescent, Settled, Once
    <3> DEFINE f == [job \in Ranks(u) |-> job.change]
               h == [job \in Ranks(u) |-> applied[job] * job.change]
    <3>2. \A job \in Ranks(u) : f[job] \in Int /\ h[job] = f[job]
      BY <3>1, RanksType
    <3>3. IsFiniteSet(Ranks(u))
      BY RanksType
    <3> HIDE DEF f, h
    <3>4. SumFunctionOnSet(h, Ranks(u)) = SumFunctionOnSet(f, Ranks(u))
      BY <3>2, <3>3, SumEqual
    <3> QED
      BY <3>4 DEF f, h, Total, Net
  <2> QED
    BY <2>1 DEF Booked
<1> QED
  BY <1>1, TypeInit, TypeStep, PlacedInit, PlacedStep, OnceInit, OnceStep, BookedInit, BookedStep,
     PTL DEF Spec
=============================================================================
