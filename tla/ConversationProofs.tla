------------------------- MODULE ConversationProofs -------------------------
(***************************************************************************)
(* Theorems about Conversation: types, the participants that no notice     *)
(* throws out, one line per job, who is told of it, the answer a webhook   *)
(* promises, and what the chat list shows in the end.                      *)
(***************************************************************************)
EXTENDS Conversation, FiniteSetTheorems, TLAPS

(***************************************************************************)
(* Types.                                                                  *)
(***************************************************************************)
LEMMA IdleRun == Idle \in Run
BY ConversationAssumption DEF Idle, Run

\* What the scenario says about a job.
LEMMA WorkType ==
  ASSUME TypeOK, NEW j \in Jobs
  PROVE  /\ Work(j) \in Job /\ scene.members \subseteq People
         /\ scene.listed \subseteq People /\ scene.exists \in BOOLEAN
BY ConversationAssumption DEF TypeOK, Work, Scenario

LEMMA RunType ==
  ASSUME TypeOK, NEW w \in Workers
  PROVE  worker[w] \in Run /\ JobOf(w) \in Jobs
BY DEF TypeOK, JobOf, Run

\* A worker that moves stays one.
LEMMA SetType ==
  ASSUME TypeOK, NEW w \in Workers, NEW new \in Run, Set(w, new)
  PROVE  /\ worker' \in [Workers -> Run] /\ worker'[w] = new
         /\ \A v \in Workers \ {w} : worker'[v] = worker[v]
BY DEF TypeOK, Set

\* A failing call marks the run; the rest of it stays.
LEMMA MarredType ==
  ASSUME TypeOK, NEW w \in Workers,
         NEW pc \in {"insert", "unarchive", "announce", "push", "allow", "done"},
         NEW new \in Marred(w, pc)
  PROVE  /\ new \in Run /\ new.pc = pc /\ new.job = worker[w].job
         /\ new.to = worker[w].to /\ new.cut = worker[w].cut
<1>1. PICK ctx \in {"live", "expired"} :
        new = [worker[w] EXCEPT !.ctx = ctx, !.clean = @ /\ worker[w].ctx = "expired", !.pc = pc]
  BY DEF Marred, TypeOK, Run
<1>2. worker[w] \in Run
  BY DEF TypeOK
<1>3. (worker[w].clean /\ worker[w].ctx = "expired") \in BOOLEAN
  OBVIOUS
<1> QED
  BY <1>1, <1>2, <1>3 DEF Run

\* What the call of the endpoint makes of the run.
LEMMA AfterCallType ==
  ASSUME TypeOK, NEW w \in Workers, NEW got \in {"answer", "empty", "failed"},
         NEW ctx \in {"live", "expired"}
  PROVE  LET new == AfterCall(w, got, ctx) IN
         /\ new \in Run /\ new.job = worker[w].job /\ new.to = worker[w].to
         /\ new.cut = worker[w].cut /\ new.msg = worker[w].msg /\ new.got = got
         /\ new.says = IF got = "failed" THEN "failure" ELSE "answer"
         /\ new.ctx = IF got = "failed" THEN "live" ELSE ctx
         /\ new.pc = IF Posts(w, got) THEN "allow" ELSE "done"
<1>1. worker[w] \in Run
  BY RunType
<1> DEFINE says == IF got = "failed" THEN "failure" ELSE "answer"
           left == IF got = "failed" THEN "live" ELSE ctx
           pc == IF Posts(w, got) THEN "allow" ELSE "done"
<1>2. /\ AfterCall(w, got, ctx) =
           [worker[w] EXCEPT !.got = got, !.clean = TRUE, !.says = says, !.ctx = left, !.pc = pc]
      /\ says \in {"failure", "answer"} /\ left \in {"live", "expired"}
      /\ pc \in {"allow", "done"}
  BY DEF AfterCall
<1> SUFFICES LET new == AfterCall(w, got, ctx) IN
             /\ new \in Run /\ new.job = worker[w].job /\ new.to = worker[w].to
             /\ new.cut = worker[w].cut /\ new.msg = worker[w].msg /\ new.got = got
             /\ new.says = says /\ new.ctx = left /\ new.pc = pc
  OBVIOUS
<1> HIDE DEF says, left, pc
<1> DEFINE new == [worker[w] EXCEPT !.got = got, !.clean = TRUE, !.says = says, !.ctx = left,
                                    !.pc = pc]
<1>3. /\ new.job = worker[w].job /\ new.to = worker[w].to /\ new.cut = worker[w].cut
      /\ new.msg = worker[w].msg /\ new.got = got
      /\ new.says = says /\ new.ctx = left /\ new.pc = pc
  BY <1>1 DEF Run
<1>4. new \in Run
  BY <1>1, <1>2 DEF Run
<1> HIDE DEF new
<1>5. AfterCall(w, got, ctx) = new
  BY <1>2 DEF new
<1> QED
  BY <1>3, <1>4, <1>5

LEMMA PresentType ==
  ASSUME TypeOK, NEW j \in Jobs
  PROVE  Present(j) \subseteq People
BY DEF TypeOK, Present, Conv

\* A job goes back to its queue.
LEMMA ReturnType ==
  ASSUME TypeOK, NEW j \in Jobs, Return(j)
  PROVE  /\ ready' \in [Jobs -> Nat] /\ flagged' \subseteq Jobs /\ sent' = sent
         /\ ready'[j] = ready[j] + 1
         /\ \A k \in Jobs \ {j} : ready'[k] = ready[k]
BY DEF TypeOK, Return

\* A call that is made, and one that fails, count the faults.
LEMMA CallType ==
  ASSUME TypeOK, NEW w \in Workers, Succeeds(w) \/ Fails(w) \/ Fault
  PROVE  faults' \in 0..MaxFaults
BY ConversationAssumption DEF TypeOK, Succeeds, Fails, Fault

\* An error ends the run, or gives the notice back once.
LEMMA ErroredType ==
  ASSUME TypeOK, NEW w \in Workers, Errored(w)
  PROVE  /\ worker' \in [Workers -> Run] /\ worker'[w].pc \in {"idle", "done"}
         /\ \A v \in Workers \ {w} : worker'[v] = worker[v]
         /\ ready' \in [Jobs -> Nat] /\ flagged' \subseteq Jobs /\ sent' = sent
         /\ \A k \in Jobs : \/ ready'[k] = ready[k]
                            \/ (k = JobOf(w) /\ ready'[k] = ready[k] + 1)
<1>1. JobOf(w) \in Jobs
  BY RunType
<1>2. CASE Set(w, Idle) /\ Return(JobOf(w))
  BY <1>1, <1>2, IdleRun, SetType, ReturnType DEF Idle
<1>3. CASE GoMarred(w, "done") /\ UNCHANGED broker
  <2>1. PICK new \in Marred(w, "done") : Set(w, new)
    BY <1>3 DEF GoMarred
  <2>2. new \in Run /\ new.pc = "done"
    BY MarredType
  <2> QED
    BY <1>3, <2>1, <2>2, SetType DEF broker, TypeOK
<1> QED
  BY <1>2, <1>3 DEF Errored

\* The stored message is a message.
LEMMA StoredType ==
  ASSUME TypeOK, NEW w \in Workers, Stored(w)
  PROVE  /\ messages' \subseteq Message /\ IsFiniteSet(messages')
         /\ NewId \in Nat
         /\ \A m \in messages' \ messages : m.job = JobOf(w)
<1>1. NewId \in Nat
  BY FS_CardinalityType DEF TypeOK, NewId
<1>2. JobOf(w) \in Jobs /\ worker[w].says \in {"answer", "failure"}
  BY DEF TypeOK, JobOf, Run
<1> DEFINE m == [id |-> NewId, job |-> JobOf(w), says |->
                   IF Notice(JobOf(w)) THEN "notice" ELSE worker[w].says]
<1>3. m \in Message
  BY <1>1, <1>2 DEF Message
<1>4. messages' = messages \union {m}
  BY DEF Stored
<1>5. m.job = JobOf(w)
  OBVIOUS
<1> HIDE DEF m
<1>6. messages' \subseteq Message /\ IsFiniteSet(messages')
  BY <1>3, <1>4, FS_AddElement DEF TypeOK
<1> QED
  BY <1>1, <1>4, <1>5, <1>6

\* What is saved is a conversation.
LEMMA SavedType ==
  ASSUME TypeOK, NEW w \in Workers
  PROVE  Saved(w) \in Conv
<1>1. worker[w].to \subseteq People /\ worker[w].msg \in Nat
  BY DEF TypeOK, Run
<1> QED
  BY <1>1 DEF TypeOK, Saved, Conv

\* The history of who is there.
LEMMA TrackType ==
  ASSUME TypeOK, Track, members' \subseteq People, conv' \in Conv, scene' = scene
  PROVE  /\ steady' \in [Jobs -> SUBSET People] /\ ever' \subseteq People
         /\ \A j \in Jobs : steady'[j] \subseteq Present(j)'
         /\ \A j \in sent : steady'[j] \subseteq steady[j]
<1>1. \A j \in Jobs : Present(j)' \subseteq People
  BY DEF Present, Conv
<1> QED
  BY <1>1 DEF TypeOK, Track, Conv

LEMMA TypeInit == Init => TypeOK
<1> SUFFICES ASSUME Init PROVE TypeOK
  OBVIOUS
<1>1. /\ scene \in Scenarios /\ scene \in Scenario
  BY ConversationAssumption DEF Init
<1>2. conv \in Conv /\ members \subseteq People
  BY <1>1 DEF Init, Conv, Scenario
<1>3. worker \in [Workers -> Run]
  BY IdleRun DEF Init
<1>4. \A j \in Jobs : Present(j) \subseteq People
  BY <1>2 DEF Present, Conv
<1>5. IsFiniteSet(messages)
  BY FS_EmptySet DEF Init
<1> QED
  <2>1. /\ steady \in [Jobs -> SUBSET People] /\ ready \in [Jobs -> Nat]
        /\ doubts \in [Jobs -> Nat] /\ sent \subseteq Jobs /\ active \subseteq Jobs
    BY <1>4 DEF Init
  <2>2. ever \subseteq People
    BY <1>2 DEF Init, Conv
  <2>3. faults \in 0..MaxFaults /\ changes \in 0..MaxChanges
    BY ConversationAssumption DEF Init
  <2> QED
    BY <1>1, <1>2, <1>3, <1>5, <2>1, <2>2, <2>3 DEF Init, TypeOK

LEMMA TypeStep == TypeOK /\ [Next]_vars => TypeOK'
<1> SUFFICES ASSUME TypeOK, [Next]_vars PROVE TypeOK'
  OBVIOUS
<1> USE DEF chat, broker, history
<1>1. CASE UNCHANGED vars
  BY <1>1 DEF TypeOK, vars
<1>2. ASSUME NEW w \in Workers, Begin(w) PROVE TypeOK'
  <2>1. PICK j \in Jobs :
          /\ ready[j] > 0
          /\ ready' = [ready EXCEPT ![j] = @ - 1]
          /\ Set(w, [Idle EXCEPT !.job = j, !.again = j \in flagged,
                                 !.pc = IF ~Notice(j) THEN "load"
                                        ELSE IF Work(j).valid THEN "allow" ELSE "done"])
    BY <1>2 DEF Begin
  <2>2. [Idle EXCEPT !.job = j, !.again = j \in flagged,
                     !.pc = IF ~Notice(j) THEN "load"
                            ELSE IF Work(j).valid THEN "allow" ELSE "done"] \in Run
    <3>1. (j \in flagged) \in BOOLEAN
      OBVIOUS
    <3> QED
      BY <3>1, IdleRun DEF Run
  <2>3. ready' \in [Jobs -> Nat]
    BY <2>1 DEF TypeOK
  <2> QED
    BY <1>2, <2>1, <2>2, <2>3, SetType DEF Begin, TypeOK
<1>3. ASSUME NEW w \in Workers, Ack(w) PROVE TypeOK'
  BY <1>3, IdleRun, SetType DEF Ack, TypeOK
<1>4. ASSUME NEW w \in Workers, NEW pc \in {"allow", "members", "insert", "run", "call",
                                           "announce", "push", "done"},
             Go(w, pc)
      PROVE  worker' \in [Workers -> Run]
  <2>1. [worker[w] EXCEPT !.pc = pc] \in Run
    BY DEF TypeOK, Run
  <2> QED
    BY <1>4, <2>1, SetType DEF Go
<1>5. ASSUME NEW w \in Workers,
             NEW pc \in {"insert", "unarchive", "announce", "push", "allow", "done"},
             GoMarred(w, pc)
      PROVE  worker' \in [Workers -> Run]
  BY <1>5, MarredType, SetType DEF GoMarred
<1>6. ASSUME NEW w \in Workers, Load(w) PROVE TypeOK'
  <2>1. worker' \in [Workers -> Run]
    BY <1>4, <1>5, <1>6 DEF Load
  <2>2. faults' \in 0..MaxFaults
    BY <1>6, CallType DEF Load
  <2> QED
    BY <1>6, <2>1, <2>2 DEF Load, TypeOK
<1>7. ASSUME NEW w \in Workers, RunBuiltin(w) PROVE TypeOK'
  <2>1. worker' \in [Workers -> Run]
    BY <1>4, <1>5, <1>7 DEF RunBuiltin
  <2>2. faults' \in 0..MaxFaults
    BY <1>7, CallType DEF RunBuiltin
  <2> QED
    BY <1>7, <2>1, <2>2 DEF RunBuiltin, TypeOK
<1>8. ASSUME NEW w \in Workers, CallWebhook(w) PROVE TypeOK'
  <2>1. PICK got \in {"answer", "empty", "failed"}, ctx \in {"live", "expired"} :
          Set(w, AfterCall(w, got, ctx))
    BY <1>8 DEF CallWebhook
  <2>2. AfterCall(w, got, ctx) \in Run
    <3> DEFINE says == IF got = "failed" THEN "failure" ELSE "answer"
               until == IF got = "failed" THEN "live" ELSE ctx
               pc == IF Posts(w, got) THEN "allow" ELSE "done"
    <3>1. /\ says \in {"answer", "failure"} /\ until \in {"live", "expired"}
          /\ pc \in {"allow", "done"}
      OBVIOUS
    <3>2. AfterCall(w, got, ctx) = [worker[w] EXCEPT !.got = got, !.clean = TRUE, !.says = says,
                                                     !.ctx = until, !.pc = pc]
      BY DEF AfterCall
    <3> HIDE DEF says, until, pc
    <3> QED
      BY <3>1, <3>2, RunType DEF Run
  <2> QED
    BY <1>8, <2>1, <2>2, SetType DEF CallWebhook, TypeOK
<1>9. ASSUME NEW w \in Workers, Allow(w) PROVE TypeOK'
  <2>1. faults' \in 0..MaxFaults
    BY <1>9, CallType DEF Allow
  <2>2. /\ worker' \in [Workers -> Run] /\ ready' \in [Jobs -> Nat]
        /\ flagged' \subseteq Jobs /\ sent' = sent
    BY <1>4, <1>9, ErroredType DEF Allow, TypeOK
  <2> QED
    BY <1>9, <2>1, <2>2 DEF Allow, TypeOK
<1>10. ASSUME NEW w \in Workers, ReadMembers(w) PROVE TypeOK'
  <2>1. CASE Set(w, [worker[w] EXCEPT !.to = Present(JobOf(w)), !.pc = "insert"])
    <3>1. Present(JobOf(w)) \subseteq People
      BY PresentType DEF TypeOK, JobOf, Run
    <3>2. [worker[w] EXCEPT !.to = Present(JobOf(w)), !.pc = "insert"] \in Run
      BY <3>1, RunType DEF Run
    <3> QED
      BY <1>10, <2>1, <3>2, SetType, CallType DEF ReadMembers, TypeOK
  <2>2. CASE GoMarred(w, "insert")
    BY <1>5, <1>10, <2>2, CallType DEF ReadMembers, TypeOK
  <2>3. CASE \E some \in SUBSET members \ {{}, members}, new \in Marred(w, "insert") :
               Set(w, [new EXCEPT !.to = some, !.cut = TRUE])
    <3>1. PICK some \in SUBSET members \ {{}, members}, new \in Marred(w, "insert") :
                 Set(w, [new EXCEPT !.to = some, !.cut = TRUE])
      BY <2>3
    <3>2. [new EXCEPT !.to = some, !.cut = TRUE] \in Run
      <4>1. some \in SUBSET People
        BY DEF TypeOK
      <4>2. new \in Run
        BY MarredType
      <4> QED
        BY <4>1, <4>2 DEF Run
    <3> QED
      BY <1>10, <3>1, <3>2, SetType, CallType DEF ReadMembers, TypeOK
  <2> QED
    BY <1>10, <2>1, <2>2, <2>3 DEF ReadMembers
<1>11. ASSUME NEW w \in Workers, Insert(w) PROVE TypeOK'
  <2>0. JobOf(w) \in Jobs
    BY DEF TypeOK, JobOf, Run
  <2>1. CASE Stored(w) /\ Set(w, [worker[w] EXCEPT !.msg = NewId, !.pc = "save"])
                /\ UNCHANGED <<broker, doubts>>
    <3>1. [worker[w] EXCEPT !.msg = NewId, !.pc = "save"] \in Run
      BY <2>1, StoredType, RunType DEF Run
    <3> QED
      BY <1>11, <2>1, <3>1, SetType, StoredType, CallType DEF Insert, TypeOK
  <2>2. CASE Errored(w) /\ UNCHANGED <<messages, doubts>>
    BY <1>11, <2>2, ErroredType, CallType DEF Insert, TypeOK
  <2>3. CASE /\ Errored(w) /\ Stored(w)
             /\ doubts' = [doubts EXCEPT ![JobOf(w)] = @ + 1]
    <3>1. doubts' \in [Jobs -> Nat]
      BY <2>0, <2>3 DEF TypeOK
    <3> QED
      BY <1>11, <2>3, <3>1, ErroredType, StoredType, CallType DEF Insert, TypeOK
  <2> QED
    BY <1>11, <2>1, <2>2, <2>3 DEF Insert
<1>12. ASSUME NEW w \in Workers, Save(w) PROVE TypeOK'
  <2>1. faults' \in 0..MaxFaults
    BY <1>12, CallType DEF Save
  <2>2. conv' \in Conv
    BY <1>12, SavedType DEF Save, TypeOK
  <2>3. steady' \in [Jobs -> SUBSET People] /\ ever' \subseteq People
    BY <1>12, <2>2, TrackType DEF Save, TypeOK
  <2>4. worker' \in [Workers -> Run] /\ raced' \in BOOLEAN
    <3>1. CASE /\ worker' = [v \in Workers |->
                     IF v = w THEN [worker[w] EXCEPT !.pc = "unarchive"]
                     ELSE [worker[v] EXCEPT !.late = @ \/ worker[v].pc \in {"insert", "save"}]]
               /\ raced' = (raced \/ worker[w].late)
      <4>1. [worker[w] EXCEPT !.pc = "unarchive"] \in Run
        BY DEF TypeOK, Run
      <4>2. ASSUME NEW v \in Workers
            PROVE  [worker[v] EXCEPT !.late = @ \/ worker[v].pc \in {"insert", "save"}] \in Run
        <5>1. worker[v] \in Run
          BY DEF TypeOK
        <5>2. (worker[v].late \/ worker[v].pc \in {"insert", "save"}) \in BOOLEAN
          OBVIOUS
        <5> QED
          BY <5>1, <5>2 DEF Run
      <4> QED
        BY <3>1, <4>1, <4>2
    <3>2. CASE GoMarred(w, "unarchive") /\ UNCHANGED <<conv, raced>>
      BY <1>5, <3>2 DEF TypeOK
    <3> QED
      BY <1>12, <3>1, <3>2 DEF Save
  <2> QED
    BY <1>12, <2>1, <2>2, <2>3, <2>4 DEF Save, TypeOK
<1>13. ASSUME NEW w \in Workers, Unarchive(w) PROVE TypeOK'
  <2>1. worker' \in [Workers -> Run] /\ faults' \in 0..MaxFaults
    BY <1>4, <1>5, <1>13, CallType DEF Unarchive
  <2>2. conv' \in Conv
    BY <1>13 DEF Unarchive, TypeOK, Conv
  <2> QED
    BY <1>13, <2>1, <2>2 DEF Unarchive, TypeOK
<1>14. ASSUME NEW w \in Workers, Announce(w) PROVE TypeOK'
  <2>1. AfterFrames(w) \in {"push", "done"}
    BY DEF AfterFrames
  <2>2. worker' \in [Workers -> Run] /\ faults' \in 0..MaxFaults
    BY <1>4, <1>5, <1>14, <2>1, CallType DEF Announce
  <2>3. worker[w].to \subseteq People /\ worker[w].msg \in Nat
    BY DEF TypeOK, Run
  <2>4. frames' \subseteq People \X Nat
    BY <1>14, <2>3 DEF Announce, TypeOK
  <2> QED
    BY <1>14, <2>2, <2>4 DEF Announce, TypeOK
<1>15. ASSUME NEW w \in Workers, SendPush(w) PROVE TypeOK'
  <2>1. worker' \in [Workers -> Run] /\ faults' \in 0..MaxFaults
    BY <1>4, <1>5, <1>15, CallType DEF SendPush
  <2>2. Receivers(w) \subseteq People /\ worker[w].msg \in Nat
    BY DEF TypeOK, Run, Receivers
  <2>3. pushes' \subseteq People \X Nat
    BY <1>15, <2>2 DEF SendPush, TypeOK
  <2> QED
    BY <1>15, <2>1, <2>3 DEF SendPush, TypeOK
<1>16. ASSUME NEW w \in Workers, Crash(w) \/ Redeliver(w) PROVE TypeOK'
  <2>1. JobOf(w) \in Jobs
    BY DEF TypeOK, JobOf, Run
  <2>2. worker' \in [Workers -> Run]
    BY <1>16, IdleRun, SetType DEF Crash, Redeliver, TypeOK
  <2>3. /\ ready' \in [Jobs -> Nat] /\ flagged' \subseteq Jobs /\ sent' = sent
        /\ faults' \in 0..MaxFaults
    BY <1>16, <2>1, ReturnType, CallType DEF Crash, Redeliver
  <2>4. doubts' \in [Jobs -> Nat]
    BY <1>16, <2>1 DEF Crash, Redeliver, TypeOK
  <2> QED
    BY <1>16, <2>2, <2>3, <2>4 DEF Crash, Redeliver, TypeOK
<1>17. ASSUME NEW j \in Jobs, Join(j) PROVE TypeOK'
  <2>1. members' \subseteq People /\ ready' \in [Jobs -> Nat] /\ sent' \subseteq Jobs
    BY <1>17, WorkType DEF Join, Job, TypeOK
  <2>2. steady' \in [Jobs -> SUBSET People] /\ ever' \subseteq People
    BY <1>17, <2>1, TrackType DEF Join, TypeOK
  <2> QED
    BY <1>17, <2>1, <2>2 DEF Join, TypeOK
<1>18. ASSUME NEW p \in People, Leave(p) PROVE TypeOK'
  <2>1. members' \subseteq People /\ changes' \in 0..MaxChanges
    BY <1>18, ConversationAssumption DEF Leave, TypeOK
  <2>2. steady' \in [Jobs -> SUBSET People] /\ ever' \subseteq People
    BY <1>18, <2>1, TrackType DEF Leave, TypeOK
  <2> QED
    BY <1>18, <2>1, <2>2 DEF Leave, TypeOK
<1>19. ASSUME NEW j \in Jobs, SwitchOff(j) PROVE TypeOK'
  <2>1. changes' \in 0..MaxChanges /\ active' \subseteq Jobs
    BY <1>19, ConversationAssumption DEF SwitchOff, TypeOK
  <2> QED
    BY <1>19, <2>1 DEF SwitchOff, TypeOK
<1>20. ASSUME NEW p \in People, Archive(p) PROVE TypeOK'
  <2>1. changes' \in 0..MaxChanges /\ conv' \in Conv
    <3>1. Cardinality(messages) \in Nat
      BY FS_CardinalityType DEF TypeOK
    <3> QED
      BY <1>20, <3>1, ConversationAssumption DEF Archive, TypeOK, Conv
  <2> QED
    BY <1>20, <2>1 DEF Archive, TypeOK
<1> QED
  BY <1>1, <1>2, <1>3, <1>6, <1>7, <1>8, <1>9, <1>10, <1>11, <1>12, <1>13, <1>14, <1>15,
     <1>16, <1>17, <1>18, <1>19, <1>20 DEF Next, Deliver

\* The state is what TypeOK says, for any people, jobs, workers and scenarios.
THEOREM TypeCorrect == Spec => []TypeOK
BY TypeInit, TypeStep, PTL DEF Spec

(***************************************************************************)
(* Participants.                                                           *)
(***************************************************************************)
\* Whatever is on a queue, handled or stored belongs to a job that was sent.
SentFirst ==
  /\ \A j \in Jobs : ready[j] > 0 => j \in sent
  /\ \A w \in Workers : Busy(w) => JobOf(w) \in sent
  /\ \A m \in messages : m.job \in sent

\* Who has been there since a job was sent is there.
SteadyThere == \A j \in Jobs : steady[j] \subseteq Present(j)

\* Until a run reads the members it has none; what it has read to the end and
\* not saved yet still has everybody who has been there since.
Reader(w) ==
  /\ worker[w].pc \in {"load", "run", "call", "allow", "members"} =>
       worker[w].to = {} /\ ~worker[w].cut
  /\ worker[w].pc \in {"insert", "save"} =>
       \/ worker[w].to = {}
       \/ worker[w].cut
       \/ steady[JobOf(w)] \subseteq worker[w].to

Inv == TypeOK /\ SentFirst /\ SteadyThere /\ \A w \in Workers : Reader(w)

LEMMA InvInit == Init => Inv
<1> SUFFICES ASSUME Init PROVE Inv
  OBVIOUS
<1>1. SentFirst
  BY DEF Init, SentFirst, Busy, At, Idle
<1>2. SteadyThere
  BY DEF Init, SteadyThere
<1>3. \A w \in Workers : Reader(w)
  BY DEF Init, Reader, Idle
<1> QED
  BY <1>1, <1>2, <1>3, TypeInit DEF Inv

\* A step that leaves the conversation and the history of its people alone
\* only has to keep its own worker right.
LEMMA LocalStep ==
  ASSUME Inv, TypeOK', NEW w \in Workers,
         \A v \in Workers \ {w} : worker'[v] = worker[v],
         UNCHANGED <<scene, members, sent, steady>>,
         conv'.exists = conv.exists, conv'.listed = conv.listed,
         \A k \in Jobs : ready'[k] > 0 => k \in sent,
         \A m \in messages' : m.job \in sent,
         worker'[w].pc # "idle" => worker'[w].job \in sent,
         Reader(w)'
  PROVE  Inv'
<1>1. SentFirst'
  BY DEF Inv, SentFirst, Busy, At, JobOf
<1>2. SteadyThere'
  <2>1. \A j \in Jobs : Present(j)' = Present(j)
    BY DEF Present, Notice, Work, Realm
  <2> QED
    BY <2>1 DEF Inv, SteadyThere
<1>3. ASSUME NEW v \in Workers \ {w} PROVE Reader(v)'
  BY <1>3 DEF Inv, Reader, JobOf
<1> QED
  BY <1>1, <1>2, <1>3 DEF Inv

\* A run that only moves on.
LEMMA MoveOn ==
  ASSUME Inv, TypeOK', NEW w \in Workers, Busy(w),
         \A v \in Workers \ {w} : worker'[v] = worker[v],
         UNCHANGED <<scene, members, ready, sent, steady, messages>>,
         conv'.exists = conv.exists, conv'.listed = conv.listed,
         worker'[w].job = worker[w].job,
         Reader(w)'
  PROVE  Inv'
<1>1. worker[w].job \in sent
  BY DEF Inv, SentFirst, JobOf
<1>2. \A k \in Jobs : ready'[k] > 0 => k \in sent
  BY DEF Inv, SentFirst
<1>3. \A m \in messages' : m.job \in sent
  BY DEF Inv, SentFirst
<1> QED
  BY <1>1, <1>2, <1>3, LocalStep

\* A step of the people, or the saving of the participants.
LEMMA PeopleStep ==
  ASSUME Inv, TypeOK', Track, scene' = scene, sent \subseteq sent',
         \A k \in Jobs : ready'[k] > 0 => k \in sent',
         UNCHANGED messages,
         \A v \in Workers : /\ worker'[v].job = worker[v].job
                            /\ worker'[v].to = worker[v].to
                            /\ worker'[v].cut = worker[v].cut
                            /\ \/ worker'[v].pc = worker[v].pc
                               \/ worker[v].pc = "save" /\ worker'[v].pc = "unarchive"
  PROVE  Inv'
<1>1. /\ \A j \in Jobs : steady'[j] \subseteq Present(j)'
      /\ \A j \in sent : steady'[j] \subseteq steady[j]
  BY TrackType DEF Inv, TypeOK
<1>2. SentFirst'
  BY DEF Inv, SentFirst, Busy, At, JobOf
<1>3. SteadyThere'
  BY <1>1 DEF SteadyThere
<1>4. ASSUME NEW v \in Workers PROVE Reader(v)'
  <2>1. worker[v].pc \in {"insert", "save"} => worker[v].job \in sent
    BY DEF Inv, SentFirst, Busy, At, JobOf
  <2> QED
    BY <1>1, <2>1 DEF Inv, Reader, JobOf
<1> QED
  BY <1>2, <1>3, <1>4 DEF Inv

\* The end of a run, and the return of its job.
LEMMA ErroredInv ==
  ASSUME Inv, TypeOK', NEW w \in Workers, Busy(w), Errored(w),
         UNCHANGED <<scene, members, conv, steady>>,
         \A m \in messages' \ messages : m.job = JobOf(w)
  PROVE  Inv'
<1>1. JobOf(w) \in sent
  BY DEF Inv, SentFirst
<1>2. /\ worker'[w].pc \in {"idle", "done"} /\ sent' = sent
      /\ \A v \in Workers \ {w} : worker'[v] = worker[v]
      /\ \A k \in Jobs : ready'[k] = ready[k] \/ k = JobOf(w)
  BY ErroredType DEF Inv
<1>3. worker'[w].pc # "idle" => worker'[w].job = JobOf(w)
  <2>1. CASE Set(w, Idle)
    BY <2>1, SetType, IdleRun DEF Inv, Idle
  <2>2. CASE GoMarred(w, "done")
    BY <2>2, SetType, MarredType DEF Inv, GoMarred, JobOf
  <2> QED
    BY <2>1, <2>2 DEF Errored
<1>4. \A k \in Jobs : ready'[k] > 0 => k \in sent
  BY <1>1, <1>2 DEF Inv, SentFirst
<1>5. \A m \in messages' : m.job \in sent
  BY <1>1 DEF Inv, SentFirst
<1>6. Reader(w)'
  BY <1>2 DEF Reader
<1> QED
  BY <1>1, <1>2, <1>3, <1>4, <1>5, <1>6, LocalStep

LEMMA InvStep == Inv /\ [Next]_vars => Inv'
<1> SUFFICES ASSUME Inv, [Next]_vars PROVE Inv'
  OBVIOUS
<1> USE DEF chat, broker, history
<1>0. TypeOK /\ TypeOK'
  BY TypeStep DEF Inv
<1>1. CASE UNCHANGED vars
  BY <1>0, <1>1 DEF Inv, SentFirst, SteadyThere, Reader, Present, Notice, Work, Realm, Busy,
                    At, JobOf, vars
<1>2. ASSUME NEW w \in Workers, Begin(w) PROVE Inv'
  <2>1. PICK j \in Jobs :
          /\ ready[j] > 0
          /\ ready' = [ready EXCEPT ![j] = @ - 1]
          /\ Set(w, [Idle EXCEPT !.job = j, !.again = j \in flagged,
                                 !.pc = IF ~Notice(j) THEN "load"
                                        ELSE IF Work(j).valid THEN "allow" ELSE "done"])
    BY <1>2 DEF Begin
  <2>2. /\ worker'[w] = [Idle EXCEPT !.job = j, !.again = j \in flagged,
                           !.pc = IF ~Notice(j) THEN "load"
                                  ELSE IF Work(j).valid THEN "allow" ELSE "done"]
        /\ \A v \in Workers \ {w} : worker'[v] = worker[v]
    BY <1>0, <2>1 DEF Set, TypeOK
  <2>3. /\ worker'[w].job = j /\ worker'[w].to = {} /\ worker'[w].cut = FALSE
        /\ worker'[w].pc \in {"load", "allow", "done"}
    BY <2>2 DEF Idle
  <2>4. Reader(w)'
    BY <2>3 DEF Reader
  <2>5. j \in sent /\ \A k \in Jobs : ready'[k] > 0 => k \in sent
    BY <1>0, <2>1 DEF Inv, SentFirst, TypeOK
  <2>6. \A m \in messages' : m.job \in sent
    BY <1>2 DEF Begin, Inv, SentFirst
  <2> QED
    BY <1>0, <1>2, <2>2, <2>3, <2>4, <2>5, <2>6, LocalStep DEF Begin
<1>3. ASSUME NEW w \in Workers, Ack(w) PROVE Inv'
  <2>1. worker'[w] = Idle /\ \A v \in Workers \ {w} : worker'[v] = worker[v]
    BY <1>0, <1>3 DEF Ack, Set, TypeOK
  <2>2. Reader(w)'
    BY <2>1 DEF Reader, Idle
  <2>3. worker'[w].pc = "idle"
    BY <2>1 DEF Idle
  <2> QED
    BY <1>0, <1>3, <2>1, <2>2, <2>3, LocalStep DEF Ack, Inv, SentFirst
\* A run that goes on with what it has.
<1>4. ASSUME NEW w \in Workers, NEW pc \in {"allow", "members", "run", "call", "announce",
                                           "push", "done"},
             worker[w].pc \in {"load", "run", "call", "allow"}
               \/ pc \in {"announce", "push", "done"},
             Go(w, pc)
      PROVE  /\ \A v \in Workers \ {w} : worker'[v] = worker[v]
             /\ worker'[w].job = worker[w].job
             /\ Reader(w)'
  <2>1. /\ worker'[w] = [worker[w] EXCEPT !.pc = pc]
        /\ \A v \in Workers \ {w} : worker'[v] = worker[v]
    BY <1>0, <1>4 DEF Go, Set, TypeOK
  <2>2. /\ worker'[w].job = worker[w].job /\ worker'[w].to = worker[w].to
        /\ worker'[w].cut = worker[w].cut /\ worker'[w].pc = pc
    BY <1>0, <2>1, RunType DEF Run
  <2>3. Reader(w)
    BY DEF Inv
  <2> QED
    BY <1>4, <2>1, <2>2, <2>3 DEF Reader
<1>5. ASSUME NEW w \in Workers,
             NEW pc \in {"insert", "unarchive", "announce", "push", "allow", "done"},
             worker[w].pc \in {"load", "run", "call", "allow", "members"}
               \/ pc \in {"unarchive", "announce", "push", "done"},
             GoMarred(w, pc)
      PROVE  /\ \A v \in Workers \ {w} : worker'[v] = worker[v]
             /\ worker'[w].job = worker[w].job
             /\ Reader(w)'
  <2>1. PICK new \in Marred(w, pc) : Set(w, new)
    BY <1>5 DEF GoMarred
  <2>2. /\ new \in Run /\ new.pc = pc /\ new.job = worker[w].job
        /\ new.to = worker[w].to /\ new.cut = worker[w].cut
    BY <1>0, MarredType
  <2>3. worker'[w] = new /\ \A v \in Workers \ {w} : worker'[v] = worker[v]
    BY <1>0, <2>1, <2>2, SetType
  <2>4. Reader(w)
    BY DEF Inv
  <2> QED
    BY <1>5, <2>2, <2>3, <2>4 DEF Reader
<1>6. ASSUME NEW w \in Workers, Load(w) PROVE Inv'
  <2>1. /\ \A v \in Workers \ {w} : worker'[v] = worker[v]
        /\ worker'[w].job = worker[w].job
        /\ Reader(w)'
    BY <1>4, <1>5, <1>6 DEF Load, At
  <2> QED
    BY <1>0, <1>6, <2>1, MoveOn DEF Load, At, Busy
<1>7. ASSUME NEW w \in Workers, RunBuiltin(w) PROVE Inv'
  <2>1. /\ \A v \in Workers \ {w} : worker'[v] = worker[v]
        /\ worker'[w].job = worker[w].job
        /\ Reader(w)'
    BY <1>4, <1>5, <1>7 DEF RunBuiltin, At
  <2> QED
    BY <1>0, <1>7, <2>1, MoveOn DEF RunBuiltin, At, Busy
<1>8. ASSUME NEW w \in Workers, CallWebhook(w) PROVE Inv'
  <2>1. PICK got \in {"answer", "empty", "failed"}, ctx \in {"live", "expired"} :
          Set(w, AfterCall(w, got, ctx))
    BY <1>8 DEF CallWebhook
  <2>2. /\ worker'[w] = AfterCall(w, got, ctx)
        /\ \A v \in Workers \ {w} : worker'[v] = worker[v]
    BY <1>0, <2>1 DEF Set, TypeOK
  <2>3. /\ worker'[w].job = worker[w].job /\ worker'[w].to = worker[w].to
        /\ worker'[w].cut = worker[w].cut /\ worker'[w].pc \in {"allow", "done"}
    BY <1>0, <2>1, <2>2, AfterCallType
  <2>4. Reader(w)'
    BY <1>8, <2>3 DEF Inv, Reader, CallWebhook, At
  <2> QED
    BY <1>0, <1>8, <2>2, <2>3, <2>4, MoveOn DEF CallWebhook, At, Busy
<1>9. ASSUME NEW w \in Workers, Allow(w) PROVE Inv'
  <2>1. CASE Go(w, IF Allowed(JobOf(w)) THEN "members" ELSE "done") /\ UNCHANGED broker
    <3>1. /\ \A v \in Workers \ {w} : worker'[v] = worker[v]
          /\ worker'[w].job = worker[w].job
          /\ Reader(w)'
      BY <1>4, <1>9, <2>1 DEF Allow, At
    <3> QED
      BY <1>0, <1>9, <2>1, <3>1, MoveOn DEF Allow, At, Busy
  <2>2. CASE Errored(w)
    BY <1>0, <1>9, <2>2, ErroredInv DEF Allow, At, Busy
  <2> QED
    BY <1>9, <2>1, <2>2 DEF Allow
<1>10. ASSUME NEW w \in Workers, ReadMembers(w) PROVE Inv'
  <2>0. /\ worker[w] \in Run /\ JobOf(w) \in Jobs
        /\ worker[w].to = {} /\ ~worker[w].cut
    BY <1>0, <1>10, RunType DEF ReadMembers, At, Inv, Reader
  <2>1. CASE Set(w, [worker[w] EXCEPT !.to = Present(JobOf(w)), !.pc = "insert"])
    <3>1. /\ worker'[w] = [worker[w] EXCEPT !.to = Present(JobOf(w)), !.pc = "insert"]
          /\ \A v \in Workers \ {w} : worker'[v] = worker[v]
      BY <1>0, <2>1 DEF Set, TypeOK
    <3>2. /\ worker'[w].job = JobOf(w) /\ worker'[w].to = Present(JobOf(w))
          /\ worker'[w].pc = "insert"
      BY <2>0, <3>1 DEF Run, JobOf
    <3>3. steady'[JobOf(w)] \subseteq Present(JobOf(w))
      BY <1>10, <2>0 DEF ReadMembers, Inv, SteadyThere
    <3>4. Reader(w)'
      BY <3>2, <3>3 DEF Reader, JobOf
    <3> QED
      BY <1>0, <1>10, <3>1, <3>2, <3>4, MoveOn DEF ReadMembers, At, Busy, JobOf
  <2>2. CASE GoMarred(w, "insert")
    <3>1. /\ \A v \in Workers \ {w} : worker'[v] = worker[v]
          /\ worker'[w].job = worker[w].job
          /\ Reader(w)'
      BY <1>5, <1>10, <2>2 DEF ReadMembers, At
    <3> QED
      BY <1>0, <1>10, <3>1, MoveOn DEF ReadMembers, At, Busy
  <2>3. CASE \E some \in SUBSET members \ {{}, members}, new \in Marred(w, "insert") :
               Set(w, [new EXCEPT !.to = some, !.cut = TRUE])
    <3>1. PICK some \in SUBSET members \ {{}, members}, new \in Marred(w, "insert") :
                 Set(w, [new EXCEPT !.to = some, !.cut = TRUE])
      BY <2>3
    <3>2. new \in Run /\ new.job = worker[w].job /\ new.pc = "insert"
      BY <1>0, MarredType
    <3>3. /\ worker'[w] = [new EXCEPT !.to = some, !.cut = TRUE]
          /\ \A v \in Workers \ {w} : worker'[v] = worker[v]
      BY <1>0, <3>1 DEF Set, TypeOK
    <3>4. worker'[w].job = worker[w].job /\ worker'[w].pc = "insert" /\ worker'[w].cut
      BY <3>2, <3>3 DEF Run
    <3>5. Reader(w)'
      BY <3>4 DEF Reader
    <3> QED
      BY <1>0, <1>10, <3>3, <3>4, <3>5, MoveOn DEF ReadMembers, At, Busy
  <2> QED
    BY <1>10, <2>1, <2>2, <2>3 DEF ReadMembers
<1>11. ASSUME NEW w \in Workers, Insert(w) PROVE Inv'
  <2>0. Busy(w) /\ worker[w] \in Run /\ JobOf(w) \in sent
    BY <1>0, <1>11, RunType DEF Insert, At, Busy, Inv, SentFirst
  <2>1. CASE Stored(w) /\ Set(w, [worker[w] EXCEPT !.msg = NewId, !.pc = "save"])
                /\ UNCHANGED <<broker, doubts>>
    <3>1. /\ worker'[w] = [worker[w] EXCEPT !.msg = NewId, !.pc = "save"]
          /\ \A v \in Workers \ {w} : worker'[v] = worker[v]
      BY <1>0, <2>1 DEF Set, TypeOK
    <3>2. /\ worker'[w].job = worker[w].job /\ worker'[w].to = worker[w].to
          /\ worker'[w].cut = worker[w].cut /\ worker'[w].pc = "save"
      BY <2>0, <3>1 DEF Run
    <3>3. Reader(w)'
      BY <1>11, <3>2 DEF Insert, At, Inv, Reader, JobOf
    <3>4. \A m \in messages' : m.job \in sent
      BY <1>0, <2>0, <2>1, StoredType DEF Inv, SentFirst
    <3>5. \A k \in Jobs : ready'[k] > 0 => k \in sent
      BY <2>1 DEF Inv, SentFirst
    <3> QED
      BY <1>0, <1>11, <2>0, <2>1, <3>1, <3>2, <3>3, <3>4, <3>5, LocalStep DEF Insert, JobOf
  <2>2. CASE Errored(w) /\ UNCHANGED messages
    BY <1>0, <1>11, <2>0, <2>2, ErroredInv DEF Insert
  <2>3. CASE Errored(w) /\ Stored(w)
    BY <1>0, <1>11, <2>0, <2>3, StoredType, ErroredInv DEF Insert
  <2> QED
    BY <1>11, <2>1, <2>2, <2>3 DEF Insert
<1>12. ASSUME NEW w \in Workers, Save(w) PROVE Inv'
  <2>1. \A v \in Workers : /\ worker'[v].job = worker[v].job
                           /\ worker'[v].to = worker[v].to
                           /\ worker'[v].cut = worker[v].cut
                           /\ \/ worker'[v].pc = worker[v].pc
                              \/ worker[v].pc = "save" /\ worker'[v].pc = "unarchive"
    <3>0. \A v \in Workers : worker[v] \in Run
      BY <1>0, RunType
    <3>1. CASE worker' = [v \in Workers |->
                 IF v = w THEN [worker[w] EXCEPT !.pc = "unarchive"]
                 ELSE [worker[v] EXCEPT !.late = @ \/ worker[v].pc \in {"insert", "save"}]]
      BY <1>12, <3>0, <3>1 DEF Save, At, Run
    <3>2. CASE GoMarred(w, "unarchive")
      <4>1. PICK new \in Marred(w, "unarchive") : Set(w, new)
        BY <3>2 DEF GoMarred
      <4>2. /\ new \in Run /\ new.pc = "unarchive" /\ new.job = worker[w].job
            /\ new.to = worker[w].to /\ new.cut = worker[w].cut
        BY <1>0, MarredType
      <4> QED
        BY <1>0, <1>12, <4>1, <4>2, SetType DEF Save, At
    <3> QED
      BY <1>12, <3>1, <3>2 DEF Save
  <2> QED
    BY <1>0, <1>12, <2>1, PeopleStep DEF Save, Inv, SentFirst
<1>13. ASSUME NEW w \in Workers, Unarchive(w) PROVE Inv'
  <2>1. /\ \A v \in Workers \ {w} : worker'[v] = worker[v]
        /\ worker'[w].job = worker[w].job
        /\ Reader(w)'
    BY <1>4, <1>5, <1>13 DEF Unarchive, At
  <2>2. conv'.exists = conv.exists /\ conv'.listed = conv.listed
    BY <1>0, <1>13 DEF Unarchive, TypeOK, Conv
  <2> QED
    BY <1>0, <1>13, <2>1, <2>2, MoveOn DEF Unarchive, At, Busy
<1>14. ASSUME NEW w \in Workers, Announce(w) PROVE Inv'
  <2>1. AfterFrames(w) \in {"push", "done"}
    BY DEF AfterFrames
  <2>2. /\ \A v \in Workers \ {w} : worker'[v] = worker[v]
        /\ worker'[w].job = worker[w].job
        /\ Reader(w)'
    BY <1>4, <1>5, <1>14, <2>1 DEF Announce, At
  <2> QED
    BY <1>0, <1>14, <2>2, MoveOn DEF Announce, At, Busy
<1>15. ASSUME NEW w \in Workers, SendPush(w) PROVE Inv'
  <2>1. /\ \A v \in Workers \ {w} : worker'[v] = worker[v]
        /\ worker'[w].job = worker[w].job
        /\ Reader(w)'
    BY <1>4, <1>5, <1>15 DEF SendPush, At
  <2> QED
    BY <1>0, <1>15, <2>1, MoveOn DEF SendPush, At, Busy
<1>16. ASSUME NEW w \in Workers, Crash(w) \/ Redeliver(w) PROVE Inv'
  <2>0. Busy(w) /\ JobOf(w) \in Jobs /\ JobOf(w) \in sent /\ Return(JobOf(w))
    BY <1>0, <1>16, RunType DEF Crash, Redeliver, Inv, SentFirst
  <2>1. /\ \A k \in Jobs : ready'[k] > 0 => k \in sent
        /\ sent' = sent
    BY <1>0, <2>0, ReturnType DEF Inv, SentFirst
  <2>2. /\ \A v \in Workers \ {w} : worker'[v] = worker[v]
        /\ worker'[w] \in {Idle, worker[w]}
    BY <1>0, <1>16, IdleRun, SetType DEF Crash, Redeliver
  <2>3. Reader(w)' /\ (worker'[w].pc # "idle" => worker'[w].job \in sent)
    BY <1>16, <2>0, <2>2 DEF Crash, Redeliver, Inv, Reader, Idle, JobOf
  <2> QED
    BY <1>0, <1>16, <2>1, <2>2, <2>3, LocalStep DEF Crash, Redeliver, Inv, SentFirst
<1>17. ASSUME NEW j \in Jobs, Join(j) PROVE Inv'
  BY <1>0, <1>17, PeopleStep DEF Join, Inv, SentFirst, TypeOK
<1>18. ASSUME NEW p \in People, Leave(p) PROVE Inv'
  BY <1>0, <1>18, PeopleStep DEF Leave, Inv, SentFirst
<1>19. ASSUME NEW j \in Jobs, SwitchOff(j) PROVE Inv'
  BY <1>0, <1>19 DEF SwitchOff, Inv, SentFirst, SteadyThere, Reader, Present, Notice, Work,
                     Realm, Busy, At, JobOf
<1>20. ASSUME NEW p \in People, Archive(p) PROVE Inv'
  <2>1. conv'.listed = conv.listed /\ conv'.exists = conv.exists
    BY <1>20 DEF Archive, Inv, TypeOK, Conv
  <2> QED
    BY <1>0, <1>20, <2>1 DEF Archive, Inv, SentFirst, SteadyThere, Reader, Present, Notice, Work,
                             Realm, Busy, At, JobOf
<1> QED
  BY <1>1, <1>2, <1>3, <1>6, <1>7, <1>8, <1>9, <1>10, <1>11, <1>12, <1>13, <1>14, <1>15,
     <1>16, <1>17, <1>18, <1>19, <1>20 DEF Next, Deliver

\* No notice takes somebody out of the participants who has been a member since
\* it was published, in any interleaving of any number of jobs and failures,
\* unless its rows broke off (saveNoticeConversation, realmMembers).
THEOREM ParticipantsStay == Spec => NobodyThrownOut
<1>1. ASSUME Inv, [Next]_vars
      PROVE  [\A p \in conv.listed \ conv'.listed :
                \E w \in Workers : /\ At(w, "save")
                                   /\ worker[w].cut \/ p \notin steady[JobOf(w)]]_vars
  <2> SUFFICES ASSUME ~UNCHANGED vars, NEW p \in conv.listed \ conv'.listed
               PROVE  \E w \in Workers : /\ At(w, "save")
                                         /\ worker[w].cut \/ p \notin steady[JobOf(w)]
    OBVIOUS
  <2> USE DEF chat
  <2>1. conv \in Conv /\ conv'.listed # conv.listed
    BY <1>1 DEF Inv, TypeOK
  <2>5. \A q \in People : ~Archive(q)
    BY <2>1 DEF Archive, Conv
  <2>2. PICK w \in Workers : Save(w) \/ Unarchive(w)
    BY <1>1, <2>1, <2>5 DEF Next, Deliver, Begin, Ack, Load, RunBuiltin, CallWebhook, Allow,
         ReadMembers, Insert, Announce, SendPush, Crash, Redeliver, Join, Leave, SwitchOff
  <2>3. CASE Unarchive(w)
    BY <2>1, <2>3 DEF Unarchive, Conv
  <2>4. CASE Save(w)
    <3>1. conv' = Saved(w)
      BY <2>1, <2>4 DEF Save
    <3>2. worker[w].to # {} /\ p \notin worker[w].to
      BY <2>1, <3>1 DEF Saved, Conv
    <3> QED
      BY <1>1, <2>4, <3>2 DEF Save, At, Inv, Reader
  <2> QED
    BY <2>2, <2>3, <2>4
<1> QED
  BY <1>1, InvInit, InvStep, PTL DEF Spec, NobodyThrownOut

(***************************************************************************)
(* A job posts once.  What a job may still post is counted together with   *)
(* what it has posted: its copies on the queue, and its runs that have not *)
(* come to the insert's end.                                               *)
(***************************************************************************)
Early == {"load", "run", "call", "allow", "members", "insert"}
WillInsert(w, j) == worker[w].job = j /\ worker[w].pc \in Early
Before(j) == {w \in Workers : WillInsert(w, j)}

Budget ==
  \A j \in Jobs :
    Cardinality(MessagesOf(j)) + ready[j] + Cardinality(Before(j))
      <= (IF j \in sent THEN 1 ELSE 0) + doubts[j]

LEMMA Counts ==
  ASSUME TypeOK, NEW j \in Jobs
  PROVE  /\ IsFiniteSet(Before(j)) /\ Cardinality(Before(j)) \in Nat
         /\ IsFiniteSet(MessagesOf(j)) /\ Cardinality(MessagesOf(j)) \in Nat
         /\ ready[j] \in Nat /\ doubts[j] \in Nat
<1>1. IsFiniteSet(Before(j))
  BY ConversationAssumption, FS_Subset DEF Before
<1>2. IsFiniteSet(MessagesOf(j))
  BY FS_Subset DEF MessagesOf, TypeOK
<1> QED
  BY <1>1, <1>2, FS_CardinalityType DEF TypeOK

\* One worker moves: the early runs change by that worker at most.
LEMMA BeforeStep ==
  ASSUME TypeOK, NEW w \in Workers, NEW j \in Jobs,
         \A v \in Workers \ {w} : /\ worker'[v].job = worker[v].job
                                  /\ worker'[v].pc = worker[v].pc
  PROVE  /\ Cardinality(Before(j)') \in Nat
         /\ Cardinality(Before(j)') + (IF WillInsert(w, j) THEN 1 ELSE 0)
              = Cardinality(Before(j)) + (IF WillInsert(w, j)' THEN 1 ELSE 0)
<1> DEFINE rest == Before(j) \ {w}
<1>1. Before(j)' = IF WillInsert(w, j)' THEN rest \union {w} ELSE rest
  BY DEF Before, WillInsert
<1>2. IsFiniteSet(Before(j)) /\ Cardinality(Before(j)) \in Nat
  BY Counts
<1>3. w \in Before(j) <=> WillInsert(w, j)
  BY DEF Before
<1>4. /\ IsFiniteSet(rest) /\ w \notin rest
      /\ Cardinality(rest) = IF w \in Before(j) THEN Cardinality(Before(j)) - 1
                             ELSE Cardinality(Before(j))
  BY <1>2, FS_RemoveElement
<1>5. Cardinality(rest) \in Nat
  BY <1>4, FS_CardinalityType
<1>6. Cardinality(rest \union {w}) = Cardinality(rest) + 1
  BY <1>4, FS_AddElement
<1> HIDE DEF rest
<1> QED
  BY <1>1, <1>2, <1>3, <1>4, <1>5, <1>6

LEMMA BudgetStep ==
  ASSUME TypeOK, TypeOK', Budget, NEW w \in Workers, sent' = sent,
         \A v \in Workers \ {w} : /\ worker'[v].job = worker[v].job
                                  /\ worker'[v].pc = worker[v].pc,
         \A j \in Jobs :
           Cardinality(MessagesOf(j)') + ready'[j] + (IF WillInsert(w, j)' THEN 1 ELSE 0)
               + doubts[j]
             <= Cardinality(MessagesOf(j)) + ready[j] + (IF WillInsert(w, j) THEN 1 ELSE 0)
               + doubts'[j]
  PROVE  Budget'
<1> SUFFICES ASSUME NEW j \in Jobs
             PROVE  Cardinality(MessagesOf(j)') + ready'[j] + Cardinality(Before(j)')
                      <= (IF j \in sent' THEN 1 ELSE 0) + doubts'[j]
  BY DEF Budget
<1>1. /\ Cardinality(Before(j)') \in Nat
      /\ Cardinality(Before(j)') + (IF WillInsert(w, j) THEN 1 ELSE 0)
           = Cardinality(Before(j)) + (IF WillInsert(w, j)' THEN 1 ELSE 0)
  BY BeforeStep
<1>2. /\ Cardinality(Before(j)) \in Nat /\ Cardinality(MessagesOf(j)) \in Nat
      /\ ready[j] \in Nat /\ doubts[j] \in Nat
  BY Counts
<1>3. ready'[j] \in Nat /\ doubts'[j] \in Nat
  BY DEF TypeOK
<1>4. Cardinality(MessagesOf(j)') \in Nat
  <2>1. IsFiniteSet(MessagesOf(j)')
    BY FS_Subset DEF MessagesOf, TypeOK
  <2> QED
    BY <2>1, FS_CardinalityType
<1>5. Cardinality(MessagesOf(j)) + ready[j] + Cardinality(Before(j))
        <= (IF j \in sent THEN 1 ELSE 0) + doubts[j]
  BY DEF Budget
<1> QED
  BY <1>1, <1>2, <1>3, <1>4, <1>5

\* A run that posts nothing and gives nothing back.
LEMMA QuietStep ==
  ASSUME TypeOK, TypeOK', Budget, NEW w \in Workers,
         UNCHANGED <<sent, ready, doubts, messages>>,
         \A v \in Workers \ {w} : /\ worker'[v].job = worker[v].job
                                  /\ worker'[v].pc = worker[v].pc,
         worker'[w].pc \in Early =>
           worker[w].pc \in Early /\ worker'[w].job = worker[w].job
  PROVE  Budget'
<1> SUFFICES ASSUME NEW j \in Jobs
             PROVE  Cardinality(MessagesOf(j)') + ready'[j]
                        + (IF WillInsert(w, j)' THEN 1 ELSE 0) + doubts[j]
                      <= Cardinality(MessagesOf(j)) + ready[j]
                        + (IF WillInsert(w, j) THEN 1 ELSE 0) + doubts'[j]
  BY BudgetStep
<1>1. WillInsert(w, j)' => WillInsert(w, j)
  BY DEF WillInsert
<1>2. MessagesOf(j)' = MessagesOf(j)
  BY DEF MessagesOf
<1>3. Cardinality(MessagesOf(j)) \in Nat /\ ready[j] \in Nat /\ doubts[j] \in Nat
  BY Counts
<1> QED
  BY <1>1, <1>2, <1>3

\* An insert adds at most one line, to its own job.
LEMMA StoredCount ==
  ASSUME TypeOK, NEW w \in Workers, Stored(w), NEW j \in Jobs
  PROVE  /\ Cardinality(MessagesOf(j)') \in Nat
         /\ Cardinality(MessagesOf(j)')
              <= Cardinality(MessagesOf(j)) + (IF j = JobOf(w) THEN 1 ELSE 0)
<1> DEFINE m == [id |-> NewId, job |-> JobOf(w), says |->
                   IF Notice(JobOf(w)) THEN "notice" ELSE worker[w].says]
<1>1. messages' = messages \union {m} /\ m.job = JobOf(w)
  BY DEF Stored
<1> HIDE DEF m
<1>2. MessagesOf(j)' = IF j = JobOf(w) THEN MessagesOf(j) \union {m} ELSE MessagesOf(j)
  BY <1>1 DEF MessagesOf
<1>3. IsFiniteSet(MessagesOf(j)) /\ Cardinality(MessagesOf(j)) \in Nat
  BY Counts
<1>4. Cardinality(MessagesOf(j) \union {m}) \in
        {Cardinality(MessagesOf(j)), Cardinality(MessagesOf(j)) + 1}
  BY <1>3, FS_AddElement
<1> QED
  BY <1>2, <1>3, <1>4

LEMMA BudgetInit == Init => Budget
<1> SUFFICES ASSUME Init, NEW j \in Jobs
             PROVE  Cardinality(MessagesOf(j)) + ready[j] + Cardinality(Before(j))
                      <= (IF j \in sent THEN 1 ELSE 0) + doubts[j]
  BY DEF Budget
<1>1. MessagesOf(j) = {} /\ Before(j) = {}
  BY DEF Init, MessagesOf, Before, WillInsert, Idle, Early
<1>2. Cardinality({}) = 0
  BY FS_EmptySet
<1> QED
  BY <1>1, <1>2 DEF Init

\* An error of a run that has not inserted: it ends, or its job goes back.
LEMMA ErroredBudget ==
  ASSUME TypeOK, TypeOK', Budget, NEW w \in Workers, worker[w].pc \in Early, Errored(w),
         \/ UNCHANGED <<messages, doubts>>
         \/ Stored(w) /\ doubts' = [doubts EXCEPT ![JobOf(w)] = @ + 1]
  PROVE  Budget'
<1>1. /\ worker'[w].pc \in {"idle", "done"} /\ sent' = sent
      /\ \A v \in Workers \ {w} : worker'[v] = worker[v]
      /\ \A k \in Jobs : \/ ready'[k] = ready[k]
                         \/ (k = JobOf(w) /\ ready'[k] = ready[k] + 1)
  BY ErroredType
<1> SUFFICES ASSUME NEW j \in Jobs
             PROVE  Cardinality(MessagesOf(j)') + ready'[j]
                        + (IF WillInsert(w, j)' THEN 1 ELSE 0) + doubts[j]
                      <= Cardinality(MessagesOf(j)) + ready[j]
                        + (IF WillInsert(w, j) THEN 1 ELSE 0) + doubts'[j]
  BY <1>1, BudgetStep
<1>2. ~WillInsert(w, j)' /\ (WillInsert(w, j) <=> j = JobOf(w))
  BY <1>1 DEF WillInsert, Early, JobOf
<1>3. Cardinality(MessagesOf(j)) \in Nat /\ ready[j] \in Nat /\ doubts[j] \in Nat
  BY Counts
<1>4. CASE UNCHANGED <<messages, doubts>>
  <2>1. MessagesOf(j)' = MessagesOf(j)
    BY <1>4 DEF MessagesOf
  <2> QED
    BY <1>1, <1>2, <1>3, <1>4, <2>1
<1>5. CASE Stored(w) /\ doubts' = [doubts EXCEPT ![JobOf(w)] = @ + 1]
  <2>1. /\ Cardinality(MessagesOf(j)') \in Nat
        /\ Cardinality(MessagesOf(j)')
             <= Cardinality(MessagesOf(j)) + (IF j = JobOf(w) THEN 1 ELSE 0)
    BY <1>5, StoredCount
  <2>2. doubts'[j] = doubts[j] + (IF j = JobOf(w) THEN 1 ELSE 0)
    BY <1>3, <1>5 DEF TypeOK
  <2> QED
    BY <1>1, <1>2, <1>3, <2>1, <2>2
<1> QED
  BY <1>4, <1>5

LEMMA BudgetNext == Inv /\ Budget /\ [Next]_vars => Budget'
<1> SUFFICES ASSUME Inv, Budget, [Next]_vars PROVE Budget'
  OBVIOUS
<1> USE DEF chat, broker, history
<1>0. TypeOK /\ TypeOK'
  BY TypeStep DEF Inv
<1>1. CASE UNCHANGED vars
  BY <1>1 DEF Budget, MessagesOf, Before, WillInsert, vars
<1>2. ASSUME NEW w \in Workers, Begin(w) PROVE Budget'
  <2>1. PICK k \in Jobs :
          /\ ready[k] > 0
          /\ ready' = [ready EXCEPT ![k] = @ - 1]
          /\ Set(w, [Idle EXCEPT !.job = k, !.again = k \in flagged,
                                 !.pc = IF ~Notice(k) THEN "load"
                                        ELSE IF Work(k).valid THEN "allow" ELSE "done"])
    BY <1>2 DEF Begin
  <2>2. worker'[w].job = k /\ \A v \in Workers \ {w} : worker'[v] = worker[v]
    BY <1>0, <2>1 DEF Set, TypeOK, Idle
  <2> SUFFICES ASSUME NEW j \in Jobs
               PROVE  Cardinality(MessagesOf(j)') + ready'[j]
                          + (IF WillInsert(w, j)' THEN 1 ELSE 0) + doubts[j]
                        <= Cardinality(MessagesOf(j)) + ready[j]
                          + (IF WillInsert(w, j) THEN 1 ELSE 0) + doubts'[j]
    BY <1>0, <1>2, <2>2, BudgetStep DEF Begin
  <2>3. MessagesOf(j)' = MessagesOf(j) /\ doubts' = doubts
    BY <1>2 DEF Begin, MessagesOf
  <2>4. ready'[j] = ready[j] - (IF j = k THEN 1 ELSE 0)
    BY <1>0, <2>1 DEF TypeOK
  <2>5. ~WillInsert(w, j) /\ (WillInsert(w, j)' => j = k)
    BY <1>2, <2>2 DEF Begin, At, WillInsert, Early
  <2>6. Cardinality(MessagesOf(j)) \in Nat /\ ready[j] \in Nat /\ doubts[j] \in Nat
    BY <1>0, Counts
  <2> QED
    BY <2>3, <2>4, <2>5, <2>6
<1>3. ASSUME NEW w \in Workers, Ack(w) PROVE Budget'
  <2>1. worker'[w] = Idle /\ \A v \in Workers \ {w} : worker'[v] = worker[v]
    BY <1>0, <1>3 DEF Ack, Set, TypeOK
  <2> QED
    BY <1>0, <1>3, <2>1, QuietStep DEF Ack, Idle, Early
\* Steps of a run on which a call succeeds, or fails without ending the job.
<1>4. ASSUME NEW w \in Workers, NEW new \in Run, Set(w, new), new.job = worker[w].job,
             new.pc \in Early => worker[w].pc \in Early,
             UNCHANGED <<sent, ready, doubts, messages>>
      PROVE  Budget'
  <2>1. worker'[w] = new /\ \A v \in Workers \ {w} : worker'[v] = worker[v]
    BY <1>0, <1>4, SetType
  <2> QED
    BY <1>0, <1>4, <2>1, QuietStep
<1>5. ASSUME NEW w \in Workers, NEW pc \in {"allow", "members", "run", "call", "unarchive",
                                           "announce", "push", "done"}, Go(w, pc)
      PROVE  \E new \in Run : Set(w, new) /\ new.job = worker[w].job /\ new.pc = pc
  <2>1. worker[w] \in Run
    BY <1>0, RunType
  <2>2. [worker[w] EXCEPT !.pc = pc] \in Run
    BY <2>1 DEF Run
  <2> QED
    BY <1>5, <2>1, <2>2 DEF Go, Run
<1>6. ASSUME NEW w \in Workers,
             NEW pc \in {"insert", "unarchive", "announce", "push", "allow", "done"},
             GoMarred(w, pc)
      PROVE  \E new \in Run : Set(w, new) /\ new.job = worker[w].job /\ new.pc = pc
  BY <1>0, <1>6, MarredType DEF GoMarred
<1>7. ASSUME NEW w \in Workers, Load(w) PROVE Budget'
  <2>1. \E new \in Run : /\ Set(w, new) /\ new.job = worker[w].job
                         /\ new.pc \in {"run", "call", "done"}
    BY <1>5, <1>6, <1>7 DEF Load
  <2> QED
    BY <1>4, <1>7, <2>1 DEF Load, At, Early
<1>8. ASSUME NEW w \in Workers, RunBuiltin(w) PROVE Budget'
  <2>1. \E new \in Run : /\ Set(w, new) /\ new.job = worker[w].job
                         /\ new.pc \in {"allow", "done"}
    BY <1>5, <1>6, <1>8 DEF RunBuiltin
  <2> QED
    BY <1>4, <1>8, <2>1 DEF RunBuiltin, At, Early
<1>9. ASSUME NEW w \in Workers, CallWebhook(w) PROVE Budget'
  <2>1. PICK got \in {"answer", "empty", "failed"}, ctx \in {"live", "expired"} :
          Set(w, AfterCall(w, got, ctx))
    BY <1>9 DEF CallWebhook
  <2>2. AfterCall(w, got, ctx) \in Run /\ AfterCall(w, got, ctx).job = worker[w].job
    BY <1>0, AfterCallType
  <2> QED
    BY <1>4, <1>9, <2>1, <2>2 DEF CallWebhook, At, Early
<1>10. ASSUME NEW w \in Workers, Allow(w) PROVE Budget'
  <2>1. CASE Go(w, IF Allowed(JobOf(w)) THEN "members" ELSE "done") /\ UNCHANGED broker
    <3>1. \E new \in Run : Set(w, new) /\ new.job = worker[w].job
      BY <1>5, <2>1
    <3> QED
      BY <1>4, <1>10, <2>1, <3>1 DEF Allow, At, Early
  <2>2. CASE Errored(w)
    BY <1>0, <1>10, <2>2, ErroredBudget DEF Allow, At, Early
  <2> QED
    BY <1>10, <2>1, <2>2 DEF Allow
<1>11. ASSUME NEW w \in Workers, ReadMembers(w) PROVE Budget'
  <2>1. worker[w] \in Run
    BY <1>0, RunType
  <2>2. \E new \in Run : Set(w, new) /\ new.job = worker[w].job
    <3>1. CASE Set(w, [worker[w] EXCEPT !.to = Present(JobOf(w)), !.pc = "insert"])
      <4>1. Present(JobOf(w)) \subseteq People
        BY <1>0, RunType, PresentType
      <4>2. [worker[w] EXCEPT !.to = Present(JobOf(w)), !.pc = "insert"] \in Run
        BY <2>1, <4>1 DEF Run
      <4>3. [worker[w] EXCEPT !.to = Present(JobOf(w)), !.pc = "insert"].job = worker[w].job
        BY <2>1 DEF Run
      <4> QED
        BY <3>1, <4>2, <4>3
    <3>2. CASE GoMarred(w, "insert")
      BY <1>6, <3>2
    <3>3. CASE \E some \in SUBSET members \ {{}, members}, new \in Marred(w, "insert") :
                 Set(w, [new EXCEPT !.to = some, !.cut = TRUE])
      <4>1. PICK some \in SUBSET members, new \in Marred(w, "insert") :
                   Set(w, [new EXCEPT !.to = some, !.cut = TRUE])
        BY <3>3
      <4>2. new \in Run /\ new.job = worker[w].job
        BY <1>0, MarredType
      <4>3. [new EXCEPT !.to = some, !.cut = TRUE] \in Run
        BY <1>0, <4>2 DEF Run, TypeOK
      <4> QED
        BY <4>1, <4>2, <4>3 DEF Run
    <3> QED
      BY <1>11, <3>1, <3>2, <3>3 DEF ReadMembers
  <2> QED
    BY <1>4, <1>11, <2>2 DEF ReadMembers, At, Early
<1>12. ASSUME NEW w \in Workers, Insert(w) PROVE Budget'
  <2>0. worker[w].pc \in Early /\ worker[w] \in Run
    BY <1>0, <1>12, RunType DEF Insert, At, Early
  <2>1. CASE Stored(w) /\ Set(w, [worker[w] EXCEPT !.msg = NewId, !.pc = "save"])
                /\ UNCHANGED <<broker, doubts>>
    <3>1. /\ worker'[w].pc = "save"
          /\ \A v \in Workers \ {w} : worker'[v] = worker[v]
      BY <1>0, <2>0, <2>1 DEF Set, TypeOK, Run
    <3> SUFFICES ASSUME NEW j \in Jobs
                 PROVE  Cardinality(MessagesOf(j)') + ready'[j]
                            + (IF WillInsert(w, j)' THEN 1 ELSE 0) + doubts[j]
                          <= Cardinality(MessagesOf(j)) + ready[j]
                            + (IF WillInsert(w, j) THEN 1 ELSE 0) + doubts'[j]
      BY <1>0, <2>1, <3>1, BudgetStep
    <3>2. ~WillInsert(w, j)' /\ (WillInsert(w, j) <=> j = JobOf(w))
      BY <2>0, <3>1 DEF WillInsert, Early, JobOf
    <3>3. /\ Cardinality(MessagesOf(j)') \in Nat
          /\ Cardinality(MessagesOf(j)')
               <= Cardinality(MessagesOf(j)) + (IF j = JobOf(w) THEN 1 ELSE 0)
      BY <1>0, <2>1, StoredCount
    <3>4. Cardinality(MessagesOf(j)) \in Nat /\ ready[j] \in Nat /\ doubts[j] \in Nat
      BY <1>0, Counts
    <3> QED
      BY <2>1, <3>2, <3>3, <3>4
  <2>2. CASE Errored(w) /\ UNCHANGED <<messages, doubts>>
    BY <1>0, <2>0, <2>2, ErroredBudget
  <2>3. CASE Errored(w) /\ Stored(w) /\ doubts' = [doubts EXCEPT ![JobOf(w)] = @ + 1]
    BY <1>0, <2>0, <2>3, ErroredBudget
  <2> QED
    BY <1>12, <2>1, <2>2, <2>3 DEF Insert
<1>13. ASSUME NEW w \in Workers, Save(w) PROVE Budget'
  <2>0. \A v \in Workers : worker[v] \in Run
    BY <1>0, RunType
  <2>1. CASE worker' = [v \in Workers |->
               IF v = w THEN [worker[w] EXCEPT !.pc = "unarchive"]
               ELSE [worker[v] EXCEPT !.late = @ \/ worker[v].pc \in {"insert", "save"}]]
    <3>1. /\ worker'[w].pc = "unarchive"
          /\ \A v \in Workers \ {w} : /\ worker'[v].job = worker[v].job
                                      /\ worker'[v].pc = worker[v].pc
      BY <2>0, <2>1 DEF Run
    <3> QED
      BY <1>0, <1>13, <3>1, QuietStep DEF Save, Early
  <2>2. CASE GoMarred(w, "unarchive")
    BY <1>4, <1>6, <1>13, <2>2 DEF Save, Early
  <2> QED
    BY <1>13, <2>1, <2>2 DEF Save
<1>14. ASSUME NEW w \in Workers, Unarchive(w) PROVE Budget'
  BY <1>4, <1>5, <1>6, <1>14 DEF Unarchive, Early
<1>15. ASSUME NEW w \in Workers, Announce(w) PROVE Budget'
  <2>1. AfterFrames(w) \in {"push", "done"}
    BY DEF AfterFrames
  <2>2. \E new \in Run : Set(w, new) /\ new.job = worker[w].job /\ new.pc = AfterFrames(w)
    BY <1>5, <1>6, <1>15, <2>1 DEF Announce
  <2> QED
    BY <1>4, <1>15, <2>1, <2>2 DEF Announce, Early
<1>16. ASSUME NEW w \in Workers, SendPush(w) PROVE Budget'
  BY <1>4, <1>5, <1>6, <1>16 DEF SendPush, Early
<1>17. ASSUME NEW w \in Workers, Crash(w) \/ Redeliver(w) PROVE Budget'
  <2>0. JobOf(w) \in Jobs /\ Return(JobOf(w)) /\ messages' = messages
        /\ doubts' = [doubts EXCEPT ![JobOf(w)] = @ + 1]
    BY <1>0, <1>17, RunType DEF Crash, Redeliver
  <2>1. /\ sent' = sent /\ ready'[JobOf(w)] = ready[JobOf(w)] + 1
        /\ \A k \in Jobs \ {JobOf(w)} : ready'[k] = ready[k]
    BY <1>0, <2>0, ReturnType
  <2>2. /\ \A v \in Workers \ {w} : worker'[v] = worker[v]
        /\ worker'[w] \in {Idle, worker[w]}
    BY <1>0, <1>17, IdleRun, SetType DEF Crash, Redeliver
  <2> SUFFICES ASSUME NEW j \in Jobs
               PROVE  Cardinality(MessagesOf(j)') + ready'[j]
                          + (IF WillInsert(w, j)' THEN 1 ELSE 0) + doubts[j]
                        <= Cardinality(MessagesOf(j)) + ready[j]
                          + (IF WillInsert(w, j) THEN 1 ELSE 0) + doubts'[j]
    BY <1>0, <2>1, <2>2, BudgetStep
  <2>3. WillInsert(w, j)' => WillInsert(w, j)
    BY <2>2 DEF WillInsert, Idle, Early
  <2>4. MessagesOf(j)' = MessagesOf(j)
    BY <2>0 DEF MessagesOf
  <2>5. Cardinality(MessagesOf(j)) \in Nat /\ ready[j] \in Nat /\ doubts[j] \in Nat
    BY <1>0, Counts
  <2>6. doubts'[j] = doubts[j] + (IF j = JobOf(w) THEN 1 ELSE 0)
    BY <1>0, <2>0, <2>5 DEF TypeOK
  <2> QED
    BY <2>1, <2>3, <2>4, <2>5, <2>6
<1>18. ASSUME NEW k \in Jobs, Join(k) PROVE Budget'
  <2> SUFFICES ASSUME NEW j \in Jobs
               PROVE  Cardinality(MessagesOf(j)') + ready'[j] + Cardinality(Before(j)')
                        <= (IF j \in sent' THEN 1 ELSE 0) + doubts'[j]
    BY DEF Budget
  <2>1. MessagesOf(j)' = MessagesOf(j) /\ Before(j)' = Before(j) /\ doubts' = doubts
    BY <1>18 DEF Join, MessagesOf, Before, WillInsert
  <2>2. /\ ready'[j] = (IF j = k THEN 1 ELSE ready[j])
        /\ j \in sent' <=> (j \in sent \/ j = k)
        /\ k \notin sent
    BY <1>0, <1>18 DEF Join, TypeOK
  <2>3. /\ Cardinality(Before(j)) \in Nat /\ Cardinality(MessagesOf(j)) \in Nat
        /\ ready[j] \in Nat /\ doubts[j] \in Nat
    BY <1>0, Counts
  <2>4. Cardinality(MessagesOf(j)) + ready[j] + Cardinality(Before(j))
          <= (IF j \in sent THEN 1 ELSE 0) + doubts[j]
    BY DEF Budget
  <2> QED
    BY <2>1, <2>2, <2>3, <2>4
<1>19. ASSUME \/ \E p \in People : Leave(p) \/ Archive(p)
              \/ \E j \in Jobs : SwitchOff(j)
       PROVE  Budget'
  BY <1>19 DEF Leave, Archive, SwitchOff, Budget, MessagesOf, Before, WillInsert
<1> QED
  BY <1>1, <1>2, <1>3, <1>7, <1>8, <1>9, <1>10, <1>11, <1>12, <1>13, <1>14, <1>15, <1>16,
     <1>17, <1>18, <1>19 DEF Next, Deliver

\* In every interleaving of any number of jobs, workers and failures, a job
\* posts no second line unless the broker delivered it again or its insert
\* failed in doubt (PostConversationNotice, PostSystemReply).
THEOREM OneLinePerJob == Spec => []PostedOnce
<1>1. Inv /\ Budget => PostedOnce
  <2> SUFFICES ASSUME Inv, Budget, NEW j \in Jobs
               PROVE  Cardinality(MessagesOf(j)) <= 1 + doubts[j]
    BY DEF PostedOnce
  <2>1. /\ Cardinality(Before(j)) \in Nat /\ Cardinality(MessagesOf(j)) \in Nat
        /\ ready[j] \in Nat /\ doubts[j] \in Nat
    BY Counts DEF Inv
  <2>2. Cardinality(MessagesOf(j)) + ready[j] + Cardinality(Before(j))
          <= (IF j \in sent THEN 1 ELSE 0) + doubts[j]
    BY DEF Budget
  <2> QED
    BY <2>1, <2>2
<1> QED
  BY <1>1, InvInit, InvStep, BudgetInit, BudgetNext, PTL DEF Spec

(***************************************************************************)
(* What a run has posted and told.  Ids are given in sequence, so that a   *)
(* new line's id is on no frame and no push and belongs to one run.        *)
(***************************************************************************)
Posted == {"save", "unarchive", "announce", "push"}
LastId == Cardinality(messages)

Ids ==
  /\ \A m \in messages : m.id <= LastId
  /\ \A p \in People, n \in Nat : <<p, n>> \in frames \union pushes => n <= LastId
  /\ \A w \in Workers : worker[w].msg <= LastId
  /\ \A v, w \in Workers : (v # w /\ worker[w].msg # 0) => worker[v].msg # worker[w].msg

PresentEver == members \subseteq ever /\ conv.listed \subseteq ever

\* The message of a run is stored, says what became of the call, and a webhook
\* that promised nothing has none.
Spoken(w) ==
  LET r == worker[w]  j == r.job IN
  /\ r.clean => r.ctx = "live"
  /\ r.pc \in Early \union {"idle"} => r.msg = 0
  /\ r.pc \in Posted => r.msg # 0
  /\ r.msg # 0 => \E m \in messages :
       /\ m.id = r.msg /\ m.job = j
       /\ m.says = IF Notice(j) THEN "notice" ELSE r.says
  /\ r.pc \in {"idle", "load", "call"} => r.got = "none"
  /\ r.got \in {"answer", "failed"} => r.says = IF r.got = "failed" THEN "failure" ELSE "answer"
  /\ Work(j).kind = "webhook" =>
       /\ r.pc # "run"
       /\ (r.pc \in {"allow", "members", "insert"} \union Posted \/ r.msg # 0) => WantsAnswer(j)
       /\ (/\ r.pc \notin {"allow", "members", "insert"} /\ r.clean
           /\ r.got \in {"answer", "failed"}
           /\ WantsAnswer(j) /\ Work(j).valid /\ Allowed(j)) => r.msg # 0

Framed(w) == {p \in People : <<p, worker[w].msg>> \in frames}
Pushed(w) == {p \in People : <<p, worker[w].msg>> \in pushes}

\* How far a run without a failure has come in telling its audience.
Telling(w) ==
  LET r == worker[w] IN
  /\ (r.clean /\ (r.pc = "insert" \/ r.msg # 0)) =>
       steady[r.job] \subseteq r.to /\ r.to \subseteq ever
  /\ r.pc \in {"save", "unarchive", "announce"} => Framed(w) = {} /\ Pushed(w) = {}
  /\ r.pc = "push" => Pushed(w) = {}
  /\ (r.clean /\ r.pc \in {"announce", "push", "done"} /\ r.msg # 0) =>
       \A archive \in conv.archived : archive[2] >= r.msg
  /\ (r.clean /\ r.pc \in {"push", "done"} /\ r.msg # 0) => Framed(w) = r.to
  /\ (r.clean /\ r.pc = "done" /\ r.msg # 0 /\ Notice(r.job) /\ Work(r.job).push) =>
       Pushed(w) = Receivers(w)

Lines == Ids /\ PresentEver /\ \A w \in Workers : Spoken(w) /\ Telling(w)

LEMMA LinesInit == Init => Lines
<1> SUFFICES ASSUME Init PROVE Lines
  OBVIOUS
<1>1. \A w \in Workers : /\ worker[w].pc = "idle" /\ worker[w].msg = 0
                         /\ worker[w].ctx = "live" /\ worker[w].got = "none"
  BY DEF Init, Idle
<1>2. messages = {} /\ frames = {} /\ pushes = {} /\ LastId = 0
  BY FS_EmptySet DEF Init, LastId
<1>3. Ids
  BY <1>1, <1>2 DEF Ids
<1>4. PresentEver
  BY DEF Init, PresentEver
<1>5. ASSUME NEW w \in Workers PROVE Spoken(w) /\ Telling(w)
  BY <1>1, <1>2 DEF Spoken, Telling, Posted
<1> QED
  BY <1>3, <1>4, <1>5 DEF Lines

\* A step of one worker leaves what the others have said and told as it was.
LEMMA LineStep ==
  ASSUME Inv, Lines, Inv', NEW w \in Workers,
         \A v \in Workers \ {w} :
           /\ worker'[v].pc = worker[v].pc /\ worker'[v].job = worker[v].job
           /\ worker'[v].ctx = worker[v].ctx /\ worker'[v].to = worker[v].to
           /\ worker'[v].says = worker[v].says /\ worker'[v].got = worker[v].got
           /\ worker'[v].msg = worker[v].msg /\ worker'[v].clean = worker[v].clean,
         scene' = scene, messages \subseteq messages',
         \A j \in sent : steady'[j] \subseteq steady[j], ever \subseteq ever',
         conv'.archived \subseteq conv.archived,
         \A p \in People, n \in Nat :
           n # worker[w].msg => /\ <<p, n>> \in frames' <=> <<p, n>> \in frames
                                /\ <<p, n>> \in pushes' <=> <<p, n>> \in pushes,
         Ids', PresentEver', Spoken(w)', Telling(w)'
  PROVE  Lines'
<1> SUFFICES ASSUME NEW v \in Workers \ {w} PROVE Spoken(v)' /\ Telling(v)'
  BY DEF Lines
<1>1. Spoken(v) /\ Telling(v) /\ worker[v] \in Run /\ worker[v].msg \in Nat
  BY RunType DEF Lines, Inv, Run
<1>2. Spoken(v)'
  BY <1>1 DEF Spoken, Notice, Work, WantsAnswer, Allowed
<1>3. worker[v].msg # 0 => worker[v].msg # worker[w].msg
  BY DEF Lines, Ids
<1>4. (worker[v].pc = "insert" \/ worker[v].msg # 0) => worker[v].job \in sent
  BY <1>1 DEF Inv, SentFirst, Busy, At, JobOf, Spoken
<1>5. worker[v].msg # 0 => Framed(v)' = Framed(v) /\ Pushed(v)' = Pushed(v)
  BY <1>1, <1>3 DEF Framed, Pushed
<1>6. Receivers(v)' = Receivers(v)
  BY DEF Receivers, JobOf, Work
<1>7. worker[v].pc \in Posted => worker[v].msg # 0
  BY <1>1 DEF Spoken
<1>8. Telling(v)'
  <2>1. (worker'[v].clean /\ (worker'[v].pc = "insert" \/ worker'[v].msg # 0)) =>
           steady'[worker'[v].job] \subseteq worker'[v].to /\ worker'[v].to \subseteq ever'
    BY <1>1, <1>4 DEF Telling
  <2> QED
    BY <1>1, <1>5, <1>6, <1>7, <2>1 DEF Telling, Posted, Notice, Work
<1> QED
  BY <1>2, <1>8

\* A run that is given up, or has just begun, has said nothing.
LEMMA FreshLine ==
  ASSUME Inv, Lines, NEW w \in Workers, worker'[w].msg = 0, worker'[w].ctx = "live",
         worker'[w].got = "none", worker'[w].pc \in {"idle", "load", "allow", "done"},
         scene' = scene, worker'[w].pc = "allow" => Notice(worker'[w].job)
  PROVE  Spoken(w)' /\ Telling(w)'
<1>1. Spoken(w)'
  BY DEF Spoken, Posted, Notice, Work
<1>2. Telling(w)'
  BY DEF Telling
<1> QED
  BY <1>1, <1>2

\* A run that goes on saying what it says.
LEMMA MoveSpoken ==
  ASSUME Inv, Lines, NEW w \in Workers, scene' = scene, messages \subseteq messages',
         worker'[w].job = worker[w].job, worker'[w].msg = worker[w].msg,
         worker'[w].says = worker[w].says, worker'[w].got = worker[w].got,
         worker'[w].clean => worker[w].clean /\ worker'[w].ctx = worker[w].ctx,
         worker'[w].pc # "idle", worker'[w].pc # "load",
         worker'[w].pc \in Early => worker[w].pc \in Early,
         worker'[w].pc \in Posted => worker[w].pc \in Posted,
         worker'[w].pc = "call" => worker[w].pc = "load",
         Work(worker[w].job).kind = "webhook" =>
           /\ worker'[w].pc # "run"
           /\ worker'[w].pc \in {"allow", "members", "insert"} =>
                worker[w].pc \in {"allow", "members", "insert"}
           /\ (/\ worker'[w].clean /\ worker[w].pc \in {"allow", "members", "insert"}
               /\ worker'[w].pc \notin {"allow", "members", "insert"}) =>
                ~Allowed(worker[w].job)
  PROVE  Spoken(w)'
<1>1. Spoken(w)
  BY DEF Lines
<1> QED
  BY <1>1 DEF Spoken, Notice, Work, WantsAnswer, Allowed

\* Ids, when nothing is inserted and what is told is the run's own.
LEMMA SameIds ==
  ASSUME Inv, Lines, NEW w \in Workers, messages' = messages,
         \A v \in Workers : worker'[v].msg \in {0, worker[v].msg},
         \A p \in People, n \in Nat :
           <<p, n>> \in frames' \union pushes' =>
             <<p, n>> \in frames \union pushes \/ n = worker[w].msg
  PROVE  Ids'
<1>1. \A v \in Workers : worker[v].msg \in Nat
  BY RunType DEF Inv, Run
<1>2. LastId' = LastId /\ LastId \in Nat
  BY FS_CardinalityType DEF LastId, Inv, TypeOK
<1> QED
  BY <1>1, <1>2 DEF Lines, Ids

\* Ids, when a line is inserted.
LEMMA NewIds ==
  ASSUME Inv, Lines, NEW w \in Workers, Stored(w), UNCHANGED <<frames, pushes>>,
         \A v \in Workers \ {w} : worker'[v].msg = worker[v].msg,
         worker'[w].msg \in {0, NewId}
  PROVE  Ids'
<1>1. \A v \in Workers : worker[v].msg \in Nat
  BY RunType DEF Inv, Run
<1>2. LastId \in Nat /\ IsFiniteSet(messages)
  BY FS_CardinalityType DEF LastId, Inv, TypeOK
<1> DEFINE m == [id |-> NewId, job |-> JobOf(w), says |->
                   IF Notice(JobOf(w)) THEN "notice" ELSE worker[w].says]
<1>3. messages' = messages \union {m} /\ m.id = NewId /\ NewId = LastId + 1
  BY DEF Stored, NewId, LastId
<1> HIDE DEF m
<1>4. m \notin messages
  BY <1>2, <1>3 DEF Lines, Ids
<1>5. LastId' = LastId + 1
  BY <1>2, <1>3, <1>4, FS_AddElement DEF LastId
<1>6. \A n \in messages : n.id <= LastId /\ n.id \in Nat
  BY DEF Lines, Ids, Inv, TypeOK, Message
<1>7. \A n \in messages' : n.id <= LastId'
  BY <1>2, <1>3, <1>5, <1>6
<1>8. \A p \in People, n \in Nat : <<p, n>> \in frames' \union pushes' => n <= LastId'
  BY <1>2, <1>5 DEF Lines, Ids
<1>9. \A v \in Workers : worker[v].msg <= LastId
  BY DEF Lines, Ids
<1>10. \A v \in Workers : worker'[v].msg <= LastId'
  BY <1>1, <1>2, <1>3, <1>5, <1>9
<1>11. \A u, v \in Workers :
         (u # v /\ worker'[v].msg # 0) => worker'[u].msg # worker'[v].msg
  BY <1>1, <1>2, <1>3, <1>9 DEF Lines, Ids
<1> QED
  BY <1>7, <1>8, <1>10, <1>11 DEF Ids

\* What a failing call leaves of the run, which has a failure from now on.
LEMMA MarredLine ==
  ASSUME Inv, Lines, NEW w \in Workers,
         NEW pc \in {"insert", "unarchive", "announce", "push", "allow", "done"},
         NEW new \in Marred(w, pc)
  PROVE  /\ new \in Run /\ new.pc = pc /\ new.job = worker[w].job
         /\ new.to = worker[w].to /\ new.msg = worker[w].msg
         /\ new.says = worker[w].says /\ new.got = worker[w].got /\ ~new.clean
<1>1. PICK ctx \in {"live", "expired"} :
        new = [worker[w] EXCEPT !.ctx = ctx, !.clean = @ /\ worker[w].ctx = "expired", !.pc = pc]
  BY DEF Marred, Inv, TypeOK, Run
<1>2. worker[w] \in Run /\ (worker[w].clean => worker[w].ctx = "live")
  BY RunType DEF Inv, Lines, Spoken
<1>3. new.clean = (worker[w].clean /\ worker[w].ctx = "expired")
  BY <1>1, <1>2 DEF Run
<1>4. ~new.clean
  BY <1>2, <1>3
<1> QED
  BY <1>1, <1>2, <1>4, MarredType DEF Run, Inv

LEMMA GoLine ==
  ASSUME TypeOK, NEW w \in Workers,
         NEW pc \in {"allow", "members", "run", "call", "unarchive", "announce", "push", "done"},
         Go(w, pc)
  PROVE  /\ worker' = [worker EXCEPT ![w] = worker'[w]]
         /\ \A v \in Workers \ {w} : worker'[v] = worker[v]
         /\ worker'[w] = [worker[w] EXCEPT !.pc = pc]
         /\ worker'[w].pc = pc
         /\ worker'[w].job = worker[w].job /\ worker'[w].ctx = worker[w].ctx
         /\ worker'[w].to = worker[w].to /\ worker'[w].msg = worker[w].msg
         /\ worker'[w].says = worker[w].says /\ worker'[w].got = worker[w].got
         /\ worker'[w].clean = worker[w].clean
<1>1. worker[w] \in Run
  BY RunType
<1> QED
  BY <1>1 DEF Go, Set, TypeOK, Run

\* A step of a run that inserts, saves and tells nothing.
LEMMA SilentStep ==
  ASSUME Inv, Lines, Inv', NEW w \in Workers,
         \A v \in Workers \ {w} : worker'[v] = worker[v],
         UNCHANGED <<scene, members, conv, messages, frames, pushes, steady, ever>>,
         worker'[w].msg \in {0, worker[w].msg},
         Spoken(w)', Telling(w)'
  PROVE  Lines'
<1>1. PresentEver'
  BY DEF Lines, PresentEver
<1>2. Ids'
  BY SameIds
<1> QED
  BY <1>1, <1>2, LineStep

\* A run without a line has told nothing.
LEMMA NothingTold ==
  ASSUME NEW w \in Workers, worker'[w].msg = 0, worker'[w].pc \notin Posted,
         worker'[w].pc = "insert" => ~worker'[w].clean
  PROVE  Telling(w)'
BY DEF Telling, Posted

\* An error before the line is stored for sure: the run ends, with a failure, or
\* its job goes back.
LEMMA ErroredLine ==
  ASSUME Inv, Lines, Inv', NEW w \in Workers, worker[w].pc \in {"allow", "insert"},
         Errored(w), UNCHANGED <<scene, members, conv, frames, pushes, steady, ever>>,
         messages' = messages \/ Stored(w)
  PROVE  Lines'
<1>0. worker[w] \in Run /\ worker[w].msg = 0
  BY RunType DEF Inv, Lines, Spoken, Early
<1>1. \A v \in Workers \ {w} : worker'[v] = worker[v]
  BY ErroredType DEF Inv
<1>2. /\ worker'[w].msg = 0 /\ worker'[w].pc \in {"idle", "done"}
      /\ Spoken(w)'
  <2>1. CASE Set(w, Idle)
    <3>1. worker'[w] = Idle
      BY <2>1, SetType, IdleRun DEF Inv
    <3>2. /\ worker'[w].msg = 0 /\ worker'[w].ctx = "live" /\ worker'[w].got = "none"
          /\ worker'[w].pc = "idle"
      BY <3>1 DEF Idle
    <3> QED
      BY <3>2, FreshLine
  <2>2. CASE GoMarred(w, "done")
    <3>1. PICK new \in Marred(w, "done") : Set(w, new)
      BY <2>2 DEF GoMarred
    <3>2. /\ new \in Run /\ new.pc = "done" /\ new.job = worker[w].job
          /\ new.to = worker[w].to /\ new.msg = worker[w].msg
          /\ new.says = worker[w].says /\ new.got = worker[w].got /\ ~new.clean
      BY MarredLine
    <3>3. worker'[w] = new
      BY <3>1, <3>2, SetType DEF Inv
    <3>4. messages \subseteq messages'
      BY DEF Stored
    <3>5. Spoken(w)'
      BY <3>2, <3>3, <3>4, MoveSpoken DEF Early, Posted
    <3> QED
      BY <1>0, <3>2, <3>3, <3>5
  <2> QED
    BY <2>1, <2>2 DEF Errored
<1>3. Telling(w)'
  BY <1>2, NothingTold DEF Posted
<1>4. CASE messages' = messages
  BY <1>1, <1>2, <1>3, <1>4, SilentStep
<1>5. CASE Stored(w)
  <2>1. Ids'
    BY <1>1, <1>2, <1>5, NewIds
  <2>2. PresentEver'
    BY DEF Lines, PresentEver
  <2>3. messages \subseteq messages'
    BY <1>5 DEF Stored
  <2> QED
    BY <1>1, <1>2, <1>3, <2>1, <2>2, <2>3, LineStep
<1> QED
  BY <1>4, <1>5

\* A failing call of a run before its insert that goes on.
LEMMA MarredEarly ==
  ASSUME Inv, Lines, Inv', NEW w \in Workers,
         NEW pc \in {"insert", "allow", "done"}, GoMarred(w, pc),
         worker[w].pc \in {"load", "run", "members"},
         (pc \in {"insert", "allow"} /\ Work(worker[w].job).kind = "webhook")
            => worker[w].pc = "members",
         UNCHANGED <<scene, members, conv, messages, frames, pushes, steady, ever>>
  PROVE  Lines'
<1>1. PICK new \in Marred(w, pc) : Set(w, new)
  BY DEF GoMarred
<1>2. /\ new \in Run /\ new.pc = pc /\ new.job = worker[w].job
      /\ new.to = worker[w].to /\ new.msg = worker[w].msg
      /\ new.says = worker[w].says /\ new.got = worker[w].got /\ ~new.clean
  BY MarredLine
<1>3. worker'[w] = new /\ \A v \in Workers \ {w} : worker'[v] = worker[v]
  BY <1>1, <1>2, SetType DEF Inv
<1>4. worker[w].msg = 0
  BY DEF Lines, Spoken, Early
<1>5. Spoken(w)'
  BY <1>2, <1>3, MoveSpoken DEF Early, Posted
<1>6. Telling(w)'
  BY <1>2, <1>3, <1>4, NothingTold DEF Posted
<1> QED
  BY <1>2, <1>3, <1>5, <1>6, SilentStep

\* A successful step of a run before its insert.
LEMMA GoEarly ==
  ASSUME Inv, Lines, Inv', NEW w \in Workers,
         NEW pc \in {"allow", "members", "run", "call", "done"}, Go(w, pc),
         worker[w].pc \in {"load", "run", "allow"},
         pc = "call" => worker[w].pc = "load",
         Work(worker[w].job).kind = "webhook" =>
           /\ pc # "run"
           /\ pc \in {"allow", "members"} => worker[w].pc = "allow"
           /\ (worker[w].pc = "allow" /\ pc \notin {"allow", "members"}) =>
                ~Allowed(worker[w].job),
         UNCHANGED <<scene, members, conv, messages, frames, pushes, steady, ever>>
  PROVE  Lines'
<1>1. /\ \A v \in Workers \ {w} : worker'[v] = worker[v]
      /\ worker'[w].pc = pc
      /\ worker'[w].job = worker[w].job /\ worker'[w].ctx = worker[w].ctx
      /\ worker'[w].to = worker[w].to /\ worker'[w].msg = worker[w].msg
      /\ worker'[w].says = worker[w].says /\ worker'[w].got = worker[w].got
      /\ worker'[w].clean = worker[w].clean
  BY GoLine DEF Inv
<1>2. worker[w].msg = 0
  BY DEF Lines, Spoken, Early
<1>3. Spoken(w)'
  BY <1>1, MoveSpoken DEF Early, Posted
<1>4. Telling(w)'
  BY <1>1, <1>2, NothingTold DEF Posted
<1> QED
  BY <1>1, <1>3, <1>4, SilentStep

LEMMA CommandLines ==
  ASSUME Inv, Lines, Inv', NEW w \in Workers,
         Load(w) \/ RunBuiltin(w) \/ CallWebhook(w) \/ Allow(w)
  PROVE  Lines'
<1> USE DEF chat, broker, history
<1>0. worker[w] \in Run /\ Spoken(w)
  BY RunType DEF Inv, Lines
<1>1. CASE Load(w)
  <2>1. CASE GoMarred(w, "done")
    BY <1>1, <2>1, MarredEarly DEF Load, At
  <2>2. ASSUME NEW pc \in {"run", "call", "done"}, Go(w, pc),
               pc = "run" => Work(worker[w].job).kind = "system"
        PROVE  Lines'
    BY <1>1, <2>2, GoEarly DEF Load, At
  <2> QED
    BY <1>1, <2>1, <2>2 DEF Load, JobOf
<1>2. CASE RunBuiltin(w)
  <2>1. worker[w].pc = "run" /\ Work(worker[w].job).kind # "webhook"
    BY <1>0, <1>2 DEF RunBuiltin, At, Spoken
  <2>2. CASE GoMarred(w, "done") \/ GoMarred(w, "allow")
    BY <1>2, <2>1, <2>2, MarredEarly DEF RunBuiltin
  <2>3. ASSUME NEW pc \in {"allow", "done"}, Go(w, pc) PROVE Lines'
    BY <1>2, <2>1, <2>3, GoEarly DEF RunBuiltin
  <2> QED
    BY <1>2, <2>2, <2>3 DEF RunBuiltin
<1>3. CASE CallWebhook(w)
  <2>1. PICK got \in {"answer", "empty", "failed"}, ctx \in {"live", "expired"} :
          /\ Set(w, AfterCall(w, got, ctx))
          /\ got # "failed" => ctx = "live"
    BY <1>3 DEF CallWebhook
  <2>2. AfterCall(w, got, ctx) \in Run
    BY AfterCallType DEF Inv
  <2>3. /\ worker'[w] = AfterCall(w, got, ctx)
        /\ \A v \in Workers \ {w} : worker'[v] = worker[v]
    BY <2>1, <2>2, SetType DEF Inv
  <2>4. /\ worker'[w].ctx = "live" /\ worker'[w].got = got
        /\ worker'[w].says = IF got = "failed" THEN "failure" ELSE "answer"
        /\ worker'[w].msg = worker[w].msg /\ worker'[w].job = worker[w].job
        /\ worker'[w].pc = IF Posts(w, got) THEN "allow" ELSE "done"
    BY <2>1, <2>3, AfterCallType DEF Inv
  <2>5. worker[w].msg = 0
    BY <1>0, <1>3 DEF CallWebhook, At, Spoken, Early
  <2>6. Posts(w, got) <=> /\ got \in {"answer", "failed"}
                          /\ WantsAnswer(worker[w].job) /\ Work(worker[w].job).valid
    BY DEF Posts, JobOf
  <2>7. scene' = scene
    BY <1>3 DEF CallWebhook
  <2>8. Spoken(w)'
    BY <2>4, <2>5, <2>6, <2>7 DEF Spoken, Posted, Notice, Work, WantsAnswer, Allowed
  <2>9. Telling(w)'
    BY <2>4, <2>5, NothingTold DEF Posted
  <2> QED
    BY <1>3, <2>3, <2>4, <2>5, <2>8, <2>9, SilentStep DEF CallWebhook
<1>4. CASE Allow(w)
  <2>1. CASE Errored(w)
    BY <1>4, <2>1, ErroredLine DEF Allow, At
  <2>2. CASE Go(w, IF Allowed(JobOf(w)) THEN "members" ELSE "done")
    <3>1. PICK pc \in {"members", "done"} :
            Go(w, pc) /\ (pc = "done" => ~Allowed(worker[w].job))
      BY <2>2 DEF JobOf
    <3> QED
      BY <1>4, <3>1, GoEarly DEF Allow, At
  <2> QED
    BY <1>4, <2>1, <2>2 DEF Allow
<1> QED
  BY <1>1, <1>2, <1>3, <1>4

\* Whom a run has read, stored, and told.
LEMMA AudienceLines ==
  ASSUME Inv, Lines, Inv', NEW w \in Workers, ReadMembers(w) \/ Insert(w)
  PROVE  Lines'
<1> USE DEF chat, broker, history
<1>0. worker[w] \in Run /\ Spoken(w) /\ Telling(w) /\ JobOf(w) \in Jobs
  BY RunType DEF Inv, Lines
<1>1. CASE ReadMembers(w)
  <2>0. worker[w].msg = 0
    BY <1>0, <1>1 DEF ReadMembers, At, Spoken, Early
  <2>1. CASE GoMarred(w, "insert")
    BY <1>1, <2>1, MarredEarly DEF ReadMembers, At
  <2>2. CASE Set(w, [worker[w] EXCEPT !.to = Present(JobOf(w)), !.pc = "insert"])
    <3> DEFINE new == [worker[w] EXCEPT !.to = Present(JobOf(w)), !.pc = "insert"]
    <3>1. Present(JobOf(w)) \subseteq People
      BY <1>0, PresentType DEF Inv
    <3>2. /\ new \in Run /\ new.pc = "insert" /\ new.job = worker[w].job
          /\ new.to = Present(JobOf(w)) /\ new.msg = worker[w].msg /\ new.ctx = worker[w].ctx
          /\ new.says = worker[w].says /\ new.got = worker[w].got /\ new.clean = worker[w].clean
      BY <1>0, <3>1 DEF Run
    <3>3. worker'[w] = new /\ \A v \in Workers \ {w} : worker'[v] = worker[v]
      BY <2>2, <3>2, SetType DEF Inv
    <3> HIDE DEF new
    <3>4. Spoken(w)'
      BY <1>1, <3>2, <3>3, MoveSpoken DEF ReadMembers, At, Early, Posted
    <3>5. steady[JobOf(w)] \subseteq Present(JobOf(w)) /\ Present(JobOf(w)) \subseteq ever
      BY <1>0 DEF Inv, SteadyThere, Lines, PresentEver, Present
    <3>6. Telling(w)'
      BY <1>1, <2>0, <3>2, <3>3, <3>5 DEF ReadMembers, Telling, Posted, JobOf
    <3> QED
      BY <1>1, <3>2, <3>3, <3>4, <3>6, SilentStep DEF ReadMembers
  <2>3. CASE \E some \in SUBSET members \ {{}, members}, new \in Marred(w, "insert") :
               Set(w, [new EXCEPT !.to = some, !.cut = TRUE])
    <3>1. PICK some \in SUBSET members, old \in Marred(w, "insert") :
                 Set(w, [old EXCEPT !.to = some, !.cut = TRUE])
      BY <2>3
    <3> DEFINE new == [old EXCEPT !.to = some, !.cut = TRUE]
    <3>2. /\ old \in Run /\ old.pc = "insert" /\ old.job = worker[w].job
          /\ old.msg = worker[w].msg
          /\ old.says = worker[w].says /\ old.got = worker[w].got /\ ~old.clean
      BY MarredLine
    <3>3. /\ new \in Run /\ new.pc = "insert" /\ new.job = worker[w].job
          /\ new.msg = worker[w].msg
          /\ new.says = worker[w].says /\ new.got = worker[w].got /\ ~new.clean
      BY <3>2 DEF Run, Inv, TypeOK
    <3>4. worker'[w] = new /\ \A v \in Workers \ {w} : worker'[v] = worker[v]
      BY <3>1, <3>3, SetType DEF Inv
    <3> HIDE DEF new
    <3>5. Spoken(w)'
      BY <1>1, <3>3, <3>4, MoveSpoken DEF ReadMembers, At, Early, Posted
    <3>6. Telling(w)'
      BY <2>0, <3>3, <3>4, NothingTold DEF Posted
    <3> QED
      BY <1>1, <3>3, <3>4, <3>5, <3>6, SilentStep DEF ReadMembers
  <2> QED
    BY <1>1, <2>1, <2>2, <2>3 DEF ReadMembers
<1>2. CASE Insert(w)
  <2>1. CASE Errored(w)
    BY <1>2, <2>1, ErroredLine DEF Insert, At
  <2>2. CASE Stored(w) /\ Set(w, [worker[w] EXCEPT !.msg = NewId, !.pc = "save"])
    <3> DEFINE new == [worker[w] EXCEPT !.msg = NewId, !.pc = "save"]
    <3>0. worker[w].pc = "insert"
      BY <1>2 DEF Insert, At
    <3>1. LastId \in Nat /\ NewId = LastId + 1 /\ NewId \in Nat
      BY FS_CardinalityType DEF LastId, NewId, Inv, TypeOK
    <3>2. /\ new \in Run /\ new.pc = "save" /\ new.job = worker[w].job
          /\ new.to = worker[w].to /\ new.msg = NewId /\ new.ctx = worker[w].ctx
          /\ new.says = worker[w].says /\ new.got = worker[w].got /\ new.clean = worker[w].clean
      BY <1>0, <3>1 DEF Run
    <3>3. worker'[w] = new /\ \A v \in Workers \ {w} : worker'[v] = worker[v]
      BY <2>2, <3>2, SetType DEF Inv
    <3> HIDE DEF new
    <3>4. PICK m \in messages' : /\ m.id = NewId /\ m.job = JobOf(w)
                                 /\ m.says = IF Notice(JobOf(w)) THEN "notice" ELSE worker[w].says
      <4> DEFINE line == [id |-> NewId, job |-> JobOf(w), says |->
                            IF Notice(JobOf(w)) THEN "notice" ELSE worker[w].says]
      <4>1. line \in messages'
        BY <2>2 DEF Stored
      <4>2. /\ line.id = NewId /\ line.job = JobOf(w)
            /\ line.says = IF Notice(JobOf(w)) THEN "notice" ELSE worker[w].says
        OBVIOUS
      <4> HIDE DEF line
      <4> QED
        BY <4>1, <4>2
    <3>5. scene' = scene /\ messages \subseteq messages'
      BY <1>2, <2>2 DEF Insert, Stored
    <3>6. Spoken(w)'
      BY <1>0, <3>0, <3>1, <3>2, <3>3, <3>4, <3>5
         DEF Spoken, Posted, Early, Notice, Work, WantsAnswer, Allowed, JobOf
    <3>7. \A p \in People, n \in Nat : <<p, n>> \in frames \union pushes => n <= LastId
      BY DEF Lines, Ids
    <3>8. <<frames, pushes>>' = <<frames, pushes>>
      BY <1>2 DEF Insert
    <3>9. Framed(w)' = {} /\ Pushed(w)' = {}
      BY <3>1, <3>2, <3>3, <3>7, <3>8 DEF Framed, Pushed
    <3>10. Telling(w)'
      BY <1>0, <1>2, <3>0, <3>2, <3>3, <3>9 DEF Insert, Telling
    <3>11. Ids'
      BY <2>2, <3>2, <3>3, <3>8, NewIds
    <3>12. PresentEver'
      BY <1>2 DEF Insert, Lines, PresentEver
    <3> QED
      BY <1>2, <3>3, <3>5, <3>6, <3>8, <3>10, <3>11, <3>12, LineStep DEF Insert
  <2> QED
    BY <1>2, <2>1, <2>2 DEF Insert
<1> QED
  BY <1>1, <1>2

\* The fields of a run after a call that succeeds, or fails without ending it.
Onward(w, pc) ==
  /\ worker'[w].pc = pc /\ worker'[w].job = worker[w].job /\ worker'[w].to = worker[w].to
  /\ worker'[w].msg = worker[w].msg /\ worker'[w].says = worker[w].says
  /\ worker'[w].got = worker[w].got
  /\ worker'[w].clean => worker[w].clean /\ worker'[w].ctx = worker[w].ctx
  /\ \A v \in Workers \ {w} : worker'[v] = worker[v]

LEMMA GoOnward ==
  ASSUME Inv, Lines, NEW w \in Workers,
         NEW pc \in {"unarchive", "announce", "push", "done"}, Go(w, pc)
  PROVE  Onward(w, pc)
BY GoLine DEF Inv, Onward

LEMMA MarredOnward ==
  ASSUME Inv, Lines, NEW w \in Workers,
         NEW pc \in {"unarchive", "announce", "push", "done"}, GoMarred(w, pc)
  PROVE  Onward(w, pc) /\ ~worker'[w].clean
<1>1. PICK new \in Marred(w, pc) : Set(w, new)
  BY DEF GoMarred
<1>2. /\ new \in Run /\ new.pc = pc /\ new.job = worker[w].job
      /\ new.to = worker[w].to /\ new.msg = worker[w].msg
      /\ new.says = worker[w].says /\ new.got = worker[w].got /\ ~new.clean
  BY MarredLine
<1>3. worker'[w] = new /\ \A v \in Workers \ {w} : worker'[v] = worker[v]
  BY <1>1, <1>2, SetType DEF Inv
<1> QED
  BY <1>2, <1>3 DEF Onward

\* A run that has posted goes on saying what it said.
LEMMA OnwardSpoken ==
  ASSUME Inv, Lines, NEW w \in Workers, NEW pc \in {"unarchive", "announce", "push", "done"},
         worker[w].pc \in Posted, Onward(w, pc), UNCHANGED <<scene, messages>>
  PROVE  Spoken(w)'
BY MoveSpoken DEF Onward, Posted, Early

\* Its telling frames and pushes with the id of its own line only.
LEMMA OwnIds ==
  ASSUME Inv, Lines, NEW w \in Workers, NEW pc \in {"unarchive", "announce", "push", "done"},
         Onward(w, pc), messages' = messages,
         NEW some \in SUBSET People, NEW others \in SUBSET People,
         frames' = frames \union (some \X {worker[w].msg}),
         pushes' = pushes \union (others \X {worker[w].msg})
  PROVE  /\ Ids'
         /\ \A p \in People, n \in Nat :
              n # worker[w].msg => /\ <<p, n>> \in frames' <=> <<p, n>> \in frames
                                   /\ <<p, n>> \in pushes' <=> <<p, n>> \in pushes
<1>1. \A v \in Workers : worker'[v].msg = worker[v].msg
  BY DEF Onward
<1> QED
  BY <1>1, SameIds

LEMMA TellingLines ==
  ASSUME Inv, Lines, Inv', NEW w \in Workers, Unarchive(w) \/ Announce(w) \/ SendPush(w)
  PROVE  Lines'
<1> USE DEF chat, broker, history
<1>0. /\ worker[w] \in Run /\ Spoken(w) /\ Telling(w)
      /\ worker[w].to \subseteq People /\ worker[w].pc \in Posted /\ worker[w].msg # 0
      /\ worker[w].msg \in Nat
  BY RunType DEF Inv, Lines, Run, Unarchive, Announce, SendPush, At, Posted, Spoken
<1>1. CASE Unarchive(w)
  <2>1. /\ Onward(w, "announce")
        /\ worker'[w].clean => conv' = [conv EXCEPT !.archived = {}]
    BY <1>1, GoOnward, MarredOnward DEF Unarchive
  <2>2. /\ conv'.listed = conv.listed
        /\ conv'.archived \subseteq conv.archived
        /\ worker'[w].clean => conv'.archived = {}
    BY <1>1, <2>1 DEF Unarchive, Inv, TypeOK, Conv
  <2>3. UNCHANGED <<scene, members, messages, frames, pushes, steady, ever>>
    BY <1>1 DEF Unarchive
  <2>4. Spoken(w)'
    BY <1>0, <2>1, <2>3, OnwardSpoken
  <2>5. Framed(w)' = Framed(w) /\ Pushed(w)' = Pushed(w)
    BY <2>1, <2>3 DEF Framed, Pushed, Onward
  <2>6. Telling(w)'
    BY <1>0, <1>1, <2>1, <2>2, <2>3, <2>5 DEF Telling, Onward, Unarchive, At
  <2>7. PresentEver'
    BY <2>2, <2>3 DEF Lines, PresentEver
  <2>8. /\ \A v \in Workers : worker'[v].msg = worker[v].msg
        /\ \A v \in Workers \ {w} : worker'[v] = worker[v]
    BY <2>1 DEF Onward
  <2>9. Ids'
    BY <2>3, <2>8, SameIds
  <2>10. \A j \in sent : steady'[j] \subseteq steady[j]
    BY <2>3
  <2> QED
    BY <2>2, <2>3, <2>4, <2>6, <2>7, <2>8, <2>9, <2>10, LineStep
<1>2. CASE Announce(w)
  <2>0. AfterFrames(w) \in {"push", "done"}
    BY DEF AfterFrames
  <2>1. PICK some \in SUBSET worker[w].to :
          /\ frames' = frames \union (some \X {worker[w].msg})
          /\ Onward(w, AfterFrames(w))
          /\ worker'[w].clean => some = worker[w].to
    <3>1. CASE frames' = frames \union (worker[w].to \X {worker[w].msg})
                 /\ Go(w, AfterFrames(w))
      BY <2>0, <3>1, GoOnward
    <3>2. ASSUME NEW some \in SUBSET worker[w].to,
                 frames' = frames \union (some \X {worker[w].msg}),
                 GoMarred(w, AfterFrames(w))
          PROVE  Onward(w, AfterFrames(w)) /\ ~worker'[w].clean
      BY <2>0, <3>2, MarredOnward
    <3> QED
      BY <1>2, <3>1, <3>2 DEF Announce
  <2>2. UNCHANGED <<scene, members, conv, messages, pushes, steady, ever>>
    BY <1>2 DEF Announce
  <2>3. Spoken(w)'
    BY <1>0, <2>0, <2>1, <2>2, OnwardSpoken
  <2>4. Framed(w) = {} /\ Pushed(w) = {}
    BY <1>0, <1>2 DEF Telling, Announce, At
  <2>5. Framed(w)' = some /\ Pushed(w)' = {}
    BY <1>0, <2>1, <2>2, <2>4 DEF Framed, Pushed, Onward
  <2>6. AfterFrames(w) = "done" => ~(Notice(worker[w].job) /\ Work(worker[w].job).push)
    BY DEF AfterFrames, JobOf
  <2>7. Telling(w)'
    BY <1>0, <1>2, <2>0, <2>1, <2>2, <2>5, <2>6
       DEF Telling, Onward, Announce, At, Notice, Work
  <2>8. pushes' = pushes \union ({} \X {worker[w].msg})
    BY <2>2
  <2>9. /\ Ids'
        /\ \A p \in People, n \in Nat :
             n # worker[w].msg => /\ <<p, n>> \in frames' <=> <<p, n>> \in frames
                                  /\ <<p, n>> \in pushes' <=> <<p, n>> \in pushes
    <3>1. some \in SUBSET People /\ {} \in SUBSET People /\ messages' = messages
      BY <1>0, <2>1, <2>2
    <3> QED
      BY <2>0, <2>1, <2>8, <3>1, OwnIds
  <2>10. PresentEver'
    BY <2>2 DEF Lines, PresentEver
  <2> QED
    BY <2>1, <2>2, <2>3, <2>7, <2>9, <2>10, LineStep DEF Onward
<1>3. CASE SendPush(w)
  <2>1. PICK some \in SUBSET Receivers(w) :
          /\ pushes' = pushes \union (some \X {worker[w].msg})
          /\ Onward(w, "done")
          /\ worker'[w].clean => some = Receivers(w)
    <3>1. CASE pushes' = pushes \union (Receivers(w) \X {worker[w].msg}) /\ Go(w, "done")
      BY <3>1, GoOnward
    <3>2. ASSUME NEW some \in SUBSET Receivers(w),
                 pushes' = pushes \union (some \X {worker[w].msg}), GoMarred(w, "done")
          PROVE  Onward(w, "done") /\ ~worker'[w].clean
      BY <3>2, MarredOnward
    <3> QED
      BY <1>3, <3>1, <3>2 DEF SendPush
  <2>2. UNCHANGED <<scene, members, conv, messages, frames, steady, ever>>
    BY <1>3 DEF SendPush
  <2>3. Spoken(w)'
    BY <1>0, <2>1, <2>2, OnwardSpoken
  <2>4. Receivers(w) \subseteq People /\ Receivers(w)' = Receivers(w)
    BY <1>0, <2>1, <2>2 DEF Receivers, Onward, JobOf, Work
  <2>5. Framed(w)' = Framed(w) /\ Pushed(w)' = some
    BY <1>0, <1>3, <2>1, <2>2, <2>4 DEF Framed, Pushed, Onward, Telling, SendPush, At
  <2>6. Telling(w)'
    BY <1>0, <1>3, <2>1, <2>2, <2>4, <2>5 DEF Telling, Onward, SendPush, At
  <2>7. frames' = frames \union ({} \X {worker[w].msg})
    BY <2>2
  <2>8. /\ Ids'
        /\ \A p \in People, n \in Nat :
             n # worker[w].msg => /\ <<p, n>> \in frames' <=> <<p, n>> \in frames
                                  /\ <<p, n>> \in pushes' <=> <<p, n>> \in pushes
    BY <1>0, <2>1, <2>2, <2>4, <2>7, OwnIds
  <2>9. PresentEver'
    BY <2>2 DEF Lines, PresentEver
  <2> QED
    BY <2>1, <2>2, <2>3, <2>6, <2>8, <2>9, LineStep DEF Onward
<1> QED
  BY <1>1, <1>2, <1>3

LEMMA SaveLines ==
  ASSUME Inv, Lines, Inv', NEW w \in Workers, Save(w)
  PROVE  Lines'
<1> USE DEF chat, broker, history
<1>0. /\ \A v \in Workers : worker[v] \in Run
      /\ Spoken(w) /\ Telling(w) /\ worker[w].pc = "save" /\ worker[w].pc \in Posted
  BY RunType DEF Inv, Lines, Save, At, Posted
<1>1. /\ UNCHANGED <<scene, members, messages, frames, pushes>>
      /\ Track /\ conv' \in Conv /\ members \subseteq People
  BY DEF Save, Inv, TypeOK
<1>2. \A j \in sent : steady'[j] \subseteq steady[j]
  BY <1>1, TrackType DEF Inv, TypeOK
<1>3. ever \subseteq ever' /\ PresentEver'
  BY <1>1 DEF Track, PresentEver
<1>4. conv'.archived \subseteq conv.archived
  <2>1. conv' = conv \/ conv' = Saved(w)
    BY DEF Save
  <2>2. Saved(w).archived = conv.archived
    BY DEF Saved, Inv, TypeOK, Conv
  <2> QED
    BY <2>1, <2>2
<1>5. /\ worker'[w].pc = "unarchive" /\ worker'[w].job = worker[w].job
      /\ worker'[w].to = worker[w].to
      /\ worker'[w].msg = worker[w].msg /\ worker'[w].says = worker[w].says
      /\ worker'[w].got = worker[w].got
      /\ worker'[w].clean => worker[w].clean /\ worker'[w].ctx = worker[w].ctx
      /\ \A v \in Workers \ {w} :
           /\ worker'[v].pc = worker[v].pc /\ worker'[v].job = worker[v].job
           /\ worker'[v].ctx = worker[v].ctx /\ worker'[v].to = worker[v].to
           /\ worker'[v].says = worker[v].says /\ worker'[v].got = worker[v].got
           /\ worker'[v].msg = worker[v].msg /\ worker'[v].clean = worker[v].clean
  <2>1. CASE GoMarred(w, "unarchive")
    BY <2>1, MarredOnward DEF Onward
  <2>2. CASE worker' = [v \in Workers |->
               IF v = w THEN [worker[w] EXCEPT !.pc = "unarchive"]
               ELSE [worker[v] EXCEPT !.late = @ \/ worker[v].pc \in {"insert", "save"}]]
    <3>1. worker'[w] = [worker[w] EXCEPT !.pc = "unarchive"]
      BY <2>2
    <3>2. ASSUME NEW v \in Workers \ {w}
          PROVE  /\ worker'[v].pc = worker[v].pc /\ worker'[v].job = worker[v].job
                 /\ worker'[v].ctx = worker[v].ctx /\ worker'[v].to = worker[v].to
                 /\ worker'[v].says = worker[v].says /\ worker'[v].got = worker[v].got
                 /\ worker'[v].msg = worker[v].msg /\ worker'[v].clean = worker[v].clean
      <4> DEFINE late == worker[v].late \/ worker[v].pc \in {"insert", "save"}
      <4>1. worker'[v] = [worker[v] EXCEPT !.late = late]
        BY <2>2
      <4> HIDE DEF late
      <4> QED
        BY <1>0, <4>1 DEF Run
    <3> QED
      BY <1>0, <3>1, <3>2 DEF Run
  <2> QED
    BY <2>1, <2>2 DEF Save
<1>6. Spoken(w)'
  BY <1>0, <1>1, <1>5, MoveSpoken DEF Posted, Early
<1>7. Framed(w)' = Framed(w) /\ Pushed(w)' = Pushed(w)
  BY <1>1, <1>5 DEF Framed, Pushed
<1>8. worker[w].job \in sent
  BY <1>0 DEF Inv, SentFirst, Busy, At, JobOf
<1>9. Telling(w)'
  BY <1>0, <1>2, <1>3, <1>5, <1>7, <1>8 DEF Telling
<1>10. Ids'
  BY <1>1, <1>5, SameIds
<1> QED
  BY <1>1, <1>2, <1>3, <1>4, <1>5, <1>6, <1>9, <1>10, LineStep

\* What happens around the runs.
LEMMA OutsideLines ==
  ASSUME Inv, Lines, Inv',
         \/ \E w \in Workers : Begin(w) \/ Ack(w) \/ Crash(w) \/ Redeliver(w)
         \/ \E j \in Jobs : Join(j) \/ SwitchOff(j)
         \/ \E p \in People : Leave(p) \/ Archive(p)
  PROVE  Lines'
<1> USE DEF chat, broker, history
<1>1. ASSUME NEW w \in Workers, Begin(w) PROVE Lines'
  <2>1. PICK k \in Jobs :
          Set(w, [Idle EXCEPT !.job = k, !.again = k \in flagged,
                              !.pc = IF ~Notice(k) THEN "load"
                                     ELSE IF Work(k).valid THEN "allow" ELSE "done"])
    BY <1>1 DEF Begin
  <2>2. /\ worker'[w] = [Idle EXCEPT !.job = k, !.again = k \in flagged,
                           !.pc = IF ~Notice(k) THEN "load"
                                  ELSE IF Work(k).valid THEN "allow" ELSE "done"]
        /\ \A v \in Workers \ {w} : worker'[v] = worker[v]
    BY <2>1 DEF Set, Inv, TypeOK
  <2>3. /\ worker'[w].msg = 0 /\ worker'[w].ctx = "live" /\ worker'[w].got = "none"
        /\ worker'[w].job = k /\ worker'[w].pc \in {"load", "allow", "done"}
        /\ worker'[w].pc = "allow" => Notice(k)
    BY <2>2 DEF Idle
  <2>4. UNCHANGED <<scene, members, conv, messages, frames, pushes, steady, ever>>
    BY <1>1 DEF Begin
  <2> QED
    BY <2>2, <2>3, <2>4, FreshLine, SilentStep
<1>2. ASSUME NEW w \in Workers, Ack(w) \/ Crash(w) PROVE Lines'
  <2>1. worker'[w] = Idle /\ \A v \in Workers \ {w} : worker'[v] = worker[v]
    BY <1>2, IdleRun, SetType DEF Ack, Crash, Inv
  <2>2. /\ worker'[w].msg = 0 /\ worker'[w].ctx = "live" /\ worker'[w].got = "none"
        /\ worker'[w].pc = "idle"
    BY <2>1 DEF Idle
  <2>3. UNCHANGED <<scene, members, conv, messages, frames, pushes, steady, ever>>
    BY <1>2 DEF Ack, Crash
  <2> QED
    BY <2>1, <2>2, <2>3, FreshLine, SilentStep
<1>3. ASSUME UNCHANGED <<scene, messages, frames, pushes, worker>>, ever \subseteq ever',
             PresentEver', conv' = conv, \A j \in sent : steady'[j] \subseteq steady[j]
      PROVE  Lines'
  <2>1. Ids'
    BY <1>3 DEF Lines, Ids, LastId
  <2>2. ASSUME NEW w \in Workers PROVE Spoken(w)'
    BY <1>3 DEF Lines, Spoken, Notice, Work, WantsAnswer, Allowed
  <2>3. ASSUME NEW w \in Workers PROVE Telling(w)'
    <3>1. Spoken(w) /\ Telling(w)
      BY DEF Lines
    <3>2. (worker[w].pc = "insert" \/ worker[w].msg # 0) => worker[w].job \in sent
      BY <3>1 DEF Inv, SentFirst, Busy, At, JobOf, Spoken
    <3>3. /\ Framed(w)' = Framed(w) /\ Pushed(w)' = Pushed(w) /\ Receivers(w)' = Receivers(w)
          /\ Notice(worker[w].job)' = Notice(worker[w].job)
          /\ Work(worker[w].job)' = Work(worker[w].job)
      BY <1>3 DEF Framed, Pushed, Receivers, JobOf, Work, Notice
    <3> QED
      BY <1>3, <3>1, <3>2, <3>3 DEF Telling
  <2> QED
    BY <1>3, <2>1, <2>2, <2>3 DEF Lines
<1>4. ASSUME NEW w \in Workers, Redeliver(w) PROVE Lines'
  BY <1>3, <1>4 DEF Redeliver, Lines, PresentEver
<1>5. ASSUME (\E j \in Jobs : Join(j)) \/ (\E p \in People : Leave(p)) PROVE Lines'
  <2>1. Track /\ UNCHANGED <<scene, conv, messages, frames, pushes, worker>>
    BY <1>5 DEF Join, Leave
  <2>2. members' \subseteq People /\ conv' \in Conv
    BY DEF Inv, TypeOK
  <2>3. \A j \in sent : steady'[j] \subseteq steady[j]
    BY <2>1, <2>2, TrackType DEF Inv
  <2>4. ever \subseteq ever' /\ PresentEver'
    BY <2>1 DEF Track, PresentEver
  <2> QED
    BY <1>3, <2>1, <2>3, <2>4
<1>6. ASSUME NEW j \in Jobs, SwitchOff(j) PROVE Lines'
  BY <1>3, <1>6 DEF SwitchOff, Lines, PresentEver
<1>7. ASSUME NEW p \in People, Archive(p) PROVE Lines'
  <2>1. /\ UNCHANGED <<scene, messages, frames, pushes, worker, members, steady, ever>>
        /\ conv'.listed = conv.listed
        /\ conv'.archived = conv.archived \union {<<p, LastId>>}
    BY <1>7 DEF Archive, Inv, TypeOK, Conv, LastId
  <2>2. Ids' /\ PresentEver'
    BY <2>1 DEF Lines, Ids, LastId, PresentEver
  <2>3. ASSUME NEW w \in Workers PROVE Spoken(w)'
    BY <2>1 DEF Lines, Spoken, Notice, Work, WantsAnswer, Allowed
  <2>4. ASSUME NEW w \in Workers PROVE Telling(w)'
    <3>1. Telling(w) /\ worker[w].msg <= LastId
      BY DEF Lines, Ids
    <3>2. /\ Framed(w)' = Framed(w) /\ Pushed(w)' = Pushed(w) /\ Receivers(w)' = Receivers(w)
          /\ Notice(worker[w].job)' = Notice(worker[w].job)
          /\ Work(worker[w].job)' = Work(worker[w].job)
      BY <2>1 DEF Framed, Pushed, Receivers, JobOf, Work, Notice
    <3> QED
      BY <2>1, <3>1, <3>2 DEF Telling
  <2> QED
    BY <2>2, <2>3, <2>4 DEF Lines
<1> QED
  BY <1>1, <1>2, <1>4, <1>5, <1>6, <1>7

LEMMA LinesStep == Inv /\ Lines /\ [Next]_vars => Lines'
<1> SUFFICES ASSUME Inv, Lines, [Next]_vars PROVE Lines'
  OBVIOUS
<1>0. Inv'
  BY InvStep
<1>1. CASE UNCHANGED vars
  BY <1>1 DEF Lines, Ids, LastId, PresentEver, Spoken, Telling, Framed, Pushed, Receivers,
              Notice, Work, WantsAnswer, Allowed, JobOf, vars
<1>2. ASSUME NEW w \in Workers, Deliver(w) PROVE Lines'
  BY <1>0, <1>2, CommandLines, AudienceLines, TellingLines, SaveLines, OutsideLines DEF Deliver
<1> QED
  BY <1>0, <1>1, <1>2, OutsideLines DEF Next

\* However runs overlap, one that meets no failure has sent its frame to
\* everybody who has been in the conversation since the job was published and
\* to nobody who never was, its push to all of them but the actor, and the
\* thread is out of the archive (PostConversationNotice, PostSystemReply).
THEOREM EverybodyTold == Spec => []Announced
<1>1. Inv /\ Lines => Announced
  <2> SUFFICES ASSUME Inv, Lines, NEW w \in Workers, At(w, "done"), worker[w].clean,
                      worker[w].msg # 0
               PROVE  Reached(w)
    BY DEF Announced
  <2>1. Telling(w)
    BY DEF Lines
  <2> QED
    BY <2>1 DEF Telling, Reached, Framed, Pushed, Receivers, At, JobOf
<1> QED
  BY <1>1, InvInit, InvStep, LinesInit, LinesStep, PTL DEF Spec

\* A webhook that promises an answer ends with the answer or with the line
\* that there is none, unless posting it failed; one that promises nothing
\* posts nothing (runWebhookCommand, reportWebhookFailure).
THEOREM AnswerGiven == Spec => []PromiseKept
<1>1. Inv /\ Lines => PromiseKept
  <2> SUFFICES ASSUME Inv, Lines, NEW w \in Workers, At(w, "done"),
                      Work(JobOf(w)).kind = "webhook"
               PROVE  LET j == JobOf(w) IN
                      /\ ~WantsAnswer(j) => worker[w].msg = 0
                      /\ (/\ WantsAnswer(j) /\ Work(j).valid /\ Allowed(j) /\ worker[w].clean
                          /\ worker[w].got \in {"answer", "failed"}) =>
                            \E m \in MessagesOf(j) :
                              /\ m.id = worker[w].msg
                              /\ m.says = IF worker[w].got = "failed" THEN "failure" ELSE "answer"
    BY DEF PromiseKept
  <2>1. Spoken(w)
    BY DEF Lines
  <2> QED
    BY <2>1 DEF Spoken, At, JobOf, MessagesOf, Notice
<1> QED
  BY <1>1, InvInit, InvStep, LinesInit, LinesStep, PTL DEF Spec

(***************************************************************************)
(* The participants and the preview at the end, when nothing failed and no *)
(* run saved what another had saved since it read.                         *)
(***************************************************************************)
\* The run that will show the newest line.
Newest(w) == At(w, "save") /\ worker[w].msg = LastId

\* The preview shows the newest line, and whoever has an older one to save is
\* late; or the newest is still to be saved.
Shown ==
  \/ \E w \in Workers : Newest(w)
  \/ /\ (conv.exists /\ messages # {}) => conv.preview = LastId
     /\ \A w \in Workers : At(w, "save") => worker[w].late

\* What is left of a notice that will still list its actor.
Brings(w, j) ==
  /\ JobOf(w) = j
  /\ \/ worker[w].pc \in {"allow", "members"}
     \/ /\ worker[w].pc \in {"insert", "save"}
        /\ worker[w].late \/ Work(j).actor \in worker[w].to
Coming(j) == ready[j] > 0 \/ \E w \in Workers : Brings(w, j)

\* The participants list p, and so will every notice that is in time.
Kept(p) ==
  /\ p \in conv.listed
  /\ \A w \in Workers :
       (worker[w].pc \in {"insert", "save"} /\ Notice(JobOf(w)) /\ ~worker[w].late) =>
         p \in worker[w].to

Counting(j) == Notice(j) /\ Realm /\ Work(j).valid /\ Allowed(j)
Welcome(j) == Counting(j) /\ Work(j).actor \in steady[j] =>
                Coming(j) \/ Kept(Work(j).actor)

\* While no call has failed, every deadline is open.
NoDelay == \A w \in Workers : worker[w].ctx = "live"

Orderly == (faults = 0 /\ ~raced) => NoDelay /\ Shown /\ \A j \in sent : Welcome(j)

LEMMA OrderlyInit == Init => Orderly
<1> SUFFICES ASSUME Init PROVE Orderly
  OBVIOUS
<1>1. \A w \in Workers : worker[w].pc = "idle" /\ worker[w].ctx = "live"
  BY DEF Init, Idle
<1>2. NoDelay /\ Shown
  BY <1>1 DEF Init, NoDelay, Shown, At
<1>3. \A j \in sent : ~Counting(j)
  BY DEF Init, Joins, Counting, Notice, Realm, Work
<1> QED
  BY <1>2, <1>3 DEF Orderly, Welcome

\* What the scene decides does not change.
LEMMA SameScene ==
  ASSUME scene' = scene, NEW j
  PROVE  /\ Notice(j)' = Notice(j) /\ Work(j)' = Work(j) /\ Realm' = Realm
         /\ Counting(j)' = Counting(j)
BY DEF Notice, Work, Realm, Counting, Allowed

\* A step of one worker that saves nothing and stores nothing.
LEMMA ShownStep ==
  ASSUME Shown, NEW w \in Workers, \A v \in Workers \ {w} : worker'[v] = worker[v],
         worker[w].pc # "save", worker'[w].pc # "save", UNCHANGED messages,
         conv'.exists = conv.exists, conv'.preview = conv.preview
  PROVE  Shown'
<1>1. LastId' = LastId
  BY DEF LastId
<1>2. CASE \E v \in Workers : Newest(v)
  <2>1. PICK v \in Workers : Newest(v)
    BY <1>2
  <2>2. v # w
    BY <2>1 DEF Newest, At
  <2>3. Newest(v)'
    BY <1>1, <2>1, <2>2 DEF Newest, At
  <2> QED
    BY <2>3 DEF Shown
<1>3. CASE /\ (conv.exists /\ messages # {}) => conv.preview = LastId
           /\ \A v \in Workers : At(v, "save") => worker[v].late
  <2>1. \A v \in Workers : At(v, "save")' => worker'[v].late
    BY <1>3 DEF At
  <2> QED
    BY <1>1, <1>3, <2>1 DEF Shown
<1> QED
  BY <1>2, <1>3 DEF Shown

\* A step of one worker that leaves the participants alone keeps the promise to
\* an actor if the worker's part in it stays.
LEMMA WelcomeStep ==
  ASSUME NEW w \in Workers, \A v \in Workers \ {w} : worker'[v] = worker[v],
         UNCHANGED <<scene, steady>>, conv'.listed = conv.listed,
         NEW j, Welcome(j),
         Counting(j) /\ Work(j).actor \in steady[j] =>
           /\ ready[j] > 0 => ready'[j] > 0 \/ Brings(w, j)'
           /\ Brings(w, j) => Brings(w, j)'
           /\ (/\ worker'[w].pc \in {"insert", "save"} /\ Notice(JobOf(w))'
               /\ ~worker'[w].late) =>
                \/ Work(j).actor \in worker'[w].to
                \/ /\ worker[w].pc \in {"insert", "save"} /\ JobOf(w)' = JobOf(w)
                   /\ worker'[w].late = worker[w].late /\ worker'[w].to = worker[w].to
  PROVE  Welcome(j)'
<1> SUFFICES ASSUME Counting(j)', Work(j)'.actor \in steady'[j]
             PROVE  Coming(j)' \/ Kept(Work(j).actor)'
  BY SameScene DEF Welcome
<1>1. /\ Counting(j) /\ Work(j).actor \in steady[j] /\ Work(j)' = Work(j)
      /\ \A k : Notice(k)' = Notice(k)
  BY SameScene
<1>2. \A v \in Workers \ {w} : Brings(v, j)' = Brings(v, j)
  BY <1>1 DEF Brings, JobOf
<1>3. Coming(j) => Coming(j)'
  BY <1>1, <1>2 DEF Coming
<1>4. Kept(Work(j).actor) => Kept(Work(j).actor)'
  <2> SUFFICES ASSUME Kept(Work(j).actor), NEW v \in Workers,
                      worker'[v].pc \in {"insert", "save"}, Notice(JobOf(v))',
                      ~worker'[v].late
               PROVE  Work(j).actor \in worker'[v].to
    BY <1>1 DEF Kept
  <2>1. CASE v = w
    BY <1>1, <2>1, SameScene DEF Kept, JobOf, Notice, Work
  <2>2. CASE v # w
    BY <1>1, <2>2 DEF Kept, JobOf, Notice, Work
  <2> QED
    BY <2>1, <2>2
<1> QED
  BY <1>1, <1>3, <1>4 DEF Welcome

\* A run that goes on, and stores or saves nothing, leaves its notice on its way
\* to the participants, or it was not one that counts.
LEMMA GoOrderly ==
  ASSUME Inv, Inv', NEW w \in Workers,
         NEW pc \in {"allow", "members", "run", "call", "unarchive", "announce", "push", "done"},
         Go(w, pc), worker[w].pc \notin {"members", "insert", "save", "idle"},
         worker[w].pc = "allow" => pc = "members" \/ ~Allowed(JobOf(w)),
         NoDelay, Shown, \A j \in sent : Welcome(j),
         UNCHANGED <<scene, sent, ready, steady, messages>>, conv'.exists = conv.exists,
         conv'.preview = conv.preview, conv'.listed = conv.listed
  PROVE  NoDelay' /\ Shown' /\ \A j \in sent' : Welcome(j)'
<1>1. /\ \A v \in Workers \ {w} : worker'[v] = worker[v]
      /\ worker'[w].pc = pc /\ worker'[w].job = worker[w].job /\ worker'[w].ctx = worker[w].ctx
  BY GoLine DEF Inv
<1>2. NoDelay'
  BY <1>1 DEF NoDelay
<1>3. Shown'
  BY <1>1, ShownStep
<1>4. ASSUME NEW j \in sent, Counting(j) PROVE Brings(w, j) => Brings(w, j)'
  BY <1>1, <1>4 DEF Brings, JobOf, Counting
<1>5. ASSUME NEW j \in sent PROVE Welcome(j)'
  <2>1. Welcome(j) /\ worker'[w].pc \notin {"insert", "save"}
    BY <1>1
  <2> QED
    BY <1>1, <1>4, <2>1, WelcomeStep
<1> QED
  BY <1>2, <1>3, <1>5

\* The other steps of a run that do not store or save: its worker gets an open
\* deadline, and what it brought it brings.
LEMMA SetOrderly ==
  ASSUME Inv, Inv', NEW w \in Workers, NEW new \in Run, Set(w, new),
         worker[w].pc \notin {"insert", "save"}, new.pc \notin {"save"}, new.ctx = "live",
         \A j \in sent : Counting(j) /\ Work(j).actor \in steady[j] =>
           /\ ready[j] > 0 => ready'[j] > 0 \/ Brings(w, j)'
           /\ Brings(w, j) => Brings(w, j)'
           /\ (new.pc = "insert" /\ Notice(new.job)) => Work(j).actor \in new.to,
         NoDelay, Shown, \A j \in sent : Welcome(j),
         UNCHANGED <<scene, sent, steady, messages, conv>>
  PROVE  NoDelay' /\ Shown' /\ \A j \in sent' : Welcome(j)'
<1>1. worker'[w] = new /\ \A v \in Workers \ {w} : worker'[v] = worker[v]
  BY SetType DEF Inv
<1>2. NoDelay'
  BY <1>1 DEF NoDelay
<1>3. Shown'
  BY <1>1, ShownStep
<1>4. ASSUME NEW j \in sent PROVE Welcome(j)'
  <2>1. Welcome(j)
    OBVIOUS
  <2>2. Notice(new.job)' = Notice(new.job)
    BY SameScene
  <2> QED
    BY <1>1, <2>1, <2>2, WelcomeStep DEF JobOf
<1> QED
  BY <1>2, <1>3, <1>4

\* The line just stored is the newest, and its run will show it.
LEMMA InsertOrderly ==
  ASSUME Inv, Inv', Lines, Lines', NEW w \in Workers, Insert(w), faults' = faults,
         NoDelay, Shown, \A j \in sent : Welcome(j)
  PROVE  NoDelay' /\ Shown' /\ \A j \in sent' : Welcome(j)'
<1> USE DEF broker
<1>1. Stored(w) /\ Set(w, [worker[w] EXCEPT !.msg = NewId, !.pc = "save"]) /\ UNCHANGED broker
  <2>1. faults \in Nat /\ worker[w].ctx = "live"
    BY ConversationAssumption DEF Inv, TypeOK, NoDelay
  <2>2. ~Fails(w)
    BY <2>1 DEF Fails, Fault
  <2> QED
    BY <2>2 DEF Insert
<1> DEFINE new == [worker[w] EXCEPT !.msg = NewId, !.pc = "save"]
<1>2. NewId \in Nat /\ worker[w] \in Run
  BY <1>1, StoredType, RunType DEF Inv
<1>3. /\ new \in Run /\ new.pc = "save" /\ new.msg = NewId /\ new.job = worker[w].job
      /\ new.ctx = worker[w].ctx /\ new.to = worker[w].to /\ new.late = worker[w].late
  BY <1>2 DEF Run
<1>4. worker'[w] = new /\ \A v \in Workers \ {w} : worker'[v] = worker[v]
  BY <1>1, <1>3, SetType DEF Inv
<1> HIDE DEF new
<1>5. NoDelay'
  BY <1>3, <1>4 DEF NoDelay
<1>6. Shown'
  <2>1. LastId' = NewId
    <3> DEFINE m == [id |-> NewId, job |-> JobOf(w), says |->
                       IF Notice(JobOf(w)) THEN "notice" ELSE worker[w].says]
    <3>1. messages' = messages \union {m} /\ m.id = NewId /\ NewId = LastId + 1
      BY <1>1 DEF Stored, NewId, LastId
    <3>2. LastId \in Nat /\ IsFiniteSet(messages)
      BY FS_CardinalityType DEF LastId, Inv, TypeOK
    <3> HIDE DEF m
    <3>3. m \notin messages
      BY <3>1, <3>2 DEF Lines, Ids
    <3> QED
      BY <3>1, <3>2, <3>3, FS_AddElement DEF LastId
  <2>2. Newest(w)'
    BY <1>3, <1>4, <2>1 DEF Newest, At
  <2> QED
    BY <2>2 DEF Shown
<1>7. worker[w].pc = "insert" /\ UNCHANGED <<scene, conv, sent, ready, steady>>
  BY <1>1 DEF Insert, At
<1>8. ASSUME NEW j \in sent PROVE Welcome(j)'
  <2>1. Brings(w, j) => Brings(w, j)'
    BY <1>3, <1>4, <1>7, SameScene DEF Brings, JobOf
  <2> QED
    BY <1>3, <1>4, <1>7, <2>1, WelcomeStep DEF JobOf
<1> QED
  BY <1>5, <1>6, <1>7, <1>8

\* A run that saves in time shows what it stored and lists whom it has read;
\* every other run that has read is late from then on.
LEMMA SaveOrderly ==
  ASSUME Inv, Inv', Lines, Lines', NEW w \in Workers, Save(w), faults' = faults, ~raced',
         NoDelay, Shown, \A j \in sent : Welcome(j)
  PROVE  NoDelay' /\ Shown' /\ \A j \in sent' : Welcome(j)'
<1> USE DEF broker
<1>1. /\ conv' = Saved(w) /\ raced' = (raced \/ worker[w].late)
      /\ worker' = [v \in Workers |->
             IF v = w THEN [worker[w] EXCEPT !.pc = "unarchive"]
             ELSE [worker[v] EXCEPT !.late = @ \/ worker[v].pc \in {"insert", "save"}]]
  <2>1. faults \in Nat /\ worker[w].ctx = "live"
    BY ConversationAssumption DEF Inv, TypeOK, NoDelay
  <2>2. ~Fails(w)
    BY <2>1 DEF Fails, Fault
  <2> QED
    BY <2>2 DEF Save
<1>2. /\ worker[w].pc = "save" /\ UNCHANGED <<scene, members, messages, sent, ready>> /\ Track
      /\ ~worker[w].late /\ worker[w] \in Run /\ conv \in Conv
  BY <1>1, RunType DEF Save, At, Inv, TypeOK
<1>3. /\ worker'[w].pc = "unarchive" /\ worker'[w].job = worker[w].job
      /\ worker'[w].ctx = worker[w].ctx
  BY <1>1, <1>2 DEF Run
<1>4. ASSUME NEW v \in Workers \ {w}
      PROVE  /\ worker'[v].pc = worker[v].pc /\ worker'[v].job = worker[v].job
             /\ worker'[v].ctx = worker[v].ctx /\ worker'[v].to = worker[v].to
             /\ worker'[v].msg = worker[v].msg
             /\ worker[v].late => worker'[v].late
             /\ worker[v].pc \in {"insert", "save"} => worker'[v].late
  <2>1. worker[v] \in Run
    BY DEF Inv, TypeOK
  <2> QED
    BY <1>1, <2>1 DEF Run
<1>5. NoDelay'
  BY <1>3, <1>4 DEF NoDelay
<1>6. LastId' = LastId
  BY <1>2 DEF LastId
<1>7. Shown'
  <2>1. CASE \E v \in Workers \ {w} : Newest(v)
    BY <1>4, <1>6, <2>1 DEF Shown, Newest, At
  <2>2. CASE Newest(w)
    <3>1. conv'.exists => conv'.preview = LastId
      BY <1>1, <1>2, <2>2 DEF Newest, Saved, Conv
    <3>2. \A v \in Workers : At(v, "save")' => worker'[v].late
      BY <1>3, <1>4 DEF At
    <3> QED
      BY <1>6, <3>1, <3>2 DEF Shown
  <2> QED
    BY <1>2, <2>1, <2>2 DEF Shown, At
<1>8. /\ conv'.listed = IF Notice(JobOf(w)) /\ worker[w].to # {} THEN worker[w].to
                       ELSE conv.listed
  BY <1>1, <1>2 DEF Saved, Conv
<1>9. ASSUME NEW j \in sent PROVE Welcome(j)'
  <2> SUFFICES ASSUME Counting(j)', Work(j)'.actor \in steady'[j]
               PROVE  Coming(j)' \/ Kept(Work(j).actor)'
    BY <1>2, SameScene DEF Welcome
  <2>1. Counting(j) /\ Work(j)' = Work(j)
    BY <1>2, SameScene
  <2>2. Work(j).actor \in steady[j]
    BY <1>2, <2>1, TrackType DEF Inv, TypeOK
  <2>3. ASSUME NEW v \in Workers \ {w}, Brings(v, j) PROVE Brings(v, j)'
    BY <1>4, <2>1, <2>3 DEF Brings, JobOf
  <2>4. ASSUME Work(j).actor \in conv'.listed PROVE Kept(Work(j).actor)'
    BY <1>3, <1>4, <2>1, <2>4 DEF Kept
  <2>5. CASE Brings(w, j)
    <3>1. Work(j).actor \in worker[w].to /\ Notice(JobOf(w))
      BY <1>2, <2>1, <2>5 DEF Brings, Counting
    <3> QED
      BY <1>8, <2>4, <3>1
  <2>6. CASE Coming(j) /\ ~Brings(w, j)
    BY <1>2, <2>3, <2>6 DEF Coming
  <2>7. CASE Kept(Work(j).actor)
    BY <1>2, <1>8, <2>4, <2>7 DEF Kept
  <2> QED
    BY <2>1, <2>2, <2>5, <2>6, <2>7 DEF Welcome
<1> QED
  BY <1>2, <1>5, <1>7, <1>9

\* A step of the people only narrows who is promised, or puts a new notice on
\* its queue.
LEMMA PeopleOrderly ==
  ASSUME Inv, Inv', Track, UNCHANGED <<scene, conv, messages, worker>>,
         \A j \in sent : ready'[j] = ready[j], \A j \in sent' \ sent : ready'[j] > 0,
         NoDelay, Shown, \A j \in sent : Welcome(j)
  PROVE  NoDelay' /\ Shown' /\ \A j \in sent' : Welcome(j)'
<1>1. NoDelay' /\ Shown'
  BY DEF NoDelay, Shown, Newest, At, LastId
<1>2. ASSUME NEW j \in sent' \ sent PROVE Welcome(j)'
  BY <1>2 DEF Welcome, Coming
<1>3. ASSUME NEW j \in sent PROVE Welcome(j)'
  <2>1. Work(j)' = Work(j) /\ Counting(j)' = Counting(j) /\ \A k : Notice(k)' = Notice(k)
    BY SameScene
  <2>2. steady'[j] \subseteq steady[j]
    BY TrackType DEF Inv, TypeOK
  <2>3. Coming(j)' = Coming(j) /\ Kept(Work(j).actor)' = Kept(Work(j).actor)
    BY <2>1 DEF Coming, Brings, Kept, JobOf
  <2> QED
    BY <2>1, <2>2, <2>3 DEF Welcome
<1> QED
  BY <1>1, <1>2, <1>3

\* A notice that reads the members reads everybody who has been there since any
\* notice was published.
LEMMA ReadOrderly ==
  ASSUME Inv, Inv', NEW w \in Workers, faults' = faults, ReadMembers(w),
         NoDelay, Shown, \A j \in sent : Welcome(j)
  PROVE  NoDelay' /\ Shown' /\ \A j \in sent' : Welcome(j)'
<1> USE DEF chat, broker, history
<1>1. ~Fails(w)
  <2>1. faults \in Nat /\ worker[w].ctx = "live"
    BY ConversationAssumption DEF Inv, TypeOK, NoDelay
  <2> QED
    BY <2>1 DEF Fails, Fault
<1>2. worker[w] \in Run /\ JobOf(w) \in Jobs
  BY RunType DEF Inv
<1> DEFINE new == [worker[w] EXCEPT !.to = Present(JobOf(w)), !.pc = "insert"]
<1>3. Set(w, new)
  BY <1>1, Zenon DEF ReadMembers
<1>4. Present(JobOf(w)) \subseteq People
  BY <1>2, PresentType DEF Inv
<1>5. /\ new \in Run /\ new.ctx = worker[w].ctx /\ new.pc = "insert"
      /\ new.job = worker[w].job /\ new.to = Present(JobOf(w))
  BY <1>2, <1>4 DEF Run
<1>6. worker[w].pc = "members" /\ UNCHANGED <<scene, sent, ready, steady, messages, conv>>
  <2>1. At(w, "members") /\ UNCHANGED <<scene, members, chat, active, broker, changes, history>>
    BY Zenon DEF ReadMembers
  <2> QED
    BY <2>1 DEF At
<1> HIDE DEF new
<1>7. worker'[w] = new
  BY <1>3, <1>5, SetType DEF Inv
<1>8. ASSUME NEW j \in sent, Counting(j), Work(j).actor \in steady[j], Notice(JobOf(w))
      PROVE  Work(j).actor \in new.to
  <2>1. j \in Jobs
    BY DEF Inv, TypeOK
  <2>2. Work(j).actor \in Present(j)
    BY <1>8, <2>1 DEF Inv, SteadyThere
  <2> QED
    BY <1>5, <1>8, <2>2 DEF Present, Counting
<1>9. ASSUME NEW j \in sent, Counting(j), Work(j).actor \in steady[j], Brings(w, j)
      PROVE  Brings(w, j)'
  <2>1. JobOf(w) = j /\ Work(j)' = Work(j)
    BY <1>6, <1>9, SameScene DEF Brings
  <2>2. Work(j).actor \in new.to
    BY <1>8, <1>9, <2>1 DEF Counting
  <2> QED
    BY <1>5, <1>7, <2>1, <2>2 DEF Brings, JobOf
<1>10. ASSUME NEW j \in sent, Counting(j) /\ Work(j).actor \in steady[j]
      PROVE  /\ ready[j] > 0 => ready'[j] > 0 \/ Brings(w, j)'
             /\ Brings(w, j) => Brings(w, j)'
             /\ (new.pc = "insert" /\ Notice(new.job)) => Work(j).actor \in new.to
  BY <1>5, <1>6, <1>8, <1>9, <1>10 DEF JobOf
<1>11. new.ctx = "live"
  BY <1>5 DEF NoDelay
<1> QED
  BY <1>3, <1>5, <1>6, <1>10, <1>11, SetOrderly

\* A run before its insert, while nothing fails.
LEMMA EarlyOrderly ==
  ASSUME Inv, Inv', NEW w \in Workers, faults' = faults,
         Load(w) \/ RunBuiltin(w) \/ CallWebhook(w) \/ Allow(w) \/ ReadMembers(w),
         NoDelay, Shown, \A j \in sent : Welcome(j)
  PROVE  NoDelay' /\ Shown' /\ \A j \in sent' : Welcome(j)'
<1> USE DEF chat, broker, history
<1>1. ~Fails(w)
  <2>1. faults \in Nat /\ worker[w].ctx = "live"
    BY ConversationAssumption DEF Inv, TypeOK, NoDelay
  <2> QED
    BY <2>1 DEF Fails, Fault
<1>2. worker[w] \in Run /\ JobOf(w) \in Jobs
  BY RunType DEF Inv
<1>3. CASE Load(w)
  <2>1. PICK pc \in {"run", "call", "done"} : Go(w, pc)
    BY <1>1, <1>3 DEF Load
  <2>2. worker[w].pc = "load"
    BY <1>3 DEF Load, At
  <2> QED
    BY <1>3, <2>1, <2>2, GoOrderly DEF Load
<1>4. CASE RunBuiltin(w)
  <2>1. PICK pc \in {"allow", "done"} : Go(w, pc)
    BY <1>1, <1>4 DEF RunBuiltin
  <2>2. worker[w].pc = "run"
    BY <1>4 DEF RunBuiltin, At
  <2> QED
    BY <1>4, <2>1, <2>2, GoOrderly DEF RunBuiltin
<1>5. CASE Allow(w)
  <2>1. PICK pc \in {"members", "done"} :
          Go(w, pc) /\ pc = IF Allowed(JobOf(w)) THEN "members" ELSE "done"
    BY <1>1, <1>5 DEF Allow
  <2>2. worker[w].pc = "allow" /\ UNCHANGED <<scene, sent, ready, steady, messages, conv>>
    BY <1>1, <1>5 DEF Allow, At
  <2> QED
    BY <2>1, <2>2, GoOrderly
<1>6. CASE CallWebhook(w)
  <2>1. PICK got \in {"answer", "empty", "failed"}, ctx \in {"live", "expired"} :
          /\ Set(w, AfterCall(w, got, ctx))
          /\ ctx = "live" \/ got = "failed"
    BY <1>6 DEF CallWebhook
  <2> DEFINE new == AfterCall(w, got, ctx)
  <2>2. /\ new \in Run /\ new.ctx = "live" /\ new.pc \in {"allow", "done"}
    BY <2>1, AfterCallType DEF Inv
  <2>3. worker[w].pc = "call" /\ UNCHANGED <<scene, sent, ready, steady, messages, conv>>
    BY <1>6 DEF CallWebhook, At
  <2>4. ASSUME NEW j \in sent PROVE ~Brings(w, j)
    BY <2>3 DEF Brings
  <2> HIDE DEF new
  <2> QED
    BY <2>1, <2>2, <2>3, <2>4, SetOrderly DEF new
<1>7. CASE ReadMembers(w)
  BY <1>7, ReadOrderly
<1> QED
  BY <1>3, <1>4, <1>5, <1>6, <1>7

\* What a worker that takes a job has.
Taken(j) ==
  [Idle EXCEPT !.job = j, !.again = j \in flagged,
               !.pc = IF ~Notice(j) THEN "load" ELSE IF Work(j).valid THEN "allow" ELSE "done"]

LEMMA TakenType ==
  ASSUME NEW j \in Jobs
  PROVE  /\ Taken(j) \in Run /\ Taken(j).ctx = "live" /\ Taken(j).job = j
         /\ Taken(j).pc \in {"load", "allow", "done"}
         /\ Counting(j) => Taken(j).pc = "allow"
<1> DEFINE pc == IF ~Notice(j) THEN "load" ELSE IF Work(j).valid THEN "allow" ELSE "done"
           again == j \in flagged
<1>1. again \in BOOLEAN /\ pc \in {"load", "allow", "done"} /\ (Counting(j) => pc = "allow")
  BY DEF Counting
<1>2. Taken(j) = [Idle EXCEPT !.job = j, !.again = again, !.pc = pc]
  BY DEF Taken
<1> HIDE DEF pc, again
<1>3. Taken(j) \in Run
  BY <1>1, <1>2, IdleRun DEF Run
<1>4. Taken(j).ctx = "live" /\ Taken(j).job = j /\ Taken(j).pc = pc
  BY <1>2 DEF Idle
<1> QED
  BY <1>1, <1>3, <1>4

\* Faults are not taken back, and neither is a race.
LEMMA CalmBefore ==
  ASSUME Inv, [Next]_vars, faults' = 0, ~raced'
  PROVE  faults = 0 /\ ~raced
<1> USE DEF chat, broker, history
<1>1. faults \in Nat /\ raced \in BOOLEAN
  BY ConversationAssumption DEF Inv, TypeOK
<1>2. ASSUME NEW w \in Workers, Succeeds(w) \/ Fails(w) \/ Fault PROVE faults = 0
  BY <1>1, <1>2 DEF Succeeds, Fails, Fault
<1>3. CASE UNCHANGED vars
  BY <1>3 DEF vars
<1>4. ASSUME NEW w \in Workers, Begin(w) \/ Ack(w) \/ CallWebhook(w) PROVE faults = 0 /\ ~raced
  <2>1. UNCHANGED <<faults, history>>
    <3>1. CASE Begin(w)
      BY <3>1 DEF Begin, Set
    <3>2. CASE Ack(w)
      BY <3>2 DEF Ack
    <3>3. CASE CallWebhook(w)
      BY <3>3 DEF CallWebhook
    <3> QED
      BY <1>4, <3>1, <3>2, <3>3
  <2> QED
    BY <2>1
<1>5. ASSUME NEW w \in Workers, Load(w) \/ RunBuiltin(w) \/ Allow(w) PROVE faults = 0 /\ ~raced
  BY <1>2, <1>5 DEF Load, RunBuiltin, Allow
<1>6. ASSUME NEW w \in Workers, ReadMembers(w) PROVE faults = 0 /\ ~raced
  <2>1. Succeeds(w) \/ Fails(w)
    BY <1>6, Zenon DEF ReadMembers
  <2>2. UNCHANGED <<scene, members, chat, active, broker, changes, history>>
    BY <1>6, Zenon DEF ReadMembers
  <2> QED
    BY <1>2, <2>1, <2>2
<1>12. ASSUME NEW w \in Workers, Insert(w) PROVE faults = 0 /\ ~raced
  <2>1. Succeeds(w) \/ Fails(w)
    BY <1>12, Zenon DEF Insert
  <2>2. UNCHANGED raced
    BY <1>12 DEF Insert
  <2> QED
    BY <1>2, <2>1, <2>2
<1>7. ASSUME NEW w \in Workers, Save(w) PROVE faults = 0 /\ ~raced
  <2>1. Succeeds(w) \/ Fails(w)
    BY <1>7, Zenon DEF Save
  <2>2. raced' = raced \/ raced' = (raced \/ worker[w].late)
    BY <1>7, Zenon DEF Save
  <2> QED
    BY <1>1, <1>2, <2>1, <2>2
<1>8. ASSUME NEW w \in Workers, Unarchive(w) \/ Announce(w) \/ SendPush(w)
      PROVE  faults = 0 /\ ~raced
  BY <1>2, <1>8 DEF Unarchive, Announce, SendPush
<1>9. ASSUME NEW w \in Workers, Crash(w) \/ Redeliver(w) PROVE faults = 0 /\ ~raced
  BY <1>2, <1>9 DEF Crash, Redeliver
<1>10. ASSUME NEW j \in Jobs, Join(j) \/ SwitchOff(j) PROVE faults = 0 /\ ~raced
  BY <1>10 DEF Join, SwitchOff
<1>11. ASSUME NEW p \in People, Leave(p) \/ Archive(p) PROVE faults = 0 /\ ~raced
  BY <1>11 DEF Leave, Archive
<1> QED
  BY <1>3, <1>4, <1>5, <1>6, <1>7, <1>8, <1>9, <1>10, <1>11,
     <1>12 DEF Next, Deliver

LEMMA OrderlyStep ==
  Inv /\ Inv' /\ Lines /\ Lines' /\ Orderly /\ [Next]_vars => Orderly'
<1> SUFFICES ASSUME Inv, Inv', Lines, Lines', Orderly, [Next]_vars, faults' = 0, ~raced'
             PROVE  NoDelay' /\ Shown' /\ \A j \in sent' : Welcome(j)'
  BY DEF Orderly
<1> USE DEF chat, broker, history
<1>0. faults = 0 /\ faults' = faults /\ NoDelay /\ Shown /\ \A j \in sent : Welcome(j)
  BY CalmBefore DEF Orderly
<1>1. CASE UNCHANGED vars
  BY <1>0, <1>1, PeopleOrderly, SameScene DEF vars, NoDelay, Shown, Newest, At, LastId, Welcome,
     Coming, Brings, Kept, JobOf
<1>2. ASSUME NEW w \in Workers, Begin(w) PROVE NoDelay' /\ Shown' /\ \A j \in sent' : Welcome(j)'
  <2>1. PICK j \in Jobs :
          /\ ready[j] > 0
          /\ ready' = [ready EXCEPT ![j] = @ - 1]
          /\ Set(w, Taken(j))
    BY <1>2, Zenon DEF Begin, Taken
  <2> DEFINE new == Taken(j)
  <2>2. /\ new \in Run /\ new.ctx = "live" /\ new.job = j /\ new.pc \in {"load", "allow", "done"}
        /\ Counting(j) => new.pc = "allow"
    BY TakenType
  <2>3. worker[w].pc = "idle" /\ UNCHANGED <<scene, sent, steady, messages, conv>>
    BY <1>2 DEF Begin, At
  <2> HIDE DEF new
  <2>4. Set(w, new)
    BY <2>1 DEF new
  <2>5. worker'[w] = new
    BY <2>2, <2>4, SetType DEF Inv
  <2>6. ASSUME NEW k \in sent, Counting(k)
        PROVE  /\ ready[k] > 0 => ready'[k] > 0 \/ Brings(w, k)'
               /\ Brings(w, k) => Brings(w, k)'
    <3>1. ~Brings(w, k)
      BY <2>3 DEF Brings
    <3>2. CASE k = j
      BY <2>2, <2>5, <2>6, <3>1, <3>2 DEF Brings, JobOf
    <3>3. CASE k # j
      BY <2>1, <3>1, <3>3 DEF Inv, TypeOK
    <3> QED
      BY <3>2, <3>3
  <2> QED
    BY <1>0, <2>2, <2>3, <2>4, <2>6, SetOrderly
<1>3. ASSUME NEW w \in Workers, Ack(w) PROVE NoDelay' /\ Shown' /\ \A j \in sent' : Welcome(j)'
  <2>1. /\ Idle \in Run /\ Idle.pc = "idle" /\ Idle.ctx = "live"
    BY IdleRun DEF Idle
  <2>2. /\ worker[w].pc = "done" /\ Set(w, Idle)
        /\ UNCHANGED <<scene, sent, ready, steady, messages, conv>>
    BY <1>3 DEF Ack, At
  <2>3. \A j \in sent : ~Brings(w, j)
    BY <2>2 DEF Brings
  <2> QED
    BY <1>0, <2>1, <2>2, <2>3, SetOrderly
<1>4. ASSUME NEW w \in Workers,
             Load(w) \/ RunBuiltin(w) \/ CallWebhook(w) \/ Allow(w) \/ ReadMembers(w)
      PROVE  NoDelay' /\ Shown' /\ \A j \in sent' : Welcome(j)'
  BY <1>0, <1>4, EarlyOrderly
<1>5. ASSUME NEW w \in Workers, Insert(w) PROVE NoDelay' /\ Shown' /\ \A j \in sent' : Welcome(j)'
  BY <1>0, <1>5, InsertOrderly
<1>6. ASSUME NEW w \in Workers, Save(w) PROVE NoDelay' /\ Shown' /\ \A j \in sent' : Welcome(j)'
  BY <1>0, <1>6, SaveOrderly
<1>7. ASSUME NEW w \in Workers, Unarchive(w) \/ Announce(w) \/ SendPush(w)
      PROVE  NoDelay' /\ Shown' /\ \A j \in sent' : Welcome(j)'
  <2>1. ~Fails(w)
    BY <1>0 DEF NoDelay, Fails, Fault
  <2>2. AfterFrames(w) \in {"push", "done"}
    BY DEF AfterFrames
  <2>3. PICK pc \in {"announce", "push", "done"} : Go(w, pc)
    BY <1>7, <2>1, <2>2 DEF Unarchive, Announce, SendPush
  <2>4. /\ worker[w].pc \in {"unarchive", "announce", "push"}
        /\ UNCHANGED <<scene, sent, ready, steady, messages>>
    BY <1>7 DEF Unarchive, Announce, SendPush, At
  <2>5. /\ conv'.exists = conv.exists /\ conv'.preview = conv.preview
        /\ conv'.listed = conv.listed
    BY <1>7, <2>1 DEF Unarchive, Announce, SendPush, Inv, TypeOK, Conv
  <2> QED
    BY <1>0, <2>3, <2>4, <2>5, GoOrderly
<1>8. ASSUME NEW w \in Workers PROVE ~Crash(w) /\ ~Redeliver(w)
  BY <1>0 DEF Crash, Redeliver, Fault
<1>9. ASSUME NEW j \in Jobs, Join(j) PROVE NoDelay' /\ Shown' /\ \A k \in sent' : Welcome(k)'
  <2>1. /\ \A k \in sent : ready'[k] = ready[k]
        /\ \A k \in sent' \ sent : ready'[k] > 0
    BY <1>9 DEF Join, Inv, TypeOK
  <2> QED
    BY <1>0, <1>9, <2>1, PeopleOrderly DEF Join
<1>10. ASSUME NEW p \in People, Leave(p) PROVE NoDelay' /\ Shown' /\ \A j \in sent' : Welcome(j)'
  BY <1>0, <1>10, PeopleOrderly DEF Leave
<1>11. ASSUME NEW j \in Jobs, SwitchOff(j)
       PROVE  NoDelay' /\ Shown' /\ \A k \in sent' : Welcome(k)'
  BY <1>0, <1>11, SameScene DEF SwitchOff, NoDelay, Shown, Newest, At, LastId, Welcome,
     Coming, Brings, Kept, JobOf
<1>12. ASSUME NEW p \in People, Archive(p)
       PROVE  NoDelay' /\ Shown' /\ \A k \in sent' : Welcome(k)'
  <2>1. /\ conv'.listed = conv.listed /\ conv'.exists = conv.exists
        /\ conv'.preview = conv.preview
    BY <1>12 DEF Archive, Inv, TypeOK, Conv
  <2> QED
    BY <1>0, <1>12, <2>1, SameScene DEF Archive, NoDelay, Shown, Newest, At, LastId, Welcome,
       Coming, Brings, Kept, JobOf
<1> QED
  BY <1>1, <1>2, <1>3, <1>4, <1>5, <1>6, <1>7, <1>8, <1>9, <1>10, <1>11,
     <1>12 DEF Next, Deliver

\* When all is done and no call failed, whoever joined and stayed is listed,
\* and the preview shows the newest line, unless a run saved what another had
\* saved since it read: for any people, jobs, workers and scenarios.
THEOREM ListedAndShown == Spec => []ChatListRight
<1>1. Inv /\ Orderly => ChatListRight
  <2> SUFFICES ASSUME Inv, Orderly, Quiet, faults = 0, ~raced
               PROVE  /\ \A j \in sent \intersect Joins(scene) :
                           (Work(j).valid /\ Allowed(j) /\ Work(j).actor \in steady[j]) =>
                             Work(j).actor \in conv.listed
                      /\ (conv.exists /\ messages # {}) => conv.preview = LastId
    BY DEF ChatListRight, LastId
  <2>1. \A w \in Workers : worker[w].pc = "idle"
    BY DEF Quiet, At
  <2>2. (conv.exists /\ messages # {}) => conv.preview = LastId
    BY <2>1 DEF Orderly, Shown, Newest, At
  <2>3. ASSUME NEW j \in sent \intersect Joins(scene), Work(j).valid, Allowed(j),
               Work(j).actor \in steady[j]
        PROVE  Work(j).actor \in conv.listed
    <3>1. Counting(j) /\ Welcome(j)
      BY <2>3 DEF Orderly, Counting, Joins, Notice, Realm, Work
    <3>2. ~Coming(j)
      <4>1. ready[j] = 0
        BY <2>3 DEF Quiet, Joins
      <4> QED
        BY <2>1, <4>1 DEF Coming, Brings
    <3> QED
      BY <2>3, <3>1, <3>2 DEF Welcome, Kept
  <2> QED
    BY <2>2, <2>3
<1> QED
  BY <1>1, InvInit, InvStep, LinesInit, LinesStep, OrderlyInit, OrderlyStep, PTL DEF Spec
=============================================================================
