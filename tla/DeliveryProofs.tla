--------------------------- MODULE DeliveryProofs ---------------------------
(***************************************************************************)
(* For every set of messages, worker count, prefetch and number of         *)
(* connections: Delivery is type correct, loses no message silently, keeps *)
(* exactly one holder per unacked message, never resurrects a settled one, *)
(* and implements QueueContract.                                           *)
(***************************************************************************)
EXTENDS Delivery, TLAPS

USE DeliveryAssumption

\* A requeue (loss of the connection) leaves every message in a legal place.
LEMMA RequeueType ==
  ASSUME TypeOK, Requeue
  PROVE  /\ status' \in [Msgs -> {"unsent", "ready", "unacked", "gone"}]
         /\ flagged' \in SUBSET Msgs
BY DEF TypeOK, Requeue, Unacked

\* Every step keeps every variable within its type.
LEMMA TypeStep == TypeOK /\ [Next]_vars => TypeOK'
<1> SUFFICES ASSUME TypeOK, [Next]_vars PROVE TypeOK'
  OBVIOUS
<1> USE DEF TypeOK, Conns, Slots, Delivery, Outcome, SupStates, broker, client, history
<1>1. ASSUME NEW m \in Msgs, Publish(m) PROVE TypeOK'
  BY <1>1 DEF Publish
<1>2. ASSUME NEW m \in Msgs, Push(m) PROVE TypeOK'
  <2>1. [msg |-> m, redelivered |-> m \in flagged] \in Delivery
    OBVIOUS
  <2>2. buffer' \in [Conns -> SUBSET Delivery]
    BY <1>2, <2>1 DEF Push
  <2> QED
    BY <1>2, <2>2 DEF Push
<1>3. ASSUME NEW s \in Slots, Take(s) PROVE TypeOK'
  BY <1>3 DEF Take
<1>4. ASSUME NEW s \in Slots, NEW o \in Outcome, Return(s, o) PROVE TypeOK'
  <2>1. job[s].msg \in Msgs
    BY <1>4 DEF Return
  <2>2. tried' \in [Msgs -> SUBSET Outcome]
    BY <1>4, <2>1 DEF Return
  <2>3. failures' \in [Msgs -> 0..FailureCap]
    <3> DEFINE m == job[s].msg
    <3>1. failures \in [Msgs -> 0..2] /\ m \in Msgs
      BY <2>1 DEF FailureCap
    <3>2. CASE o = "error" /\ failures[m] < 2
      <4>1. failures' = [failures EXCEPT ![m] = failures[m] + 1]
        BY <1>4, <3>2 DEF Return, FailureCap
      <4>2. failures[m] + 1 \in 0..2
        <5> HIDE DEF m, TypeOK, Outcome
        <5>1. failures[m] \in 0..2 /\ failures[m] < 2
          BY <3>1, <3>2
        <5> QED
          BY <5>1
      <4> QED
        BY <3>1, <4>1, <4>2 DEF FailureCap
    <3>3. CASE ~(o = "error" /\ failures[m] < 2)
      BY <1>4, <3>3 DEF Return, FailureCap
    <3> QED
      BY <3>2, <3>3
  <2> QED
    BY <1>4, <2>2, <2>3 DEF Return
<1>5. ASSUME NEW s \in Slots, Settle(s) PROVE TypeOK'
  <2>1. job[s].msg \in Msgs
    BY <1>5 DEF Settle
  <2>2. status' \in [Msgs -> {"unsent", "ready", "unacked", "gone"}]
    <3> HIDE DEF Outcome, Slots, Delivery
    <3> QED
      BY <1>5, <2>1 DEF Settle
  <2>3. flagged' \in SUBSET Msgs
    BY <1>5, <2>1 DEF Settle
  <2>4. /\ job' \in [Slots -> Delivery \union {Idle}]
        /\ out' \in [Slots -> Outcome \union {Unsettled, Hung}]
    BY <1>5 DEF Settle
  <2>5. UNCHANGED <<gen, link, sup, buffer, alive, history>>
    BY <1>5 DEF Settle
  <2> QED
    BY <2>2, <2>3, <2>4, <2>5
<1>6. ASSUME NEW s \in Slots, Retire(s) \/ Hang(s) PROVE TypeOK'
  BY <1>6 DEF Retire, Hang
<1>7. ASSUME NEW g \in Conns, CloseDeliveries(g) PROVE TypeOK'
  BY <1>7 DEF CloseDeliveries
<1>8. CASE LoseConnection \/ LoseChannel
  BY <1>8, RequeueType DEF LoseConnection, LoseChannel
<1>9. CASE Boot \/ Redial
  BY <1>9 DEF Boot, Redial, Attach, MoreConns
<1>10. CASE AttachFails
  BY <1>10, RequeueType DEF AttachFails
<1>11. CASE Attached \/ NoticeLoss \/ Waited \/ BeginClose
  BY <1>11 DEF Attached, NoticeLoss, Waited, BeginClose
<1>12. CASE Stop \/ Crash
  BY <1>12, RequeueType DEF Stop, Crash, Exit
<1>13. CASE UNCHANGED vars
  BY <1>13 DEF vars
<1> QED
  BY <1>1, <1>2, <1>3, <1>4, <1>5, <1>6, <1>7, <1>8, <1>9, <1>10, <1>11,
     <1>12, <1>13 DEF Next, WorkerStep

\* Delivery is type correct.
THEOREM TypeCorrect == Spec => []TypeOK
<1>1. Init => TypeOK
  BY DEF Init, TypeOK, Conns, Slots, Delivery, Outcome, Unsettled, Hung, SupStates, FailureCap
<1> QED
  BY <1>1, TypeStep, PTL DEF Spec

-----------------------------------------------------------------------------
\* A requeue takes no message out of the queue and forgets no flag.
LEMMA RequeueKeeps ==
  ASSUME TypeOK, Requeue
  PROVE  /\ flagged \subseteq flagged'
         /\ \A m \in Msgs : status'[m] = "gone" => status[m] = "gone"
         /\ \A m \in Msgs : status[m] = "gone" => status'[m] = "gone"
BY DEF TypeOK, Requeue, Unacked

\* An unsettled outcome or a redelivered mark always rests on what happened.
LEMMA EvidenceStep == TypeOK /\ Evidence /\ [Next]_vars => Evidence'
<1> SUFFICES ASSUME TypeOK, Evidence, [Next]_vars PROVE Evidence'
  OBVIOUS
<1> USE DEF TypeOK, Evidence, Conns, Slots, Delivery, Outcome, Unsettled, Hung, broker, client, history
<1>1. ASSUME NEW m \in Msgs, Publish(m) PROVE Evidence'
  BY <1>1 DEF Publish
<1>2. ASSUME NEW m \in Msgs, Push(m) PROVE Evidence'
  <2> DEFINE new == [msg |-> m, redelivered |-> m \in flagged]
  <2>1. new.msg = m /\ (new.redelivered <=> m \in flagged)
    OBVIOUS
  <2>2. ASSUME NEW g \in Conns, NEW d \in buffer'[g]
        PROVE  d \in buffer[g] \/ d = new
    BY <1>2 DEF Push
  <2>3. \A g \in Conns : \A d \in buffer'[g] : d.redelivered => d.msg \in flagged
    BY <2>1, <2>2
  <2> HIDE DEF new
  <2> QED
    BY <1>2, <2>3 DEF Push
<1>3. ASSUME NEW s \in Slots, Take(s) PROVE Evidence'
  <2>1. PICK d \in buffer[s[1]] :
          /\ job' = [job EXCEPT ![s] = d]
          /\ buffer' = [buffer EXCEPT ![s[1]] = @ \ {d}]
    BY <1>3 DEF Take
  <2> QED
    BY <1>3, <2>1 DEF Take
<1>4. ASSUME NEW s \in Slots, NEW o \in Outcome, Return(s, o) PROVE Evidence'
  <2>1. /\ \A m \in Msgs : tried[m] \subseteq tried'[m]
        /\ o \in tried'[job[s].msg]
    BY <1>4 DEF Return
  <2>2. ASSUME NEW t \in Slots, job[t] # Idle, out'[t] \in Outcome
        PROVE  out'[t] \in tried'[job[t].msg]
    BY <1>4, <2>1, <2>2 DEF Return
  <2> QED
    BY <1>4, <2>2 DEF Return
<1>5. ASSUME NEW s \in Slots, Settle(s) PROVE Evidence'
  <2>1. flagged \subseteq flagged'
    BY <1>5 DEF Settle
  <2> QED
    BY <1>5, <2>1 DEF Settle
<1>6. ASSUME NEW s \in Slots, Retire(s) \/ Hang(s) PROVE Evidence'
  <2>1. CASE Retire(s)
    BY <2>1 DEF Retire
  <2>2. CASE Hang(s)
    <3>1. \A t \in Slots : out'[t] \in Outcome => out[t] = out'[t]
      BY <2>2 DEF Hang
    <3>2. UNCHANGED <<flagged, buffer, job, tried>> /\ job[s] # Idle
      BY <2>2 DEF Hang
    <3>3. \A t \in Slots : job[t] = Idle => out'[t] = Unsettled
      BY <2>2 DEF Hang
    <3> HIDE DEF TypeOK, Conns, Slots, Delivery, Outcome, Unsettled, Hung
    <3> QED
      BY <3>1, <3>2, <3>3
  <2> QED
    BY <1>6, <2>1, <2>2
<1>7. ASSUME NEW g \in Conns, CloseDeliveries(g) PROVE Evidence'
  BY <1>7 DEF CloseDeliveries
<1>8. CASE LoseConnection \/ LoseChannel
  BY <1>8, RequeueKeeps DEF LoseConnection, LoseChannel
<1>9. CASE Boot \/ Redial
  BY <1>9 DEF Boot, Redial, Attach
<1>10. CASE AttachFails
  BY <1>10, RequeueKeeps DEF AttachFails
<1>11. CASE Attached \/ NoticeLoss \/ Waited \/ BeginClose
  BY <1>11 DEF Attached, NoticeLoss, Waited, BeginClose
<1>12. CASE Stop \/ Crash
  BY <1>12 DEF Stop, Crash, Exit
<1>13. CASE UNCHANGED vars
  BY <1>13 DEF vars
<1> QED
  BY <1>1, <1>2, <1>3, <1>4, <1>5, <1>6, <1>7, <1>8, <1>9, <1>10, <1>11,
     <1>12, <1>13 DEF Next, WorkerStep

\* Only a settlement takes a message out, and it has its evidence.
LEMMA NoSilentLossStep ==
  TypeOK /\ Evidence /\ NoSilentLoss /\ [Next]_vars => NoSilentLoss'
<1> SUFFICES ASSUME TypeOK, Evidence, NoSilentLoss, [Next]_vars
             PROVE  NoSilentLoss'
  OBVIOUS
<1> USE DEF TypeOK, NoSilentLoss, Conns, Slots, Delivery, Outcome, Unsettled, Hung, broker, client, history
<1>1. ASSUME NEW m \in Msgs, Publish(m) \/ Push(m) PROVE NoSilentLoss'
  BY <1>1 DEF Publish, Push
<1>2. ASSUME NEW s \in Slots, Take(s) \/ Retire(s) \/ Hang(s) PROVE NoSilentLoss'
  BY <1>2 DEF Take, Retire, Hang
<1>3. ASSUME NEW s \in Slots, NEW o \in Outcome, Return(s, o) PROVE NoSilentLoss'
  <2>1. \A m \in Msgs : tried[m] \subseteq tried'[m]
    BY <1>3 DEF Return
  <2> QED
    BY <1>3, <2>1 DEF Return
<1>4. ASSUME NEW s \in Slots, Settle(s) PROVE NoSilentLoss'
  <2> DEFINE n == job[s].msg
  <2>1. n \in Msgs /\ out[s] \in tried[n] /\ out[s] \in Outcome
    BY <1>4 DEF Settle, Evidence
  <2>2. job[s].redelivered => n \in flagged
    BY <1>4 DEF Settle, Evidence
  <2>3. flagged \subseteq flagged' /\ UNCHANGED tried
    BY <1>4 DEF Settle
  <2>4. ASSUME NEW m \in Msgs, status'[m] = "gone", status[m] # "gone"
        PROVE  m = n /\ Acks(job[s], out[s])
    BY <1>4, <2>4 DEF Settle
  <2> HIDE DEF n, Conns, Slots, Delivery
  <2> QED
    BY <2>1, <2>2, <2>3, <2>4 DEF Acks
<1>5. ASSUME NEW g \in Conns, CloseDeliveries(g) PROVE NoSilentLoss'
  BY <1>5 DEF CloseDeliveries
<1>6. CASE LoseConnection \/ LoseChannel \/ AttachFails \/ Stop \/ Crash
  BY <1>6, RequeueKeeps DEF LoseConnection, LoseChannel, AttachFails, Stop, Crash, Exit
<1>7. CASE Boot \/ Redial \/ Attached \/ NoticeLoss \/ Waited \/ BeginClose
  BY <1>7 DEF Boot, Redial, Attach, Attached, NoticeLoss, Waited, BeginClose
<1>8. CASE UNCHANGED vars
  BY <1>8 DEF vars
<1> QED
  BY <1>1, <1>2, <1>3, <1>4, <1>5, <1>6, <1>7, <1>8 DEF Next, WorkerStep

\* No message leaves the queue unless a handler run justified it.
THEOREM NothingLostSilently == Spec => []NoSilentLoss
<1>1. Init => Evidence /\ NoSilentLoss
  BY DEF Init, Evidence, NoSilentLoss, Conns, Slots
<1> QED
  BY <1>1, TypeCorrect, EvidenceStep, NoSilentLossStep, PTL DEF Spec

-----------------------------------------------------------------------------
\* Generations start in order, and only their running workers hold anything.
LEMMA GenerationsStep == TypeOK /\ Generations /\ [Next]_vars => Generations'
<1> SUFFICES ASSUME TypeOK, Generations, [Next]_vars PROVE Generations'
  OBVIOUS
<1> USE DEF TypeOK, Generations, Conns, Slots, broker, client, history
<1>1. ASSUME NEW m \in Msgs, Publish(m) PROVE Generations'
  BY <1>1 DEF Publish
<1>2. ASSUME NEW m \in Msgs, Push(m) PROVE Generations'
  BY <1>2 DEF Push, Subscribed
<1>3. ASSUME NEW s \in Slots, Take(s) PROVE Generations'
  BY <1>3 DEF Take
<1>4. ASSUME NEW s \in Slots, NEW o \in Outcome, Return(s, o) PROVE Generations'
  BY <1>4 DEF Return
<1>5. ASSUME NEW s \in Slots, Settle(s) PROVE Generations'
  BY <1>5 DEF Settle
<1>6. ASSUME NEW s \in Slots, Retire(s) \/ Hang(s) PROVE Generations'
  BY <1>6 DEF Retire, Hang, Live
<1>7. ASSUME NEW g \in Conns, CloseDeliveries(g) PROVE Generations'
  BY <1>7 DEF CloseDeliveries, Live
<1>8. CASE LoseConnection \/ LoseChannel \/ AttachFails
  BY <1>8 DEF LoseConnection, LoseChannel, AttachFails
<1>9. CASE Boot \/ Redial
  <2> DEFINE new == {gen + 1} \X (1..Workers)
  <2>1. /\ gen' = gen + 1 /\ gen + 1 \in Conns
        /\ sup' \in {"starting", "attaching"}
        /\ alive' = alive \union new
        /\ UNCHANGED <<buffer, job>>
    BY <1>9 DEF Boot, Redial, Attach, MoreConns
  <2>2. /\ \A s \in new : s[1] = gen + 1
        /\ \A w \in 1..Workers : <<gen + 1, w>> \in new
    OBVIOUS
  <2> HIDE DEF new
  <2> QED
    BY <2>1, <2>2
<1>10. CASE Attached \/ NoticeLoss \/ Waited \/ BeginClose
  BY <1>10 DEF Attached, NoticeLoss, Waited, BeginClose
<1>11. CASE Stop \/ Crash
  BY <1>11 DEF Stop, Crash, Exit
<1>12. CASE UNCHANGED vars
  BY <1>12 DEF vars
<1> QED
  BY <1>1, <1>2, <1>3, <1>4, <1>5, <1>6, <1>7, <1>8, <1>9, <1>10, <1>11,
     <1>12 DEF Next, WorkerStep

\* When the connection goes, nothing is held and nothing is unacked.
LEMMA NothingHeld ==
  ASSUME TypeOK, Requeue, link' # "up"
  PROVE  OneHolder'
<1>1. LiveBuffer' = {} /\ LiveJobs' = {}
  BY DEF LiveBuffer, LiveJobs, Live
<1>2. \A m \in Msgs : status'[m] # "unacked"
  BY DEF TypeOK, Requeue, Unacked
<1> QED
  BY <1>1, <1>2 DEF OneHolder

\* Every step keeps exactly one holder per unacked message.
LEMMA OneHolderStep ==
  TypeOK /\ Evidence /\ Generations /\ OneHolder /\ [Next]_vars => OneHolder'
<1> SUFFICES ASSUME TypeOK, Evidence, Generations, OneHolder, [Next]_vars
             PROVE  OneHolder'
  OBVIOUS
<1> USE DEF TypeOK, Conns, Slots, Delivery, broker, client, history
<1>0. \A s \in LiveJobs : job[s] \in Delivery /\ job[s].msg \in Msgs
  BY DEF LiveJobs
<1>1. ASSUME NEW m \in Msgs, Publish(m) PROVE OneHolder'
  <2>1. LiveBuffer' = LiveBuffer /\ LiveJobs' = LiveJobs
    BY <1>1 DEF Publish, LiveBuffer, LiveJobs, Live
  <2> QED
    BY <1>1, <2>1 DEF Publish, OneHolder
<1>2. ASSUME NEW m \in Msgs, Push(m) PROVE OneHolder'
  <2> DEFINE new == [msg |-> m, redelivered |-> m \in flagged]
  <2>1. link = "up" /\ gen \in 1..MaxConns
    BY <1>2 DEF Push, Subscribed, Generations
  <2>2. LiveBuffer' = LiveBuffer \union {new} /\ LiveJobs' = LiveJobs
    BY <1>2, <2>1 DEF Push, LiveBuffer, LiveJobs, Live
  <2>3. new.msg = m
    OBVIOUS
  <2>4. /\ \A d \in LiveBuffer : d.msg # m
        /\ \A s \in LiveJobs : job[s].msg # m
    BY <1>2 DEF Push, OneHolder
  <2>5. /\ status'[m] = "unacked"
        /\ \A n \in Msgs : n # m => status'[n] = status[n]
        /\ job' = job
    BY <1>2 DEF Push
  <2>6. \A d \in LiveBuffer : d.msg \in Msgs
    BY <2>1 DEF LiveBuffer
  <2> HIDE DEF new
  <2> HIDE DEF TypeOK, Conns, Slots, Delivery
  <2> QED
    BY <2>2, <2>3, <2>4, <2>5, <2>6, <1>0 DEF OneHolder
<1>3. ASSUME NEW s \in Slots, Take(s) PROVE OneHolder'
  <2>1. PICK d \in buffer[s[1]] :
          /\ job' = [job EXCEPT ![s] = d]
          /\ buffer' = [buffer EXCEPT ![s[1]] = @ \ {d}]
    BY <1>3 DEF Take
  <2>2. /\ s[1] \in Conns /\ d \in Delivery /\ d # Idle /\ job[s] = Idle
        /\ UNCHANGED <<status, link, gen>>
    BY <1>3, <2>1 DEF Take
  <2>3. CASE Live(s[1])
    <3>1. /\ LiveBuffer' = LiveBuffer \ {d} /\ d \in LiveBuffer
          /\ LiveJobs' = LiveJobs \union {s} /\ s \notin LiveJobs
      BY <2>1, <2>2, <2>3 DEF LiveBuffer, LiveJobs, Live
    <3>2. /\ job'[s] = d
          /\ \A t \in LiveJobs : job'[t] = job[t]
      BY <2>1, <2>2, <3>1 DEF LiveJobs
    <3> HIDE DEF TypeOK, Conns, Slots, Delivery
    <3> QED
      BY <2>2, <3>1, <3>2 DEF OneHolder
  <2>4. CASE ~Live(s[1])
    <3>1. LiveBuffer' = LiveBuffer /\ LiveJobs' = LiveJobs
      BY <2>1, <2>2, <2>4 DEF LiveBuffer, LiveJobs, Live, Generations
    <3>2. \A t \in LiveJobs : job'[t] = job[t]
      BY <2>1, <2>2 DEF LiveJobs
    <3> HIDE DEF TypeOK, Conns, Slots, Delivery
    <3> QED
      BY <2>2, <3>1, <3>2 DEF OneHolder
  <2> QED
    BY <2>3, <2>4
<1>4. ASSUME NEW s \in Slots, NEW o \in Outcome, Return(s, o) PROVE OneHolder'
  <2>1. LiveBuffer' = LiveBuffer /\ LiveJobs' = LiveJobs
    BY <1>4 DEF Return, LiveBuffer, LiveJobs, Live
  <2> QED
    BY <1>4, <2>1 DEF Return, OneHolder
<1>5. ASSUME NEW s \in Slots, Settle(s) PROVE OneHolder'
  <2>1. /\ LiveBuffer' = LiveBuffer
        /\ LiveJobs' = LiveJobs \ {s}
    BY <1>5 DEF Settle, LiveBuffer, LiveJobs, Live
  <2>2. \A t \in LiveJobs' : job'[t] = job[t]
    BY <1>5, <2>1 DEF Settle, LiveJobs
  <2>3. CASE Live(s[1])
    <3> DEFINE n == job[s].msg
    <3>1. s \in LiveJobs /\ n \in Msgs
      BY <1>5, <2>3 DEF Settle, LiveJobs
    <3>2. /\ status'[n] # "unacked"
          /\ \A m \in Msgs : m # n => status'[m] = status[m]
      BY <1>5, <2>3, <3>1 DEF Settle
    <3>3. /\ \A d \in LiveBuffer : d.msg # n /\ d.msg \in Msgs
          /\ \A t \in LiveJobs' : job[t].msg # n
      BY <2>1, <3>1 DEF OneHolder, LiveBuffer, Generations
    <3> HIDE DEF n
    <3>4. n = job[s].msg
      BY DEF n
    <3> HIDE DEF TypeOK, Conns, Slots, Delivery
    <3> QED
      BY <1>0, <2>1, <2>2, <3>1, <3>2, <3>3, <3>4 DEF OneHolder
  <2>4. CASE ~Live(s[1])
    <3>1. s \notin LiveJobs /\ status' = status
      BY <1>5, <2>4 DEF Settle, LiveJobs
    <3> HIDE DEF TypeOK, Conns, Slots, Delivery
    <3> QED
      BY <2>1, <2>2, <3>1 DEF OneHolder
  <2> QED
    BY <2>3, <2>4
<1>6. ASSUME NEW s \in Slots, Retire(s) \/ Hang(s) PROVE OneHolder'
  <2>1. LiveBuffer' = LiveBuffer /\ LiveJobs' = LiveJobs
    BY <1>6 DEF Retire, Hang, LiveBuffer, LiveJobs, Live
  <2>2. UNCHANGED <<status, job>>
    BY <1>6 DEF Retire, Hang
  <2> HIDE DEF TypeOK, Conns, Slots, Delivery
  <2> QED
    BY <2>1, <2>2 DEF OneHolder
<1>7. ASSUME NEW g \in Conns, CloseDeliveries(g) PROVE OneHolder'
  <2>1. LiveBuffer' = LiveBuffer /\ LiveJobs' = LiveJobs
    BY <1>7 DEF CloseDeliveries, LiveBuffer, LiveJobs, Live, Generations
  <2> QED
    BY <1>7, <2>1 DEF CloseDeliveries, OneHolder
<1>8. CASE LoseConnection \/ LoseChannel \/ AttachFails \/ Stop \/ Crash
  BY <1>8, NothingHeld DEF LoseConnection, LoseChannel, AttachFails, Stop, Crash, Exit
<1>9. CASE Boot \/ Redial
  <2>1. link = "down"
    BY <1>9 DEF Boot, Redial, Generations
  <2>2. LiveBuffer = {} /\ LiveJobs = {}
    BY <2>1 DEF LiveBuffer, LiveJobs, Live
  <2>3. \A m \in Msgs : status[m] # "unacked"
    BY <2>2 DEF OneHolder
  <2>4. /\ gen' = gen + 1 /\ link' = "up" /\ gen + 1 \in Conns
        /\ UNCHANGED <<status, buffer, job>>
    BY <1>9 DEF Boot, Redial, Attach, MoreConns
  <2>5. LiveBuffer' = {} /\ LiveJobs' = {}
    BY <2>4 DEF LiveBuffer, LiveJobs, Live, Generations
  <2> QED
    BY <2>3, <2>4, <2>5 DEF OneHolder
<1>10. CASE Attached \/ NoticeLoss \/ Waited \/ BeginClose
  <2>1. LiveBuffer' = LiveBuffer /\ LiveJobs' = LiveJobs
    BY <1>10 DEF Attached, NoticeLoss, Waited, BeginClose, LiveBuffer, LiveJobs, Live
  <2> HIDE DEF TypeOK, Conns, Slots, Delivery
  <2> QED
    BY <1>10, <2>1 DEF Attached, NoticeLoss, Waited, BeginClose, OneHolder
<1>11. CASE UNCHANGED vars
  <2>1. LiveBuffer' = LiveBuffer /\ LiveJobs' = LiveJobs
    BY <1>11 DEF vars, LiveBuffer, LiveJobs, Live
  <2> QED
    BY <1>11, <2>1 DEF vars, OneHolder
<1> QED
  BY <1>1, <1>2, <1>3, <1>4, <1>5, <1>6, <1>7, <1>8, <1>9, <1>10, <1>11
     DEF Next, WorkerStep

\* No step unpublishes a message or takes hold of an unpublished one.
LEMMA PublishedStep == TypeOK /\ Published /\ [Next]_vars => Published'
<1> SUFFICES ASSUME TypeOK, Published, [Next]_vars PROVE Published'
  OBVIOUS
<1> USE DEF TypeOK, Conns, Slots, Delivery, broker, client, history
<1>0. /\ \A s \in Slots : job[s] # Idle => job[s].msg \in Msgs
      /\ \A g \in Conns : \A d \in buffer[g] : d.msg \in Msgs
  OBVIOUS
<1>1. \A m \in Msgs : status[m] # "unsent" => status'[m] # "unsent"
  <2>1. ASSUME NEW s \in Slots, WorkerStep(s) \/ Hang(s)
        PROVE  \A m \in Msgs : status[m] # "unsent" => status'[m] # "unsent"
    BY <2>1 DEF WorkerStep, Take, Return, Settle, Retire, Hang
  <2>2. ASSUME Requeue
        PROVE  \A m \in Msgs : status[m] # "unsent" => status'[m] # "unsent"
    BY <2>2 DEF Requeue
  <2> QED
    BY <2>1, <2>2 DEF Next, Publish, Push, CloseDeliveries, LoseConnection, LoseChannel, Boot, Redial, Attach,
       Attached, AttachFails, NoticeLoss, Waited, BeginClose, Stop, Crash, Exit, vars
<1>2. ASSUME NEW m \in Msgs, Push(m) PROVE Published'
  <2> DEFINE new == [msg |-> m, redelivered |-> m \in flagged]
  <2>1. new.msg = m
    OBVIOUS
  <2>2. ASSUME NEW g \in Conns, NEW d \in buffer'[g]
        PROVE  d \in buffer[g] \/ d = new
    BY <1>2 DEF Push
  <2>3. job' = job /\ status'[m] = "unacked"
    BY <1>2 DEF Push
  <2> HIDE DEF new, TypeOK
  <2> QED
    BY <1>0, <1>1, <2>1, <2>2, <2>3 DEF Published
<1>3. ASSUME NEW s \in Slots, Take(s) PROVE Published'
  <2>1. PICK d \in buffer[s[1]] :
          /\ job' = [job EXCEPT ![s] = d]
          /\ buffer' = [buffer EXCEPT ![s[1]] = @ \ {d}]
    BY <1>3 DEF Take
  <2>2. status' = status
    BY <1>3 DEF Take
  <2> QED
    BY <2>1, <2>2 DEF Published
<1>4. CASE /\ \A s \in Slots : job'[s] # Idle => job'[s] = job[s]
           /\ \A g \in Conns : buffer'[g] \subseteq buffer[g]
  <2> HIDE DEF TypeOK
  <2> QED
    BY <1>0, <1>1, <1>4 DEF Published
<1>5. ASSUME NEW s \in Slots,
             Settle(s) \/ Retire(s) \/ Hang(s) \/ \E o \in Outcome : Return(s, o)
      PROVE  Published'
  BY <1>4, <1>5 DEF Return, Settle, Retire, Hang
<1>6. ASSUME NEW g \in Conns, CloseDeliveries(g) PROVE Published'
  BY <1>4, <1>6 DEF CloseDeliveries
<1>7. CASE Stop \/ Crash
  BY <1>4, <1>7 DEF Stop, Crash, Exit
<1>8. ASSUME NEW m \in Msgs, Publish(m) PROVE Published'
  BY <1>4, <1>8 DEF Publish
<1>9. CASE UNCHANGED <<job, buffer>>
  BY <1>4, <1>9
<1> QED
  BY <1>2, <1>3, <1>5, <1>6, <1>7, <1>8, <1>9
     DEF Next, WorkerStep, LoseConnection, LoseChannel, Boot, Redial, Attach, Attached,
         AttachFails, NoticeLoss, Waited, BeginClose, vars

\* The inductive invariant.
LEMMA Inductive == Spec => []IInv
<1>1. Init => IInv
  <2> SUFFICES ASSUME Init PROVE IInv
    OBVIOUS
  <2>1. TypeOK
    BY DEF Init, TypeOK, Conns, Slots, Delivery, Outcome, Unsettled, Hung, SupStates, FailureCap
  <2>2. Evidence /\ NoSilentLoss
    BY DEF Init, Evidence, NoSilentLoss, Conns, Slots
  <2>3. Generations
    BY DEF Init, Generations, Conns, Slots
  <2>4. OneHolder
    BY DEF Init, OneHolder, LiveBuffer, LiveJobs, Live
  <2>5. Published
    BY DEF Init, Published, Conns, Slots
  <2> QED
    BY <2>1, <2>2, <2>3, <2>4, <2>5 DEF IInv
<1>2. IInv /\ [Next]_vars => IInv'
  BY TypeStep, EvidenceStep, GenerationsStep, PublishedStep, OneHolderStep,
     NoSilentLossStep
     DEF IInv
<1> QED
  BY <1>1, <1>2, PTL DEF Spec

\* Unacked messages and the deliveries the process holds correspond one to one.
THEOREM ExactlyOneHolder == Spec => []OneHolder
BY Inductive, PTL DEF IInv

\* A drained shutdown leaves nothing for the broker to redeliver.
THEOREM DrainIsClean == Spec => []CleanDrain
<1>1. IInv => CleanDrain
  <2> SUFFICES ASSUME IInv, sup = "closing", alive = {} PROVE Unacked = {}
    BY DEF CleanDrain
  <2>1. LiveJobs = {}
    BY DEF IInv, Generations, LiveJobs
  <2>2. LiveBuffer = {}
    <3>1. CASE link = "up" /\ buffer[gen] # {}
      <4>1. <<gen, 1>> \in alive
        BY <3>1 DEF IInv, Generations
      <4> QED
        BY <4>1
    <3> QED
      BY <3>1 DEF LiveBuffer
  <2> QED
    BY <2>1, <2>2 DEF IInv, OneHolder, Unacked
<1> QED
  BY <1>1, Inductive, PTL

-----------------------------------------------------------------------------
\* Who settles a message on the live connection holds it, so it is unacked.
LEMMA SettlesUnacked ==
  ASSUME IInv, NEW s \in Slots, Settle(s), Live(s[1])
  PROVE  job[s].msg \in Msgs /\ status[job[s].msg] = "unacked"
BY DEF IInv, TypeOK, OneHolder, LiveJobs, Settle, Delivery

\* One step never brings a settled message back.
LEMMA GoneStep ==
  ASSUME IInv, [Next]_vars, NEW m \in Msgs, status[m] = "gone"
  PROVE  status'[m] = "gone"
<1> USE DEF IInv, TypeOK, broker, client, history
<1>1. ASSUME NEW n \in Msgs, Publish(n) \/ Push(n) PROVE status'[m] = "gone"
  BY <1>1 DEF Publish, Push
<1>2. ASSUME NEW s \in Slots, WorkerStep(s) \/ Hang(s) PROVE status'[m] = "gone"
  <2>1. CASE Settle(s)
    BY <2>1, SettlesUnacked DEF Settle
  <2> QED
    BY <1>2, <2>1 DEF WorkerStep, Take, Return, Retire, Hang
<1>3. ASSUME NEW g \in Conns, CloseDeliveries(g) PROVE status'[m] = "gone"
  BY <1>3 DEF CloseDeliveries
<1>4. CASE LoseConnection \/ LoseChannel \/ AttachFails \/ Stop \/ Crash
  BY <1>4, RequeueKeeps DEF LoseConnection, LoseChannel, AttachFails, Stop, Crash, Exit
<1>5. CASE Boot \/ Redial \/ Attached \/ NoticeLoss \/ Waited \/ BeginClose
  BY <1>5 DEF Boot, Redial, Attach, Attached, NoticeLoss, Waited, BeginClose
<1>6. CASE UNCHANGED vars
  BY <1>6 DEF vars
<1> QED
  BY <1>1, <1>2, <1>3, <1>4, <1>5, <1>6 DEF Next

\* A settled message stays out of the queue, whatever happens to connections.
THEOREM SettledForGood == Spec => GoneForever
<1>1. IInv /\ [Next]_vars
        => [\A m \in Msgs : status[m] = "gone" => status'[m] = "gone"]_vars
  BY GoneStep
<1> QED
  BY <1>1, Inductive, PTL DEF Spec, GoneForever

-----------------------------------------------------------------------------
\* On the live connection a delivery carries its message's flag.
Marked ==
  /\ \A d \in LiveBuffer : d.msg \in flagged => d.redelivered
  /\ \A s \in LiveJobs : job[s].msg \in flagged => job[s].redelivered

\* A step that leaves the flags and the deliveries of the live connection alone.
LEMMA MarkedStays ==
  ASSUME Marked, flagged' = flagged, LiveBuffer' \subseteq LiveBuffer,
         LiveJobs' \subseteq LiveJobs, \A s \in LiveJobs' : job'[s] = job[s]
  PROVE  Marked'
BY DEF Marked

\* Without a connection there is nothing to carry flags.
LEMMA MarkedDown ==
  ASSUME link' # "up"
  PROVE  Marked'
BY DEF Marked, LiveBuffer, LiveJobs, Live

LEMMA MarkedStep == IInv /\ Marked /\ [Next]_vars => Marked'
<1> SUFFICES ASSUME IInv, Marked, [Next]_vars PROVE Marked'
  OBVIOUS
<1>0. TypeOK /\ Generations /\ OneHolder
  BY DEF IInv
<1> USE DEF broker, client, history
<1>1. ASSUME NEW m \in Msgs, Publish(m) PROVE Marked'
  BY <1>1, MarkedStays DEF Publish, LiveBuffer, LiveJobs, Live
<1>2. ASSUME NEW m \in Msgs, Push(m) PROVE Marked'
  <2> DEFINE new == [msg |-> m, redelivered |-> m \in flagged]
  <2>1. link = "up" /\ gen \in Conns
    BY <1>0, <1>2 DEF Push, Subscribed, Generations
  <2>2. LiveBuffer' = LiveBuffer \union {new} /\ LiveJobs' = LiveJobs
    BY <1>0, <1>2, <2>1 DEF Push, LiveBuffer, LiveJobs, Live, TypeOK
  <2>3. new.msg = m /\ (new.redelivered <=> m \in flagged)
    OBVIOUS
  <2>4. flagged' = flagged /\ job' = job
    BY <1>2 DEF Push
  <2> HIDE DEF new
  <2> QED
    BY <2>2, <2>3, <2>4 DEF Marked
<1>3. ASSUME NEW s \in Slots, Take(s) PROVE Marked'
  <2>1. PICK d \in buffer[s[1]] :
          /\ job' = [job EXCEPT ![s] = d]
          /\ buffer' = [buffer EXCEPT ![s[1]] = @ \ {d}]
    BY <1>3 DEF Take
  <2>2. s[1] \in Conns /\ UNCHANGED <<flagged, link, gen>> /\ job[s] = Idle
    BY <1>3 DEF Take, Slots
  <2>3. LiveBuffer' \subseteq LiveBuffer
    BY <1>0, <2>1, <2>2 DEF LiveBuffer, TypeOK, Generations
  <2>4. ASSUME NEW t \in LiveJobs', job'[t].msg \in flagged'
        PROVE  job'[t].redelivered
    <3>1. CASE t = s
      <4>1. Live(s[1]) /\ job'[s] = d
        BY <1>0, <2>1, <2>2, <3>1 DEF LiveJobs, Live, TypeOK
      <4>2. d \in LiveBuffer
        BY <2>1, <4>1 DEF LiveBuffer, Live
      <4> QED
        BY <2>2, <2>4, <3>1, <4>1, <4>2 DEF Marked
    <3>2. CASE t # s
      <4>1. t \in LiveJobs /\ job'[t] = job[t]
        BY <1>0, <2>1, <2>2, <3>2 DEF LiveJobs, Live, TypeOK
      <4> QED
        BY <2>2, <2>4, <4>1 DEF Marked
    <3> QED
      BY <3>1, <3>2
  <2> QED
    BY <2>2, <2>3, <2>4 DEF Marked
<1>4. ASSUME NEW s \in Slots, Settle(s) PROVE Marked'
  <2>1. /\ LiveBuffer' = LiveBuffer /\ LiveJobs' = LiveJobs \ {s}
        /\ \A t \in LiveJobs' : job'[t] = job[t]
    BY <1>0, <1>4 DEF Settle, LiveBuffer, LiveJobs, Live, TypeOK
  <2>2. CASE Live(s[1])
    <3>1. s \in LiveJobs /\ flagged' \subseteq flagged \union {job[s].msg}
      BY <1>4, <2>2 DEF Settle, LiveJobs
    <3>2. /\ \A d \in LiveBuffer : d.msg # job[s].msg
          /\ \A t \in LiveJobs \ {s} : job[t].msg # job[s].msg
      BY <1>0, <3>1 DEF OneHolder
    <3> QED
      BY <2>1, <3>1, <3>2 DEF Marked
  <2>3. CASE ~Live(s[1])
    BY <1>4, <2>1, <2>3, MarkedStays DEF Settle
  <2> QED
    BY <2>2, <2>3
<1>5. ASSUME NEW s \in Slots, Retire(s) \/ Hang(s) \/ \E o \in Outcome : Return(s, o) PROVE Marked'
  BY <1>5, MarkedStays DEF Return, Retire, Hang, LiveBuffer, LiveJobs, Live
<1>6. ASSUME NEW g \in Conns, CloseDeliveries(g) PROVE Marked'
  BY <1>0, <1>6, MarkedStays DEF CloseDeliveries, LiveBuffer, LiveJobs, Live, TypeOK, Generations
<1>7. CASE LoseConnection \/ LoseChannel \/ AttachFails \/ Stop \/ Crash
  BY <1>7, MarkedDown DEF LoseConnection, LoseChannel, AttachFails, Stop, Crash, Exit
<1>8. CASE Boot \/ Redial
  <2>1. /\ gen' = gen + 1 /\ link' = "up" /\ gen + 1 \in Conns
        /\ UNCHANGED <<buffer, job>>
    BY <1>0, <1>8 DEF Boot, Redial, Attach, MoreConns, TypeOK, Conns
  <2>2. LiveBuffer' = {} /\ LiveJobs' = {}
    BY <1>0, <2>1 DEF LiveBuffer, LiveJobs, Live, Generations, TypeOK, Conns, Slots
  <2> QED
    BY <2>2 DEF Marked
<1>9. CASE Attached \/ NoticeLoss \/ Waited \/ BeginClose
  BY <1>9, MarkedStays DEF Attached, NoticeLoss, Waited, BeginClose, LiveBuffer, LiveJobs, Live
<1>10. CASE UNCHANGED vars
  BY <1>10, MarkedStays DEF vars, LiveBuffer, LiveJobs, Live
<1> QED
  BY <1>1, <1>2, <1>3, <1>4, <1>5, <1>6, <1>7, <1>8, <1>9, <1>10 DEF Next, WorkerStep

\* A message goes back to its queue on a live connection only by the nack of a
\* delivery that was not marked.
LEMMA NackStep ==
  ASSUME IInv, Marked, [Next]_vars, NEW m \in Msgs, ~RetryFailures,
         status[m] = "unacked", status'[m] = "ready", link' = "up"
  PROVE  m \notin flagged
<1> USE DEF IInv, TypeOK, broker, client, history
<1>1. ASSUME NEW n \in Msgs, Publish(n) \/ Push(n) PROVE FALSE
  BY <1>1 DEF Publish, Push
<1>2. ASSUME NEW s \in Slots, Settle(s) PROVE m \notin flagged
  <2>1. Live(s[1]) /\ m = job[s].msg /\ ~Acks(job[s], out[s])
    BY <1>2 DEF Settle
  <2>2. s \in LiveJobs /\ ~job[s].redelivered
    BY <1>2, <2>1 DEF Settle, LiveJobs, Acks
  <2> QED
    BY <2>1, <2>2 DEF Marked
<1>3. ASSUME NEW s \in Slots, Take(s) \/ Retire(s) \/ Hang(s) \/ \E o \in Outcome : Return(s, o)
      PROVE  FALSE
  BY <1>3 DEF Take, Retire, Hang, Return
<1>4. ASSUME NEW g \in Conns, CloseDeliveries(g) PROVE FALSE
  BY <1>4 DEF CloseDeliveries
<1>5. CASE LoseConnection \/ LoseChannel \/ AttachFails \/ Stop \/ Crash
  BY <1>5 DEF LoseConnection, LoseChannel, AttachFails, Stop, Crash, Exit
<1>6. CASE Boot \/ Redial \/ Attached \/ NoticeLoss \/ Waited \/ BeginClose
  BY <1>6 DEF Boot, Redial, Attach, Attached, NoticeLoss, Waited, BeginClose
<1>7. CASE UNCHANGED vars
  BY <1>7 DEF vars
<1> QED
  BY <1>1, <1>2, <1>3, <1>4, <1>5, <1>6, <1>7 DEF Next, WorkerStep

\* An ordinary queue requeues a failed message once: a poison message cannot
\* spin (process).
THEOREM PoisonStops == Spec => NoPoisonSpin
<1>1. Init => Marked
  BY DEF Init, Marked, LiveBuffer, LiveJobs, Live
<1>2. IInv /\ Marked /\ [Next]_vars
        => [\A m \in Msgs :
              (/\ ~RetryFailures
               /\ status[m] = "unacked" /\ status'[m] = "ready"
               /\ link' = "up")
              => m \notin flagged]_vars
  BY NackStep
<1> QED
  BY <1>1, <1>2, Inductive, MarkedStep, PTL DEF Spec, NoPoisonSpin

-----------------------------------------------------------------------------
\* A step that changes no message's place and no history is a stutter.
LEMMA Stutter ==
  ASSUME Place' = Place, tried' = tried
  PROVE  [Contract!CNext]_(Contract!cvars)
BY DEF Contract!cvars

\* A requeue is invisible to the contract.
LEMMA RequeueStutters ==
  ASSUME TypeOK, Requeue
  PROVE  Place' = Place
BY DEF TypeOK, Requeue, Unacked, Place

\* Every step of Delivery is a step of QueueContract or leaves it alone.
LEMMA ContractStep ==
  ASSUME IInv, [Next]_vars
  PROVE  [Contract!CNext]_(Contract!cvars)
<1> USE DEF IInv, TypeOK, broker, client, history
<1>1. ASSUME NEW m \in Msgs, Publish(m) PROVE Contract!Enqueue(m)
  <2>1. tried' = tried
    BY <1>1 DEF Publish
  <2>2. Place[m] = "absent"
    BY <1>1 DEF Publish, Place
  <2>3. Place' = [Place EXCEPT ![m] = "queued"]
    BY <1>1 DEF Publish, Place
  <2> QED
    BY <2>1, <2>2, <2>3 DEF Contract!Enqueue
<1>2. ASSUME NEW m \in Msgs, Push(m) PROVE [Contract!CNext]_(Contract!cvars)
  <2>1. Place' = Place
    BY <1>2 DEF Push, Place
  <2> QED
    BY <1>2, <2>1, Stutter DEF Push
<1>3. ASSUME NEW s \in Slots, Take(s) \/ Retire(s) \/ Hang(s)
      PROVE  [Contract!CNext]_(Contract!cvars)
  BY <1>3, Stutter DEF Take, Retire, Hang, Place
<1>4. ASSUME NEW s \in Slots, NEW o \in Outcome, Return(s, o)
      PROVE  Contract!Run(job[s].msg, o) /\ job[s].msg \in Msgs
  <2>1. job[s].msg \in Msgs
    BY <1>4 DEF Return, Delivery
  <2>2. Place[job[s].msg] # "absent"
    BY <1>4, <2>1 DEF Return, Place, Published
  <2>3. Place' = Place
    BY <1>4 DEF Return, Place
  <2> QED
    BY <1>4, <2>1, <2>2, <2>3 DEF Return, Contract!Run
<1>5. ASSUME NEW s \in Slots, Settle(s) PROVE [Contract!CNext]_(Contract!cvars)
  <2> DEFINE n == job[s].msg
  <2>1. tried' = tried
    BY <1>5 DEF Settle
  <2>2. CASE Live(s[1]) /\ Acks(job[s], out[s])
    <3>1. n \in Msgs /\ status[n] = "unacked"
      BY <1>5, <2>2, SettlesUnacked
    <3>2. Place[n] = "queued" /\ Place' = [Place EXCEPT ![n] = "gone"]
      BY <1>5, <2>2, <3>1 DEF Settle, Place
    <3>3. out[s] \in tried[n] /\ out[s] \in {"ok", "drop", "error"}
      BY <1>5 DEF Settle, Evidence, Outcome
    <3>4. Contract!Justified(n)
      BY <2>2, <3>3 DEF Acks, Contract!Justified
    <3>5. Contract!Leave(n)
      BY <2>1, <3>2, <3>4 DEF Contract!Leave
    <3> QED
      BY <3>1, <3>5 DEF Contract!CNext
  <2>3. CASE Live(s[1]) /\ ~Acks(job[s], out[s])
    <3>1. n \in Msgs /\ status[n] = "unacked"
      BY <1>5, <2>3, SettlesUnacked
    <3>2. Place' = Place
      BY <1>5, <2>3, <3>1 DEF Settle, Place
    <3> QED
      BY <2>1, <3>2, Stutter
  <2>4. CASE ~Live(s[1])
    BY <1>5, <2>1, <2>4, Stutter DEF Settle, Place
  <2> QED
    BY <2>2, <2>3, <2>4
<1>6. ASSUME NEW g \in Conns, CloseDeliveries(g)
      PROVE  [Contract!CNext]_(Contract!cvars)
  BY <1>6, Stutter DEF CloseDeliveries, Place
<1>7. CASE LoseConnection \/ LoseChannel \/ AttachFails \/ Stop \/ Crash
  BY <1>7, RequeueStutters, Stutter DEF LoseConnection, LoseChannel, AttachFails, Stop, Crash, Exit
<1>8. CASE Boot \/ Redial \/ Attached \/ NoticeLoss \/ Waited \/ BeginClose
  BY <1>8, Stutter
     DEF Boot, Redial, Attach, Attached, NoticeLoss, Waited, BeginClose, Place
<1>9. CASE UNCHANGED vars
  BY <1>9, Stutter DEF vars, Place
<1>10. ASSUME NEW m \in Msgs, Publish(m) PROVE [Contract!CNext]_(Contract!cvars)
  BY <1>1, <1>10 DEF Contract!CNext
<1>11. ASSUME NEW s \in Slots, NEW o \in Outcome, Return(s, o)
       PROVE  [Contract!CNext]_(Contract!cvars)
  BY <1>4, <1>11 DEF Contract!CNext, Outcome
<1> QED
  BY <1>2, <1>3, <1>5, <1>6, <1>7, <1>8, <1>9, <1>10, <1>11
     DEF Next, WorkerStep

\* At-least-once handling: Delivery implements QueueContract.
THEOREM Implements == Spec => ImplementsContract
<1>1. Init => Contract!CInit
  BY DEF Init, Place, Contract!CInit
<1>2. IInv /\ [Next]_vars => [Contract!CNext]_(Contract!cvars)
  BY ContractStep
<1> QED
  BY <1>1, <1>2, Inductive, PTL DEF Spec, ImplementsContract, Contract!CSpec

=============================================================================
