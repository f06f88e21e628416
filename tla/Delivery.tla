------------------------------ MODULE Delivery ------------------------------
(***************************************************************************)
(* The fate of the messages of one queue consumed by this worker process:  *)
(* src/internal/services/rabbitmq/rabbitmq.go seen from a message.         *)
(*                                                                         *)
(* The broker keeps each message ready or unacked, and marks it            *)
(* redelivered when it comes back.  The process subscribes on a connection *)
(* (one generation of workers per connection), the AMQP library buffers up *)
(* to Prefetch deliveries, Workers goroutines take them from the buffer,   *)
(* run the handler and then ack or nack.  Connections are lost, the        *)
(* process crashes, closes in an orderly way, and restarts.                *)
(*                                                                         *)
(* The order of a queue is not modelled: workers compete and requeued      *)
(* messages come back, so no handler may rely on it.                       *)
(*                                                                         *)
(* Definitions introduced by "Mutant" are faulty variants of the operator  *)
(* below them; no specification uses them.                                 *)
(***************************************************************************)
EXTENDS Integers, FiniteSets

CONSTANTS
  Msgs,           \* the messages of the queue
  Workers,        \* ConsumerConfig.Workers after applyDefaults
  Prefetch,       \* ConsumerConfig.Prefetch after applyDefaults
  RetryFailures,  \* ConsumerConfig.RetryFailures
  MayHang,        \* the handler may ignore its context (SendEmail: smtp.SendMail)
  MaxConns,       \* bound: connections opened; the last one is never lost
  Idle            \* stands for the delivery of a worker that holds none

ASSUME DeliveryAssumption ==
  /\ Workers \in Nat \ {0}
  /\ Prefetch \in Nat \ {0}
  /\ Workers <= Prefetch
  /\ RetryFailures \in BOOLEAN
  /\ MayHang \in BOOLEAN
  /\ MaxConns \in Nat \ {0}
  /\ Idle \notin [msg : Msgs, redelivered : BOOLEAN]

VARIABLES
  \* the broker
  status,     \* where each message is
  flagged,    \* messages whose next delivery carries Redelivered
  \* the connection, and the process's view of it
  gen,        \* number of connections opened so far; the current one
  link,       \* connection gen: "up", "down", or "cut": up, but not the
              \* channel of this consumer
  sup,        \* what the supervisor (or main) is doing
  \* the client
  buffer,     \* per connection: deliveries held by the AMQP library
  alive,      \* worker goroutines that have not returned
  job,        \* the delivery each worker holds
  out,        \* the outcome of its handler, while it is not settled yet
  \* history
  tried,      \* per message: the outcomes its handler runs have had
  failures    \* per message: failed runs, counted up to FailureCap

broker == <<status, flagged>>
client == <<buffer, alive, job, out>>
history == <<tried, failures>>
vars == <<status, flagged, gen, link, sup, buffer, alive, job, out,
          tried, failures>>

Conns == 1..MaxConns
Slots == Conns \X (1..Workers)
Delivery == [msg : Msgs, redelivered : BOOLEAN]
Outcome == {"ok", "drop", "error"}   \* nil, ErrDrop, any other error or panic
Unsettled == "unsettled"             \* the handler has not returned
Hung == "hung"                       \* and never will
FailureCap == 2
SupStates == {"off", "starting", "watching", "waiting", "retrying",
              "attaching", "closing"}

Live(g) == g = gen /\ link = "up"
Subscribed == link = "up" /\ sup \notin {"off", "closing"}
Unacked == {m \in Msgs : status[m] = "unacked"}
MoreConns == gen < MaxConns

(***************************************************************************)
(* The broker.                                                             *)
(***************************************************************************)
\* A message reaches the queue.  An error return of Publish sends nothing or
\* leaves the outcome open, and either way is this step or none.
Publish(m) ==
  /\ status[m] = "unsent"
  /\ status' = [status EXCEPT ![m] = "ready"]
  /\ UNCHANGED <<flagged, gen, link, sup, client, history>>

\* Mutant: subscribed with autoAck, the broker forgets what it pushes.
PushAutoAck(m) ==
  /\ Subscribed
  /\ status[m] = "ready"
  /\ status' = [status EXCEPT ![m] = "gone"]
  /\ buffer' = [buffer EXCEPT ![gen] =
                  @ \union {[msg |-> m, redelivered |-> m \in flagged]}]
  /\ UNCHANGED <<flagged, gen, link, sup, alive, job, out, history>>

\* The flag travels with the delivery; Qos limits the unacked ones.
Push(m) ==
  /\ Subscribed
  /\ status[m] = "ready"
  /\ Cardinality(Unacked) < Prefetch
  /\ status' = [status EXCEPT ![m] = "unacked"]
  /\ buffer' = [buffer EXCEPT ![gen] =
                  @ \union {[msg |-> m, redelivered |-> m \in flagged]}]
  /\ UNCHANGED <<flagged, gen, link, sup, alive, job, out, history>>

\* Losing a connection, or the channel of the consumer, returns everything
\* unacked on it, marked redelivered, whether or not a handler ever saw it.
Requeue ==
  /\ status' = [m \in Msgs |-> IF m \in Unacked THEN "ready" ELSE status[m]]
  /\ flagged' = flagged \union Unacked

LoseConnection ==
  /\ link \in {"up", "cut"} /\ MoreConns
  /\ link' = "down"
  /\ Requeue
  /\ UNCHANGED <<gen, sup, client, history>>

\* The broker closes the channel of this consumer alone.  Its workers retire
\* and a warning is logged; only a new connection attaches the queue again.
LoseChannel ==
  /\ link = "up"
  /\ link' = "cut"
  /\ Requeue
  /\ UNCHANGED <<gen, sup, client, history>>

(***************************************************************************)
(* A worker goroutine: for d := range msgs { process(spec, d) }.           *)
(* After a loss the library may still hand out what it had buffered.       *)
(***************************************************************************)
Take(s) ==
  /\ s \in alive /\ job[s] = Idle
  /\ \E d \in buffer[s[1]] :
       /\ job' = [job EXCEPT ![s] = d]
       /\ buffer' = [buffer EXCEPT ![s[1]] = @ \ {d}]
  /\ UNCHANGED <<broker, gen, link, sup, alive, out, history>>

\* The handler returns, panics (contained as an error) or is timed out by its
\* context, if it heeds it.
Return(s, o) ==
  /\ job[s] # Idle /\ out[s] = Unsettled
  /\ LET m == job[s].msg IN
       /\ out' = [out EXCEPT ![s] = o]
       /\ tried' = [tried EXCEPT ![m] = @ \union {o}]
       /\ failures' = IF o = "error" /\ failures[m] < FailureCap
                      THEN [failures EXCEPT ![m] = @ + 1] ELSE failures
  /\ UNCHANGED <<broker, gen, link, sup, buffer, alive, job>>

\* The handler is past its deadline, does not look at it, and stays.
Hang(s) ==
  /\ MayHang
  /\ job[s] # Idle /\ out[s] = Unsettled
  /\ out' = [out EXCEPT ![s] = Hung]
  /\ UNCHANGED <<broker, gen, link, sup, buffer, alive, job, history>>

\* Mutants: a failure is acked at once; a failure is never acked.
AcksFailures(d, o) == TRUE
AcksNoFailure(d, o) == o \in {"ok", "drop"}

\* The switch of process(): which outcomes are acked, the rest is requeued.
Acks(d, o) == \/ o \in {"ok", "drop"}
              \/ d.redelivered /\ ~RetryFailures

\* Mutant: the error path returns without a nack.
SettleForgets(s) ==
  /\ job[s] # Idle /\ out[s] \in Outcome
  /\ status' = IF Live(s[1]) /\ Acks(job[s], out[s])
               THEN [status EXCEPT ![job[s].msg] = "gone"] ELSE status
  /\ job' = [job EXCEPT ![s] = Idle]
  /\ out' = [out EXCEPT ![s] = Unsettled]
  /\ UNCHANGED <<flagged, gen, link, sup, buffer, alive, history>>

\* Mutant: a nack that does not depend on the delivery's own connection.
SettleLate(s) ==
  /\ job[s] # Idle /\ out[s] \in Outcome
  /\ status' = [status EXCEPT ![job[s].msg] =
                  IF Acks(job[s], out[s]) THEN "gone" ELSE "ready"]
  /\ job' = [job EXCEPT ![s] = Idle]
  /\ out' = [out EXCEPT ![s] = Unsettled]
  /\ UNCHANGED <<flagged, gen, link, sup, buffer, alive, history>>

\* On a dead connection the ack or nack fails and is only logged.
Settle(s) ==
  /\ job[s] # Idle /\ out[s] \in Outcome
  /\ LET m == job[s].msg IN
       IF ~Live(s[1]) THEN UNCHANGED broker
       ELSE IF Acks(job[s], out[s])
       THEN /\ status' = [status EXCEPT ![m] = "gone"]
            /\ UNCHANGED flagged
       ELSE /\ status' = [status EXCEPT ![m] = "ready"]
            /\ flagged' = flagged \union {m}
  /\ job' = [job EXCEPT ![s] = Idle]
  /\ out' = [out EXCEPT ![s] = Unsettled]
  /\ UNCHANGED <<gen, link, sup, buffer, alive, history>>

\* The deliveries of a dead connection or channel end; what is left is dropped.
CloseDeliveries(g) ==
  /\ g \in 1..gen /\ ~Live(g)
  /\ buffer[g] # {}
  /\ buffer' = [buffer EXCEPT ![g] = {}]
  /\ UNCHANGED <<broker, gen, link, sup, alive, job, out, history>>

\* Mutant: workers leave as soon as the consumer is cancelled.
RetireAtOnce(s) ==
  /\ s \in alive /\ job[s] = Idle
  /\ ~Live(s[1]) \/ sup = "closing"
  /\ alive' = alive \ {s}
  /\ UNCHANGED <<broker, gen, link, sup, buffer, job, out, history>>

\* The range loop ends: channel dead or consumer cancelled, buffer empty.
Retire(s) ==
  /\ s \in alive /\ job[s] = Idle /\ buffer[s[1]] = {}
  /\ ~Live(s[1]) \/ sup = "closing"
  /\ alive' = alive \ {s}
  /\ UNCHANGED <<broker, gen, link, sup, buffer, job, out, history>>

(***************************************************************************)
(* The supervisor, main and Close.                                         *)
(***************************************************************************)
\* Mutant: the workers are started on the connection that was lost.
AttachOld(next) ==
  /\ MoreConns
  /\ gen' = gen + 1
  /\ link' = "up"
  /\ alive' = alive \union ({gen} \X (1..Workers))
  /\ sup' = next
  /\ UNCHANGED <<broker, buffer, job, out, history>>

\* Dial, then attach: the workers of a new generation start.
Attach(next) ==
  /\ MoreConns
  /\ gen' = gen + 1
  /\ link' = "up"
  /\ alive' = alive \union ({gen + 1} \X (1..Workers))
  /\ sup' = next
  /\ UNCHANGED <<broker, buffer, job, out, history>>

\* The process starts: main dials and calls Start.
Boot == sup = "off" /\ Attach("starting")

\* reconnect, once its delay is over.
Redial == sup = "retrying" /\ Attach("attaching")

\* attachAll is through with the other consumers too.
Attached ==
  /\ sup \in {"starting", "attaching"}
  /\ sup' = "watching"
  /\ UNCHANGED <<broker, gen, link, client, history>>

\* Another consumer could not be attached: reconnect closes the connection
\* and tries again, without waiting for the workers it already started.
AttachFails ==
  /\ sup = "attaching" /\ MoreConns
  /\ link' = "down"
  /\ Requeue
  /\ sup' = "retrying"
  /\ UNCHANGED <<gen, client, history>>

NoticeLoss ==
  /\ sup = "watching" /\ link = "down"
  /\ sup' = "waiting"
  /\ UNCHANGED <<broker, gen, link, client, history>>

\* rc.wg.Wait() in supervise.
Waited ==
  /\ sup = "waiting" /\ alive = {}
  /\ sup' = "retrying"
  /\ UNCHANGED <<broker, gen, link, client, history>>

\* Close cancels the consumer: no new deliveries, but the connection stays up.
\* It passes the attachMu barrier only while no attach is running.
BeginClose ==
  /\ sup \in {"watching", "waiting", "retrying"} /\ MoreConns
  /\ sup' = "closing"
  /\ UNCHANGED <<broker, gen, link, client, history>>

\* The process is gone: its goroutines, its buffers and its connection.
Exit ==
  /\ link' = "down"
  /\ Requeue
  /\ sup' = "off"
  /\ buffer' = [g \in Conns |-> {}]
  /\ alive' = {}
  /\ job' = [s \in Slots |-> Idle]
  /\ out' = [s \in Slots |-> Unsettled]
  /\ UNCHANGED <<gen, history>>

\* Close returns when the workers have retired, or after the drain timeout.
Stop == sup = "closing" /\ Exit

\* A crash or a kill; and the failed attach at startup, which is fatal.
Crash == sup \notin {"off", "closing"} /\ MoreConns /\ Exit

-----------------------------------------------------------------------------
Init ==
  /\ status = [m \in Msgs |-> "unsent"]
  /\ flagged = {}
  /\ gen = 0
  /\ link = "down"
  /\ sup = "off"
  /\ buffer = [g \in Conns |-> {}]
  /\ alive = {}
  /\ job = [s \in Slots |-> Idle]
  /\ out = [s \in Slots |-> Unsettled]
  /\ tried = [m \in Msgs |-> {}]
  /\ failures = [m \in Msgs |-> 0]

WorkerStep(s) ==
  \/ Take(s)
  \/ \E o \in Outcome : Return(s, o)
  \/ Settle(s)
  \/ Retire(s)

Next ==
  \/ \E m \in Msgs : Publish(m) \/ Push(m)
  \/ \E s \in Slots : WorkerStep(s) \/ Hang(s)
  \/ \E g \in Conns : CloseDeliveries(g)
  \/ LoseConnection \/ LoseChannel
  \/ Boot \/ Redial \/ Attached \/ AttachFails
  \/ NoticeLoss \/ Waited
  \/ BeginClose \/ Stop \/ Crash

Spec == Init /\ [][Next]_vars

\* The broker pushes what it may, goroutines run, the library ends the
\* deliveries of a dead channel, the supervisor goes on, and the container is
\* restarted when the process ends.  A handler that heeds its context returns
\* by the deadline; one that hangs has no step that could be fair.
Fairness ==
  /\ \A m \in Msgs : WF_vars(Push(m))
  /\ \A s \in Slots : WF_vars(WorkerStep(s))
  /\ \A g \in Conns : WF_vars(CloseDeliveries(g))
  /\ WF_vars(Boot \/ Redial \/ Attached \/ NoticeLoss \/ Waited \/ Stop)

FairSpec == Spec /\ Fairness

-----------------------------------------------------------------------------
(***************************************************************************)
(* Properties.                                                             *)
(***************************************************************************)
TypeOK ==
  /\ status \in [Msgs -> {"unsent", "ready", "unacked", "gone"}]
  /\ flagged \in SUBSET Msgs
  /\ gen \in 0..MaxConns
  /\ link \in {"up", "cut", "down"}
  /\ sup \in SupStates
  /\ buffer \in [Conns -> SUBSET Delivery]
  /\ alive \in SUBSET Slots
  /\ job \in [Slots -> Delivery \union {Idle}]
  /\ out \in [Slots -> Outcome \union {Unsettled, Hung}]
  /\ tried \in [Msgs -> SUBSET Outcome]
  /\ failures \in [Msgs -> 0..FailureCap]

\* A message leaves the queue only when a handler run succeeded or gave up for
\* good, or - without RetryFailures - failed on a message that had come back.
\* (process: nothing is acked before its handler has returned.)
NoSilentLoss ==
  \A m \in Msgs :
    status[m] = "gone" =>
      \/ tried[m] \intersect {"ok", "drop"} # {}
      \/ ~RetryFailures /\ "error" \in tried[m] /\ m \in flagged

\* The deliveries the process holds on its live connection.
LiveJobs == {s \in Slots : Live(s[1]) /\ job[s] # Idle}
LiveBuffer == IF link = "up" THEN buffer[gen] ELSE {}

\* Every unacked message is held by exactly one buffer entry or worker of the
\* live connection, and those hold nothing else: no delivery is leaked unacked
\* (it would fill the prefetch window for good), and no two workers can settle
\* the same message.
OneHolder ==
  /\ \A m \in Msgs :
       status[m] = "unacked" =>
         \/ \E d \in LiveBuffer : d.msg = m
         \/ \E s \in LiveJobs : job[s].msg = m
  /\ \A d \in LiveBuffer :
       /\ status[d.msg] = "unacked"
       /\ \A e \in LiveBuffer : e.msg = d.msg => e = d
       /\ \A s \in LiveJobs : job[s].msg # d.msg
  /\ \A s \in LiveJobs :
       /\ status[job[s].msg] = "unacked"
       /\ \A t \in LiveJobs : job[t].msg = job[s].msg => t = s

\* Close cancels before it tears the connection down: once all workers have
\* retired by themselves, nothing is unacked, so a drained shutdown makes the
\* broker redeliver nothing.
CleanDrain == (sup = "closing" /\ alive = {}) => Unacked = {}

\* A message that was settled is never put back: not by a late nack of a
\* worker of a dead connection, not by the requeue of a loss.
GoneForever ==
  [][\A m \in Msgs : status[m] = "gone" => status'[m] = "gone"]_vars

\* Without RetryFailures a failing handler requeues a message only if it was
\* never redelivered: a poison message cannot spin.
NoPoisonSpin ==
  [][\A m \in Msgs :
       (/\ ~RetryFailures
        /\ status[m] = "unacked" /\ status'[m] = "ready"
        /\ link' = "up")
       => m \notin flagged]_vars

\* The two outages nothing in the process ends: the consumer without a channel
\* on a live connection, which nobody attaches again, and a handler that hangs:
\* it takes up the window of the live connection, or keeps supervise waiting.
Outage ==
  \/ link = "cut"
  \/ \E s \in Slots : out[s] = Hung /\ (Live(s[1]) \/ sup = "waiting")

\* Without RetryFailures every published message is settled in the end, unless
\* an outage stays for good.  One that a loss of the connection, a restart or
\* a shutdown has ended, and finitely many losses and crashes, excuse nothing.
EventuallySettled ==
  []<>~Outage => \A m \in Msgs : status[m] = "ready" ~> status[m] = "gone"

\* Seen from a message, all of the above is at-least-once handling: Delivery
\* implements QueueContract.
Place == [m \in Msgs |-> CASE status[m] = "unsent" -> "absent"
                           [] status[m] = "gone"   -> "gone"
                           [] OTHER                -> "queued"]
Contract == INSTANCE QueueContract WITH place <- Place, ran <- tried
ImplementsContract == Contract!CSpec

-----------------------------------------------------------------------------
(***************************************************************************)
(* The inductive invariant behind NoSilentLoss, OneHolder and CleanDrain.  *)
(***************************************************************************)
\* What a worker is about to settle is an outcome its message has had, and a
\* delivery marked redelivered is one of a flagged message.
Evidence ==
  /\ \A s \in Slots : job[s] = Idle => out[s] = Unsettled
  /\ \A s \in Slots : job[s] # Idle =>
       /\ out[s] \in Outcome => out[s] \in tried[job[s].msg]
       /\ job[s].redelivered => job[s].msg \in flagged
  /\ \A g \in Conns : \A d \in buffer[g] : d.redelivered => d.msg \in flagged

\* Generations that have not started hold nothing, only live goroutines hold
\* a delivery, and the supervisor dials only without a connection.
Generations ==
  /\ link = "up" => gen \in Conns
  /\ \A g \in Conns : g > gen => buffer[g] = {}
  /\ \A s \in Slots : job[s] # Idle => s \in alive
  /\ \A s \in alive : s[1] <= gen
  /\ sup \in {"off", "waiting", "retrying"} => link = "down"
  /\ (link = "up" /\ (sup # "closing" \/ buffer[gen] # {}))
       => \A w \in 1..Workers : <<gen, w>> \in alive

\* Whatever the process holds, stale deliveries included, was published.
Published ==
  /\ \A s \in Slots : job[s] # Idle => status[job[s].msg] # "unsent"
  /\ \A g \in Conns : \A d \in buffer[g] : status[d.msg] # "unsent"

IInv == /\ TypeOK /\ Evidence /\ Generations /\ Published
        /\ OneHolder /\ NoSilentLoss

-----------------------------------------------------------------------------
(***************************************************************************)
(* What comments of the code say and the code does not do.                 *)
(***************************************************************************)
\* rabbitmq.go:335 "Already retried once": a message dropped after a failure
\* had two failed runs.
DroppedAfterRetry ==
  \A m \in Msgs :
    (status[m] = "gone" /\ tried[m] \intersect {"ok", "drop"} = {})
      => failures[m] >= 2

=============================================================================
