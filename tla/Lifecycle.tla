------------------------------ MODULE Lifecycle ------------------------------
(***************************************************************************)
(* The RabbitMQ client of one process, seen from its connections: dial,    *)
(* attachAll, supervise, reconnect, Close and the waits between them       *)
(* (src/internal/services/rabbitmq/rabbitmq.go, cmd/worker/main.go).       *)
(*                                                                         *)
(* Two threads run: main (RabbitClient, Start, and on a signal Close) and  *)
(* sup, the supervisor goroutine that Start launches.  A subscription      *)
(* <<k, c>> is consumer c attached on connection k, with its pool of       *)
(* workers; it stands for the wg counts of those workers.  Messages are    *)
(* left to Delivery.                                                       *)
(*                                                                         *)
(* Definitions introduced by "Mutant" are faulty variants of the operator  *)
(* below them; no specification uses them.                                 *)
(***************************************************************************)
EXTENDS Integers

CONSTANTS
  N,          \* number of registered consumers (len(rc.specs))
  Hangs,      \* consumers whose handler may ignore its context
  MaxFaults   \* bound: faults of the broker and the network

Consumers == 1..N
Conns == 1..(MaxFaults + 1)   \* each dial but the first follows a fault
Nil == 0

ASSUME LifecycleAssumption ==
  /\ N \in Nat \ {0}
  /\ Hangs \subseteq Consumers
  /\ MaxFaults \in Nat

VARIABLES
  pc,         \* where main and sup are
  shutdown,   \* the channel Close closes
  attachMu,   \* who holds the mutex, or "free"
  conn,       \* rc.conn
  open,       \* connections that are open
  dialled,    \* how many connections have been dialled
  active,     \* rc.active
  subs,       \* subscriptions whose workers have not all returned
  cancelled,  \* subscriptions Close has cancelled
  lost,       \* subscriptions whose channel the broker closed by itself
  busy,       \* subscriptions with a handler running
  hung,       \* ... that will never return
  next,       \* the consumer attachAll attaches next
  target,     \* the connection attachAll or the supervisor works with
  snapshot,   \* Close's copy of rc.active
  faults      \* faults so far

workers == <<busy, hung>>
closing == <<cancelled, snapshot>>
vars == <<pc, shutdown, attachMu, conn, open, dialled, active, subs, cancelled,
          lost, busy, hung, next, target, snapshot, faults>>

Threads == {"main", "sup"}
Subs == Conns \X Consumers
Goto(t, label) == pc' = [pc EXCEPT ![t] = label]
Fault == faults < MaxFaults /\ faults' = faults + 1

(***************************************************************************)
(* dial, and attachAll as main (Start) and the supervisor (reconnect) run  *)
(* it under attachMu.                                                      *)
(***************************************************************************)
\* rc.active is reset: the subscriptions of the old connection are gone.
\* (The second guard only names the bound.)
Dial(t) ==
  /\ pc[t] = "dial"
  /\ dialled + 1 \in Conns
  /\ dialled' = dialled + 1
  /\ open' = open \union {dialled + 1}
  /\ conn' = dialled + 1
  /\ active' = {}
  /\ Goto(t, "lock")
  /\ UNCHANGED <<shutdown, attachMu, subs, lost, closing, workers, next, target, faults>>

\* At startup this is fatal; the supervisor sleeps and tries again.
DialFails ==
  /\ pc["sup"] = "dial" /\ Fault
  /\ Goto("sup", "delay")
  /\ UNCHANGED <<shutdown, attachMu, conn, open, dialled, active, subs, lost,
                 closing, workers, next, target>>

\* Mutant: attachAll does not ask whether the client is shutting down.
AttachBlind(t) ==
  /\ pc[t] = "lock" /\ attachMu = "free"
  /\ IF conn \notin open
     THEN /\ Goto(t, "failed")
          /\ UNCHANGED <<attachMu, target, next>>
     ELSE /\ Goto(t, "attaching")
          /\ attachMu' = t
          /\ target' = [target EXCEPT ![t] = conn]
          /\ next' = 1
  /\ UNCHANGED <<shutdown, conn, open, dialled, active, subs, lost, closing, workers, faults>>

\* Mutant: attachAll runs outside the mutex.
AttachUnlocked(t) ==
  /\ pc[t] = "lock"
  /\ IF shutdown \/ conn \notin open
     THEN /\ Goto(t, "failed")
          /\ UNCHANGED <<target, next>>
     ELSE /\ Goto(t, "attaching")
          /\ target' = [target EXCEPT ![t] = conn]
          /\ next' = 1
  /\ UNCHANGED <<shutdown, attachMu, conn, open, dialled, active, subs, lost,
                 closing, workers, faults>>

AttachBegin(t) ==
  /\ pc[t] = "lock" /\ attachMu = "free"
  /\ IF shutdown \/ conn \notin open
     THEN /\ Goto(t, "failed")
          /\ UNCHANGED <<attachMu, target, next>>
     ELSE /\ Goto(t, "attaching")
          /\ attachMu' = t
          /\ target' = [target EXCEPT ![t] = conn]
          /\ next' = 1
  /\ UNCHANGED <<shutdown, conn, open, dialled, active, subs, lost, closing, workers, faults>>

\* attach: the subscription is recorded and its workers are started.
AttachOne(t) ==
  /\ pc[t] = "attaching" /\ next <= N /\ target[t] \in open
  /\ active' = active \union {<<target[t], next>>}
  /\ subs' = subs \union {<<target[t], next>>}
  /\ next' = next + 1
  /\ UNCHANGED <<pc, shutdown, attachMu, conn, open, dialled, lost, closing,
                 workers, target, faults>>

\* The connection is gone, or the broker refuses: the rest is not attached.
AttachFails(t) ==
  /\ pc[t] = "attaching" /\ next <= N
  /\ IF target[t] \in open THEN Fault ELSE UNCHANGED faults
  /\ attachMu' = "free"
  /\ Goto(t, "failed")
  /\ UNCHANGED <<shutdown, conn, open, dialled, active, subs, lost, closing,
                 workers, next, target>>

\* Start launches the supervisor; reconnect returns to it.
AttachDone(t) ==
  /\ pc[t] = "attaching" /\ next > N
  /\ attachMu' = "free"
  /\ pc' = IF t = "main" THEN [main |-> "running", sup |-> "loop"]
                         ELSE [pc EXCEPT !.sup = "loop"]
  /\ UNCHANGED <<shutdown, conn, open, dialled, active, subs, lost, closing,
                 workers, next, target, faults>>

(***************************************************************************)
(* supervise and reconnect.                                                *)
(***************************************************************************)
\* The top of the loop: no connection, or ask to be told of its end.
Watch ==
  /\ pc["sup"] = "loop"
  /\ IF conn = Nil
     THEN Goto("sup", "delay") /\ UNCHANGED target
     ELSE Goto("sup", "select") /\ target' = [target EXCEPT !.sup = conn]
  /\ UNCHANGED <<shutdown, attachMu, conn, open, dialled, active, subs, lost,
                 closing, workers, next, faults>>

\* Either arm of the select ends the supervisor once shutdown is closed.
Wake ==
  /\ pc["sup"] = "select" /\ (shutdown \/ target["sup"] \notin open)
  /\ Goto("sup", IF shutdown THEN "done" ELSE "wait")
  /\ UNCHANGED <<shutdown, attachMu, conn, open, dialled, active, subs, lost,
                 closing, workers, next, target, faults>>

\* rc.wg.Wait()
WaitWorkers ==
  /\ pc["sup"] = "wait" /\ subs = {}
  /\ Goto("sup", "delay")
  /\ UNCHANGED <<shutdown, attachMu, conn, open, dialled, active, subs, lost,
                 closing, workers, next, target, faults>>

\* Mutant: the backoff does not look at shutdown.
DelayBlind ==
  /\ pc["sup"] = "delay"
  /\ Goto("sup", "dial")
  /\ UNCHANGED <<shutdown, attachMu, conn, open, dialled, active, subs, lost,
                 closing, workers, next, target, faults>>

\* The backoff of reconnect, cut short by shutdown and checked after it.
Delay ==
  /\ pc["sup"] = "delay"
  /\ Goto("sup", IF shutdown THEN "done" ELSE "dial")
  /\ UNCHANGED <<shutdown, attachMu, conn, open, dialled, active, subs, lost,
                 closing, workers, next, target, faults>>

\* Mutant: the connection of a failed re-attach is left open.
AbandonConn ==
  /\ pc["sup"] = "failed"
  /\ Goto("sup", "delay")
  /\ UNCHANGED <<shutdown, attachMu, conn, open, dialled, active, subs, lost,
                 closing, workers, next, target, faults>>

\* Mutant: reconnect tries to attach again without dialling.
RetryAttach ==
  /\ pc["sup"] = "failed"
  /\ open' = open \ {conn}
  /\ conn' = Nil
  /\ Goto("sup", "lock")
  /\ UNCHANGED <<shutdown, attachMu, dialled, active, subs, lost, closing,
                 workers, next, target, faults>>

\* closeConn after a failed re-attach.
DropConn ==
  /\ pc["sup"] = "failed"
  /\ open' = open \ {conn}
  /\ conn' = Nil
  /\ Goto("sup", "delay")
  /\ UNCHANGED <<shutdown, attachMu, dialled, active, subs, lost, closing,
                 workers, next, target, faults>>

(***************************************************************************)
(* The workers of a subscription and its watcher.                          *)
(***************************************************************************)
Receiving(x) == x[1] \in open /\ x \notin lost
Detaching(x) == ~Receiving(x) \/ x \in cancelled

\* What the library has buffered is still handled after a cancel or a loss.
Handle(x) ==
  /\ x \in subs \ busy
  /\ busy' = busy \union {x}
  /\ UNCHANGED <<pc, shutdown, attachMu, conn, open, dialled, active, subs, lost,
                 closing, hung, next, target, faults>>

Finish(x) ==
  /\ x \in busy \ hung
  /\ busy' = busy \ {x}
  /\ UNCHANGED <<pc, shutdown, attachMu, conn, open, dialled, active, subs, lost,
                 closing, hung, next, target, faults>>

\* The handler never comes back: it does not look at its context.
Hang(x) ==
  /\ x \in busy \ hung /\ x[2] \in Hangs
  /\ hung' = hung \union {x}
  /\ UNCHANGED <<pc, shutdown, attachMu, conn, open, dialled, active, subs, lost,
                 closing, busy, next, target, faults>>

\* The range over the deliveries ends.
Retire(x) ==
  /\ x \in subs \ busy /\ Detaching(x)
  /\ subs' = subs \ {x}
  /\ UNCHANGED <<pc, shutdown, attachMu, conn, open, dialled, active, lost,
                 closing, workers, next, target, faults>>

(***************************************************************************)
(* Faults.                                                                 *)
(***************************************************************************)
LoseConnection(k) ==
  /\ k \in open /\ Fault
  /\ open' = open \ {k}
  /\ UNCHANGED <<pc, shutdown, attachMu, conn, dialled, active, subs, lost,
                 closing, workers, next, target>>

\* The broker closes one channel: queue deleted, ack too late, precondition.
LoseChannel(x) ==
  /\ x \in subs /\ Receiving(x) /\ Fault
  /\ lost' = lost \union {x}
  /\ UNCHANGED <<pc, shutdown, attachMu, conn, open, dialled, active, subs,
                 closing, workers, next, target>>

(***************************************************************************)
(* Close.                                                                  *)
(***************************************************************************)
Signal ==
  /\ pc["main"] = "running"
  /\ shutdown' = TRUE
  /\ Goto("main", "barrier")
  /\ UNCHANGED <<attachMu, conn, open, dialled, active, subs, lost, closing,
                 workers, next, target, faults>>

\* Lock and unlock attachMu, then copy rc.active.
Snapshot ==
  /\ pc["main"] = "barrier" /\ attachMu = "free"
  /\ snapshot' = active
  /\ Goto("main", "cancel")
  /\ UNCHANGED <<shutdown, attachMu, conn, open, dialled, active, subs, cancelled,
                 lost, workers, next, target, faults>>

Cancel ==
  /\ pc["main"] = "cancel"
  /\ IF snapshot = {}
     THEN Goto("main", "drain") /\ UNCHANGED closing
     ELSE /\ \E x \in snapshot : /\ cancelled' = cancelled \union {x}
                                 /\ snapshot' = snapshot \ {x}
          /\ UNCHANGED pc
  /\ UNCHANGED <<shutdown, attachMu, conn, open, dialled, active, subs, lost,
                 workers, next, target, faults>>

\* Mutant: no drain timeout.
DrainForever ==
  /\ pc["main"] = "drain" /\ subs = {}
  /\ Goto("main", "teardown")
  /\ UNCHANGED <<shutdown, attachMu, conn, open, dialled, active, subs, lost,
                 closing, workers, next, target, faults>>

\* All workers are back, or shutdownDrainTimeout is over: either may be first.
Drain ==
  /\ pc["main"] = "drain"
  /\ Goto("main", "teardown")
  /\ UNCHANGED <<shutdown, attachMu, conn, open, dialled, active, subs, lost,
                 closing, workers, next, target, faults>>

Teardown ==
  /\ pc["main"] = "teardown"
  /\ open' = open \ {conn}
  /\ conn' = Nil
  /\ Goto("main", "done")
  /\ UNCHANGED <<shutdown, attachMu, dialled, active, subs, lost, closing,
                 workers, next, target, faults>>

-----------------------------------------------------------------------------
Init ==
  /\ pc = [main |-> "dial", sup |-> "off"]
  /\ shutdown = FALSE
  /\ attachMu = "free"
  /\ conn = Nil /\ open = {} /\ dialled = 0
  /\ active = {} /\ subs = {} /\ cancelled = {} /\ lost = {}
  /\ busy = {} /\ hung = {}
  /\ next = 1
  /\ target = [t \in Threads |-> Nil]
  /\ snapshot = {}
  /\ faults = 0

AttachAll(t) == AttachBegin(t) \/ AttachOne(t) \/ AttachDone(t)
Supervise == Watch \/ Wake \/ WaitWorkers \/ Delay \/ DropConn
Close == Snapshot \/ Cancel \/ Drain \/ Teardown

Next ==
  \/ \E t \in Threads : Dial(t) \/ AttachAll(t) \/ AttachFails(t)
  \/ DialFails
  \/ Supervise
  \/ Signal
  \/ Close
  \/ \E x \in Subs : Handle(x) \/ Finish(x) \/ Hang(x) \/ Retire(x) \/ LoseChannel(x)
  \/ \E k \in Conns : LoseConnection(k)

Spec == Init /\ [][Next]_vars

\* Goroutines run; a handler that does not hang returns; workers whose
\* deliveries ended retire.  Faults and the signal are not promised.  Retire
\* needs strong fairness: a worker may go on taking buffered deliveries, but
\* the buffer of a detached subscription runs empty.
Fairness ==
  /\ \A t \in Threads : WF_vars(Dial(t) \/ AttachAll(t))
  /\ \A t \in Threads : WF_vars(AttachFails(t) /\ target[t] \notin open)
  /\ WF_vars(Supervise)
  /\ WF_vars(Close)
  /\ \A x \in Subs : WF_vars(Finish(x)) /\ SF_vars(Retire(x))

FairSpec == Spec /\ Fairness

-----------------------------------------------------------------------------
(***************************************************************************)
(* Properties.                                                             *)
(***************************************************************************)
MainPlaces == {"dial", "lock", "attaching", "failed", "running", "barrier", "cancel",
               "drain", "teardown", "done"}
SupPlaces == {"off", "loop", "select", "wait", "delay", "dial", "lock", "attaching",
              "failed", "done"}

TypeOK ==
  /\ pc \in [Threads -> MainPlaces \union SupPlaces]
  /\ pc["main"] \in MainPlaces /\ pc["sup"] \in SupPlaces
  /\ shutdown \in BOOLEAN
  /\ attachMu \in Threads \union {"free"}
  /\ dialled \in 0..(MaxFaults + 1)
  /\ conn \in 0..dialled
  /\ open \in SUBSET (1..dialled)
  /\ active \in SUBSET Subs /\ subs \in SUBSET Subs
  /\ cancelled \in SUBSET Subs /\ lost \in SUBSET Subs
  /\ hung \in SUBSET busy /\ busy \in SUBSET subs
  /\ next \in 1..(N + 1)
  /\ target \in [Threads -> 0..dialled]
  /\ snapshot \in SUBSET Subs
  /\ faults \in 0..MaxFaults

\* Every open connection is the one rc.conn names, so that closeConn reaches
\* it: reconnecting never leaks one, also when it races Close.
NoLeakedConnection ==
  /\ open \subseteq {conn}
  /\ (pc["main"] = "done" /\ pc["sup"] = "done") => open = {}

\* When Close starts to wait, it has cancelled every consumer that could still
\* receive: none was attached behind its snapshot (rabbitmq.go:518-520).
AllCancelled ==
  pc["main"] \in {"drain", "teardown"} =>
    \A x \in subs : x[1] \in open => x \in cancelled

\* No worker is added while Close waits for the workers: the wg.Add of an
\* attach never races the wg.Wait of Close (rabbitmq.go:110-111).
NoAddDuringWait ==
  [][pc["main"] \in {"drain", "teardown", "done"} => subs' \subseteq subs]_vars

\* Close returns, even with handlers that hang.
CloseReturns == shutdown ~> pc["main"] = "done"

\* After the loss of the connection the supervisor attaches every consumer
\* again - unless the client shuts down, or a handler hangs: supervise waits
\* for the workers of the old connection, without a timeout.
Connected == conn \in open /\ pc["sup"] \in {"loop", "select"}
LossRepaired ==
  (pc["sup"] # "off" /\ conn \notin open)
    ~> (Connected \/ shutdown \/ hung # {})

\* The supervisor ends after Close, under the same condition.
SupervisorEnds == shutdown ~> (pc["sup"] = "done" \/ hung # {})

-----------------------------------------------------------------------------
(***************************************************************************)
(* What comments and tests of the code say and the code does not do.       *)
(***************************************************************************)
\* rabbitmq.go:487-489: Healthy is "used by /status so a consumer outage is
\* visible to orchestration".  A consumer that receives nothing any more is
\* attached again, or Healthy turns false.
Healthy == conn # Nil /\ conn \in open
Consuming(c) == \E x \in subs : x[2] = c /\ Receiving(x)
OutageVisible ==
  \A c \in Consumers :
    (pc["sup"] = "select" /\ ~Consuming(c))
      ~> (Consuming(c) \/ ~Healthy \/ shutdown)

=============================================================================
