---------------------------- MODULE QueueContract ----------------------------
(***************************************************************************)
(* What a consumer of this service promises for the messages of its queue, *)
(* free of connections, prefetch and workers: at-least-once handling.  A   *)
(* queued message is run any number of times, also concurrently and even   *)
(* after it left the queue (a worker of a lost connection may still be at  *)
(* it); it leaves for good, and only once a run has justified that.  That  *)
(* it leaves at all is not promised: a consumer may be cut off or hang.    *)
(* ConsumerConfig and HandlerFunc in internal/services/rabbitmq.           *)
(***************************************************************************)
CONSTANTS
  Msgs,
  RetryFailures   \* resumable jobs: a failure never takes a message out

VARIABLES
  place,   \* "absent", "queued" or "gone"
  ran      \* the outcomes of the handler runs of each message

cvars == <<place, ran>>

CInit ==
  /\ place = [m \in Msgs |-> "absent"]
  /\ ran = [m \in Msgs |-> {}]

Enqueue(m) ==
  /\ place[m] = "absent"
  /\ place' = [place EXCEPT ![m] = "queued"]
  /\ UNCHANGED ran

Run(m, o) ==
  /\ place[m] # "absent"
  /\ ran' = [ran EXCEPT ![m] = @ \union {o}]
  /\ UNCHANGED place

\* A success or a verdict of unprocessable; else a failure, if those count.
Justified(m) ==
  \/ ran[m] \intersect {"ok", "drop"} # {}
  \/ ~RetryFailures /\ "error" \in ran[m]

Leave(m) ==
  /\ place[m] = "queued"
  /\ Justified(m)
  /\ place' = [place EXCEPT ![m] = "gone"]
  /\ UNCHANGED ran

CNext ==
  \E m \in Msgs :
    \/ Enqueue(m)
    \/ \E o \in {"ok", "drop", "error"} : Run(m, o)
    \/ Leave(m)

CSpec == CInit /\ [][CNext]_cvars
=============================================================================
