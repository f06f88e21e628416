--------------------------- MODULE LifecycleProofs ---------------------------
(***************************************************************************)
(* Theorems about Lifecycle: types, that no connection is leaked, and that *)
(* Close waits for a set of workers that only shrinks and has been told.   *)
(***************************************************************************)
EXTENDS Lifecycle, TLAPS

\* The places of both threads, written as a record.
LEMMA PlacesType ==
  ASSUME NEW m \in MainPlaces, NEW s \in SupPlaces
  PROVE  [main |-> m, sup |-> s] \in [Threads -> MainPlaces \union SupPlaces]
<1>1. [main |-> m, sup |-> s] = [t \in Threads |-> IF t = "main" THEN m ELSE s]
  BY DEF Threads
<1> QED
  BY <1>1 DEF Threads

LEMMA TypeInit == Init => TypeOK
<1> SUFFICES ASSUME Init PROVE TypeOK
  OBVIOUS
<1>1. /\ pc \in [Threads -> MainPlaces \union SupPlaces]
      /\ pc["main"] \in MainPlaces /\ pc["sup"] \in SupPlaces
  BY PlacesType DEF Init, MainPlaces, SupPlaces
<1>2. dialled = 0 /\ conn = 0 /\ next \in 1..(N + 1) /\ target \in [Threads -> 0..dialled]
  BY LifecycleAssumption DEF Init, Nil
<1>3. dialled \in 0..(MaxFaults + 1) /\ faults \in 0..MaxFaults
  BY LifecycleAssumption DEF Init
<1> QED
  BY <1>1, <1>2, <1>3 DEF Init, TypeOK

LEMMA TypeStep == TypeOK /\ [Next]_vars => TypeOK'
<1> SUFFICES ASSUME TypeOK, [Next]_vars PROVE TypeOK'
  OBVIOUS
<1> USE LifecycleAssumption DEF workers, closing, Threads, MainPlaces, SupPlaces, Goto, Fault
<1>1. CASE UNCHANGED vars
  BY <1>1 DEF vars, TypeOK
<1>2. ASSUME NEW t \in Threads, Dial(t) PROVE TypeOK'
  BY <1>2 DEF Dial, TypeOK, Conns, Subs
<1>3. ASSUME NEW t \in Threads, AttachBegin(t) PROVE TypeOK'
  BY <1>3 DEF AttachBegin, TypeOK
<1>4. ASSUME NEW t \in Threads, AttachOne(t) PROVE TypeOK'
  <2>1. <<target[t], next>> \in Subs
    BY <1>4 DEF AttachOne, TypeOK, Subs, Conns, Consumers
  <2> QED
    BY <1>4, <2>1 DEF AttachOne, TypeOK
<1>5. ASSUME NEW t \in Threads, AttachDone(t) \/ AttachFails(t) PROVE TypeOK'
  <2>1. CASE AttachDone(t) /\ t = "main"
    BY <2>1, PlacesType DEF AttachDone, TypeOK
  <2>2. CASE AttachDone(t) /\ t # "main"
    BY <2>2 DEF AttachDone, TypeOK
  <2>3. CASE AttachFails(t)
    BY <2>3 DEF AttachFails, TypeOK
  <2> QED
    BY <1>5, <2>1, <2>2, <2>3
<1>6. CASE DialFails
  BY <1>6 DEF DialFails, TypeOK
<1>7. CASE Supervise
  BY <1>7 DEF Supervise, Watch, Wake, WaitWorkers, Delay, DropConn, TypeOK, Nil
<1>8. CASE Signal
  BY <1>8 DEF Signal, TypeOK
<1>9. CASE Close
  <2>1. CASE Snapshot \/ Drain
    BY <2>1 DEF Snapshot, Drain, TypeOK
  <2>2. CASE Cancel
    <3>1. cancelled' \subseteq cancelled \union snapshot /\ snapshot' \subseteq snapshot
      BY <2>2 DEF Cancel
    <3>2. pc' = pc \/ pc' = [pc EXCEPT !["main"] = "drain"]
      BY <2>2 DEF Cancel
    <3> QED
      BY <2>2, <3>1, <3>2 DEF Cancel, TypeOK
  <2>3. CASE Teardown
    BY <2>3 DEF Teardown, TypeOK, Nil
  <2> QED
    BY <1>9, <2>1, <2>2, <2>3 DEF Close
<1>10. ASSUME NEW x \in Subs, Handle(x) \/ Finish(x) \/ Hang(x) \/ Retire(x) PROVE TypeOK'
  BY <1>10 DEF Handle, Finish, Hang, Retire, TypeOK
<1>11. ASSUME NEW x \in Subs, LoseChannel(x) PROVE TypeOK'
  BY <1>11 DEF LoseChannel, TypeOK
<1>12. ASSUME NEW k \in Conns, LoseConnection(k) PROVE TypeOK'
  BY <1>12 DEF LoseConnection, TypeOK
<1> QED
  BY <1>1, <1>2, <1>3, <1>4, <1>5, <1>6, <1>7, <1>8, <1>9, <1>10, <1>11, <1>12
  DEF Next, AttachAll

\* Lifecycle is type correct for any number of consumers and faults.
THEOREM TypeCorrect == Spec => []TypeOK
BY TypeInit, TypeStep, PTL DEF Spec

(***************************************************************************)
(* Connections.  The invariant: only rc.conn can be open, and it is closed *)
(* wherever the supervisor may come to dial; after Close it is open only   *)
(* on the supervisor's way to closing it.                                  *)
(***************************************************************************)
Ending == {"barrier", "cancel", "drain", "teardown", "done"}

OneConn ==
  /\ open \subseteq {conn}
  /\ pc["main"] \in {"dial", "lock", "attaching", "failed"} => pc["sup"] = "off"
  /\ pc["main"] = "dial" => open = {}
  /\ pc["sup"] \in {"wait", "delay", "dial"} => open = {}
  /\ pc["sup"] = "select" => conn \in {Nil, target["sup"]}
  /\ pc["main"] \in Ending => shutdown
  /\ (pc["main"] = "done" /\ open # {}) => pc["sup"] \in {"lock", "failed"}

LEMMA OneConnInit == Init => OneConn
BY DEF Init, OneConn, Ending

LEMMA OneConnStep == TypeOK /\ OneConn /\ [Next]_vars => OneConn'
<1> SUFFICES ASSUME TypeOK, OneConn, [Next]_vars PROVE OneConn'
  OBVIOUS
<1> USE DEF workers, closing, Threads, MainPlaces, SupPlaces, Goto, Ending
<1>0. \A k \in open : k # Nil
  BY DEF TypeOK, Nil
<1>1. CASE UNCHANGED vars
  BY <1>1 DEF vars, OneConn
<1>2. ASSUME NEW t \in Threads, Dial(t) PROVE OneConn'
  BY <1>2 DEF Dial, TypeOK, OneConn
<1>3. ASSUME NEW t \in Threads, AttachBegin(t) PROVE OneConn'
  BY <1>3 DEF AttachBegin, TypeOK, OneConn
<1>4. ASSUME NEW t \in Threads, AttachOne(t) PROVE OneConn'
  BY <1>4 DEF AttachOne, OneConn
<1>5. ASSUME NEW t \in Threads, AttachDone(t) \/ AttachFails(t) PROVE OneConn'
  BY <1>5 DEF AttachDone, AttachFails, TypeOK, OneConn
<1>6. CASE DialFails
  BY <1>6 DEF DialFails, TypeOK, OneConn
<1>7. CASE Watch
  BY <1>0, <1>7 DEF Watch, TypeOK, OneConn
<1>8. CASE Wake
  BY <1>0, <1>8 DEF Wake, TypeOK, OneConn
<1>9. CASE WaitWorkers \/ Delay \/ DropConn
  BY <1>9 DEF WaitWorkers, Delay, DropConn, TypeOK, OneConn
<1>10. CASE Signal
  BY <1>10 DEF Signal, TypeOK, OneConn
<1>11. CASE Snapshot \/ Cancel \/ Drain
  BY <1>11 DEF Snapshot, Cancel, Drain, TypeOK, OneConn
<1>12. CASE Teardown
  BY <1>12 DEF Teardown, TypeOK, OneConn
<1>13. ASSUME NEW x \in Subs, Handle(x) \/ Finish(x) \/ Hang(x) \/ Retire(x) \/ LoseChannel(x)
       PROVE  OneConn'
  BY <1>13 DEF Handle, Finish, Hang, Retire, LoseChannel, OneConn
<1>14. ASSUME NEW k \in Conns, LoseConnection(k) PROVE OneConn'
  BY <1>14 DEF LoseConnection, OneConn
<1> QED
  BY <1>1, <1>2, <1>3, <1>4, <1>5, <1>6, <1>7, <1>8, <1>9, <1>10, <1>11, <1>12, <1>13, <1>14
  DEF Next, AttachAll, Supervise, Close

\* No reconnect leaks a connection, also one that races Close, for any number
\* of losses (rabbitmq.go, reconnect and closeConn).
THEOREM NothingLeaked == Spec => []NoLeakedConnection
<1>1. TypeOK /\ OneConn => NoLeakedConnection
  BY DEF TypeOK, OneConn, NoLeakedConnection
<1> QED
  BY <1>1, TypeInit, TypeStep, OneConnInit, OneConnStep, PTL DEF Spec

(***************************************************************************)
(* Subscriptions.  The invariant: whoever attaches holds attachMu, nobody  *)
(* does so once Close has taken its snapshot, and every subscription that  *)
(* can receive is in rc.active - so in the snapshot, until it is cancelled.*)
(***************************************************************************)
Told ==
  /\ \A t \in Threads : pc[t] = "attaching" => attachMu = t
  /\ \A x \in subs : x[1] <= dialled /\ (x[1] \in open => x \in active)
  /\ pc["main"] \in Ending \ {"barrier"} => \A t \in Threads : pc[t] # "attaching"
  /\ pc["main"] = "cancel" =>
       \A x \in subs : x[1] \in open => x \in cancelled \union snapshot
  /\ AllCancelled

LEMMA ToldInit == Init => Told
BY DEF Init, Told, Ending, AllCancelled, Threads

LEMMA ToldStep == TypeOK /\ OneConn /\ Told /\ [Next]_vars => Told'
<1> SUFFICES ASSUME TypeOK, OneConn, Told, [Next]_vars PROVE Told'
  OBVIOUS
<1> USE DEF workers, closing, Threads, MainPlaces, SupPlaces, Goto, Ending
<1>0. \A x \in subs : x[1] \in Int
  BY DEF TypeOK, Subs, Conns
<1>1. CASE UNCHANGED vars
  BY <1>1 DEF vars, Told, AllCancelled
<1>2. ASSUME NEW t \in Threads, Dial(t) PROVE Told'
  <2>1. open = {}
    BY <1>2 DEF Dial, OneConn
  <2>2. dialled \in Int /\ dialled' = dialled + 1 /\ open' = {dialled + 1}
        /\ UNCHANGED <<subs, cancelled, attachMu, snapshot>>
    BY <1>2, <2>1 DEF Dial, TypeOK
  <2>3. \A x \in subs : x[1] <= dialled' /\ x[1] \notin open'
    BY <1>0, <2>2 DEF Told
  <2> QED
    BY <1>2, <2>2, <2>3 DEF Dial, Told, AllCancelled, TypeOK
<1>3. ASSUME NEW t \in Threads, AttachBegin(t) PROVE Told'
  BY <1>3 DEF AttachBegin, TypeOK, OneConn, Told, AllCancelled
<1>4. ASSUME NEW t \in Threads, AttachOne(t) PROVE Told'
  <2>1. target[t] \in open /\ target[t] <= dialled /\ <<target[t], next>>[1] = target[t]
    BY <1>4 DEF AttachOne, TypeOK
  <2>2. pc["main"] \notin Ending \ {"barrier"}
    BY <1>4 DEF AttachOne, Told
  <2> QED
    BY <1>4, <2>1, <2>2 DEF AttachOne, Told, AllCancelled
<1>5. ASSUME NEW t \in Threads, AttachDone(t) \/ AttachFails(t) PROVE Told'
  BY <1>5 DEF AttachDone, AttachFails, TypeOK, Told, AllCancelled
<1>6. CASE DialFails
  BY <1>6 DEF DialFails, TypeOK, Told, AllCancelled
<1>7. CASE Supervise
  BY <1>7 DEF Supervise, Watch, Wake, WaitWorkers, Delay, DropConn, TypeOK, Told, AllCancelled
<1>8. CASE Signal
  BY <1>8 DEF Signal, TypeOK, Told, AllCancelled
<1>9. CASE Snapshot
  BY <1>9 DEF Snapshot, TypeOK, Told, AllCancelled
<1>10. CASE Cancel
  BY <1>10 DEF Cancel, TypeOK, Told, AllCancelled
<1>11. CASE Drain \/ Teardown
  BY <1>11 DEF Drain, Teardown, TypeOK, Told, AllCancelled
<1>12. ASSUME NEW x \in Subs, Handle(x) \/ Finish(x) \/ Hang(x) \/ Retire(x) \/ LoseChannel(x)
       PROVE  Told'
  BY <1>12 DEF Handle, Finish, Hang, Retire, LoseChannel, Told, AllCancelled
<1>13. ASSUME NEW k \in Conns, LoseConnection(k) PROVE Told'
  BY <1>13 DEF LoseConnection, Told, AllCancelled
<1> QED
  BY <1>1, <1>2, <1>3, <1>4, <1>5, <1>6, <1>7, <1>8, <1>9, <1>10, <1>11, <1>12, <1>13
  DEF Next, AttachAll, Close

\* When Close starts to wait, everything that can still receive has been
\* cancelled: attachMu orders the snapshot and every attach, for any number of
\* consumers and losses (rabbitmq.go:518-520).
THEOREM EveryoneCancelled == Spec => []AllCancelled
<1>1. TypeOK /\ OneConn /\ Told => AllCancelled
  BY DEF Told
<1> QED
  BY <1>1, TypeInit, TypeStep, OneConnInit, OneConnStep, ToldInit, ToldStep, PTL DEF Spec

\* The wait of Close meets no wg.Add (rabbitmq.go:110-111).
THEOREM WaitsForFixedSet == Spec => NoAddDuringWait
<1>1. Told /\ [Next]_vars =>
        [pc["main"] \in {"drain", "teardown", "done"} => subs' \subseteq subs]_vars
  <2> SUFFICES ASSUME Told, [Next]_vars, pc["main"] \in {"drain", "teardown", "done"}
               PROVE  subs' \subseteq subs
    OBVIOUS
  <2>1. \A t \in Threads : ~AttachOne(t)
    BY DEF AttachOne, Told, Ending
  <2> QED
    BY <2>1 DEF Next, vars, AttachAll, Dial, AttachBegin, AttachDone, AttachFails, DialFails,
                Supervise, Watch, Wake, WaitWorkers, Delay, DropConn, Signal, Close, Snapshot,
                Cancel, Drain, Teardown, Handle, Finish, Hang, Retire, LoseChannel,
                LoseConnection, closing, workers
<1> QED
  BY <1>1, TypeInit, TypeStep, OneConnInit, OneConnStep, ToldInit, ToldStep, PTL
  DEF Spec, NoAddDuringWait
=============================================================================
