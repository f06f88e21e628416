-------------------------- MODULE MediaReleaseProofs --------------------------
(***************************************************************************)
(* Theorems about MediaRelease: types, what a record that says "deleted"   *)
(* is worth, that a file in use is not removed, and that the last user's   *)
(* job releases it.                                                        *)
(***************************************************************************)
EXTENDS MediaRelease, TLAPS

(***************************************************************************)
(* Types.                                                                  *)
(***************************************************************************)
LEMMA RestType == Rest \in Handling /\ Rest.pc = "idle"
BY ReleaseAssumption DEF Rest, Handling, Job, NoJob, Record, NoRecord, AFile, Targets

LEMMA UpdateType ==
  ASSUME TypeOK, NEW w \in Workers, NEW new \in Handling, Update(w, new)
  PROVE  /\ worker' \in [Workers -> Handling] /\ worker'[w] = new
         /\ \A v \in Workers \ {w} : worker'[v] = worker[v]
BY DEF TypeOK, Update

LEMMA HandlingType ==
  ASSUME TypeOK, NEW w \in Workers
  PROVE  /\ worker[w] \in Handling
         /\ worker[w].job \in Job /\ worker[w].file \in Files /\ worker[w].copy \in Record
         /\ worker[w].copy.attached \subseteq Targets /\ worker[w].todo \subseteq Targets
BY DEF TypeOK, Handling, Record

\* What has been using the file since is using it.
LEMMA UsersType ==
  ASSUME TypeOK, NEW w \in Workers
  PROVE  Users(w) \subseteq Targets \union {Nobody}
BY DEF Users

LEMMA WatchType ==
  ASSUME TypeOK, Watch
  PROVE  /\ since' \in [Workers -> SUBSET (Targets \union {Nobody})]
         /\ \A w \in Workers : since'[w] \subseteq Users(w)'
         /\ \A w \in Workers : ~(worker[w].pc = "next" /\ worker'[w].pc = "found")
                                 => since'[w] \subseteq since[w]
<1>1. \A w \in Workers : Users(w)' \subseteq Targets \union {Nobody}
  BY DEF Users
<1> QED
  BY <1>1 DEF Watch, TypeOK

\* The steps that every outcome of a check comes down to.
LEMMA NextFileType ==
  ASSUME TypeOK, NEW w \in Workers, NextFile(w)
  PROVE  /\ worker' \in [Workers -> Handling] /\ worker'[w].pc = "next"
         /\ \A v \in Workers \ {w} : worker'[v] = worker[v]
<1> DEFINE new == [Rest EXCEPT !.pc = "next",
                               !.job = [worker[w].job EXCEPT !.files = @ \ {worker[w].file}]]
<1>1. [worker[w].job EXCEPT !.files = @ \ {worker[w].file}] \in Job
  BY HandlingType DEF Job
<1>2. new \in Handling /\ new.pc = "next"
  BY <1>1, RestType DEF Handling
<1>3. Update(w, new)
  BY DEF NextFile
<1> QED
  BY <1>2, <1>3, UpdateType

LEMMA GotoType ==
  ASSUME TypeOK, NEW w \in Workers, NEW pc \in {"others", "messages", "abort", "remove"},
         Goto(w, pc)
  PROVE  /\ worker' \in [Workers -> Handling]
         /\ worker'[w] = [worker[w] EXCEPT !.pc = pc]
         /\ worker'[w].pc = pc /\ worker'[w].job = worker[w].job
         /\ worker'[w].file = worker[w].file /\ worker'[w].copy = worker[w].copy
         /\ worker'[w].todo = worker[w].todo
         /\ \A v \in Workers \ {w} : worker'[v] = worker[v]
<1>1. worker[w] \in Handling
  BY HandlingType
<1>2. [worker[w] EXCEPT !.pc = pc] \in Handling
  BY <1>1 DEF Handling
<1> QED
  BY <1>1, <1>2, UpdateType DEF Goto, Handling

LEMMA SaveAsType ==
  ASSUME TypeOK, NEW w \in Workers,
         NEW status \in {"none", "pending", "attached", "held", "deleted"}, SaveAs(w, status)
  PROVE  /\ worker' \in [Workers -> Handling]
         /\ \A v \in Workers \ {w} : worker'[v] = worker[v]
         /\ \/ worker'[w].pc = "next"
            \/ /\ worker'[w].pc = "save" /\ worker'[w].file = worker[w].file
               /\ worker'[w].copy.status = status
<1>1. CASE NextFile(w)
  BY <1>1, NextFileType
<1>2. CASE Update(w, [worker[w] EXCEPT !.pc = "save", !.copy.status = status])
  <2>1. worker[w] \in Handling /\ worker[w].copy \in Record
    BY HandlingType
  <2>2. /\ [worker[w] EXCEPT !.pc = "save", !.copy.status = status] \in Handling
        /\ [worker[w] EXCEPT !.pc = "save", !.copy.status = status].copy.status = status
        /\ [worker[w] EXCEPT !.pc = "save", !.copy.status = status].pc = "save"
        /\ [worker[w] EXCEPT !.pc = "save", !.copy.status = status].file = worker[w].file
    BY <2>1 DEF Handling, Record
  <2> QED
    BY <1>2, <2>2, UpdateType
<1> QED
  BY <1>1, <1>2 DEF SaveAs

\* A record is written without its upload id.
LEMMA SavedRecord ==
  ASSUME TypeOK, NEW w \in Workers, SaveRecord(w)
  PROVE  /\ record' \in [Files -> Record]
         /\ \A f \in Files : record'[f].multi = record[f].multi
         /\ \A f \in Files \ {worker[w].file} : record'[f] = record[f]
         /\ record'[worker[w].file].status = worker[w].copy.status
         /\ record'[worker[w].file].attached = worker[w].copy.attached
<1> DEFINE file == worker[w].file
           copy == worker[w].copy
           new == [record[file] EXCEPT !.status = copy.status, !.attached = copy.attached]
<1>1. file \in Files /\ copy \in Record /\ record[file] \in Record /\ record \in [Files -> Record]
  BY HandlingType DEF TypeOK
<1>2. record' = [record EXCEPT ![file].status = copy.status, ![file].attached = copy.attached]
  BY DEF SaveRecord
<1>3. /\ new \in Record /\ new.status = copy.status /\ new.attached = copy.attached
      /\ new.multi = record[file].multi
  BY <1>1 DEF Record
<1> HIDE DEF file, copy
<1>4. record' = [record EXCEPT ![file] = new]
  BY <1>1, <1>2
<1> HIDE DEF new
<1>5. /\ record' \in [Files -> Record] /\ record'[file] = new
      /\ \A f \in Files \ {file} : record'[f] = record[f]
  BY <1>1, <1>3, <1>4
<1> QED
  BY <1>1, <1>3, <1>5 DEF file, copy

LEMMA TypeInit == Init => TypeOK
<1> SUFFICES ASSUME Init PROVE TypeOK
  OBVIOUS
<1>1. record \in [Files -> Record] /\ worker \in [Workers -> Handling]
  BY ReleaseAssumption, RestType DEF Init
<1> QED
  BY <1>1 DEF Init, TypeOK

LEMMA TypeStep == TypeOK /\ [Next]_vars => TypeOK'
<1> SUFFICES ASSUME TypeOK, [Next]_vars PROVE TypeOK'
  OBVIOUS
<1> USE DEF bucket, users, bounds
<1>1. CASE UNCHANGED vars
  BY <1>1 DEF TypeOK, vars
\* A step of a worker that leaves everything but its own place alone.
<1>2. ASSUME worker' \in [Workers -> Handling], Watch, object' \subseteq object,
             parts' \subseteq parts, puts' = puts, slipped' \subseteq slipped,
             record' \in [Files -> Record], UNCHANGED users,
             jobs' \subseteq Job, lost' \in BOOLEAN
      PROVE  TypeOK'
  BY <1>2, WatchType DEF TypeOK
<1>3. ASSUME NEW w \in Workers, Take(w) PROVE TypeOK'
  <2>1. PICK job \in jobs :
          jobs' = jobs \ {job} /\ Update(w, [Rest EXCEPT !.pc = "next", !.job = job])
    BY <1>3 DEF Take
  <2>2. [Rest EXCEPT !.pc = "next", !.job = job] \in Handling
    BY RestType DEF Handling, TypeOK
  <2> QED
    BY <1>2, <1>3, <2>1, <2>2, UpdateType DEF Take, TypeOK
<1>4. ASSUME NEW w \in Workers, Done(w) PROVE TypeOK'
  BY <1>2, <1>4, RestType, UpdateType DEF Done, TypeOK
<1>5. ASSUME NEW w \in Workers, FindRecord(w) PROVE TypeOK'
  <2>1. PICK f \in worker[w].job.files :
         IF record[f].status = "deleted"
         THEN Update(w, [Rest EXCEPT !.pc = "next", !.job = [worker[w].job EXCEPT !.files = @ \ {f}]])
         ELSE Update(w, [worker[w] EXCEPT !.pc = "found", !.file = f,
                           !.todo = record[f].attached \ {worker[w].job.target},
                           !.copy = [record[f] EXCEPT
                                       !.attached = record[f].attached \ {worker[w].job.target}]])
    BY <1>5 DEF FindRecord
  <2>2. f \in Files /\ worker[w].job \in Job /\ record[f] \in Record
    BY HandlingType DEF Job, TypeOK
  <2>3. [Rest EXCEPT !.pc = "next", !.job = [worker[w].job EXCEPT !.files = @ \ {f}]] \in Handling
    BY <2>2, RestType DEF Handling, Job
  <2>4. [worker[w] EXCEPT !.pc = "found", !.file = f,
           !.todo = record[f].attached \ {worker[w].job.target},
           !.copy = [record[f] EXCEPT !.attached = record[f].attached \ {worker[w].job.target}]]
          \in Handling
    BY <2>2, HandlingType DEF Handling, Record
  <2> QED
    BY <1>2, <1>5, <2>1, <2>3, <2>4, UpdateType DEF FindRecord, TypeOK
<1>6. ASSUME NEW w \in Workers, CheckReport(w) PROVE TypeOK'
  BY <1>2, <1>6, SaveAsType, GotoType DEF CheckReport, TypeOK
<1>7. ASSUME NEW w \in Workers
      PROVE  worker[w].copy.status \in {"none", "pending", "attached", "held", "deleted"}
  BY <1>7, HandlingType DEF Record
<1>8. ASSUME NEW w \in Workers, CheckOther(w) PROVE TypeOK'
  <2>1. PICK t \in worker[w].todo :
          IF IsTargetLive(t) THEN SaveAs(w, worker[w].copy.status)
          ELSE Update(w, [worker[w] EXCEPT !.todo = @ \ {t}])
    BY <1>8 DEF CheckOther
  <2>2. [worker[w] EXCEPT !.todo = @ \ {t}] \in Handling
    BY HandlingType DEF Handling
  <2> QED
    BY <1>2, <1>7, <1>8, <2>1, <2>2, SaveAsType, UpdateType DEF CheckOther, TypeOK
<1>9. ASSUME NEW w \in Workers, CheckPostgres(w) PROVE TypeOK'
  BY <1>2, <1>7, <1>9, SaveAsType, GotoType DEF CheckPostgres, TypeOK
<1>10. ASSUME NEW w \in Workers, CheckMongo(w) PROVE TypeOK'
  BY <1>2, <1>7, <1>10, SaveAsType, GotoType, NextFileType DEF CheckMongo, TypeOK
<1>11. ASSUME NEW w \in Workers, AbortMultipart(w) PROVE TypeOK'
  BY <1>2, <1>11, GotoType DEF AbortMultipart, TypeOK
<1>12. ASSUME NEW w \in Workers, Remove(w) PROVE TypeOK'
  BY <1>2, <1>12, SaveAsType DEF Remove, TypeOK
<1>13. ASSUME NEW w \in Workers, SaveRecord(w) PROVE TypeOK'
  BY <1>2, <1>13, SavedRecord, NextFileType DEF SaveRecord, TypeOK
<1>14. ASSUME NEW w \in Workers, GiveUp(w) PROVE TypeOK'
  BY <1>2, <1>14, RestType, UpdateType DEF GiveUp, TypeOK
<1>15. ASSUME NEW w \in Workers, Crash(w) PROVE TypeOK'
  BY <1>2, <1>15, RestType, UpdateType, HandlingType DEF Crash, TypeOK
<1>16. ASSUME NEW t \in Targets, Create(t) PROVE TypeOK'
  <2>1. record' \in [Files -> Record]
    <3> SUFFICES ASSUME NEW f \in Files
                 PROVE  (IF f \in Uses[t] /\ record[f].status \in {"pending", "attached"}
                         THEN [record[f] EXCEPT !.status = "attached", !.attached = @ \union {t}]
                         ELSE record[f]) \in Record
      BY <1>16 DEF Create
    <3> QED
      BY DEF TypeOK, Record
  <2> QED
    BY <1>16, <2>1, WatchType DEF Create, TypeOK
<1>17. ASSUME NEW t \in Targets, Delete(t) PROVE TypeOK'
  <2>1. [target |-> t, files |-> Uses[t], dry |-> FALSE] \in Job
    BY ReleaseAssumption DEF Job
  <2> QED
    BY <1>17, <2>1, WatchType DEF Delete, TypeOK
<1>18. ASSUME NEW t \in Targets, Report(t) PROVE TypeOK'
  BY <1>18, WatchType DEF Report, TypeOK
<1>19. ASSUME NEW f \in Files,
              SetAvatar(f) \/ ClearAvatar(f) \/ CompleteUpload(f) \/ CompletePut(f)
       PROVE  TypeOK'
  BY <1>19, WatchType DEF SetAvatar, ClearAvatar, CompleteUpload, CompletePut, TypeOK
<1>20. ASSUME NEW f \in Files, Sweep(f) PROVE TypeOK'
  <2>1. PICK dry \in BOOLEAN :
          jobs' = jobs \union {[target |-> Nobody, files |-> {f}, dry |-> dry]}
    BY <1>20 DEF Sweep
  <2>2. [target |-> Nobody, files |-> {f}, dry |-> dry] \in Job
    BY DEF Job
  <2> QED
    BY <1>20, <2>1, <2>2, WatchType DEF Sweep, TypeOK
<1> QED
  BY <1>1, <1>3, <1>4, <1>5, <1>6, <1>8, <1>9, <1>10, <1>11, <1>12, <1>13, <1>14, <1>15, <1>16,
     <1>17, <1>18, <1>19, <1>20 DEF Next, HandleRelease, ReleaseFile

\* MediaRelease is type correct for any files, targets and workers.
THEOREM TypeCorrect == Spec => []TypeOK
BY TypeInit, TypeStep, PTL DEF Spec

(***************************************************************************)
(* A record that says "deleted".  The invariant: an unfinished multipart   *)
(* upload is not in the bucket, its record has an upload id and is pending *)
(* or held; and a worker that is about to mark a file deleted has made     *)
(* sure that nothing is left, in an order that no such upload and no other *)
(* worker can undo.                                                        *)
(***************************************************************************)
Checked == {"found", "others", "messages", "abort", "remove"}

PartsRight ==
  /\ parts \intersect object = {}
  /\ \A f \in parts : record[f].multi /\ record[f].status \in {"pending", "held"}
  /\ \A f \in puts : ~record[f].multi

Careful(w) ==
  LET me == worker[w] IN
    /\ me.pc \in Checked => me.copy.status # "deleted"
    /\ me.pc \in Checked \ {"found"} => me.copy.status # "held"
    /\ (me.pc \in Checked \union {"save"} /\ me.file \in parts)
         => me.copy.status \in {"pending", "held"}
    /\ (me.pc \in Checked /\ me.file \in parts) => me.copy.multi
    /\ me.pc = "remove" => me.file \notin parts
    /\ (me.pc = "save" /\ me.copy.status = "deleted")
         => me.file \notin parts \union (object \ slipped)

Marked == TypeOK /\ PartsRight /\ DeletedMeansGone /\ \A w \in Workers : Careful(w)

LEMMA CarefulStays ==
  ASSUME NEW w \in Workers, Careful(w), worker'[w] = worker[w], parts' \subseteq parts,
         (object \ slipped)' \subseteq (object \ slipped) \union parts
  PROVE  Careful(w)'
BY DEF Careful, Checked

LEMMA CarefulAtRest ==
  ASSUME NEW w \in Workers, worker'[w].pc \in {"idle", "next"}
  PROVE  Careful(w)'
BY DEF Careful, Checked

LEMMA MarkedInit == Init => Marked
<1> SUFFICES ASSUME Init PROVE Marked
  OBVIOUS
<1>1. record \in [Files -> Record] /\ \A f \in Files : record[f].status # "deleted"
  BY ReleaseAssumption DEF Init
<1>2. PartsRight /\ DeletedMeansGone
  <2>1. /\ \A f \in parts : Awaited(f) /\ record[f].multi
        /\ \A f \in puts : ~record[f].multi
        /\ object = Files \ (parts \union puts)
    BY DEF Init
  <2> QED
    BY <1>1, <2>1 DEF PartsRight, DeletedMeansGone, Awaited
<1>3. ASSUME NEW w \in Workers PROVE Careful(w)
  BY RestType DEF Init, Careful, Checked
<1> QED
  BY <1>2, <1>3, TypeInit DEF Marked

LEMMA MarkedWork ==
  ASSUME Marked, NEW w \in Workers, HandleRelease(w)
  PROVE  PartsRight' /\ DeletedMeansGone' /\ \A v \in Workers : Careful(v)'
<1> USE DEF bucket, users, bounds
<1>1. TypeOK /\ Careful(w) /\ worker[w] \in Handling
  BY HandlingType DEF Marked
\* A step that writes no record: what is left is that w stays careful.
<1>2. ASSUME \A v \in Workers \ {w} : worker'[v] = worker[v], object' \subseteq object,
             (object \ slipped)' \subseteq object \ slipped,
             parts' \subseteq parts, puts' = puts, record' = record, Careful(w)'
      PROVE  PartsRight' /\ DeletedMeansGone' /\ \A v \in Workers : Careful(v)'
  <2>1. PartsRight' /\ DeletedMeansGone'
    BY <1>2 DEF Marked, PartsRight, DeletedMeansGone
  <2>2. ASSUME NEW v \in Workers, v # w PROVE Careful(v)'
    BY <1>2, <2>2, CarefulStays DEF Marked
  <2> QED
    BY <1>2, <2>1, <2>2
\* A check that keeps the file: its record is written with the same status.
<1>3. ASSUME NEW status \in {"none", "pending", "attached", "held"}, SaveAs(w, status),
             UNCHANGED <<bucket, record>>,
             worker[w].file \in parts => status \in {"pending", "held"}
      PROVE  PartsRight' /\ DeletedMeansGone' /\ \A v \in Workers : Careful(v)'
  <2>1. Careful(w)'
    BY <1>1, <1>3, SaveAsType DEF Careful, Checked
  <2> QED
    BY <1>1, <1>2, <1>3, <2>1, SaveAsType
<1>4. worker[w].pc \in Checked => worker[w].copy.status \in {"none", "pending", "attached", "held"}
  BY <1>1 DEF Careful, Handling, Record
<1>5. CASE Take(w)
  <2>1. PICK job \in jobs : Update(w, [Rest EXCEPT !.pc = "next", !.job = job])
    BY <1>5 DEF Take
  <2>2. [Rest EXCEPT !.pc = "next", !.job = job] \in Handling
    BY <1>1, RestType DEF Handling, TypeOK
  <2>3. worker'[w].pc = "next"
    BY <1>1, <2>1, <2>2, UpdateType, RestType DEF Handling
  <2> QED
    BY <1>1, <1>2, <1>5, <2>1, <2>2, <2>3, UpdateType, CarefulAtRest DEF Take
<1>6. CASE Done(w)
  BY <1>1, <1>2, <1>6, RestType, UpdateType, CarefulAtRest DEF Done
<1>7. CASE FindRecord(w)
  <2>1. PICK f \in worker[w].job.files :
         IF record[f].status = "deleted"
         THEN Update(w, [Rest EXCEPT !.pc = "next", !.job = [worker[w].job EXCEPT !.files = @ \ {f}]])
         ELSE Update(w, [worker[w] EXCEPT !.pc = "found", !.file = f,
                           !.todo = record[f].attached \ {worker[w].job.target},
                           !.copy = [record[f] EXCEPT
                                       !.attached = record[f].attached \ {worker[w].job.target}]])
    BY <1>7 DEF FindRecord
  <2>2. f \in Files /\ worker[w].job \in Job /\ record[f] \in Record
    BY <1>1, HandlingType DEF Job, TypeOK
  <2>3. [Rest EXCEPT !.pc = "next", !.job = [worker[w].job EXCEPT !.files = @ \ {f}]] \in Handling
    BY <2>2, RestType DEF Handling, Job
  <2>4. [worker[w] EXCEPT !.pc = "found", !.file = f,
           !.todo = record[f].attached \ {worker[w].job.target},
           !.copy = [record[f] EXCEPT !.attached = record[f].attached \ {worker[w].job.target}]]
          \in Handling
    BY <1>1, <2>2, HandlingType DEF Handling, Record
  <2>5. CASE record[f].status = "deleted"
    <3>1. worker'[w].pc = "next"
      BY <1>1, <2>1, <2>3, <2>5, UpdateType, RestType DEF Handling
    <3> QED
      BY <1>1, <1>2, <1>7, <2>1, <2>3, <2>5, <3>1, UpdateType, CarefulAtRest DEF FindRecord
  <2>6. CASE record[f].status # "deleted"
    <3>1. /\ worker'[w].pc = "found" /\ worker'[w].file = f
          /\ worker'[w].copy.status = record[f].status
          /\ worker'[w].copy.multi = record[f].multi
      <4> DEFINE copy == [record[f] EXCEPT !.attached = record[f].attached \ {worker[w].job.target}]
                 new == [worker[w] EXCEPT !.pc = "found", !.file = f,
                           !.todo = record[f].attached \ {worker[w].job.target}, !.copy = copy]
      <4>1. worker'[w] = new
        BY <1>1, <2>1, <2>4, <2>6, UpdateType
      <4>2. copy.status = record[f].status /\ copy.multi = record[f].multi
        BY <2>2 DEF Record
      <4>3. new.pc = "found" /\ new.file = f /\ new.copy = copy
        BY <1>1 DEF Handling
      <4> QED
        BY <4>1, <4>2, <4>3
    <3>2. Careful(w)'
      BY <1>7, <2>2, <2>6, <3>1 DEF Careful, Checked, FindRecord, Marked, PartsRight
    <3> QED
      BY <1>1, <1>2, <1>7, <2>1, <2>4, <2>6, <3>2, UpdateType DEF FindRecord
  <2> QED
    BY <2>5, <2>6
<1>8. CASE CheckReport(w)
  <2>1. CASE SaveAs(w, "held")
    BY <1>3, <1>8, <2>1 DEF CheckReport
  <2>2. CASE Goto(w, "others") /\ worker[w].copy.status # "held"
    <3>1. Careful(w)'
      BY <1>1, <1>8, <2>2, GotoType DEF Careful, Checked, CheckReport, At
    <3> QED
      BY <1>1, <1>2, <1>8, <2>2, <3>1, GotoType DEF CheckReport
  <2> QED
    BY <1>8, <2>1, <2>2 DEF CheckReport
<1>9. CASE CheckOther(w)
  <2>1. PICK t \in worker[w].todo :
          IF IsTargetLive(t) THEN SaveAs(w, worker[w].copy.status)
          ELSE Update(w, [worker[w] EXCEPT !.todo = @ \ {t}])
    BY <1>9 DEF CheckOther
  <2>2. CASE SaveAs(w, worker[w].copy.status)
    BY <1>1, <1>3, <1>4, <1>9, <2>2 DEF CheckOther, At, Careful, Checked
  <2>3. CASE Update(w, [worker[w] EXCEPT !.todo = @ \ {t}])
    <3>1. [worker[w] EXCEPT !.todo = @ \ {t}] \in Handling
      BY <1>1 DEF Handling
    <3>2. /\ worker'[w].pc = worker[w].pc /\ worker'[w].file = worker[w].file
          /\ worker'[w].copy = worker[w].copy
      BY <1>1, <2>3, <3>1, UpdateType DEF Handling
    <3>3. Careful(w)'
      BY <1>1, <1>9, <3>2 DEF Careful, CheckOther
    <3> QED
      BY <1>1, <1>2, <1>9, <2>3, <3>1, <3>3, UpdateType DEF CheckOther
  <2> QED
    BY <2>1, <2>2, <2>3
<1>10. CASE CheckPostgres(w)
  <2>1. CASE SaveAs(w, worker[w].copy.status)
    BY <1>1, <1>3, <1>4, <1>10, <2>1 DEF CheckPostgres, At, Careful, Checked
  <2>2. CASE Goto(w, "messages")
    <3>1. Careful(w)'
      BY <1>1, <1>10, <2>2, GotoType DEF Careful, Checked, CheckPostgres, At
    <3> QED
      BY <1>1, <1>2, <1>10, <2>2, <3>1, GotoType DEF CheckPostgres
  <2> QED
    BY <1>10, <2>1, <2>2 DEF CheckPostgres
<1>11. CASE CheckMongo(w)
  <2>1. CASE SaveAs(w, worker[w].copy.status)
    BY <1>1, <1>3, <1>4, <1>11, <2>1 DEF CheckMongo, At, Careful, Checked
  <2>2. CASE NextFile(w)
    BY <1>1, <1>2, <1>11, <2>2, NextFileType, CarefulAtRest DEF CheckMongo
  <2>3. CASE Goto(w, "abort")
    <3>1. Careful(w)'
      BY <1>1, <1>11, <2>3, GotoType DEF Careful, Checked, CheckMongo, At
    <3> QED
      BY <1>1, <1>2, <1>11, <2>3, <3>1, GotoType DEF CheckMongo
  <2>4. CASE /\ Goto(w, "remove")
             /\ ~(worker[w].copy.status = "pending" /\ worker[w].copy.multi)
    <3>1. worker[w].file \notin parts
      BY <1>1, <1>11, <2>4 DEF Careful, Checked, CheckMongo, At
    <3>2. Careful(w)'
      BY <1>1, <1>11, <2>4, <3>1, GotoType DEF Careful, Checked, CheckMongo, At
    <3> QED
      BY <1>1, <1>2, <1>11, <2>4, <3>2, GotoType DEF CheckMongo
  <2> QED
    BY <1>11, <2>1, <2>2, <2>3, <2>4 DEF CheckMongo
<1>12. CASE AbortMultipart(w)
  <2>1. Careful(w)'
    BY <1>1, <1>12, GotoType DEF Careful, Checked, AbortMultipart, At
  <2> QED
    BY <1>1, <1>2, <1>12, <2>1, GotoType DEF AbortMultipart
<1>13. CASE Remove(w)
  <2>1. worker[w].file \notin (object \union parts)'
    BY <1>1, <1>13 DEF Remove, At, Careful
  <2>2. Careful(w)'
    BY <1>1, <1>13, <2>1, SaveAsType DEF Remove, Careful, Checked
  <2> QED
    BY <1>1, <1>2, <1>13, <2>2, SaveAsType DEF Remove
<1>14. CASE SaveRecord(w)
  <2>1. worker'[w].pc = "next" /\ \A v \in Workers \ {w} : worker'[v] = worker[v]
    BY <1>1, <1>14, NextFileType DEF SaveRecord
  <2>2. PartsRight' /\ DeletedMeansGone'
    BY <1>1, <1>14 DEF SaveRecord, At, Careful, Checked, Marked, PartsRight, DeletedMeansGone,
                       TypeOK
  <2>3. ASSUME NEW v \in Workers, v # w PROVE Careful(v)'
    BY <1>14, <2>1, <2>3, CarefulStays DEF SaveRecord, Marked
  <2> QED
    BY <2>1, <2>2, <2>3, CarefulAtRest
<1> QED
  BY <1>5, <1>6, <1>7, <1>8, <1>9, <1>10, <1>11, <1>12, <1>13, <1>14
  DEF HandleRelease, ReleaseFile

LEMMA MarkedStep == Marked /\ [Next]_vars => Marked'
<1> SUFFICES ASSUME Marked, [Next]_vars PROVE Marked'
  OBVIOUS
<1> USE DEF bucket, users, bounds
<1>1. TypeOK /\ TypeOK'
  BY TypeStep DEF Marked
\* The others leave the workers where they are.
<1>2. ASSUME worker' = worker, parts' \subseteq parts,
             (object \ slipped)' \subseteq (object \ slipped) \union parts
      PROVE  \A v \in Workers : Careful(v)'
  BY <1>2, CarefulStays DEF Marked
<1>3. CASE UNCHANGED vars
  BY <1>1, <1>2, <1>3 DEF vars, Marked, PartsRight, DeletedMeansGone
<1>4. ASSUME NEW w \in Workers, HandleRelease(w) PROVE Marked'
  BY <1>1, <1>4, MarkedWork DEF Marked
<1>5. ASSUME NEW w \in Workers, GiveUp(w) \/ Crash(w) PROVE Marked'
  <2>1. worker'[w].pc = "idle" /\ \A v \in Workers \ {w} : worker'[v] = worker[v]
    BY <1>1, <1>5, RestType, UpdateType DEF GiveUp, Crash
  <2>2. \A v \in Workers : Careful(v)'
    BY <1>5, <2>1, CarefulAtRest, CarefulStays DEF GiveUp, Crash, Marked
  <2> QED
    BY <1>1, <1>5, <2>2 DEF GiveUp, Crash, Marked, PartsRight, DeletedMeansGone
<1>6. ASSUME NEW t \in Targets, Create(t) PROVE Marked'
  <2>1. ASSUME NEW f \in Files
        PROVE  /\ record'[f].multi = record[f].multi
               /\ \/ record'[f].status = record[f].status
                  \/ f \in object /\ record'[f].status = "attached"
    <3>1. record'[f] = IF f \in Uses[t] /\ record[f].status \in {"pending", "attached"}
                       THEN [record[f] EXCEPT !.status = "attached", !.attached = @ \union {t}]
                       ELSE record[f]
      BY <1>6 DEF Create
    <3>2. Uses[t] \subseteq object /\ record[f] \in Record
      BY <1>1, <1>6 DEF Create, TypeOK
    <3> QED
      BY <3>1, <3>2 DEF Record
  <2>2. PartsRight' /\ DeletedMeansGone'
    <3>1. /\ UNCHANGED <<object, parts, puts, slipped>>
          /\ parts \subseteq Files /\ puts \subseteq Files
      BY <1>1, <1>6 DEF Create, TypeOK
    <3>2. PartsRight'
      BY <2>1, <3>1 DEF Marked, PartsRight
    <3>3. DeletedMeansGone'
      BY <2>1, <3>1 DEF Marked, DeletedMeansGone
    <3> QED
      BY <3>2, <3>3
  <2> QED
    BY <1>1, <1>2, <1>6, <2>2 DEF Create, Marked
<1>7. ASSUME NEW t \in Targets, Delete(t) \/ Report(t) PROVE Marked'
  BY <1>1, <1>2, <1>7 DEF Delete, Report, Marked, PartsRight, DeletedMeansGone
<1>8. ASSUME NEW f \in Files, SetAvatar(f) \/ ClearAvatar(f) \/ Sweep(f) PROVE Marked'
  BY <1>1, <1>2, <1>8 DEF SetAvatar, ClearAvatar, Sweep, Marked, PartsRight, DeletedMeansGone
<1>9. ASSUME NEW f \in Files, CompleteUpload(f) PROVE Marked'
  BY <1>1, <1>2, <1>9 DEF CompleteUpload, Marked, PartsRight, DeletedMeansGone
\* A PUT that comes too late is one that slipped through.
<1>10. ASSUME NEW f \in Files, CompletePut(f) PROVE Marked'
  <2>1. /\ UNCHANGED <<parts, record, worker>> /\ object' = object \union {f}
        /\ puts' \subseteq puts /\ slipped \subseteq slipped' /\ f \in puts
        /\ Released(f) => f \in slipped'
    BY <1>10 DEF CompletePut
  <2>2. PartsRight' /\ DeletedMeansGone'
    BY <1>1, <2>1 DEF Marked, PartsRight, DeletedMeansGone, Released
  <2>3. ASSUME NEW v \in Workers PROVE Careful(v)'
    <3>1. CASE f \in slipped'
      BY <2>1, <3>1, CarefulStays DEF Marked
    <3>2. CASE ~Released(f)
      BY <2>1, <3>2 DEF Marked, Released, Careful, At
    <3> QED
      BY <2>1, <3>1, <3>2
  <2> QED
    BY <1>1, <2>2, <2>3 DEF Marked
<1> QED
  BY <1>3, <1>4, <1>5, <1>6, <1>7, <1>8, <1>9, <1>10 DEF Next

\* A record that says "deleted" is right, for any files, targets and workers
\* and however their handlings of one file overlap (release.go:124, 199).
THEOREM NeverMarkedEarly == Spec => []DeletedMeansGone
<1>1. Marked => DeletedMeansGone
  BY DEF Marked
<1> QED
  BY <1>1, MarkedInit, MarkedStep, PTL DEF Spec

(***************************************************************************)
(* A file in use.  The invariant: whoever has used the file since the      *)
(* worker read its record is of a kind that the worker has still to ask    *)
(* about; nothing is left when it comes to remove the file.                *)
(***************************************************************************)
Visible(w) == MessagesOf(Asked(worker[w].job.target, worker[w].file))

Looked(w) ==
  LET me == worker[w] IN
    /\ since[w] \subseteq Users(w)
    /\ me.pc \in Checked
         => since[w] \subseteq Posts \union Visible(w) \union me.copy.attached \union {Nobody}
    /\ me.pc \in {"found", "others"} => since[w] \intersect me.copy.attached \subseteq me.todo
    /\ me.pc \in {"messages", "abort", "remove"}
         => since[w] \intersect (me.copy.attached \union Posts \union {Nobody}) = {}
    /\ me.pc \in {"abort", "remove"} => since[w] = {}

InUse == TypeOK /\ \A w \in Workers : Looked(w)

LEMMA LookedStays ==
  ASSUME TypeOK, Watch, NEW w \in Workers, Looked(w), worker'[w] = worker[w]
  PROVE  Looked(w)'
<1>1. worker[w].pc \in {"idle", "next", "found", "others", "messages", "abort", "remove", "save"}
  BY HandlingType DEF Handling
<1>2. since'[w] \subseteq Users(w)' /\ since'[w] \subseteq since[w]
  BY <1>1, WatchType
<1> QED
  BY <1>2 DEF Looked, Checked, Visible

LEMMA LookedAtRest ==
  ASSUME TypeOK, Watch, NEW w \in Workers, worker'[w].pc \in {"idle", "next", "save"}
  PROVE  Looked(w)'
BY WatchType DEF Looked, Checked

LEMMA InUseInit == Init => InUse
<1> SUFFICES ASSUME Init, NEW w \in Workers PROVE Looked(w)
  BY TypeInit DEF InUse
<1>1. since[w] = {} /\ worker[w].pc = "idle"
  BY RestType DEF Init
<1> QED
  BY <1>1 DEF Looked, Checked

\* Who uses the file after a step that changes neither content nor profiles.
LEMMA UsersNow ==
  ASSUME TypeOK, Watch, UNCHANGED users, NEW w \in Workers, worker'[w].file = worker[w].file,
         worker'[w].job = worker[w].job, worker[w].pc # "next", NEW t \in since'[w]
  PROVE  /\ t \in since[w]
         /\ t \in Targets \/ t = Nobody
         /\ t = Nobody => worker[w].file \in avatars
         /\ t \in Targets => Live(t) /\ worker[w].file \in Uses[t]
                               /\ t # worker[w].job.target
<1>1. t \in since[w] /\ t \in Users(w)'
  BY WatchType
<1>2. Users(w)' =
        {u \in Targets \ {worker[w].job.target} :
           /\ Live(u) /\ worker[w].file \in Uses[u]
           /\ u \in Posts \union Visible(w) \/ u \in record'[worker[w].file].attached}
        \union (IF worker[w].file \in avatars THEN {Nobody} ELSE {})
  BY DEF Users, Live, users, Visible
<1> QED
  BY <1>1, <1>2, ReleaseAssumption

LEMMA LookedWork ==
  ASSUME InUse, NEW w \in Workers, ReleaseFile(w)
  PROVE  Looked(w)' /\ \A v \in Workers \ {w} : worker'[v] = worker[v]
<1> USE DEF bucket, users, bounds
<1>1. TypeOK /\ Looked(w) /\ worker[w] \in Handling
  BY HandlingType DEF InUse
<1>2. Watch /\ UNCHANGED users
  BY DEF ReleaseFile, FindRecord, CheckReport, CheckOther, CheckPostgres, CheckMongo,
         AbortMultipart, Remove, SaveRecord
\* A check that keeps the file, and the save, end the watch.
<1>3. ASSUME NEW status \in {"none", "pending", "attached", "held", "deleted"}, SaveAs(w, status)
      PROVE  Looked(w)' /\ \A v \in Workers \ {w} : worker'[v] = worker[v]
  BY <1>1, <1>2, <1>3, SaveAsType, LookedAtRest
<1>4. worker[w].copy.status \in {"none", "pending", "attached", "held", "deleted"}
  BY <1>1, HandlingType DEF Record
<1>5. ASSUME NextFile(w)
      PROVE  Looked(w)' /\ \A v \in Workers \ {w} : worker'[v] = worker[v]
  BY <1>1, <1>2, <1>5, NextFileType, LookedAtRest
<1>7. CASE FindRecord(w)
  <2>1. PICK f \in worker[w].job.files :
         IF record[f].status = "deleted"
         THEN Update(w, [Rest EXCEPT !.pc = "next", !.job = [worker[w].job EXCEPT !.files = @ \ {f}]])
         ELSE Update(w, [worker[w] EXCEPT !.pc = "found", !.file = f,
                           !.todo = record[f].attached \ {worker[w].job.target},
                           !.copy = [record[f] EXCEPT
                                       !.attached = record[f].attached \ {worker[w].job.target}]])
    BY <1>7 DEF FindRecord
  <2>2. f \in Files /\ worker[w].job \in Job /\ record[f] \in Record
    BY <1>1, HandlingType DEF Job, TypeOK
  <2>3. [Rest EXCEPT !.pc = "next", !.job = [worker[w].job EXCEPT !.files = @ \ {f}]] \in Handling
    BY <2>2, RestType DEF Handling, Job
  <2> DEFINE others == record[f].attached \ {worker[w].job.target}
             copy == [record[f] EXCEPT !.attached = others]
             new == [worker[w] EXCEPT !.pc = "found", !.file = f, !.todo = others, !.copy = copy]
  <2>4. new \in Handling
    BY <1>1, <2>2, HandlingType DEF Handling, Record
  <2>5. CASE record[f].status = "deleted"
    <3>1. worker'[w].pc = "next"
      BY <1>1, <2>1, <2>3, <2>5, UpdateType, RestType DEF Handling
    <3> QED
      BY <1>1, <1>2, <2>1, <2>3, <2>5, <3>1, UpdateType, LookedAtRest
  <2>6. CASE record[f].status # "deleted"
    <3>1. worker'[w] = new /\ \A v \in Workers \ {w} : worker'[v] = worker[v]
      BY <1>1, <2>1, <2>4, <2>6, UpdateType
    <3>2. copy.attached = others
      BY <2>2 DEF Record
    <3>3. /\ new.pc = "found" /\ new.file = f /\ new.copy = copy /\ new.todo = others
          /\ new.job = worker[w].job
      BY <1>1 DEF Handling
    <3>4. since'[w] \subseteq Users(w)'
      BY <1>1, <1>2, WatchType
    <3>5. Users(w)' \subseteq Posts \union Visible(w)' \union others \union {Nobody}
      <4>1. record' = record
        BY <1>7 DEF FindRecord
      <4> HIDE DEF new
      <4>2. Users(w)' =
              {u \in Targets \ {worker[w].job.target} :
                 /\ Live(u)' /\ f \in Uses[u]
                 /\ u \in Posts \union Visible(w)' \/ u \in record[f].attached}
              \union (IF f \in avatars' THEN {Nobody} ELSE {})
        BY <3>1, <3>3, <4>1 DEF Users, Visible
      <4> QED
        BY <4>2
    <3> HIDE DEF new, copy
    <3> QED
      BY <3>1, <3>2, <3>3, <3>4, <3>5 DEF Looked, Checked
  <2> QED
    BY <2>5, <2>6
<1>8. CASE CheckReport(w)
  <2>1. CASE Goto(w, "others")
    <3>1. At(w, "found")
      BY <1>8 DEF CheckReport
    <3>2. since'[w] \subseteq Users(w)' /\ since'[w] \subseteq since[w]
      BY <1>1, <1>2, <3>1, WatchType DEF At
    <3>3. Looked(w)'
      BY <1>1, <2>1, <3>1, <3>2, GotoType DEF Looked, Checked, At, Visible
    <3> QED
      BY <1>1, <2>1, <3>3, GotoType
  <2> QED
    BY <1>3, <1>8, <2>1 DEF CheckReport
<1>9. CASE CheckOther(w)
  <2>1. PICK t \in worker[w].todo :
          IF IsTargetLive(t) THEN SaveAs(w, worker[w].copy.status)
          ELSE Update(w, [worker[w] EXCEPT !.todo = @ \ {t}])
    BY <1>9 DEF CheckOther
  <2>2. CASE ~IsTargetLive(t)
    <3>1. [worker[w] EXCEPT !.todo = @ \ {t}] \in Handling
      BY <1>1 DEF Handling
    <3>2. /\ worker'[w].pc = worker[w].pc /\ worker'[w].file = worker[w].file
          /\ worker'[w].copy = worker[w].copy /\ worker'[w].job = worker[w].job
          /\ worker'[w].todo = worker[w].todo \ {t}
          /\ \A v \in Workers \ {w} : worker'[v] = worker[v]
      BY <1>1, <2>1, <2>2, <3>1, UpdateType DEF Handling
    <3>3. At(w, "others") /\ t \in Targets
      BY <1>1, <1>9, HandlingType DEF CheckOther
    <3>4. since'[w] \subseteq Users(w)' /\ since'[w] \subseteq since[w]
      BY <1>1, <1>2, <3>3, WatchType DEF At
    <3>5. t \notin since'[w]
      <4>1. t # Nobody /\ ~Live(t)
        BY <2>2, <3>3, ReleaseAssumption DEF IsTargetLive
      <4> QED
        BY <1>1, <1>2, <3>2, <3>3, <4>1, UsersNow DEF At
    <3>6. Looked(w)'
      BY <1>1, <3>2, <3>3, <3>4, <3>5 DEF Looked, Checked, At, Visible
    <3> QED
      BY <3>2, <3>6
  <2> QED
    BY <1>3, <1>4, <2>1, <2>2
<1>10. CASE CheckPostgres(w)
  <2>1. CASE Goto(w, "messages") /\ ~UsedInPostgres(worker[w].file, worker[w].job.target)
    <3>1. At(w, "others") /\ worker[w].todo = {}
      BY <1>10 DEF CheckPostgres
    <3>2. since'[w] \subseteq Users(w)' /\ since'[w] \subseteq since[w]
      BY <1>1, <1>2, <3>1, WatchType DEF At
    <3>3. since'[w] \intersect (worker[w].copy.attached \union Posts \union {Nobody}) = {}
      <4>1. since'[w] \intersect worker[w].copy.attached = {}
        BY <1>1, <3>1, <3>2 DEF Looked, At
      <4>2. ASSUME NEW t \in since'[w], t \in Posts \union {Nobody} PROVE FALSE
        BY <1>1, <1>2, <2>1, <3>1, <4>2, GotoType, UsersNow, ReleaseAssumption
        DEF UsedInPostgres, Targets, At
      <4> QED
        BY <4>1, <4>2
    <3>4. Looked(w)'
      BY <1>1, <2>1, <3>1, <3>2, <3>3, GotoType DEF Looked, Checked, At, Visible
    <3> QED
      BY <1>1, <2>1, <3>4, GotoType
  <2> QED
    BY <1>3, <1>4, <1>10, <2>1 DEF CheckPostgres
<1>11. CASE CheckMongo(w)
  <2>1. ASSUME NEW pc \in {"abort", "remove"}, Goto(w, pc),
               ~UsedInMongo(worker[w].file, worker[w].job.target)
        PROVE  Looked(w)' /\ \A v \in Workers \ {w} : worker'[v] = worker[v]
    <3>1. At(w, "messages")
      BY <1>11 DEF CheckMongo
    <3>2. since'[w] \subseteq Users(w)' /\ since'[w] \subseteq since[w]
      BY <1>1, <1>2, <3>1, WatchType DEF At
    <3>3. since'[w] \subseteq Visible(w)
      BY <1>1, <3>1, <3>2 DEF Looked, Checked, At
    <3>4. ASSUME NEW t \in since'[w] PROVE FALSE
      <4>1. t \in Visible(w) /\ t \in Targets
            /\ Asked(worker[w].job.target, worker[w].file) # Nowhere
        BY <3>3, ReleaseAssumption DEF Targets, Visible, MessagesOf
      <4>2. worker'[w].file = worker[w].file /\ worker'[w].job = worker[w].job
        BY <1>1, <2>1, GotoType
      <4>3. Live(t) /\ worker[w].file \in Uses[t] /\ t # worker[w].job.target
        BY <1>1, <1>2, <3>1, <4>1, <4>2, UsersNow DEF At
      <4> QED
        BY <2>1, <4>1, <4>3 DEF UsedInMongo, Visible
    <3>5. Looked(w)'
      BY <1>1, <2>1, <3>2, <3>4, GotoType DEF Looked, Checked
    <3> QED
      BY <1>1, <2>1, <3>5, GotoType
  <2> QED
    BY <1>3, <1>4, <1>5, <1>11, <2>1 DEF CheckMongo
<1>12. CASE AbortMultipart(w)
  <2>1. At(w, "abort")
    BY <1>12 DEF AbortMultipart
  <2>2. since'[w] \subseteq Users(w)' /\ since'[w] \subseteq since[w]
    BY <1>1, <1>2, <2>1, WatchType DEF At
  <2>3. Looked(w)'
    BY <1>1, <1>12, <2>1, <2>2, GotoType DEF Looked, Checked, AbortMultipart, At
  <2> QED
    BY <1>1, <1>12, <2>3, GotoType DEF AbortMultipart
<1>13. CASE Remove(w)
  BY <1>3, <1>13 DEF Remove
<1>14. CASE SaveRecord(w)
  BY <1>5, <1>14 DEF SaveRecord
<1> QED
  BY <1>7, <1>8, <1>9, <1>10, <1>11, <1>12, <1>13, <1>14 DEF ReleaseFile

LEMMA InUseStep == InUse /\ [Next]_vars => InUse'
<1> SUFFICES ASSUME InUse, [Next]_vars PROVE InUse'
  OBVIOUS
<1> USE DEF bucket, users, bounds
<1>1. TypeOK /\ TypeOK'
  BY TypeStep DEF InUse
<1>2. CASE UNCHANGED vars
  BY <1>1, <1>2 DEF vars, InUse, Looked, Users, Live, Visible
<1>3. ASSUME worker' = worker, Watch PROVE InUse'
  BY <1>1, <1>3, LookedStays DEF InUse
<1>4. ASSUME NEW w \in Workers, Watch, worker'[w].pc \in {"idle", "next"},
             \A v \in Workers \ {w} : worker'[v] = worker[v]
      PROVE  InUse'
  BY <1>1, <1>4, LookedStays, LookedAtRest DEF InUse
<1>5. ASSUME NEW w \in Workers, ReleaseFile(w) PROVE InUse'
  <2>1. Watch
    BY <1>5 DEF ReleaseFile, FindRecord, CheckReport, CheckOther, CheckPostgres, CheckMongo,
                AbortMultipart, Remove, SaveRecord
  <2>2. Looked(w)' /\ \A v \in Workers \ {w} : worker'[v] = worker[v]
    BY <1>5, LookedWork
  <2> QED
    BY <1>1, <2>1, <2>2, LookedStays DEF InUse
<1>6. ASSUME NEW w \in Workers, Take(w) PROVE InUse'
  <2>1. PICK job \in jobs : Update(w, [Rest EXCEPT !.pc = "next", !.job = job])
    BY <1>6 DEF Take
  <2>2. [Rest EXCEPT !.pc = "next", !.job = job] \in Handling
    BY <1>1, RestType DEF Handling, TypeOK
  <2>3. worker'[w].pc = "next" /\ \A v \in Workers \ {w} : worker'[v] = worker[v]
    BY <1>1, <2>1, <2>2, UpdateType, RestType DEF Handling
  <2> QED
    BY <1>4, <1>6, <2>3 DEF Take
<1>7. ASSUME NEW w \in Workers, Done(w) \/ GiveUp(w) \/ Crash(w) PROVE InUse'
  <2>1. worker'[w].pc = "idle" /\ \A v \in Workers \ {w} : worker'[v] = worker[v]
    BY <1>1, <1>7, RestType, UpdateType DEF Done, GiveUp, Crash
  <2> QED
    BY <1>4, <1>7, <2>1 DEF Done, GiveUp, Crash
<1>8. ASSUME NEW t \in Targets, Create(t) \/ Delete(t) \/ Report(t) PROVE InUse'
  BY <1>3, <1>8 DEF Create, Delete, Report
<1>9. ASSUME NEW f \in Files,
             SetAvatar(f) \/ ClearAvatar(f) \/ CompleteUpload(f) \/ CompletePut(f) \/ Sweep(f)
      PROVE  InUse'
  BY <1>3, <1>9 DEF SetAvatar, ClearAvatar, CompleteUpload, CompletePut, Sweep
<1> QED
  BY <1>2, <1>5, <1>6, <1>7, <1>8, <1>9 DEF Next, HandleRelease

LEMMA RemovedUnused ==
  ASSUME InUse, [Next]_vars, NEW f \in object \ object'
  PROVE  \E w \in Workers :
           /\ At(w, "remove") /\ worker[w].file = f /\ ~At(w, "remove")'
           /\ since[w] = {}
<1> USE DEF bucket, users, bounds
<1>1. PICK w \in Workers : Remove(w)
  BY DEF vars, Next, HandleRelease, ReleaseFile, Take, Done, FindRecord, CheckReport, CheckOther,
         CheckPostgres, CheckMongo, AbortMultipart, SaveRecord, GiveUp, Crash, Create, Delete,
         Report, SetAvatar, ClearAvatar, CompleteUpload, CompletePut, Sweep
<1>2. At(w, "remove") /\ worker[w].file = f /\ since[w] = {}
  BY <1>1 DEF Remove, At, InUse, Looked
<1>3. worker'[w].pc \in {"next", "save"}
  BY <1>1, SaveAsType DEF Remove, InUse
<1> QED
  BY <1>2, <1>3 DEF At

\* Whatever leaves the bucket was removed by a worker whose own handling of it
\* no live content or profile that it can see outlasted, for any uses, targets
\* and workers and in every interleaving with the users and the other workers
\* (release.go:103-104).
THEOREM NothingInUseRemoved == Spec => InUseKept
<1>1. InUse /\ [Next]_vars =>
        [\A f \in object \ object' :
           \E w \in Workers :
             /\ At(w, "remove") /\ worker[w].file = f /\ ~At(w, "remove")'
             /\ since[w] = {}]_vars
  BY RemovedUnused
<1> QED
  BY <1>1, InUseInit, InUseStep, PTL DEF Spec, InUseKept

(***************************************************************************)
(* The last user's job.  The invariant: what is still stored of a file     *)
(* that a deleted thing has used is used, held, or on the way of a job     *)
(* that will come to it or is checking it - as long as no job was given up *)
(* and nothing reported.  It needs that only real users keep a file (what  *)
(* a record names uses the file and has been there), and that no copy      *)
(* turns a held record into another or another into a held one.  What is   *)
(* still to come in a single PUT is not stored and nothing has used it.    *)
(***************************************************************************)
Handled == Checked \union {"save"}

Gone(f) == \E t \in Targets : f \in Uses[t] /\ content[t] = "deleted"
Used(f) == \E t \in Targets : f \in Uses[t] /\ Live(t)

Carries(w, f) ==
  /\ worker[w].pc # "idle" /\ f \in worker[w].job.files /\ ~worker[w].job.dry
  /\ worker[w].pc = "save" => worker[w].file # f
Queued(f) == \E job \in jobs : f \in job.files /\ ~job.dry
UnderWay(f) == Queued(f) \/ \E w \in Workers : Carries(w, f)

Stored == (object \union parts) \ slipped

Owed ==
  (~lost /\ reported = {}) =>
    \A f \in Stored \ everShown :
      (record[f].status # "held" /\ Gone(f)) => Used(f) \/ UnderWay(f)

UsersOf(f, S) == \A t \in S : f \in Uses[t] /\ content[t] # "new"
Named(w) ==
  worker[w].pc \in Handled =>
    /\ UsersOf(worker[w].file, worker[w].copy.attached)
    /\ UsersOf(worker[w].file, worker[w].todo)
Attachments ==
  /\ \A f \in Files : UsersOf(f, record[f].attached)
  /\ \A w \in Workers : Named(w)
  /\ \A t \in Guessed : content[t] # "deleted"
  /\ avatars \subseteq everShown

InFlight ==
  \A f \in puts :
    f \notin object /\ \A t \in Targets : f \in Uses[t] => content[t] = "new"

Held(f) == record[f].status = "held"
SameHold(w) ==
  (reported = {} /\ worker[w].pc \in Handled) =>
    (worker[w].copy.status = "held" <=> Held(worker[w].file))

LastUse ==
  Marked /\ InFlight /\ Attachments /\ (\A w \in Workers : SameHold(w)) /\ Owed

LEMMA LastUseInit == Init => LastUse
<1> SUFFICES ASSUME Init PROVE LastUse
  OBVIOUS
<1>1. \A f \in Files : record[f].attached \subseteq Targets /\ UsersOf(f, record[f].attached)
  <2>1. record \in [Files -> Record] /\ \A f \in Files : \A t \in record[f].attached : f \in Uses[t]
    BY ReleaseAssumption DEF Init
  <2>2. ASSUME NEW f \in Files, NEW t \in record[f].attached
        PROVE  t \in Targets /\ content[t] = "live"
    <3>1. t \in Targets
      BY <2>1 DEF Record
    <3> QED
      BY <3>1 DEF Init
  <2> QED
    BY <2>1, <2>2 DEF UsersOf
<1>2. \A w \in Workers : Named(w) /\ SameHold(w)
  BY RestType DEF Init, Named, SameHold, Handled, Checked
<1>3. Attachments /\ Owed
  BY <1>1, <1>2 DEF Init, Attachments, Owed, Gone, Targets
<1>4. InFlight
  BY DEF Init, InFlight, Awaited
<1> QED
  BY <1>2, <1>3, <1>4, MarkedInit DEF LastUse

\* New content uses files that are there; the two kinds of upload are apart.
LEMMA InFlightStep ==
  ASSUME Marked, InFlight, [Next]_vars
  PROVE  InFlight'
<1> USE DEF bucket, users
<1>1. TypeOK /\ PartsRight
  BY DEF Marked
<1>2. ASSUME puts' \subseteq puts, object' \intersect puts' = {}, content' = content
      PROVE  InFlight'
  BY <1>2 DEF InFlight
<1>3. ASSUME puts' = puts, object' \subseteq object, content' = content
      PROVE  InFlight'
  BY <1>2, <1>3 DEF InFlight
<1>4. CASE UNCHANGED vars
  BY <1>3, <1>4 DEF vars
<1>5. ASSUME NEW w \in Workers, HandleRelease(w) \/ GiveUp(w) \/ Crash(w) PROVE InFlight'
  BY <1>3, <1>5
  DEF HandleRelease, ReleaseFile, Take, Done, FindRecord, CheckReport, CheckOther, CheckPostgres,
      CheckMongo, AbortMultipart, Remove, SaveRecord, GiveUp, Crash
<1>6. ASSUME NEW t \in Targets, Create(t) \/ Delete(t) PROVE InFlight'
  <2>1. UNCHANGED <<object, puts>>
    BY <1>6 DEF Create, Delete
  <2>2. \A f \in puts : f \notin Uses[t]
    BY <1>6 DEF InFlight, Create, Delete, Live
  <2>3. \A u \in Targets \ {t} : content'[u] = content[u]
    BY <1>1, <1>6 DEF Create, Delete, TypeOK
  <2> QED
    BY <2>1, <2>2, <2>3 DEF InFlight
<1>7. ASSUME NEW t \in Targets, Report(t) PROVE InFlight'
  BY <1>3, <1>7 DEF Report
<1>8. ASSUME NEW f \in Files, SetAvatar(f) \/ ClearAvatar(f) \/ Sweep(f) PROVE InFlight'
  BY <1>3, <1>8 DEF SetAvatar, ClearAvatar, Sweep
<1>9. ASSUME NEW f \in Files, CompleteUpload(f) \/ CompletePut(f) PROVE InFlight'
  BY <1>1, <1>2, <1>9 DEF CompleteUpload, CompletePut, PartsRight, InFlight
<1> QED
  BY <1>4, <1>5, <1>6, <1>7, <1>8, <1>9 DEF Next

\* What the ends of a check leave to do.
LEMMA NextFileLeaves ==
  ASSUME TypeOK, NEW w \in Workers, NextFile(w)
  PROVE  /\ worker'[w].pc = "next"
         /\ \A f : (Carries(w, f) /\ f # worker[w].file) => Carries(w, f)'
<1> DEFINE job == [worker[w].job EXCEPT !.files = @ \ {worker[w].file}]
           new == [Rest EXCEPT !.pc = "next", !.job = job]
<1>1. worker[w].job \in Job /\ job \in Job /\ Rest \in Handling
  BY HandlingType, RestType DEF Job
<1>2. /\ job.files = worker[w].job.files \ {worker[w].file} /\ job.dry = worker[w].job.dry
      /\ new \in Handling /\ new.pc = "next" /\ new.job = job
  BY <1>1 DEF Handling, Job
<1>3. worker'[w] = new
  BY <1>2, UpdateType DEF NextFile
<1> QED
  BY <1>2, <1>3 DEF Carries

LEMMA SaveAsLeaves ==
  ASSUME TypeOK, NEW w \in Workers,
         NEW status \in {"none", "pending", "attached", "held", "deleted"}, SaveAs(w, status)
  PROVE  /\ \A f : (Carries(w, f) /\ f # worker[w].file) => Carries(w, f)'
         /\ \/ worker'[w].pc = "next"
            \/ /\ worker'[w].pc = "save" /\ worker'[w].copy.status = status
               /\ worker'[w].copy.attached = worker[w].copy.attached
               /\ worker'[w].file = worker[w].file /\ worker'[w].todo = worker[w].todo
<1>1. CASE NextFile(w)
  BY <1>1, NextFileLeaves
<1>2. CASE Update(w, [worker[w] EXCEPT !.pc = "save", !.copy.status = status])
  <2> DEFINE new == [worker[w] EXCEPT !.pc = "save", !.copy.status = status]
  <2>1. worker[w] \in Handling /\ worker[w].copy \in Record
    BY HandlingType
  <2>2. /\ new \in Handling /\ new.pc = "save" /\ new.copy.status = status
        /\ new.copy.attached = worker[w].copy.attached
        /\ new.file = worker[w].file /\ new.todo = worker[w].todo /\ new.job = worker[w].job
    BY <2>1 DEF Handling, Record
  <2>3. worker'[w] = new
    BY <1>2, <2>2, UpdateType
  <2> QED
    BY <2>2, <2>3 DEF Carries
<1> QED
  BY <1>1, <1>2 DEF SaveAs

\* A step that leaves the users alone keeps what is owed if no file drops out
\* of sight that is neither used nor gone nor held.
LEMMA OwedKept ==
  ASSUME Owed, TypeOK, UNCHANGED <<content, reported, everShown, lost>>,
         Stored' \subseteq Stored,
         reported = {} => \A f \in Files : Held(f)' <=> Held(f),
         \A f \in Files \ everShown : (UnderWay(f) /\ ~lost /\ reported = {} /\ ~Held(f)) =>
            UnderWay(f)' \/ Used(f) \/ f \notin Stored'
  PROVE  Owed'
<1> SUFFICES ASSUME ~lost, reported = {}, NEW f \in Stored' \ everShown,
                    ~Held(f)', Gone(f)'
             PROVE  Used(f)' \/ UnderWay(f)'
  BY DEF Owed, Held
<1>1. f \in Files /\ Gone(f) /\ ~Held(f)
  BY DEF TypeOK, Gone, Stored
<1>2. Used(f) \/ UnderWay(f)
  BY <1>1 DEF Owed, Held
<1>3. Used(f) => Used(f)'
  BY DEF Used, Live
<1> QED
  BY <1>1, <1>2, <1>3


LEMMA LastUseWork ==
  ASSUME LastUse, NEW w \in Workers, HandleRelease(w)
  PROVE  Attachments' /\ (\A v \in Workers : SameHold(v)') /\ Owed'
<1> USE DEF bucket, users, bounds, Stored
<1>1. /\ TypeOK /\ Marked /\ Careful(w) /\ worker[w] \in Handling
      /\ Owed /\ Attachments /\ SameHold(w) /\ Named(w)
  BY HandlingType DEF LastUse, Marked, Attachments
<1> DEFINE Stays(f) == Carries(w, f) =>
             Carries(w, f)' \/ Used(f) \/ f \notin Stored'
\* A step that writes no record and moves only w.
<1>2. ASSUME \A v \in Workers \ {w} : worker'[v] = worker[v], UNCHANGED <<record, users, lost>>,
             Stored' \subseteq Stored, jobs \subseteq jobs',
             Named(w)', SameHold(w)',
             \A f \in Files \ everShown : (~lost /\ reported = {} /\ ~Held(f)) => Stays(f)
      PROVE  Attachments' /\ (\A v \in Workers : SameHold(v)') /\ Owed'
  <2>1. \A v \in Workers : Named(v)' /\ SameHold(v)'
    BY <1>2, <1>1 DEF LastUse, Attachments, Named, SameHold, Held, UsersOf
  <2>2. Attachments'
    BY <1>1, <1>2, <2>1 DEF Attachments, UsersOf
  <2>3. ASSUME NEW f \in Files \ everShown, UnderWay(f), ~lost, reported = {}, ~Held(f)
        PROVE  UnderWay(f)' \/ Used(f) \/ f \notin Stored'
    <3>1. Queued(f) => Queued(f)'
      BY <1>2 DEF Queued
    <3>2. ASSUME NEW v \in Workers, v # w, Carries(v, f) PROVE Carries(v, f)'
      BY <1>2, <3>2 DEF Carries
    <3>3. Stays(f)
      BY <1>2, <2>3
    <3> QED
      BY <2>3, <3>1, <3>2, <3>3 DEF UnderWay
  <2>4. \A f \in Files : Held(f)' <=> Held(f)
    BY <1>2 DEF Held
  <2> HIDE DEF Stays
  <2> QED
    BY <1>1, <1>2, <2>1, <2>2, <2>3, <2>4, OwedKept
\* A check that keeps the file: it is used, or held, or it is gone.
<1>3. ASSUME NEW status \in {"none", "pending", "attached", "held", "deleted"}, SaveAs(w, status),
             UNCHANGED <<record, users, jobs, lost>>, worker[w].pc \in Handled,
             Stored' \subseteq Stored,
             reported = {} => (status = "held" <=> Held(worker[w].file)),
             LET f == worker[w].file IN
               (reported = {} /\ ~Held(f) /\ f \notin everShown) =>
                 Used(f) \/ f \notin Stored'
      PROVE  Attachments' /\ (\A v \in Workers : SameHold(v)') /\ Owed'
  <2>1. \A v \in Workers \ {w} : worker'[v] = worker[v]
    BY <1>1, <1>3, SaveAsType
  <2>2. Named(w)' /\ SameHold(w)'
    BY <1>1, <1>3, SaveAsLeaves DEF Named, SameHold, Held, UsersOf, Handled, Checked
  <2>3. ASSUME NEW f \in Files \ everShown, reported = {}, ~Held(f) PROVE Stays(f)
    BY <1>1, <1>3, <2>3, SaveAsLeaves
  <2> QED
    BY <1>2, <1>3, <2>1, <2>2, <2>3
\* A check that passes: w goes on with its file.
<1>4. ASSUME NEW pc \in {"others", "messages", "abort", "remove"}, Goto(w, pc),
             UNCHANGED <<record, users, jobs, lost>>, worker[w].pc \in Checked,
             Stored' \subseteq Stored
      PROVE  Attachments' /\ (\A v \in Workers : SameHold(v)') /\ Owed'
  <2>1. /\ worker'[w].pc = pc /\ worker'[w].job = worker[w].job
        /\ worker'[w].file = worker[w].file /\ worker'[w].copy = worker[w].copy
        /\ worker'[w].todo = worker[w].todo
        /\ \A v \in Workers \ {w} : worker'[v] = worker[v]
    BY <1>1, <1>4, GotoType
  <2>2. Named(w)' /\ SameHold(w)'
    BY <1>1, <1>4, <2>1 DEF Named, SameHold, Held, UsersOf, Handled, Checked
  <2>3. ASSUME NEW f PROVE Stays(f)
    BY <1>4, <2>1 DEF Carries
  <2> QED
    BY <1>2, <1>4, <2>1, <2>2, <2>3
<1>5. worker[w].pc \in Checked => worker[w].copy.status \in {"none", "pending", "attached", "held"}
  BY <1>1 DEF Careful, Handling, Record
<1>6. CASE Take(w)
  <2>1. PICK job \in jobs :
          jobs' = jobs \ {job} /\ Update(w, [Rest EXCEPT !.pc = "next", !.job = job])
    BY <1>6 DEF Take
  <2> DEFINE new == [Rest EXCEPT !.pc = "next", !.job = job]
  <2>2. new \in Handling /\ new.pc = "next" /\ new.job = job
    BY <1>1, RestType DEF Handling, TypeOK
  <2>3. /\ worker'[w].pc = "next" /\ worker'[w].job = job
        /\ \A v \in Workers \ {w} : worker'[v] = worker[v]
    <3>1. worker'[w] = new /\ \A v \in Workers \ {w} : worker'[v] = worker[v]
      BY <1>1, <2>1, <2>2, UpdateType
    <3> QED
      BY <2>2, <3>1
  <2>4. UNCHANGED <<bucket, record, users, lost>> /\ worker[w].pc = "idle"
    BY <1>6 DEF Take, At
  <2>5. \A v \in Workers : Named(v)' /\ SameHold(v)'
    BY <1>1, <2>3, <2>4 DEF LastUse, Attachments, Named, SameHold, Held, UsersOf, Handled, Checked
  <2>6. Attachments'
    BY <1>1, <2>4, <2>5 DEF Attachments, UsersOf
  <2>7. ASSUME NEW f, UnderWay(f) PROVE UnderWay(f)'
    <3>1. ASSUME NEW v \in Workers, Carries(v, f) PROVE Carries(v, f)'
      BY <2>3, <2>4, <3>1 DEF Carries
    <3>2. ASSUME NEW other \in jobs, f \in other.files, ~other.dry PROVE UnderWay(f)'
      BY <2>1, <2>3, <3>2 DEF UnderWay, Queued, Carries
    <3> QED
      BY <2>7, <3>1, <3>2 DEF UnderWay, Queued
  <2>8. \A f \in Files : Held(f)' <=> Held(f)
    BY <2>4 DEF Held
  <2> QED
    BY <1>1, <2>4, <2>5, <2>6, <2>7, <2>8, OwedKept
<1>7. CASE Done(w)
  <2>1. worker'[w].pc = "idle" /\ \A v \in Workers \ {w} : worker'[v] = worker[v]
    BY <1>1, <1>7, RestType, UpdateType DEF Done
  <2>2. Named(w)' /\ SameHold(w)'
    BY <2>1 DEF Named, SameHold, Handled, Checked
  <2>3. ASSUME NEW f PROVE Stays(f)
    BY <1>7 DEF Done, Carries
  <2> QED
    BY <1>2, <1>7, <2>1, <2>2, <2>3 DEF Done
<1>8. CASE FindRecord(w)
  <2>1. PICK f \in worker[w].job.files :
         IF record[f].status = "deleted"
         THEN Update(w, [Rest EXCEPT !.pc = "next", !.job = [worker[w].job EXCEPT !.files = @ \ {f}]])
         ELSE Update(w, [worker[w] EXCEPT !.pc = "found", !.file = f,
                           !.todo = record[f].attached \ {worker[w].job.target},
                           !.copy = [record[f] EXCEPT
                                       !.attached = record[f].attached \ {worker[w].job.target}]])
    BY <1>8 DEF FindRecord
  <2>2. f \in Files /\ worker[w].job \in Job /\ record[f] \in Record /\ worker[w].pc = "next"
    BY <1>1, <1>8, HandlingType DEF Job, TypeOK, FindRecord, At
  <2>3. CASE record[f].status = "deleted"
    <3> DEFINE job == [worker[w].job EXCEPT !.files = @ \ {f}]
               new == [Rest EXCEPT !.pc = "next", !.job = job]
    <3>1. job \in Job /\ job.files = worker[w].job.files \ {f} /\ job.dry = worker[w].job.dry
      BY <2>2 DEF Job
    <3>2. new \in Handling /\ new.pc = "next" /\ new.job = job
      BY <3>1, RestType DEF Handling
    <3>3. worker'[w] = new /\ \A v \in Workers \ {w} : worker'[v] = worker[v]
      BY <1>1, <2>1, <2>3, <3>2, UpdateType
    <3>4. Named(w)' /\ SameHold(w)'
      BY <3>2, <3>3 DEF Named, SameHold, Handled, Checked
    <3>5. f \notin Stored
      BY <1>1, <2>2, <2>3 DEF Marked, DeletedMeansGone
    <3>6. ASSUME NEW g PROVE Stays(g)
      BY <1>8, <3>1, <3>2, <3>3, <3>5 DEF Carries, FindRecord
    <3> QED
      BY <1>2, <1>8, <3>3, <3>4, <3>6 DEF FindRecord
  <2>4. CASE record[f].status # "deleted"
    <3> DEFINE others == record[f].attached \ {worker[w].job.target}
               copy == [record[f] EXCEPT !.attached = others]
               new == [worker[w] EXCEPT !.pc = "found", !.file = f, !.todo = others, !.copy = copy]
    <3>1. copy \in Record /\ copy.status = record[f].status /\ copy.attached = others
          /\ others \subseteq Targets
      BY <2>2 DEF Record
    <3>2. /\ new \in Handling /\ new.pc = "found" /\ new.file = f /\ new.copy = copy
          /\ new.todo = others /\ new.job = worker[w].job
      BY <1>1, <2>2, <3>1 DEF Handling
    <3>3. worker'[w] = new /\ \A v \in Workers \ {w} : worker'[v] = worker[v]
      BY <1>1, <2>1, <2>4, <3>2, UpdateType
    <3>4. Named(w)'
      <4>1. \A t \in others : f \in Uses[t] /\ content'[t] # "new"
        BY <1>1, <1>8, <2>2 DEF Attachments, UsersOf, FindRecord
      <4> HIDE DEF others, copy, new
      <4> QED
        BY <3>1, <3>2, <3>3, <4>1 DEF Named, UsersOf
    <3>5. SameHold(w)'
      BY <1>8, <3>1, <3>2, <3>3 DEF SameHold, Held, FindRecord
    <3>6. ASSUME NEW g PROVE Stays(g)
      BY <2>2, <3>2, <3>3 DEF Carries
    <3> QED
      BY <1>2, <1>8, <3>3, <3>4, <3>5, <3>6 DEF FindRecord
  <2> QED
    BY <2>3, <2>4
<1>9. CASE CheckReport(w)
  <2>1. CASE SaveAs(w, "held") /\ (reported = {} => worker[w].copy.status = "held")
    BY <1>1, <1>3, <1>9, <2>1 DEF CheckReport, At, SameHold, Handled, Checked
  <2>2. CASE Goto(w, "others")
    BY <1>4, <1>9, <2>2 DEF CheckReport, At, Checked
  <2> QED
    BY <1>9, <2>1, <2>2 DEF CheckReport, IsReported
<1>10. ASSUME worker[w].pc \in Checked, SaveAs(w, worker[w].copy.status), Used(worker[w].file),
              UNCHANGED <<bucket, record, users, jobs, lost>>
       PROVE  Attachments' /\ (\A v \in Workers : SameHold(v)') /\ Owed'
  BY <1>1, <1>3, <1>5, <1>10 DEF SameHold, Handled
<1>11. CASE CheckOther(w)
  <2>1. PICK t \in worker[w].todo :
          IF IsTargetLive(t) THEN SaveAs(w, worker[w].copy.status)
          ELSE Update(w, [worker[w] EXCEPT !.todo = @ \ {t}])
    BY <1>11 DEF CheckOther
  <2>2. CASE IsTargetLive(t) /\ SaveAs(w, worker[w].copy.status)
    <3>1. t \in Targets /\ worker[w].file \in Uses[t] /\ content[t] # "new"
      BY <1>1, <1>11, HandlingType DEF CheckOther, At, Named, UsersOf, Handled, Checked
    <3>2. Live(t)
      BY <1>1, <2>2, <3>1 DEF IsTargetLive, Live, Attachments, TypeOK
    <3> QED
      BY <1>10, <1>11, <2>2, <3>1, <3>2 DEF CheckOther, At, Used, Checked
  <2>3. CASE Update(w, [worker[w] EXCEPT !.todo = @ \ {t}])
    <3> DEFINE new == [worker[w] EXCEPT !.todo = @ \ {t}]
    <3>1. /\ new \in Handling /\ new.pc = worker[w].pc /\ new.file = worker[w].file
          /\ new.copy = worker[w].copy /\ new.todo \subseteq worker[w].todo
          /\ new.job = worker[w].job
      BY <1>1 DEF Handling
    <3>2. worker'[w] = new /\ \A v \in Workers \ {w} : worker'[v] = worker[v]
      BY <1>1, <2>3, <3>1, UpdateType
    <3>3. Named(w)' /\ SameHold(w)'
      BY <1>1, <1>11, <3>1, <3>2 DEF CheckOther, Named, SameHold, Held, UsersOf
    <3>4. ASSUME NEW f PROVE Stays(f)
      BY <3>1, <3>2 DEF Carries
    <3> QED
      BY <1>2, <1>11, <3>2, <3>3, <3>4 DEF CheckOther
  <2> QED
    BY <2>1, <2>2, <2>3
<1>12. CASE CheckPostgres(w)
  <2>1. CASE /\ UsedInPostgres(worker[w].file, worker[w].job.target)
             /\ SaveAs(w, worker[w].copy.status)
    <3>1. Used(worker[w].file) \/ worker[w].file \in everShown
      BY <1>1, <2>1 DEF UsedInPostgres, Used, Attachments, Targets
    <3> QED
      BY <1>1, <1>3, <1>5, <1>12, <2>1, <3>1 DEF CheckPostgres, At, SameHold, Handled, Checked
  <2>2. CASE Goto(w, "messages")
    BY <1>4, <1>12, <2>2 DEF CheckPostgres, At, Checked
  <2> QED
    BY <1>12, <2>1, <2>2 DEF CheckPostgres
<1>13. CASE CheckMongo(w)
  <2>1. CASE /\ UsedInMongo(worker[w].file, worker[w].job.target)
             /\ SaveAs(w, worker[w].copy.status)
    <3>1. Used(worker[w].file)
      BY <2>1 DEF UsedInMongo, MessagesOf, Used, Targets
    <3> QED
      BY <1>10, <1>13, <2>1, <3>1 DEF CheckMongo, At, Checked
  <2>2. CASE worker[w].job.dry /\ NextFile(w)
    <3>1. worker'[w].pc = "next" /\ \A v \in Workers \ {w} : worker'[v] = worker[v]
      BY <1>1, <2>2, NextFileType
    <3>2. Named(w)' /\ SameHold(w)'
      BY <3>1 DEF Named, SameHold, Handled, Checked
    <3>3. ASSUME NEW f PROVE Stays(f)
      BY <2>2 DEF Carries
    <3> QED
      BY <1>2, <1>13, <3>1, <3>2, <3>3 DEF CheckMongo
  <2>3. CASE Goto(w, "abort") \/ Goto(w, "remove")
    BY <1>4, <1>13, <2>3 DEF CheckMongo, At, Checked
  <2> QED
    BY <1>13, <2>1, <2>2, <2>3 DEF CheckMongo
<1>14. CASE AbortMultipart(w)
  BY <1>4, <1>14 DEF AbortMultipart, At, Checked
<1>15. CASE Remove(w)
  <2>1. worker[w].file \notin Stored'
    BY <1>1, <1>15 DEF Remove, At, Careful
  <2>2. reported = {} => ~Held(worker[w].file)
    BY <1>1, <1>15 DEF Remove, At, Careful, SameHold, Handled, Checked
  <2> QED
    BY <1>3, <1>15, <2>1, <2>2 DEF Remove, At, Handled, Checked
<1>16. CASE SaveRecord(w)
  <2>1. /\ worker'[w].pc = "next" /\ \A v \in Workers \ {w} : worker'[v] = worker[v]
        /\ \A f : (Carries(w, f) /\ f # worker[w].file) => Carries(w, f)'
    BY <1>1, <1>16, NextFileType, NextFileLeaves DEF SaveRecord
  <2>2. /\ worker[w].pc = "save" /\ UNCHANGED <<bucket, users, jobs, lost>>
        /\ \A f \in Files \ {worker[w].file} : record'[f] = record[f]
        /\ record'[worker[w].file].status = worker[w].copy.status
        /\ record'[worker[w].file].attached = worker[w].copy.attached
    BY <1>1, <1>16, SavedRecord DEF SaveRecord, At
  <2>3. reported = {} => \A f \in Files : Held(f)' <=> Held(f)
    BY <1>1, <2>2 DEF Held, SameHold, Handled
  <2>4. ASSUME NEW v \in Workers PROVE Named(v)' /\ SameHold(v)'
    <3>1. worker[v].file \in Files /\ Named(v) /\ SameHold(v)
      BY <1>1, HandlingType DEF LastUse, Attachments
    <3>2. CASE v = w
      BY <2>1, <3>2 DEF Named, SameHold, Handled, Checked
    <3>3. CASE v # w
      BY <2>1, <2>2, <2>3, <3>1, <3>3 DEF Named, SameHold, UsersOf
    <3> QED
      BY <3>2, <3>3
  <2>5. Attachments'
    BY <1>1, <2>2, <2>4 DEF Attachments, UsersOf, Named, Handled
  <2>6. ASSUME NEW f, UnderWay(f) PROVE UnderWay(f)'
    <3>1. Queued(f) => Queued(f)'
      BY <2>2 DEF Queued
    <3>2. ASSUME NEW v \in Workers, Carries(v, f) PROVE Carries(v, f)'
      BY <2>1, <2>2, <3>2 DEF Carries
    <3> QED
      BY <2>6, <3>1, <3>2 DEF UnderWay
  <2> QED
    BY <1>1, <2>2, <2>3, <2>4, <2>5, <2>6, OwedKept
<1> QED
  BY <1>6, <1>7, <1>8, <1>9, <1>11, <1>12, <1>13, <1>14, <1>15, <1>16
  DEF HandleRelease, ReleaseFile

LEMMA LastUseStep == LastUse /\ [Next]_vars => LastUse'
<1> SUFFICES ASSUME LastUse, [Next]_vars PROVE LastUse'
  OBVIOUS
<1> USE DEF bucket, users, bounds, Stored
<1>1. TypeOK /\ Marked /\ Marked' /\ InFlight /\ InFlight' /\ Attachments /\ Owed
  BY MarkedStep, InFlightStep DEF LastUse, Marked
\* The others leave the workers and what the records say alone ...
<1>2. ASSUME UNCHANGED <<worker, record, content, avatars, lost>>, everShown \subseteq everShown',
             reported \subseteq reported', jobs \subseteq jobs',
             Stored' \subseteq Stored \union puts
      PROVE  LastUse'
  <2>1. Attachments'
    BY <1>1, <1>2 DEF Attachments, Named, UsersOf
  <2>2. \A w \in Workers : SameHold(w)'
    BY <1>2 DEF LastUse, SameHold, Held
  <2>3. ASSUME NEW f, UnderWay(f) PROVE UnderWay(f)'
    BY <1>2, <2>3 DEF UnderWay, Queued, Carries
  <2>4. \A f \in puts : ~Gone(f)'
    BY <1>1, <1>2 DEF InFlight, Gone
  <2>5. Owed'
    <3> HIDE DEF Stored
    <3> QED
      BY <1>1, <1>2, <2>3, <2>4 DEF Owed, Gone, Used, Live
  <2> QED
    BY <1>1, <2>1, <2>2, <2>5 DEF LastUse
<1>3. CASE UNCHANGED vars
  BY <1>2, <1>3 DEF vars
<1>4. ASSUME NEW w \in Workers, HandleRelease(w) PROVE LastUse'
  BY <1>1, <1>4, LastUseWork DEF LastUse
\* ... except for a delivery that ends early,
<1>5. ASSUME NEW w \in Workers, GiveUp(w) \/ Crash(w) PROVE LastUse'
  <2>1. /\ worker'[w].pc = "idle" /\ \A v \in Workers \ {w} : worker'[v] = worker[v]
        /\ UNCHANGED <<bucket, record, users>> /\ jobs \subseteq jobs'
    BY <1>1, <1>5, RestType, UpdateType DEF GiveUp, Crash
  <2>2. \A v \in Workers : Named(v)' /\ SameHold(v)'
    BY <1>1, <2>1 DEF LastUse, Attachments, Named, SameHold, Held, UsersOf, Handled, Checked
  <2>3. Attachments'
    BY <1>1, <2>1, <2>2 DEF Attachments, UsersOf
  <2>4. CASE GiveUp(w)
    BY <1>1, <2>2, <2>3, <2>4 DEF GiveUp, Owed, LastUse
  <2>5. CASE Crash(w)
    <3>1. worker[w].job \in jobs' /\ UNCHANGED lost
      BY <2>5 DEF Crash
    <3>2. ASSUME NEW f, UnderWay(f) PROVE UnderWay(f)'
      <4>1. Queued(f) => Queued(f)'
        BY <2>1 DEF Queued
      <4>2. ASSUME NEW v \in Workers, v # w, Carries(v, f) PROVE Carries(v, f)'
        BY <2>1, <4>2 DEF Carries
      <4>3. Carries(w, f) => Queued(f)'
        BY <3>1 DEF Carries, Queued
      <4> QED
        BY <3>2, <4>1, <4>2, <4>3 DEF UnderWay
    <3>3. \A f \in Files : Held(f)' <=> Held(f)
      BY <2>1 DEF Held
    <3> QED
      BY <1>1, <2>1, <2>2, <2>3, <3>1, <3>2, <3>3, OwedKept DEF LastUse
  <2> QED
    BY <1>5, <2>4, <2>5
\* new content, which its files' records name,
<1>6. ASSUME NEW t \in Targets, Create(t) PROVE LastUse'
  <2>1. /\ \A u \in Targets : content'[u] = IF u = t THEN "live" ELSE content[u]
        /\ content[t] = "new"
        /\ \A f \in Files :
             \/ record'[f] = record[f]
             \/ /\ f \in Uses[t] /\ record[f].status # "held"
                /\ record'[f].status # "held"
                /\ record'[f].attached = record[f].attached \union {t}
        /\ UNCHANGED <<bucket, reported, avatars, everShown, jobs, worker, lost>>
    <3>1. ASSUME NEW f \in Files
          PROVE  \/ record'[f] = record[f]
                 \/ /\ f \in Uses[t] /\ record[f].status # "held"
                    /\ record'[f].status # "held"
                    /\ record'[f].attached = record[f].attached \union {t}
      <4>1. record'[f] = IF f \in Uses[t] /\ record[f].status \in {"pending", "attached"}
                         THEN [record[f] EXCEPT !.status = "attached", !.attached = @ \union {t}]
                         ELSE record[f]
        BY <1>6 DEF Create
      <4>2. record[f] \in Record
        BY <1>1 DEF TypeOK
      <4> QED
        BY <4>1, <4>2 DEF Record
    <3> QED
      BY <1>1, <1>6, <3>1 DEF Create, TypeOK
  <2>2. \A f \in Files : Held(f)' <=> Held(f)
    BY <2>1 DEF Held
  <2>3. ASSUME NEW f, NEW S \in SUBSET Targets, UsersOf(f, S) PROVE UsersOf(f, S)'
    BY <2>1, <2>3 DEF UsersOf
  <2>4. ASSUME NEW f \in Files PROVE UsersOf(f, record[f].attached)'
    <3>1. record[f].attached \subseteq Targets
      BY <1>1 DEF TypeOK, Record
    <3>2. UsersOf(f, record[f].attached)
      BY <1>1 DEF Attachments
    <3>3. \A u \in record[f].attached : f \in Uses[u] /\ content'[u] # "new"
      BY <2>1, <3>1, <3>2 DEF UsersOf
    <3> QED
      BY <2>1, <3>3 DEF UsersOf
  <2>5. ASSUME NEW w \in Workers PROVE Named(w)' /\ SameHold(w)'
    <3>1. /\ worker[w].copy.attached \subseteq Targets /\ worker[w].todo \subseteq Targets
          /\ worker[w].file \in Files /\ Named(w) /\ SameHold(w)
      BY <1>1, HandlingType DEF LastUse, Attachments
    <3>2. Named(w)'
      BY <2>1, <3>1 DEF Named, UsersOf
    <3>3. SameHold(w)'
      BY <2>1, <2>2, <3>1 DEF SameHold
    <3> QED
      BY <3>2, <3>3
  <2>6. Attachments'
    <3>1. \A u \in Guessed : content'[u] # "deleted"
      BY <1>1, <2>1 DEF Attachments, Targets
    <3> QED
      BY <1>1, <2>1, <2>4, <2>5, <3>1 DEF Attachments
  <2>7. ASSUME NEW f, UnderWay(f) PROVE UnderWay(f)'
    BY <2>1, <2>7 DEF UnderWay, Queued, Carries
  <2>8. ASSUME NEW f PROVE (Gone(f)' => Gone(f)) /\ (Used(f) => Used(f)')
    BY <2>1 DEF Gone, Used, Live
  <2>9. Owed'
    BY <1>1, <2>1, <2>2, <2>7, <2>8 DEF Owed, Held, TypeOK
  <2> QED
    BY <1>1, <2>5, <2>6, <2>9 DEF LastUse
\* and content that is deleted with a job for its files.
<1>7. ASSUME NEW t \in Targets, Delete(t) PROVE LastUse'
  <2> DEFINE job == [target |-> t, files |-> Uses[t], dry |-> FALSE]
  <2>1. /\ \A u \in Targets : content'[u] = IF u = t THEN "deleted" ELSE content[u]
        /\ t \notin Guessed /\ jobs' = jobs \union {job}
        /\ UNCHANGED <<bucket, record, reported, avatars, everShown, worker, lost>>
    BY <1>1, <1>7 DEF Delete, TypeOK
  <2>2. ASSUME NEW f \in Files PROVE UsersOf(f, record[f].attached)'
    <3>1. record[f].attached \subseteq Targets /\ UsersOf(f, record[f].attached)
      BY <1>1 DEF TypeOK, Record, Attachments
    <3> QED
      BY <2>1, <3>1 DEF UsersOf
  <2>3. ASSUME NEW w \in Workers PROVE Named(w)' /\ SameHold(w)'
    <3>1. /\ worker[w].copy.attached \subseteq Targets /\ worker[w].todo \subseteq Targets
          /\ Named(w) /\ SameHold(w)
      BY <1>1, HandlingType DEF LastUse, Attachments
    <3> QED
      BY <2>1, <3>1 DEF Named, UsersOf, SameHold, Held
  <2>4. Attachments'
    <3>1. \A u \in Guessed : content'[u] # "deleted"
      BY <1>1, <2>1 DEF Attachments, Targets
    <3> QED
      BY <1>1, <2>1, <2>2, <2>3, <3>1 DEF Attachments
  <2>5. ASSUME NEW f, UnderWay(f) PROVE UnderWay(f)'
    BY <2>1, <2>5 DEF UnderWay, Queued, Carries
  <2>6. ASSUME NEW f, f \in Uses[t] PROVE UnderWay(f)'
    <3>1. job \in jobs' /\ f \in job.files /\ ~job.dry
      BY <2>1, <2>6
    <3> QED
      BY <3>1 DEF UnderWay, Queued
  <2>7. ASSUME NEW f, f \notin Uses[t]
        PROVE  (Gone(f)' => Gone(f)) /\ (Used(f) => Used(f)')
    BY <2>1, <2>7 DEF Gone, Used, Live
  <2>8. Owed'
    BY <1>1, <2>1, <2>5, <2>6, <2>7 DEF Owed
  <2> QED
    BY <1>1, <2>3, <2>4, <2>8 DEF LastUse
<1>8. ASSUME NEW t \in Targets, Report(t) PROVE LastUse'
  BY <1>2, <1>8 DEF Report
<1>9. ASSUME NEW f \in Files, SetAvatar(f) \/ ClearAvatar(f) PROVE LastUse'
  <2>1. /\ UNCHANGED <<bucket, record, content, reported, jobs, worker, lost>>
        /\ avatars' \subseteq everShown' /\ everShown \subseteq everShown'
    BY <1>1, <1>9 DEF SetAvatar, ClearAvatar, Attachments
  <2>2. Attachments'
    BY <1>1, <2>1 DEF Attachments, Named, UsersOf
  <2>3. \A w \in Workers : SameHold(w)'
    BY <2>1 DEF LastUse, SameHold, Held
  <2>4. ASSUME NEW g, UnderWay(g) PROVE UnderWay(g)'
    BY <2>1, <2>4 DEF UnderWay, Queued, Carries
  <2>5. Owed'
    BY <1>1, <2>1, <2>4 DEF Owed, Gone, Used, Live
  <2> QED
    BY <1>1, <2>2, <2>3, <2>5 DEF LastUse
<1>10. ASSUME NEW f \in Files, CompleteUpload(f) \/ CompletePut(f) \/ Sweep(f) PROVE LastUse'
  BY <1>2, <1>10 DEF CompleteUpload, CompletePut, Sweep
<1> QED
  BY <1>3, <1>4, <1>5, <1>6, <1>7, <1>8, <1>9, <1>10 DEF Next

\* The last user's job releases a file, for any files, targets and workers, in
\* whatever order jobs are handled, also when they come back after a crash or
\* each of two handlings sees the other's content still live (release.go:162).
THEOREM ReleasedByTheLast == Spec => []LastUserReleases
<1>1. LastUse => LastUserReleases
  <2> SUFFICES ASSUME LastUse, Quiescent, ~lost, reported = {}, NEW f \in object \ (everShown \union slipped),
                      record[f].status # "held", Gone(f)
               PROVE  Used(f)
    BY DEF LastUserReleases, Gone, Used
  <2>1. ~UnderWay(f)
    BY DEF Quiescent, UnderWay, Queued, Carries, At
  <2> QED
    BY <2>1 DEF LastUse, Owed, Stored
<1> QED
  BY <1>1, LastUseInit, LastUseStep, PTL DEF Spec
=============================================================================
