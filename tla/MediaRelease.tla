---------------------------- MODULE MediaRelease ----------------------------
(***************************************************************************)
(* The release of uploaded files whose content was deleted: ReleaseFile    *)
(* and HandleRelease, the store they read and write and the bucket         *)
(* (src/internal/services/media).                                          *)
(*                                                                         *)
(* Every query and every write of a handling is a step of its own: between *)
(* two of them content is created, deleted and reported, uploads complete, *)
(* avatars change, the other worker handles another job, and the process   *)
(* dies.  A record is read once and written back whole.                    *)
(*                                                                         *)
(* Definitions introduced by "Mutant" are faulty variants of the operator  *)
(* below them; no specification uses them.                                 *)
(***************************************************************************)
EXTENDS Integers, FiniteSets

CONSTANTS
  Files,        \* keys in Chatterloop's folders; any other key is skipped
  Posts,        \* posts and comments: found by their URL in Postgres
  Messages,     \* found by their URL in Mongo, in one conversation
  Guessed,      \* things of an unknown kind: they count as live
  Conversations,
  Nowhere,      \* the empty conversationID
  ConversationOf,  \* the conversation of each message
  Folder,       \* the conversation each key names: uploads/messages/<id>/
  Nobody,       \* the target of a sweep's job
  Uses,         \* which files each target uses
  Starts,       \* the records to start with
  Workers,      \* the consumer's workers
  MaxFaults,    \* bound: errors and redeliveries
  MaxSweeps,    \* bound: jobs of the sweep
  MaxChanges    \* bound: changes by users and by the other services

Targets == Posts \union Messages \union Guessed

\* A reported post, comment or message is held.
Reportable == Posts \union Messages

\* multi: the record has an upload id, of an upload in parts.
Record == [status : {"none", "pending", "attached", "held", "deleted"},
           attached : SUBSET Targets,
           multi : BOOLEAN]
NoRecord == [status |-> "none", attached |-> {}, multi |-> FALSE]

Job == [target : Targets \union {Nobody}, files : SUBSET Files, dry : BOOLEAN]
NoJob == [target |-> Nobody, files |-> {}, dry |-> FALSE]

ASSUME ReleaseAssumption ==
  /\ Files # {} /\ Nobody \notin Targets
  /\ Uses \in [Targets -> SUBSET Files]
  /\ Nowhere \notin Conversations
  /\ ConversationOf \in [Messages -> Conversations]
  /\ Folder \in [Files -> Conversations \union {Nowhere}]
  /\ Starts \subseteq [Files -> Record]
  /\ \A start \in Starts, f \in Files :
       /\ start[f].status # "deleted"
       /\ \A t \in start[f].attached : f \in Uses[t]
  /\ MaxFaults \in Nat /\ MaxSweeps \in Nat /\ MaxChanges \in Nat

VARIABLES
  object,    \* the files in the bucket
  parts,     \* the files with an unfinished multipart upload
  puts,      \* the files whose presigned single PUT is still to come
  record,    \* the files collection
  content,   \* per target: "new", "live" or "deleted"
  reported,  \* entity_report
  avatars,   \* the files some profile shows
  jobs,      \* the media_release queue
  worker,    \* per worker: its delivery and how far it is
  since,     \* history: who has used the file since its record was read
  lost,      \* history: an error made a worker give up a job
  everShown, \* history: the files that have been avatars
  slipped,   \* history: the files whose PUT came after they were released
  faults, sweeps, changes

bucket == <<object, parts, puts, slipped>>
users == <<content, reported, avatars, everShown>>
bounds == <<faults, sweeps, changes>>
vars == <<object, parts, puts, record, content, reported, avatars, jobs, worker,
          since, lost, everShown, slipped, faults, sweeps, changes>>

AFile == CHOOSE f \in Files : TRUE
Rest == [pc |-> "idle", job |-> NoJob, file |-> AFile, copy |-> NoRecord,
         todo |-> {}]

(***************************************************************************)
(* What the store answers.                                                 *)
(***************************************************************************)
Live(t) == content[t] = "live"
IsTargetLive(t) == t \in Guessed \/ Live(t)
IsReported(t) == t \in Reportable /\ t \in reported

\* Mutant: only content is looked up, not the profiles.
UsedByContent(f, except) == \E t \in Posts \ {except} : Live(t) /\ f \in Uses[t]

\* Mutant: the content being deleted is not left out.
UsedEver(f, except) == f \in avatars \/ \E t \in Posts : f \in Uses[t]

\* URLInUse, its Postgres query and its Mongo query.
UsedInPostgres(f, except) ==
  f \in avatars \/ \E t \in Posts \ {except} : Live(t) /\ f \in Uses[t]

\* A job about a message names its conversation, for any other the key may;
\* without one no message is asked.
Asked(target, f) == IF target \in Messages THEN ConversationOf[target] ELSE Folder[f]
MessagesOf(conversation) == {m \in Messages : ConversationOf[m] = conversation}
UsedInMongo(f, except) ==
  /\ Asked(except, f) # Nowhere
  /\ \E t \in MessagesOf(Asked(except, f)) \ {except} : Live(t) /\ f \in Uses[t]

\* History: the live users of w's file that the code can see, besides the
\* target of its job.
Users(w) ==
  LET f == worker[w].file IN
    {t \in Targets \ {worker[w].job.target} :
       /\ Live(t) /\ f \in Uses[t]
       /\ \/ t \in Posts \union MessagesOf(Asked(worker[w].job.target, f))
          \/ t \in record[f].attached}
    \union (IF f \in avatars THEN {Nobody} ELSE {})

Watch ==
  since' = [w \in Workers |-> IF worker[w].pc = "next" /\ worker'[w].pc = "found"
                              THEN Users(w)'
                              ELSE since[w] \intersect Users(w)']

(***************************************************************************)
(* A handling.                                                             *)
(***************************************************************************)
At(w, pc) == worker[w].pc = pc
Update(w, new) == worker' = [worker EXCEPT ![w] = new]
Goto(w, pc) == Update(w, [worker[w] EXCEPT !.pc = pc])
Fault == faults < MaxFaults /\ faults' = faults + 1

\* The rest of the job, after w's file.
NextFile(w) ==
  Update(w, [Rest EXCEPT !.pc = "next",
               !.job = [worker[w].job EXCEPT !.files = @ \ {worker[w].file}]])

\* save: nothing to write without a record or on a dry run.
SaveAs(w, status) ==
  IF worker[w].copy.status = "none" \/ worker[w].job.dry THEN NextFile(w)
  ELSE Update(w, [worker[w] EXCEPT !.pc = "save", !.copy.status = status])

Take(w) ==
  /\ At(w, "idle")
  /\ \E job \in jobs :
       /\ jobs' = jobs \ {job}
       /\ Update(w, [Rest EXCEPT !.pc = "next", !.job = job])
  /\ UNCHANGED <<bucket, record, users, lost, bounds>> /\ Watch

\* The ack, after the last file.
Done(w) ==
  /\ At(w, "next") /\ worker[w].job.files = {}
  /\ Update(w, Rest)
  /\ UNCHANGED <<bucket, record, users, jobs, lost, bounds>> /\ Watch

\* FindRecord; the thing being deleted no longer counts as a user.
FindRecord(w) ==
  /\ At(w, "next")
  /\ \E f \in worker[w].job.files :
       IF record[f].status = "deleted"
       THEN Update(w, [Rest EXCEPT !.pc = "next", !.job = [worker[w].job EXCEPT !.files = @ \ {f}]])
       ELSE LET others == record[f].attached \ {worker[w].job.target} IN
            Update(w, [worker[w] EXCEPT !.pc = "found", !.file = f, !.todo = others,
                         !.copy = [record[f] EXCEPT !.attached = others]])
  /\ UNCHANGED <<bucket, record, users, jobs, lost, bounds>> /\ Watch

CheckReport(w) ==
  /\ At(w, "found")
  /\ IF IsReported(worker[w].job.target) \/ worker[w].copy.status = "held"
     THEN SaveAs(w, "held")
     ELSE Goto(w, "others")
  /\ UNCHANGED <<bucket, record, users, jobs, lost, bounds>> /\ Watch

\* One liveness query for each recorded user.
CheckOther(w) ==
  /\ At(w, "others") /\ worker[w].todo # {}
  /\ \E t \in worker[w].todo :
       IF IsTargetLive(t) THEN SaveAs(w, worker[w].copy.status)
       ELSE Update(w, [worker[w] EXCEPT !.todo = @ \ {t}])
  /\ UNCHANGED <<bucket, record, users, jobs, lost, bounds>> /\ Watch

CheckPostgres(w) ==
  /\ At(w, "others") /\ worker[w].todo = {}
  /\ IF UsedInPostgres(worker[w].file, worker[w].job.target)
     THEN SaveAs(w, worker[w].copy.status)
     ELSE Goto(w, "messages")
  /\ UNCHANGED <<bucket, record, users, jobs, lost, bounds>> /\ Watch

CheckMongo(w) ==
  /\ At(w, "messages")
  /\ IF UsedInMongo(worker[w].file, worker[w].job.target)
     THEN SaveAs(w, worker[w].copy.status)
     ELSE IF worker[w].job.dry THEN NextFile(w)
     ELSE Goto(w, IF worker[w].copy.status = "pending" /\ worker[w].copy.multi
                  THEN "abort" ELSE "remove")
  /\ UNCHANGED <<bucket, record, users, jobs, lost, bounds>> /\ Watch

\* An upload that was completed or aborted already is no error.
AbortMultipart(w) ==
  /\ At(w, "abort")
  /\ parts' = parts \ {worker[w].file}
  /\ Goto(w, "remove")
  /\ UNCHANGED <<object, puts, slipped, record, users, jobs, lost, bounds>> /\ Watch

\* Mutant: the record is marked first and the object is left to the save.
RemoveLate(w) ==
  /\ At(w, "remove")
  /\ SaveAs(w, "deleted")
  /\ UNCHANGED <<bucket, record, users, jobs, lost, bounds>> /\ Watch

\* Removing a missing key succeeds.
Remove(w) ==
  /\ At(w, "remove")
  /\ object' = object \ {worker[w].file} /\ slipped' = slipped \ {worker[w].file}
  /\ SaveAs(w, "deleted")
  /\ UNCHANGED <<parts, puts, record, users, jobs, lost, bounds>> /\ Watch

\* Overwrites the status and the whole of attachedTo with the worker's copy.
SaveRecord(w) ==
  /\ At(w, "save")
  /\ record' = [record EXCEPT ![worker[w].file].status = worker[w].copy.status,
                              ![worker[w].file].attached = worker[w].copy.attached]
  /\ NextFile(w)
  /\ UNCHANGED <<bucket, users, jobs, lost, bounds>> /\ Watch

\* Any step fails or the deadline passes: HandleRelease returns at once, the
\* rest of the job is given up, and the delivery is acked all the same.
GiveUp(w) ==
  /\ ~At(w, "idle") /\ worker[w].job.files # {} /\ Fault
  /\ Update(w, Rest)
  /\ lost' = TRUE
  /\ UNCHANGED <<bucket, record, users, jobs, sweeps, changes>> /\ Watch

\* The process dies, or its ack is lost: the job comes back from the start.
\* What is left of it stands for the whole; files done are found as they are.
Crash(w) ==
  /\ ~At(w, "idle") /\ Fault
  /\ Update(w, Rest)
  /\ jobs' = jobs \union {worker[w].job}
  /\ UNCHANGED <<bucket, record, users, lost, sweeps, changes>> /\ Watch

(***************************************************************************)
(* The users, the other services and the sweep (outside this repository).  *)
(***************************************************************************)
Change == changes < MaxChanges /\ changes' = changes + 1

\* New content uses files that are there; a record learns of it at once.
Create(t) ==
  /\ content[t] = "new" /\ Uses[t] \subseteq object /\ Change
  /\ content' = [content EXCEPT ![t] = "live"]
  /\ record' = [f \in Files |->
       IF f \in Uses[t] /\ record[f].status \in {"pending", "attached"}
       THEN [record[f] EXCEPT !.status = "attached", !.attached = @ \union {t}]
       ELSE record[f]]
  /\ UNCHANGED <<bucket, reported, avatars, everShown, jobs, worker, lost, faults, sweeps>>
  /\ Watch

\* Content is deleted and its job published.
Delete(t) ==
  /\ Live(t) /\ t \notin Guessed
  /\ content' = [content EXCEPT ![t] = "deleted"]
  /\ jobs' = jobs \union {[target |-> t, files |-> Uses[t], dry |-> FALSE]}
  /\ UNCHANGED <<bucket, record, reported, avatars, everShown, worker, lost, bounds>>
  /\ Watch

Report(t) ==
  /\ Live(t) /\ t \notin reported /\ Change
  /\ reported' = reported \union {t}
  /\ UNCHANGED <<bucket, record, content, avatars, everShown, jobs, worker, lost, faults, sweeps>>
  /\ Watch

\* A profile shows a file that is there, or changes its picture: no job then.
SetAvatar(f) ==
  /\ f \in object \ avatars /\ Change
  /\ avatars' = avatars \union {f} /\ everShown' = everShown \union {f}
  /\ UNCHANGED <<bucket, record, content, reported, jobs, worker, lost, faults, sweeps>>
  /\ Watch

ClearAvatar(f) ==
  /\ f \in avatars
  /\ avatars' = avatars \ {f}
  /\ UNCHANGED <<bucket, record, content, reported, everShown, jobs, worker, lost, bounds>>
  /\ Watch

CompleteUpload(f) ==
  /\ f \in parts
  /\ parts' = parts \ {f} /\ object' = object \union {f}
  /\ UNCHANGED <<puts, slipped, record, users, jobs, worker, lost, bounds>> /\ Watch

\* Nothing can abort a single PUT: its link works until it expires, also when
\* the file has been removed and its record is, or is about to be, "deleted".
Released(f) ==
  \/ record[f].status = "deleted"
  \/ \E w \in Workers : At(w, "save") /\ worker[w].file = f /\ worker[w].copy.status = "deleted"

CompletePut(f) ==
  /\ f \in puts
  /\ puts' = puts \ {f} /\ object' = object \union {f}
  /\ slipped' = slipped \union {g \in {f} : Released(g)}
  /\ UNCHANGED <<parts, record, users, jobs, worker, lost, bounds>> /\ Watch

\* media_cleanup proposes any file, for real or as a preview.
Sweep(f) ==
  /\ sweeps < MaxSweeps /\ sweeps' = sweeps + 1
  /\ \E dry \in BOOLEAN :
       jobs' = jobs \union {[target |-> Nobody, files |-> {f}, dry |-> dry]}
  /\ UNCHANGED <<bucket, record, users, worker, lost, faults, changes>> /\ Watch

-----------------------------------------------------------------------------
\* A file with a pending record that nothing uses yet may still be uploaded.
Awaited(f) ==
  record[f].status = "pending" /\ \A t \in Targets : f \in Uses[t] => content[t] = "new"

\* The records name the content that is there.
Init ==
  /\ record \in Starts
  /\ content = [t \in Targets |->
       IF \E f \in Files : t \in record[f].attached THEN "live" ELSE "new"]
  /\ parts \in SUBSET {f \in Files : Awaited(f) /\ record[f].multi}
  /\ puts \in SUBSET {f \in Files : Awaited(f) /\ ~record[f].multi}
  /\ object = Files \ (parts \union puts)
  /\ slipped = {}
  /\ reported = {} /\ avatars = {} /\ everShown = {}
  /\ jobs = {}
  /\ worker = [w \in Workers |-> Rest]
  /\ since = [w \in Workers |-> {}]
  /\ lost = FALSE
  /\ faults = 0 /\ sweeps = 0 /\ changes = 0

ReleaseFile(w) ==
  FindRecord(w) \/ CheckReport(w) \/ CheckOther(w) \/ CheckPostgres(w) \/ CheckMongo(w)
    \/ AbortMultipart(w) \/ Remove(w) \/ SaveRecord(w)

HandleRelease(w) == Take(w) \/ ReleaseFile(w) \/ Done(w)

Next ==
  \/ \E w \in Workers : HandleRelease(w) \/ GiveUp(w) \/ Crash(w)
  \/ \E t \in Targets : Create(t) \/ Delete(t) \/ Report(t)
  \/ \E f \in Files : SetAvatar(f) \/ ClearAvatar(f) \/ Sweep(f)
  \/ \E f \in Files : CompleteUpload(f) \/ CompletePut(f)

Spec == Init /\ [][Next]_vars

-----------------------------------------------------------------------------
(***************************************************************************)
(* Properties.                                                             *)
(***************************************************************************)
Handling ==
  [ pc   : {"idle", "next", "found", "others", "messages", "abort", "remove", "save"},
    job  : Job,
    file : Files,          \* the one it handles
    copy : Record,         \* its record, as it was read
    todo : SUBSET Targets ]  \* its recorded users that are still to be checked

TypeOK ==
  /\ object \subseteq Files /\ parts \subseteq Files
  /\ puts \subseteq Files /\ slipped \subseteq Files
  /\ record \in [Files -> Record]
  /\ content \in [Targets -> {"new", "live", "deleted"}]
  /\ reported \subseteq Targets
  /\ avatars \subseteq Files /\ everShown \subseteq Files
  /\ jobs \subseteq Job
  /\ worker \in [Workers -> Handling]
  /\ since \in [Workers -> SUBSET (Targets \union {Nobody})]
  /\ lost \in BOOLEAN

Quiescent == jobs = {} /\ \A w \in Workers : At(w, "idle")

\* A file leaves the bucket only by a handling of its own during all of which
\* no other live content and no profile that the handling can see used it,
\* whatever appeared or disappeared between its queries (release.go:103-104).
InUseKept ==
  [][\A f \in object \ object' :
       \E w \in Workers :
         /\ At(w, "remove") /\ worker[w].file = f /\ ~At(w, "remove")'
         /\ since[w] = {}]_vars

\* A record says "deleted" only of a file that is not stored any more and has
\* no unfinished multipart upload, so the early return on it (release.go:124)
\* leaks no file - also after crashes and when two workers save their copies
\* of one record.  What this code cannot help is a single PUT that comes after
\* the decision: the file it stores is found by no job and no sweep again.
DeletedMeansGone ==
  \A f \in Files : record[f].status = "deleted" => f \notin parts \union (object \ slipped)

\* The job of the last user of a file releases it, in whatever order the jobs
\* of its users are handled and even if they are handled at the same time.
\* (Errors and pictures leave files to the sweep; what was reported is held;
\* a single PUT may come too late.)
LastUserReleases ==
  (Quiescent /\ ~lost /\ reported = {}) =>
    \A f \in object \ (everShown \union slipped) :
      (record[f].status # "held" /\ \E t \in Targets : f \in Uses[t] /\ content[t] = "deleted")
        => \E t \in Targets : f \in Uses[t] /\ Live(t)

\* A held file is never removed automatically (release.go:101-102).
HeldStays ==
  [][\A f \in object \ object' : record[f].status # "held"]_vars

=============================================================================
