-------------------------------- MODULE Push --------------------------------
(***************************************************************************)
(* Push notifications: SendPush, the resolution and pruning of device      *)
(* tokens (push.go), and the audience check of community pushes            *)
(* (prepareCommunityPush, community.go).                                   *)
(*                                                                         *)
(* A run checks the post and the members, gets the client of the process,  *)
(* reads the tokens of the audience's sessions, sends chunk by chunk and   *)
(* clears the tokens that were refused.  Meanwhile people leave, posts are *)
(* deleted, devices go online, are uninstalled or get a new token.  The    *)
(* queue retries nothing, but deliveries may come back.                    *)
(*                                                                         *)
(* Definitions introduced by "Mutant" are faulty variants of the operator  *)
(* below them; no specification uses them.                                 *)
(***************************************************************************)
EXTENDS Integers, FiniteSets, SequencesExt

CONSTANTS
  People, Tokens,
  NoToken,    \* a session without a device
  Chunk,      \* maxTokensPerSend
  Workers, Jobs,
  Scenarios,  \* the sessions and jobs to start with
  MaxFaults,  \* bound: failed calls, passed deadlines, crashes, lost acks
  MaxChanges  \* bound: what the rest of the system changes

Job ==
  [ community : BOOLEAN,         \* the job names a community post
    to        : SUBSET People,   \* EntityIDs
    given     : Seq(Tokens),     \* Tokens
    all       : BOOLEAN,         \* AllDevices
    valid     : BOOLEAN ]        \* the push service accepts the message

Session == [owner : People, token : Tokens \union {NoToken}, online : BOOLEAN]

Scenario == [ sessions : Seq(Session), members : SUBSET People, work : [Jobs -> Job],
              configured : BOOLEAN ]  \* the credentials are there and right

ASSUME PushAssumption ==
  /\ Jobs # {} /\ NoToken \notin Tokens
  /\ IsFiniteSet(Workers)
  /\ Chunk \in Nat \ {0}
  /\ Scenarios \subseteq Scenario
  /\ MaxFaults \in Nat /\ MaxChanges \in Nat

VARIABLES
  scene,      \* the scenario
  session,    \* Mongo: the user sessions, in the order they are read
  members,    \* community_member of the community of the post
  live,       \* the community post can be seen
  registered, \* the push service: the tokens it knows
  client,     \* of the process: none yet, ready, or its error
  tried,      \* the push service: how often it was asked to send a job to a token
  ready,      \* how many copies of each job are ready
  worker,     \* per worker: the delivery it handles and how far it is
  faults, changes,
  steady,     \* history: the devices each job has been for since it was sent
  held,       \* history: who has ever had which token
  joined,     \* history: who has ever been a member
  doubts      \* history: how often each job was delivered again

world == <<session, members, live, registered>>
past == <<steady, held, joined>>
vars == <<scene, client, session, members, live, registered, tried, ready, worker, faults,
          changes, steady, held, joined, doubts>>

Work(j) == scene.work[j]
Idle == [pc |-> "idle", job |-> CHOOSE j \in Jobs : TRUE, ctx |-> "live", to |-> {},
         tokens |-> << >>, start |-> 0, dead |-> {}, clean |-> TRUE]

(***************************************************************************)
(* What a run works out.                                                   *)
(***************************************************************************)
\* A session tokensFor selects: everybody's devices for a call, otherwise only
\* those without a live connection.
Selected(s, ids, all) == s.owner \in ids /\ s.token # NoToken /\ (all \/ ~s.online)

Hits(ids, all) == {i \in DOMAIN session : Selected(session[i], ids, all)}

\* Mutant: a token of two sessions is listed twice.
TokensForTwice(ids, all) ==
  {[n \in DOMAIN rows |-> session[rows[n]].token] : rows \in SetToSeqs(Hits(ids, all))}

\* tokensFor: each token once, in the order the cursor happens to have.
Wanted(ids, all) == {session[i].token : i \in Hits(ids, all)}
TokensFor(ids, all) == SetToSeqs(Wanted(ids, all))

\* The devices a job is for right now: the places of their sessions and their
\* tokens.  A token the job brings has no place.
Meant(j) ==
  LET ids == IF Work(j).community THEN Work(j).to \intersect members ELSE Work(j).to IN
  IF Work(j).community /\ ~live THEN {}
  ELSE IF ~Work(j).community /\ Work(j).given # << >> THEN {0} \X ToSet(Work(j).given)
  ELSE {<<i, session[i].token>> : i \in Hits(ids, Work(j).all)}

At(w, pc) == worker[w].pc = pc
Busy(w) == ~At(w, "idle")
JobOf(w) == worker[w].job
Set(w, new) == worker' = [worker EXCEPT ![w] = new]
Go(w, pc) == Set(w, [worker[w] EXCEPT !.pc = pc])

Fault == faults < MaxFaults /\ faults' = faults + 1
Succeeds(w) == worker[w].ctx = "live" /\ UNCHANGED faults
\* A call fails by itself or because the deadline has passed.
Fails(w) == IF worker[w].ctx = "live" THEN Fault ELSE UNCHANGED faults
GiveUp(w) == Fails(w) /\ Set(w, [worker[w] EXCEPT !.pc = "done", !.clean = FALSE])

(***************************************************************************)
(* A delivery.                                                             *)
(***************************************************************************)
\* A worker takes a job; it stays with the broker, unacked, until Ack.
Begin(w) ==
  /\ At(w, "idle")
  /\ \E j \in Jobs :
       /\ ready[j] > 0
       /\ ready' = [ready EXCEPT ![j] = @ - 1]
       /\ Set(w, [Idle EXCEPT !.job = j, !.to = Work(j).to, !.tokens = Work(j).given,
                              !.pc = IF Work(j).community THEN "scope" ELSE "client"])
  /\ UNCHANGED <<scene, client, world, tried, faults, changes, past, doubts>>

\* prepareCommunityPush: the post has to be live.
ReadScope(w) ==
  /\ At(w, "scope")
  /\ \/ Succeeds(w) /\ Go(w, IF live THEN "members" ELSE "done")
     \/ GiveUp(w)
  /\ UNCHANGED <<scene, client, world, tried, ready, changes, past, doubts>>

\* Mutant: the tokens the publisher has named survive.
ReadMembersKeepTokens(w) ==
  /\ At(w, "members")
  /\ \/ LET ids == worker[w].to \intersect members IN
          /\ Succeeds(w)
          /\ Set(w, [worker[w] EXCEPT !.to = ids, !.pc = IF ids = {} THEN "done" ELSE "client"])
     \/ GiveUp(w)
  /\ UNCHANGED <<scene, client, world, tried, ready, changes, past, doubts>>

\* ... and the audience is those of EntityIDs who are members now, on their own
\* devices: tokens the publisher has named are not used.
ReadMembers(w) ==
  /\ At(w, "members")
  /\ \/ LET ids == worker[w].to \intersect members IN
          /\ Succeeds(w)
          /\ Set(w, [worker[w] EXCEPT !.to = ids, !.tokens = << >>,
                                      !.pc = IF ids = {} THEN "done" ELSE "client"])
     \/ GiveUp(w)
  /\ UNCHANGED <<scene, client, world, tried, ready, changes, past, doubts>>

\* messagingClient: the first run makes the client of the process, and every
\* later one gets what came of that, the client or the error (sync.Once).
GetClient(w) ==
  /\ At(w, "client")
  /\ \/ client = "none" /\ scene.configured /\ client' = "ready" /\ Succeeds(w)
     \/ client = "none" /\ scene.configured /\ client' = "failed" /\ Fails(w)
     \/ client = "none" /\ ~scene.configured /\ client' = "failed" /\ UNCHANGED faults
     \/ client # "none" /\ UNCHANGED <<client, faults>>
  /\ Set(w, IF client' = "ready" THEN [worker[w] EXCEPT !.pc = "tokens"]
            ELSE [worker[w] EXCEPT !.pc = "done", !.clean = FALSE])
  /\ UNCHANGED <<scene, world, tried, ready, changes, past, doubts>>

\* tokensFor, unless the job brings its tokens.
ReadTokens(w) ==
  /\ At(w, "tokens")
  /\ \/ /\ Succeeds(w)
        /\ \E tokens \in IF worker[w].tokens # << >> THEN {worker[w].tokens}
                        ELSE TokensFor(worker[w].to, Work(JobOf(w)).all) :
             Set(w, [worker[w] EXCEPT !.tokens = tokens,
                                      !.pc = IF tokens # << >> THEN "send" ELSE "done"])
     \/ GiveUp(w)
  /\ UNCHANGED <<scene, client, world, tried, ready, changes, past, doubts>>

\* The chunk is tokens[start:end], counted from 0.
ChunkEnd(w) ==
  IF worker[w].start + Chunk > Len(worker[w].tokens)
  THEN Len(worker[w].tokens) ELSE worker[w].start + Chunk
Slice(w) == (worker[w].start + 1)..ChunkEnd(w)
TokensAt(w, places) == {worker[w].tokens[i] : i \in places}

\* Mutant: the result of a chunk is looked up in the whole list.
RefusedWrongIndex(w, answered) ==
  {worker[w].tokens[i - worker[w].start] : i \in {i \in answered :
     worker[w].tokens[i] \notin registered \/ ~Work(JobOf(w)).valid}}

\* The tokens the service answers "unregistered" or "invalid argument" for.
Refused(w, answered) ==
  {t \in TokensAt(w, answered) : t \notin registered \/ ~Work(JobOf(w)).valid}

\* Mutant: a last chunk that is not full is not sent.
AfterChunkFull(w, dead, clean) ==
  LET next == worker[w].start + Chunk IN
  {[worker[w] EXCEPT !.start = next, !.dead = @ \union dead, !.clean = @ /\ clean, !.ctx = ctx,
                     !.pc = IF next + Chunk <= Len(worker[w].tokens) THEN "send" ELSE "prune"] :
     ctx \in IF clean THEN {worker[w].ctx} ELSE {worker[w].ctx, "expired"}}

\* The next chunk, or the pruning; after an error the deadline may have passed.
AfterChunk(w, dead, clean) ==
  LET next == worker[w].start + Chunk IN
  {[worker[w] EXCEPT !.start = next, !.dead = @ \union dead, !.clean = @ /\ clean, !.ctx = ctx,
                     !.pc = IF next < Len(worker[w].tokens) THEN "send" ELSE "prune"] :
     ctx \in IF clean THEN {worker[w].ctx} ELSE {worker[w].ctx, "expired"}}

Ask(w) ==
  tried' = [tried EXCEPT ![JobOf(w)] =
    [t \in Tokens |-> @[t] + Cardinality({i \in Slice(w) : worker[w].tokens[i] = t})]]

\* SendEachForMulticast: every token has a result of its own; or some get no
\* answer; or the call as a whole fails, and the next chunk is sent.
SendChunk(w) ==
  /\ At(w, "send")
  /\ \/ /\ Succeeds(w) /\ Ask(w)
        /\ \E new \in AfterChunk(w, Refused(w, Slice(w)), TRUE) : Set(w, new)
     \/ /\ Fails(w) /\ Ask(w)
        /\ \E answered \in SUBSET Slice(w) \ {Slice(w)} :
             \E new \in AfterChunk(w, Refused(w, answered), FALSE) : Set(w, new)
     \/ /\ Fails(w) /\ UNCHANGED tried
        /\ \E new \in AfterChunk(w, {}, FALSE) : Set(w, new)
  /\ UNCHANGED <<scene, client, world, ready, changes, past, doubts>>

\* pruneTokens: in every session that has the token.
Prune(w) ==
  /\ At(w, "prune")
  /\ \/ /\ Succeeds(w)
        /\ session' = [i \in 1..Len(session) |->
             IF session[i].token \in worker[w].dead THEN [session[i] EXCEPT !.token = NoToken]
             ELSE session[i]]
     \/ Fails(w) /\ UNCHANGED session
  /\ Go(w, "done")
  /\ UNCHANGED <<scene, client, members, live, registered, tried, ready, changes, held, joined,
                 doubts>>
  /\ steady' = [j \in Jobs |-> steady[j] \intersect Meant(j)']

Ack(w) ==
  /\ At(w, "done")
  /\ Set(w, Idle)
  /\ UNCHANGED <<scene, client, world, tried, ready, faults, changes, past, doubts>>

Deliver(w) ==
  \/ Begin(w) \/ ReadScope(w) \/ ReadMembers(w) \/ GetClient(w) \/ ReadTokens(w)
  \/ SendChunk(w) \/ Prune(w) \/ Ack(w)

(***************************************************************************)
(* What else happens.                                                      *)
(***************************************************************************)
\* The process dies, and the next one has no client yet; or the connection is
\* lost while the run goes on.
Crash(w) ==
  /\ Busy(w) /\ Fault
  /\ ready' = [ready EXCEPT ![JobOf(w)] = @ + 1]
  /\ doubts' = [doubts EXCEPT ![JobOf(w)] = @ + 1]
  /\ \/ Set(w, Idle) /\ client' = "none"
     \/ UNCHANGED <<worker, client>>
  /\ UNCHANGED <<scene, world, tried, changes, past>>

Change ==
  /\ changes < MaxChanges /\ changes' = changes + 1
  /\ UNCHANGED <<scene, client, tried, ready, worker, faults, doubts>>
  /\ held' = held \union {<<session'[i].owner, session'[i].token>> : i \in DOMAIN session'}
  /\ joined' = joined \union members'
  /\ steady' = [j \in Jobs |-> steady[j] \intersect Meant(j)']

LeaveOrJoin(p) ==
  /\ members' = IF p \in members THEN members \ {p} ELSE members \union {p}
  /\ UNCHANGED <<session, live, registered>>
  /\ Change

DeletePost ==
  /\ live /\ live' = FALSE
  /\ UNCHANGED <<session, members, registered>>
  /\ Change

GoOnline(i) ==
  /\ session' = [session EXCEPT ![i].online = ~@]
  /\ UNCHANGED <<members, live, registered>>
  /\ Change

\* The app is removed from a device, or the device gets a new token.
Uninstall(t) ==
  /\ t \in registered /\ registered' = registered \ {t}
  /\ UNCHANGED <<session, members, live>>
  /\ Change

Refresh(i) ==
  /\ \E t \in registered \ {session[k].token : k \in DOMAIN session} :
       session' = [session EXCEPT ![i].token = t]
  /\ UNCHANGED <<members, live, registered>>
  /\ Change

-----------------------------------------------------------------------------
Init ==
  /\ scene \in Scenarios
  /\ session = scene.sessions
  /\ members = scene.members
  /\ live \in IF \E j \in Jobs : Work(j).community THEN BOOLEAN ELSE {TRUE}
  /\ registered = Tokens
  /\ client = "none"
  /\ tried = [j \in Jobs |-> [t \in Tokens |-> 0]]
  /\ ready = [j \in Jobs |-> 1]
  /\ worker = [w \in Workers |-> Idle]
  /\ faults = 0 /\ changes = 0
  /\ steady = [j \in Jobs |-> Meant(j)]
  /\ held = {<<session[i].owner, session[i].token>> : i \in DOMAIN session}
  /\ joined = members
  /\ doubts = [j \in Jobs |-> 0]

Next ==
  \/ \E w \in Workers : Deliver(w) \/ Crash(w)
  \/ \E p \in People : LeaveOrJoin(p)
  \/ DeletePost
  \/ \E i \in DOMAIN session : GoOnline(i) \/ Refresh(i)
  \/ \E t \in Tokens : Uninstall(t)

Spec == Init /\ [][Next]_vars

-----------------------------------------------------------------------------
(***************************************************************************)
(* Properties.                                                             *)
(***************************************************************************)
Run ==
  [ pc     : {"idle", "scope", "members", "client", "tokens", "send", "prune", "done"},
    job    : Jobs,
    ctx    : {"live", "expired"},
    to     : SUBSET People,   \* the audience
    tokens : Seq(Tokens),     \* their devices
    start  : Nat,             \* how many of them were in the chunks before
    dead   : SUBSET Tokens,   \* the tokens that were refused
    clean  : BOOLEAN ]        \* history: no call has failed

TypeOK ==
  /\ scene \in Scenarios
  /\ session \in Seq(Session)
  /\ members \subseteq People /\ joined \subseteq People
  /\ live \in BOOLEAN
  /\ registered \subseteq Tokens /\ client \in {"none", "ready", "failed"}
  /\ tried \in [Jobs -> [Tokens -> Nat]]
  /\ ready \in [Jobs -> Nat] /\ doubts \in [Jobs -> Nat]
  /\ worker \in [Workers -> Run]
  /\ faults \in 0..MaxFaults /\ changes \in 0..MaxChanges
  /\ steady \in [Jobs -> SUBSET (Nat \X Tokens)]
  /\ held \subseteq People \X (Tokens \union {NoToken})

\* A push about a community post goes to devices of people it was addressed to
\* who are or were members of the community, and to no device the publisher
\* named (community.go:48-78); any other one to the devices it names, or of
\* the people it names.
OnlyAudience ==
  \A j \in Jobs, t \in Tokens :
    tried[j][t] > 0 =>
      \/ ~Work(j).community /\ t \in ToSet(Work(j).given)
      \/ \E p \in Work(j).to : <<p, t>> \in held /\ (Work(j).community => p \in joined)

\* A device is asked for once per delivery, whatever sessions share its token
\* and wherever the chunks are cut - unless the publisher has listed its token
\* twice: that list is used as it comes (push.go:201), except for a community.
Once(list, t) == \A i, k \in DOMAIN list : list[i] = t /\ list[k] = t => i = k
ListsOnce(j, t) == Work(j).community \/ Once(Work(j).given, t)

SentOnce ==
  \A j \in Jobs, t \in Tokens : ListsOnce(j, t) => tried[j][t] <= 1 + doubts[j]

\* A run that meets no failure has tried every device that the job has been
\* for since it was published.  The error of messagingClient is one for all the
\* runs that get it, from the first one of the process on (push.go:60).
AllTried ==
  \A w \in Workers :
    (At(w, "done") /\ worker[w].clean) =>
      \A device \in steady[JobOf(w)] : tried[JobOf(w)][device[2]] > 0

\* A registration is given up only if the push service does not know the token
\* - or if it has refused a message as invalid, which says nothing about the
\* token: that is what IsInvalidArgument (push.go:281) costs.
PruneRight ==
  [][\A i \in DOMAIN session :
       LET t == session[i].token IN
       (t # NoToken /\ session'[i].token = NoToken) =>
         t \notin registered \/ \E j \in Jobs : ~Work(j).valid /\ tried[j][t] > 0]_vars

=============================================================================
