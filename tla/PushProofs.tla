----------------------------- MODULE PushProofs -----------------------------
(***************************************************************************)
(* Theorems about Push: types, who may get a push, that it is sent once    *)
(* per delivery, that a run without failures tries every device, and which *)
(* registrations are given up.                                             *)
(***************************************************************************)
EXTENDS Push, FiniteSetTheorems, TLAPS

(***************************************************************************)
(* Lists of tokens.                                                        *)
(***************************************************************************)
LEMMA ListedOnce ==
  ASSUME NEW S, IsFiniteSet(S), NEW f \in SetToSeqs(S)
  PROVE  /\ f \in Seq(S)
         /\ \A s \in S : \E i \in DOMAIN f : f[i] = s
         /\ \A s : Once(f, s)
<1> DEFINE n == Cardinality(S)
           D == 1..n
<1>1. n \in Nat
  BY FS_CardinalityType
<1>2. f \in [D -> S] /\ \A i, j \in D : i # j => f[i] # f[j]
  BY DEF SetToSeqs
<1>3. IsFiniteSet(D) /\ Cardinality(D) = n
  BY <1>1, FS_Interval
<1>4. f \in Injection(D, S)
  BY <1>2 DEF Injection, IsInjective
<1>5. f \in Surjection(D, S)
  BY <1>3, <1>4, FS_Injection
<1> QED
  BY <1>1, <1>2, <1>5 DEF Surjection, Once

LEMMA SceneType ==
  ASSUME TypeOK
  PROVE  /\ scene.work \in [Jobs -> Job] /\ scene.configured \in BOOLEAN
         /\ scene.sessions \in Seq(Session) /\ scene.members \subseteq People
BY PushAssumption DEF TypeOK, Scenario

LEMMA JobType ==
  ASSUME TypeOK, NEW j \in Jobs
  PROVE  /\ Work(j) \in Job /\ Work(j).to \subseteq People /\ Work(j).given \in Seq(Tokens)
         /\ Work(j).community \in BOOLEAN /\ Work(j).all \in BOOLEAN
BY SceneType DEF Work, Job

LEMMA SessionType ==
  ASSUME TypeOK, NEW i \in DOMAIN session
  PROVE  /\ session[i] \in Session /\ session[i].owner \in People
         /\ session[i].token \in Tokens \union {NoToken}
         /\ i \in 1..Len(session) /\ i \in Nat /\ i # 0
<1>1. session \in Seq(Session)
  BY DEF TypeOK
<1>2. DOMAIN session = 1..Len(session) /\ Len(session) \in Nat /\ session[i] \in Session
  BY <1>1
<1>3. session[i].owner \in People /\ session[i].token \in Tokens \union {NoToken}
  BY <1>2 DEF Session
<1> QED
  BY <1>2, <1>3

LEMMA WantedType ==
  ASSUME TypeOK, NEW ids, NEW all
  PROVE  Wanted(ids, all) \subseteq Tokens /\ IsFiniteSet(Wanted(ids, all))
<1> DEFINE f == [i \in Hits(ids, all) |-> session[i].token]
<1>1. Len(session) \in Nat /\ DOMAIN session = 1..Len(session)
  BY DEF TypeOK
<1>2. IsFiniteSet(Hits(ids, all))
  <2>1. IsFiniteSet(1..Len(session))
    BY <1>1, FS_Interval
  <2>2. Hits(ids, all) \subseteq 1..Len(session)
    BY <1>1 DEF Hits
  <2> QED
    BY <2>1, <2>2, FS_Subset
<1>3. f \in Surjection(Hits(ids, all), Wanted(ids, all))
  BY DEF Surjection, Wanted
<1>4. IsFiniteSet(Wanted(ids, all))
  BY <1>2, <1>3, FS_Surjection
<1>5. Wanted(ids, all) \subseteq Tokens
  BY SessionType DEF Wanted, Hits, Selected
<1> QED
  BY <1>4, <1>5

LEMMA TokensForType ==
  ASSUME TypeOK, NEW ids, NEW all, NEW tokens \in TokensFor(ids, all)
  PROVE  /\ tokens \in Seq(Tokens)
         /\ \A t \in Wanted(ids, all) : \E k \in DOMAIN tokens : tokens[k] = t
         /\ \A k \in DOMAIN tokens : tokens[k] \in Wanted(ids, all)
         /\ \A t : Once(tokens, t)
<1>1. Wanted(ids, all) \subseteq Tokens /\ IsFiniteSet(Wanted(ids, all))
  BY WantedType
<1>2. /\ tokens \in Seq(Wanted(ids, all))
      /\ \A t \in Wanted(ids, all) : \E k \in DOMAIN tokens : tokens[k] = t
      /\ \A t : Once(tokens, t)
  BY <1>1, ListedOnce DEF TokensFor
<1> QED
  BY <1>1, <1>2

\* A job is for devices of the sessions it selects, or for the tokens it names.
LEMMA MeantType ==
  ASSUME TypeOK, NEW j \in Jobs, NEW device \in Meant(j)
  PROVE  /\ device \in Nat \X Tokens
         /\ Work(j).community => live
         /\ \/ /\ ~Work(j).community /\ Work(j).given # << >> /\ device[1] = 0
               /\ \E k \in DOMAIN Work(j).given : Work(j).given[k] = device[2]
            \/ /\ Work(j).community \/ Work(j).given = << >>
               /\ device[1] \in DOMAIN session /\ device[2] = session[device[1]].token
               /\ device[2] # NoToken
               /\ session[device[1]].owner \in Work(j).to
               /\ Work(j).community => session[device[1]].owner \in members
               /\ Work(j).all \/ ~session[device[1]].online
<1> DEFINE ids == IF Work(j).community THEN Work(j).to \intersect members ELSE Work(j).to
<1>1. Work(j).community => live
  BY DEF Meant
<1>2. CASE ~Work(j).community /\ Work(j).given # << >>
  <2>1. device \in {0} \X ToSet(Work(j).given)
    BY <1>1, <1>2 DEF Meant
  <2>2. PICK k \in DOMAIN Work(j).given : device = <<0, Work(j).given[k]>>
    BY <2>1 DEF ToSet
  <2>3. Work(j).given[k] \in Tokens
    BY <2>2, JobType
  <2> QED
    BY <1>1, <1>2, <2>2, <2>3
<1>3. CASE Work(j).community \/ Work(j).given = << >>
  <2>1. PICK i \in Hits(ids, Work(j).all) : device = <<i, session[i].token>>
    BY <1>1, <1>3 DEF Meant
  <2>2. i \in DOMAIN session /\ session[i].owner \in ids /\ session[i].token # NoToken
        /\ (Work(j).all \/ ~session[i].online)
    BY <2>1 DEF Hits, Selected
  <2>3. session[i].token \in Tokens /\ i \in Nat
    BY <2>2, SessionType
  <2> QED
    BY <1>1, <1>3, <2>1, <2>2, <2>3
<1> QED
  BY <1>2, <1>3

(***************************************************************************)
(* How a worker moves.                                                     *)
(***************************************************************************)
Moved(w, new) ==
  /\ worker' \in [Workers -> Run] /\ worker'[w] = new /\ new \in Run
  /\ \A v \in Workers \ {w} : worker'[v] = worker[v]

LEMMA IdleType == Idle \in Run /\ Idle.pc = "idle" /\ Idle.dead = {}
BY PushAssumption DEF Idle, Run

LEMMA RunType ==
  ASSUME TypeOK, NEW w \in Workers
  PROVE  /\ worker[w] \in Run /\ JobOf(w) \in Jobs /\ worker[w].job \in Jobs
         /\ worker[w].to \subseteq People /\ worker[w].tokens \in Seq(Tokens)
         /\ worker[w].start \in Nat /\ worker[w].dead \subseteq Tokens
BY DEF TypeOK, Run, JobOf

LEMMA SetMove ==
  ASSUME TypeOK, NEW w \in Workers, NEW new \in Run, Set(w, new)
  PROVE  Moved(w, new)
BY DEF TypeOK, Set, Moved

LEMMA BeginMove ==
  ASSUME TypeOK, NEW w \in Workers, Begin(w)
  PROVE  \E j \in Jobs, new \in Run :
           /\ Moved(w, new) /\ ready[j] > 0 /\ ready' = [ready EXCEPT ![j] = @ - 1]
           /\ new.job = j /\ new.to = Work(j).to /\ new.tokens = Work(j).given /\ new.dead = {}
           /\ new.start = 0
           /\ new.pc = IF Work(j).community THEN "scope" ELSE "client"
<1>1. PICK j \in Jobs :
        /\ ready[j] > 0 /\ ready' = [ready EXCEPT ![j] = @ - 1]
        /\ Set(w, [Idle EXCEPT !.job = j, !.to = Work(j).to, !.tokens = Work(j).given,
                               !.pc = IF Work(j).community THEN "scope" ELSE "client"])
  BY DEF Begin
<1> DEFINE new == [Idle EXCEPT !.job = j, !.to = Work(j).to, !.tokens = Work(j).given,
                               !.pc = IF Work(j).community THEN "scope" ELSE "client"]
<1>2. /\ new \in Run
      /\ new.job = j /\ new.to = Work(j).to /\ new.tokens = Work(j).given /\ new.dead = {}
      /\ new.start = 0
      /\ new.pc = IF Work(j).community THEN "scope" ELSE "client"
  BY JobType, IdleType, PushAssumption DEF Idle, Run
<1> HIDE DEF new
<1>3. Moved(w, new)
  BY <1>1, <1>2, SetMove DEF new
<1> QED
  BY <1>1, <1>2, <1>3

\* Only the place changes.
LEMMA GoMove ==
  ASSUME TypeOK, NEW w \in Workers,
         NEW pc \in {"idle", "scope", "members", "client", "tokens", "send", "prune", "done"}, Go(w, pc)
  PROVE  \E new \in Run :
           /\ Moved(w, new) /\ new.pc = pc /\ new.job = worker[w].job /\ new.to = worker[w].to
           /\ new.tokens = worker[w].tokens /\ new.start = worker[w].start
           /\ new.dead = worker[w].dead /\ new.clean = worker[w].clean
<1> DEFINE new == [worker[w] EXCEPT !.pc = pc]
<1>1. /\ new \in Run /\ new.pc = pc /\ new.job = worker[w].job /\ new.to = worker[w].to
      /\ new.tokens = worker[w].tokens /\ new.start = worker[w].start
      /\ new.dead = worker[w].dead /\ new.clean = worker[w].clean
  BY RunType DEF Run
<1> HIDE DEF new
<1>2. Moved(w, new)
  BY <1>1, SetMove DEF Go, new
<1> QED
  BY <1>1, <1>2

\* The run ends with an error.
LEMMA GiveUpMove ==
  ASSUME TypeOK, NEW w \in Workers, GiveUp(w)
  PROVE  \E new \in Run :
           /\ Moved(w, new) /\ new.pc = "done" /\ new.job = worker[w].job /\ new.to = worker[w].to
           /\ new.dead = worker[w].dead /\ new.clean = FALSE
<1> DEFINE new == [worker[w] EXCEPT !.pc = "done", !.clean = FALSE]
<1>1. /\ new \in Run /\ new.pc = "done" /\ new.job = worker[w].job /\ new.to = worker[w].to
      /\ new.dead = worker[w].dead /\ new.clean = FALSE
  BY RunType DEF Run
<1> HIDE DEF new
<1>2. Moved(w, new)
  BY <1>1, SetMove DEF GiveUp, new
<1> QED
  BY <1>1, <1>2

LEMMA ReadScopeMove ==
  ASSUME TypeOK, NEW w \in Workers, ReadScope(w)
  PROVE  \E new \in Run :
           /\ Moved(w, new) /\ new.job = worker[w].job /\ new.to = worker[w].to
           /\ new.dead = worker[w].dead
           /\ \/ new.pc = "members" /\ new.start = worker[w].start
              \/ new.pc = "done" /\ (new.clean => ~live)
<1>1. CASE GiveUp(w)
  BY <1>1, GiveUpMove
<1>2. CASE Go(w, IF live THEN "members" ELSE "done")
  BY <1>2, GoMove
<1> QED
  BY <1>1, <1>2 DEF ReadScope

LEMMA ReadMembersMove ==
  ASSUME TypeOK, NEW w \in Workers, ReadMembers(w)
  PROVE  \E new \in Run :
           /\ Moved(w, new) /\ new.job = worker[w].job /\ new.dead = worker[w].dead
           /\ new.to \subseteq worker[w].to
           /\ \/ /\ new.pc = "client" /\ new.to = worker[w].to \intersect members
                 /\ new.tokens = << >> /\ new.start = worker[w].start
              \/ new.pc = "done" /\ (new.clean => worker[w].to \intersect members = {})
<1>1. CASE GiveUp(w)
  BY <1>1, GiveUpMove
<1>2. CASE ~GiveUp(w)
  <2> DEFINE ids == worker[w].to \intersect members
             new == [worker[w] EXCEPT !.to = ids, !.tokens = << >>,
                                      !.pc = IF ids = {} THEN "done" ELSE "client"]
  <2>1. /\ new \in Run /\ new.job = worker[w].job /\ new.dead = worker[w].dead
        /\ new.to = ids /\ new.tokens = << >> /\ new.start = worker[w].start
        /\ new.pc = IF ids = {} THEN "done" ELSE "client"
    <3>1. worker[w] \in Run /\ ids \subseteq People /\ << >> \in Seq(Tokens)
      BY RunType
    <3> HIDE DEF ids
    <3> QED
      BY <3>1 DEF Run
  <2>2. Set(w, new)
    BY <1>2 DEF ReadMembers
  <2> HIDE DEF new
  <2>3. Moved(w, new)
    BY <2>1, <2>2, SetMove
  <2> QED
    BY <2>1, <2>3
<1> QED
  BY <1>1, <1>2

LEMMA GetClientMove ==
  ASSUME TypeOK, NEW w \in Workers, GetClient(w)
  PROVE  /\ client' \in {"none", "ready", "failed"}
         /\ \E new \in Run :
              /\ Moved(w, new) /\ new.job = worker[w].job /\ new.to = worker[w].to
              /\ new.dead = worker[w].dead
              /\ \/ /\ new.pc = "tokens" /\ new.tokens = worker[w].tokens
                    /\ new.start = worker[w].start
                 \/ new.pc = "done" /\ new.clean = FALSE
<1>1. client' \in {"none", "ready", "failed"}
  BY DEF GetClient, TypeOK
<1> DEFINE new == IF client' = "ready" THEN [worker[w] EXCEPT !.pc = "tokens"]
                  ELSE [worker[w] EXCEPT !.pc = "done", !.clean = FALSE]
<1>2. /\ new \in Run /\ new.job = worker[w].job /\ new.to = worker[w].to
      /\ new.dead = worker[w].dead
      /\ \/ /\ new.pc = "tokens" /\ new.tokens = worker[w].tokens
            /\ new.start = worker[w].start
         \/ new.pc = "done" /\ new.clean = FALSE
  BY RunType DEF Run
<1>3. Set(w, new)
  BY DEF GetClient
<1> HIDE DEF new
<1>4. Moved(w, new)
  BY <1>2, <1>3, SetMove
<1> QED
  BY <1>1, <1>2, <1>4

LEMMA ReadTokensMove ==
  ASSUME TypeOK, NEW w \in Workers, ReadTokens(w)
  PROVE  \E new \in Run :
           /\ Moved(w, new) /\ new.job = worker[w].job /\ new.dead = worker[w].dead
           /\ new.to = worker[w].to
           /\ \/ new.pc = "done" /\ new.clean = FALSE
              \/ /\ new.tokens \in IF worker[w].tokens # << >> THEN {worker[w].tokens}
                                   ELSE TokensFor(worker[w].to, Work(JobOf(w)).all)
                 /\ new.start = worker[w].start
                 /\ new.pc = IF new.tokens # << >> THEN "send" ELSE "done"
<1>1. CASE GiveUp(w)
  BY <1>1, GiveUpMove
<1>2. CASE ~GiveUp(w)
  <2>1. PICK tokens \in IF worker[w].tokens # << >> THEN {worker[w].tokens}
                        ELSE TokensFor(worker[w].to, Work(JobOf(w)).all) :
          Set(w, [worker[w] EXCEPT !.tokens = tokens,
                    !.pc = IF tokens # << >> THEN "send" ELSE "done"])
    BY <1>2 DEF ReadTokens
  <2>2. tokens \in Seq(Tokens)
    BY <2>1, RunType, TokensForType
  <2> DEFINE new == [worker[w] EXCEPT !.tokens = tokens,
                       !.pc = IF tokens # << >> THEN "send" ELSE "done"]
  <2>3. /\ new \in Run /\ new.job = worker[w].job /\ new.dead = worker[w].dead
        /\ new.to = worker[w].to /\ new.tokens = tokens /\ new.start = worker[w].start
        /\ new.pc = IF tokens # << >> THEN "send" ELSE "done"
    BY <2>2, RunType DEF Run
  <2>4. Set(w, new)
    BY <2>1
  <2> HIDE DEF new
  <2>5. Moved(w, new)
    BY <2>3, <2>4, SetMove
  <2> QED
    BY <2>1, <2>3, <2>5
<1> QED
  BY <1>1, <1>2

LEMMA AfterChunkType ==
  ASSUME TypeOK, NEW w \in Workers, NEW dead \in SUBSET Tokens, NEW clean \in BOOLEAN,
         NEW new \in AfterChunk(w, dead, clean)
  PROVE  /\ new \in Run /\ new.job = worker[w].job /\ new.to = worker[w].to
         /\ new.tokens = worker[w].tokens /\ new.start = worker[w].start + Chunk
         /\ new.dead = worker[w].dead \union dead /\ (new.clean => clean /\ worker[w].clean)
         /\ new.pc = IF worker[w].start + Chunk < Len(worker[w].tokens) THEN "send" ELSE "prune"
<1> DEFINE next == worker[w].start + Chunk
<1>1. PICK ctx \in {worker[w].ctx, "expired"} :
        new = [worker[w] EXCEPT !.start = next, !.dead = @ \union dead, !.clean = @ /\ clean,
                                !.ctx = ctx,
                                !.pc = IF next < Len(worker[w].tokens) THEN "send" ELSE "prune"]
  BY DEF AfterChunk
<1>2. worker[w] \in Run /\ next \in Nat /\ worker[w].dead \union dead \subseteq Tokens
      /\ ctx \in {"live", "expired"} /\ worker[w].clean \in BOOLEAN
  BY RunType, PushAssumption DEF Run
<1>3. (worker[w].clean /\ clean) \in BOOLEAN
  BY <1>2
<1> QED
  BY <1>1, <1>2, <1>3 DEF Run

\* The chunk a worker is at.
LEMMA SliceType ==
  ASSUME TypeOK, NEW w \in Workers
  PROVE  /\ Slice(w) \subseteq DOMAIN worker[w].tokens /\ IsFiniteSet(Slice(w))
         /\ \A k \in DOMAIN worker[w].tokens :
              k <= worker[w].start + Chunk => k <= worker[w].start \/ k \in Slice(w)
         /\ \A k \in Slice(w) : k > worker[w].start /\ k <= worker[w].start + Chunk
<1>1. worker[w].tokens \in Seq(Tokens) /\ worker[w].start \in Nat /\ Chunk \in Nat \ {0}
  BY RunType, PushAssumption
<1>2. Len(worker[w].tokens) \in Nat /\ DOMAIN worker[w].tokens = 1..Len(worker[w].tokens)
  BY <1>1
<1>3. ChunkEnd(w) \in Nat /\ ChunkEnd(w) <= Len(worker[w].tokens)
      /\ (ChunkEnd(w) = Len(worker[w].tokens) \/ ChunkEnd(w) = worker[w].start + Chunk)
      /\ ChunkEnd(w) <= worker[w].start + Chunk
  BY <1>1, <1>2 DEF ChunkEnd
<1>4. IsFiniteSet(Slice(w))
  <2>1. worker[w].start + 1 \in Int /\ ChunkEnd(w) \in Int
    BY <1>1, <1>3
  <2> QED
    BY <2>1, FS_Interval DEF Slice
<1> QED
  BY <1>1, <1>2, <1>3, <1>4 DEF Slice

LEMMA AskEffect ==
  ASSUME TypeOK, NEW w \in Workers, Ask(w)
  PROVE  /\ tried' \in [Jobs -> [Tokens -> Nat]]
         /\ \A j \in Jobs, t \in Tokens : tried'[j][t] >= tried[j][t]
         /\ \A j \in Jobs, t \in Tokens :
              tried'[j][t] > tried[j][t] =>
                j = JobOf(w) /\ \E k \in Slice(w) : worker[w].tokens[k] = t
         /\ \A k \in Slice(w) : tried'[JobOf(w)][worker[w].tokens[k]] > 0
         /\ \A j \in Jobs, t \in Tokens :
              Once(worker[w].tokens, t) => tried'[j][t] <= tried[j][t] + 1
<1> DEFINE places(t) == {i \in Slice(w) : worker[w].tokens[i] = t}
<1>1. /\ IsFiniteSet(Slice(w)) /\ Slice(w) \subseteq DOMAIN worker[w].tokens
      /\ JobOf(w) \in Jobs /\ worker[w].tokens \in Seq(Tokens)
      /\ tried \in [Jobs -> [Tokens -> Nat]]
  BY SliceType, RunType DEF TypeOK
<1>2. \A t : IsFiniteSet(places(t)) /\ Cardinality(places(t)) \in Nat
                /\ (Cardinality(places(t)) = 0 <=> places(t) = {})
  <2> SUFFICES ASSUME NEW t
               PROVE  IsFiniteSet(places(t)) /\ Cardinality(places(t)) \in Nat
                        /\ (Cardinality(places(t)) = 0 <=> places(t) = {})
    OBVIOUS
  <2>1. places(t) \subseteq Slice(w)
    OBVIOUS
  <2> HIDE DEF places
  <2>2. IsFiniteSet(places(t))
    BY <1>1, <2>1, FS_Subset
  <2> QED
    BY <2>2, FS_CardinalityType, FS_EmptySet
<1>3. tried' = [tried EXCEPT ![JobOf(w)] = [t \in Tokens |-> @[t] + Cardinality(places(t))]]
  BY DEF Ask
<1>4. ASSUME NEW j \in Jobs, NEW t \in Tokens
      PROVE  tried'[j][t] = IF j = JobOf(w) THEN tried[j][t] + Cardinality(places(t)) ELSE tried[j][t]
  <2> HIDE DEF places
  <2> QED
    BY <1>1, <1>3
<1>5. tried' \in [Jobs -> [Tokens -> Nat]]
  <2> HIDE DEF places
  <2>1. [t \in Tokens |-> tried[JobOf(w)][t] + Cardinality(places(t))] \in [Tokens -> Nat]
    BY <1>1, <1>2
  <2> QED
    BY <1>1, <1>3, <2>1
<1>6. ASSUME NEW j \in Jobs, NEW t \in Tokens
      PROVE  /\ tried'[j][t] >= tried[j][t]
             /\ tried'[j][t] > tried[j][t] => j = JobOf(w) /\ places(t) # {}
  <2> HIDE DEF places
  <2>1. tried[j][t] \in Nat /\ Cardinality(places(t)) \in Nat
    BY <1>1, <1>2
  <2> QED
    BY <1>2, <1>4, <2>1
<1>7. ASSUME NEW k \in Slice(w) PROVE tried'[JobOf(w)][worker[w].tokens[k]] > 0
  <2>1. worker[w].tokens[k] \in Tokens /\ k \in places(worker[w].tokens[k])
    BY <1>1
  <2> HIDE DEF places
  <2>2. Cardinality(places(worker[w].tokens[k])) \in Nat \ {0}
    BY <1>2, <2>1
  <2>3. tried[JobOf(w)][worker[w].tokens[k]] \in Nat
    BY <1>1, <2>1
  <2> QED
    BY <1>1, <1>4, <2>1, <2>2, <2>3
<1>8. ASSUME NEW j \in Jobs, NEW t \in Tokens, Once(worker[w].tokens, t)
      PROVE  tried'[j][t] <= tried[j][t] + 1
  <2>0. \A i, k \in places(t) : i = k
    BY <1>1, <1>8 DEF Once
  <2>1. places(t) = {} \/ \E k : places(t) = {k}
    <3> HIDE DEF places
    <3> QED
      BY <2>0
  <2>2. Cardinality(places(t)) \in {0, 1}
    <3> HIDE DEF places
    <3> QED
      BY <1>2, <2>1, FS_Singleton
  <2>3. tried[j][t] \in Nat
    BY <1>1
  <2> HIDE DEF places
  <2> QED
    BY <1>4, <2>2, <2>3
<1> QED
  BY <1>5, <1>6, <1>7, <1>8

\* What a run is after a chunk it has asked the service for, or failed to.
Sent(w, new) ==
  /\ Moved(w, new) /\ new.job = worker[w].job /\ new.to = worker[w].to
  /\ new.tokens = worker[w].tokens /\ new.start = worker[w].start + Chunk
  /\ new.pc = IF worker[w].start + Chunk < Len(worker[w].tokens) THEN "send" ELSE "prune"
  /\ Ask(w) \/ UNCHANGED tried
  /\ new.clean => Ask(w) /\ worker[w].clean
  /\ \A t \in new.dead \ worker[w].dead :
       /\ t \notin registered \/ ~Work(JobOf(w)).valid
       /\ Ask(w) /\ \E k \in Slice(w) : worker[w].tokens[k] = t

LEMMA RefusedType ==
  ASSUME TypeOK, NEW w \in Workers, NEW answered \in SUBSET Slice(w)
  PROVE  /\ Refused(w, answered) \in SUBSET Tokens
         /\ \A t \in Refused(w, answered) :
              /\ t \notin registered \/ ~Work(JobOf(w)).valid
              /\ \E k \in Slice(w) : worker[w].tokens[k] = t
<1>1. worker[w].tokens \in Seq(Tokens) /\ Slice(w) \subseteq DOMAIN worker[w].tokens
  BY RunType, SliceType
<1> QED
  BY <1>1 DEF Refused, TokensAt

LEMMA ChunkSent ==
  ASSUME TypeOK, NEW w \in Workers, NEW dead \in SUBSET Tokens, NEW clean \in BOOLEAN,
         \E new \in AfterChunk(w, dead, clean) : Set(w, new),
         Ask(w) \/ UNCHANGED tried, clean => Ask(w),
         \A t \in dead :
           /\ t \notin registered \/ ~Work(JobOf(w)).valid
           /\ Ask(w) /\ \E k \in Slice(w) : worker[w].tokens[k] = t
  PROVE  \E new \in Run : Sent(w, new)
<1>1. PICK new \in AfterChunk(w, dead, clean) : Set(w, new)
  OBVIOUS
<1>2. /\ new \in Run /\ new.job = worker[w].job /\ new.to = worker[w].to
      /\ new.tokens = worker[w].tokens /\ new.start = worker[w].start + Chunk
      /\ new.dead = worker[w].dead \union dead /\ (new.clean => clean /\ worker[w].clean)
      /\ new.pc = IF worker[w].start + Chunk < Len(worker[w].tokens) THEN "send" ELSE "prune"
  BY AfterChunkType
<1>3. Moved(w, new)
  BY <1>1, <1>2, SetMove
<1>4. \A t \in new.dead \ worker[w].dead : t \in dead
  BY <1>2
<1> QED
  BY <1>2, <1>3, <1>4 DEF Sent

LEMMA SendMove ==
  ASSUME TypeOK, NEW w \in Workers, SendChunk(w)
  PROVE  \E new \in Run : Sent(w, new)
<1>1. CASE Ask(w) /\ \E new \in AfterChunk(w, Refused(w, Slice(w)), TRUE) : Set(w, new)
  <2> DEFINE dead == Refused(w, Slice(w))
  <2>1. /\ dead \in SUBSET Tokens
        /\ \A t \in dead : /\ t \notin registered \/ ~Work(JobOf(w)).valid
                           /\ \E k \in Slice(w) : worker[w].tokens[k] = t
    BY RefusedType
  <2> HIDE DEF dead
  <2>2. \E new \in AfterChunk(w, dead, TRUE) : Set(w, new)
    BY <1>1 DEF dead
  <2> QED
    BY <1>1, <2>1, <2>2, ChunkSent
<1>2. CASE Ask(w) /\ \E answered \in SUBSET Slice(w) \ {Slice(w)} :
             \E new \in AfterChunk(w, Refused(w, answered), FALSE) : Set(w, new)
  <2>1. PICK answered \in SUBSET Slice(w) \ {Slice(w)} :
          \E new \in AfterChunk(w, Refused(w, answered), FALSE) : Set(w, new)
    BY <1>2
  <2> DEFINE dead == Refused(w, answered)
  <2>2. /\ dead \in SUBSET Tokens
        /\ \A t \in dead : /\ t \notin registered \/ ~Work(JobOf(w)).valid
                           /\ \E k \in Slice(w) : worker[w].tokens[k] = t
    BY RefusedType
  <2> HIDE DEF dead
  <2>3. \E new \in AfterChunk(w, dead, FALSE) : Set(w, new)
    BY <2>1 DEF dead
  <2> QED
    BY <1>2, <2>2, <2>3, ChunkSent
<1>3. CASE UNCHANGED tried /\ \E new \in AfterChunk(w, {}, FALSE) : Set(w, new)
  <2>1. {} \in SUBSET Tokens /\ FALSE \in BOOLEAN /\ (FALSE => Ask(w))
        /\ (Ask(w) \/ UNCHANGED tried) /\ (\E new \in AfterChunk(w, {}, FALSE) : Set(w, new))
    BY <1>3
  <2> DEFINE dead == {}
  <2>2. dead \in SUBSET Tokens /\ (\E new \in AfterChunk(w, dead, FALSE) : Set(w, new))
        /\ \A t \in dead : /\ t \notin registered \/ ~Work(JobOf(w)).valid
                           /\ Ask(w) /\ \E k \in Slice(w) : worker[w].tokens[k] = t
    BY <1>3
  <2> HIDE DEF dead
  <2> QED
    BY <2>1, <2>2, ChunkSent
<1> QED
  BY <1>1, <1>2, <1>3 DEF SendChunk

LEMMA FaultsType ==
  ASSUME TypeOK, NEW w \in Workers, Succeeds(w) \/ Fails(w) \/ GiveUp(w)
  PROVE  faults' \in 0..MaxFaults
BY PushAssumption DEF TypeOK, Succeeds, Fails, GiveUp, Fault

(***************************************************************************)
(* Types.                                                                  *)
(***************************************************************************)

LEMMA TypeInit == Init => TypeOK
<1> SUFFICES ASSUME Init PROVE TypeOK
  OBVIOUS
<1>1. scene \in Scenario /\ session \in Seq(Session) /\ members \subseteq People
  BY PushAssumption DEF Init, Scenario
<1>2. DOMAIN session = 1..Len(session) /\ \A i \in DOMAIN session : session[i] \in Session
  BY <1>1
<1>3. held \subseteq People \X (Tokens \union {NoToken})
  BY <1>2 DEF Init, Session
<1>4. steady \in [Jobs -> SUBSET (Nat \X Tokens)]
  <2> SUFFICES ASSUME NEW j \in Jobs PROVE Meant(j) \subseteq Nat \X Tokens
    BY DEF Init
  <2>1. Work(j) \in Job /\ Work(j).given \in Seq(Tokens)
    BY <1>1 DEF Work, Scenario, Job
  <2>2. ToSet(Work(j).given) \subseteq Tokens
    BY <2>1 DEF ToSet
  <2>3. \A ids, all : {<<i, session[i].token>> : i \in Hits(ids, all)} \subseteq Nat \X Tokens
    BY <1>2 DEF Hits, Selected, Session
  <2> QED
    BY <2>2, <2>3 DEF Meant
<1>5. worker \in [Workers -> Run] /\ live \in BOOLEAN
  BY IdleType DEF Init
<1> QED
  BY <1>1, <1>3, <1>4, <1>5, PushAssumption DEF Init, TypeOK

LEMMA WorkType ==
  ASSUME TypeOK, NEW w \in Workers, NEW new \in Run, Moved(w, new),
         UNCHANGED <<scene, world, changes, past>>, faults' \in 0..MaxFaults,
         client' \in {"none", "ready", "failed"},
         tried' \in [Jobs -> [Tokens -> Nat]], ready' \in [Jobs -> Nat], doubts' \in [Jobs -> Nat]
  PROVE  TypeOK'
BY DEF TypeOK, Moved, world, past

\* What the rest of the system, or the pruning, leaves.
LEMMA WorldType ==
  ASSUME TypeOK, UNCHANGED <<scene, client>>, session' \in Seq(Session), members' \subseteq People,
         live' \in BOOLEAN, registered' \subseteq registered, worker' \in [Workers -> Run],
         UNCHANGED <<tried, ready, doubts>>, faults' \in 0..MaxFaults, changes' \in 0..MaxChanges,
         held' \subseteq held \union {<<session'[i].owner, session'[i].token>> : i \in DOMAIN session'},
         joined' \subseteq joined \union members',
         steady' = [j \in Jobs |-> steady[j] \intersect Meant(j)']
  PROVE  TypeOK'
<1>1. DOMAIN session' = 1..Len(session') /\ \A i \in DOMAIN session' : session'[i] \in Session
  OBVIOUS
<1>2. held' \subseteq People \X (Tokens \union {NoToken})
  BY <1>1 DEF TypeOK, Session
<1>3. steady' \in [Jobs -> SUBSET (Nat \X Tokens)]
  BY DEF TypeOK
<1> QED
  BY <1>2, <1>3 DEF TypeOK

LEMMA PruneType ==
  ASSUME TypeOK, NEW w \in Workers, Prune(w)
  PROVE  /\ session' \in Seq(Session) /\ DOMAIN session' = DOMAIN session
         /\ \A i \in DOMAIN session :
              /\ session'[i].owner = session[i].owner
              /\ \/ session'[i].token = session[i].token
                 \/ session'[i].token = NoToken /\ session[i].token \in worker[w].dead
<1>1. session \in Seq(Session) /\ DOMAIN session = 1..Len(session) /\ Len(session) \in Nat
  BY DEF TypeOK
<1>2. CASE UNCHANGED session
  BY <1>1, <1>2
<1>3. CASE session' = [i \in 1..Len(session) |->
             IF session[i].token \in worker[w].dead THEN [session[i] EXCEPT !.token = NoToken]
             ELSE session[i]]
  <2>1. ASSUME NEW i \in 1..Len(session)
        PROVE  /\ session'[i] \in Session
               /\ session'[i].owner = session[i].owner
               /\ \/ session'[i].token = session[i].token
                  \/ session'[i].token = NoToken /\ session[i].token \in worker[w].dead
    <3>1. session[i] \in Session
      BY <1>1
    <3>2. /\ [session[i] EXCEPT !.token = NoToken] \in Session
          /\ [session[i] EXCEPT !.token = NoToken].owner = session[i].owner
          /\ [session[i] EXCEPT !.token = NoToken].token = NoToken
      BY <3>1 DEF Session
    <3> QED
      BY <1>3, <3>1, <3>2
  <2>2. session' \in [1..Len(session) -> Session]
    BY <1>3, <2>1
  <2>3. session' \in Seq(Session)
    BY <1>1, <2>2
  <2> QED
    BY <1>1, <2>1, <2>2, <2>3
<1> QED
  BY <1>2, <1>3 DEF Prune

\* A session that goes on- or offline, or gets a token.
LEMMA SessionsType ==
  ASSUME TypeOK, NEW i \in DOMAIN session, GoOnline(i) \/ Refresh(i)
  PROVE  /\ session' \in Seq(Session) /\ DOMAIN session' = DOMAIN session
         /\ \A k \in DOMAIN session :
              /\ session'[k].owner = session[k].owner
              /\ session'[k].token = session[k].token \/ session'[k].token \in Tokens
<1>1. session \in Seq(Session) /\ session[i] \in Session
  BY SessionType DEF TypeOK
<1>2. CASE GoOnline(i)
  <2> DEFINE new == [session[i] EXCEPT !.online = ~@]
  <2>1. new \in Session /\ new.owner = session[i].owner /\ new.token = session[i].token
    BY <1>1 DEF Session
  <2>2. session' = [session EXCEPT ![i] = new]
    BY <1>2 DEF GoOnline
  <2> HIDE DEF new
  <2> QED
    BY <1>1, <2>1, <2>2
<1>3. CASE Refresh(i)
  <2>1. PICK t \in registered : session' = [session EXCEPT ![i].token = t]
    BY <1>3 DEF Refresh
  <2> DEFINE new == [session[i] EXCEPT !.token = t]
  <2>2. new \in Session /\ new.owner = session[i].owner /\ new.token = t /\ t \in Tokens
    BY <1>1 DEF Session, TypeOK
  <2>3. session' = [session EXCEPT ![i] = new]
    BY <2>1
  <2> HIDE DEF new
  <2> QED
    BY <1>1, <2>2, <2>3
<1> QED
  BY <1>2, <1>3

LEMMA ChangesType ==
  ASSUME TypeOK, Change
  PROVE  changes' \in 0..MaxChanges
BY PushAssumption DEF TypeOK, Change

LEMMA TypeStep == TypeOK /\ [Next]_vars => TypeOK'
<1> SUFFICES ASSUME TypeOK, [Next]_vars PROVE TypeOK'
  OBVIOUS
<1> USE DEF world, past
<1>1. CASE UNCHANGED vars
  BY <1>1 DEF vars, TypeOK
<1>2. ASSUME NEW w \in Workers, Begin(w) PROVE TypeOK'
  <2>1. PICK j \in Jobs, new \in Run :
          Moved(w, new) /\ ready[j] > 0 /\ ready' = [ready EXCEPT ![j] = @ - 1]
    BY <1>2, BeginMove
  <2>2. ready' \in [Jobs -> Nat]
    BY <2>1 DEF TypeOK
  <2> QED
    BY <1>2, <2>1, <2>2, WorkType DEF Begin, TypeOK
<1>3. ASSUME NEW w \in Workers, ReadScope(w) PROVE TypeOK'
  <2>1. PICK new \in Run : Moved(w, new)
    BY <1>3, ReadScopeMove
  <2>2. faults' \in 0..MaxFaults
    BY <1>3, FaultsType DEF ReadScope
  <2> QED
    BY <1>3, <2>1, <2>2, WorkType DEF ReadScope, TypeOK
<1>4. ASSUME NEW w \in Workers, ReadMembers(w) PROVE TypeOK'
  <2>1. PICK new \in Run : Moved(w, new)
    BY <1>4, ReadMembersMove
  <2>2. faults' \in 0..MaxFaults
    BY <1>4, FaultsType DEF ReadMembers
  <2> QED
    BY <1>4, <2>1, <2>2, WorkType DEF ReadMembers, TypeOK
<1>5. ASSUME NEW w \in Workers, ReadTokens(w) PROVE TypeOK'
  <2>1. PICK new \in Run : Moved(w, new)
    BY <1>5, ReadTokensMove
  <2>2. faults' \in 0..MaxFaults
    BY <1>5, FaultsType DEF ReadTokens
  <2> QED
    BY <1>5, <2>1, <2>2, WorkType DEF ReadTokens, TypeOK
<1>14. ASSUME NEW w \in Workers, GetClient(w) PROVE TypeOK'
  <2>1. client' \in {"none", "ready", "failed"} /\ \E new \in Run : Moved(w, new)
    BY <1>14, GetClientMove
  <2>2. faults' \in 0..MaxFaults
    BY <1>14, FaultsType DEF GetClient, TypeOK
  <2> QED
    BY <1>14, <2>1, <2>2, WorkType DEF GetClient, TypeOK
<1>6. ASSUME NEW w \in Workers, SendChunk(w) PROVE TypeOK'
  <2>1. PICK new \in Run : Sent(w, new)
    BY <1>6, SendMove
  <2>2. faults' \in 0..MaxFaults
    BY <1>6, FaultsType DEF SendChunk
  <2>3. tried' \in [Jobs -> [Tokens -> Nat]]
    BY <2>1, AskEffect DEF Sent, TypeOK
  <2> QED
    BY <1>6, <2>1, <2>2, <2>3, WorkType DEF SendChunk, Sent, TypeOK
<1>7. ASSUME NEW w \in Workers, Prune(w) PROVE TypeOK'
  <2>1. session' \in Seq(Session)
    BY <1>7, PruneType
  <2>2. worker' \in [Workers -> Run]
    BY <1>7, GoMove DEF Prune, Moved
  <2>3. faults' \in 0..MaxFaults
    BY <1>7, FaultsType DEF Prune
  <2> QED
    BY <1>7, <2>1, <2>2, <2>3, WorldType DEF Prune, TypeOK
<1>8. ASSUME NEW w \in Workers, Ack(w) PROVE TypeOK'
  <2>1. Moved(w, Idle) /\ Idle \in Run
    BY <1>8, IdleType, SetMove DEF Ack
  <2> QED
    BY <1>8, <2>1, WorkType DEF Ack, TypeOK
<1>9. ASSUME NEW w \in Workers, Crash(w) PROVE TypeOK'
  <2>1. \E new \in Run : Moved(w, new)
    <3>1. CASE Set(w, Idle)
      BY <3>1, IdleType, SetMove
    <3>2. CASE UNCHANGED worker
      BY <3>2 DEF Moved, TypeOK
    <3> QED
      BY <1>9, <3>1, <3>2 DEF Crash
  <2>2. JobOf(w) \in Jobs
    BY RunType
  <2>3. ready' \in [Jobs -> Nat] /\ doubts' \in [Jobs -> Nat]
    BY <1>9, <2>2 DEF Crash, TypeOK
  <2>4. faults' \in 0..MaxFaults
    BY <1>9, PushAssumption DEF Crash, Fault, TypeOK
  <2> QED
    BY <1>9, <2>1, <2>3, <2>4, WorkType DEF Crash, TypeOK
<1>10. ASSUME NEW p \in People, LeaveOrJoin(p) PROVE TypeOK'
  BY <1>10, WorldType, ChangesType DEF LeaveOrJoin, Change, TypeOK
<1>11. CASE DeletePost
  BY <1>11, WorldType, ChangesType DEF DeletePost, Change, TypeOK
<1>12. ASSUME NEW i \in DOMAIN session, GoOnline(i) \/ Refresh(i) PROVE TypeOK'
  BY <1>12, SessionsType, WorldType, ChangesType DEF GoOnline, Refresh, Change, TypeOK
<1>13. ASSUME NEW t \in Tokens, Uninstall(t) PROVE TypeOK'
  BY <1>13, WorldType, ChangesType DEF Uninstall, Change, TypeOK
<1> QED
  BY <1>1, <1>2, <1>3, <1>4, <1>5, <1>6, <1>7, <1>8, <1>9, <1>10, <1>11, <1>12, <1>13,
     <1>14 DEF Next, Deliver

\* Push is type correct for any sessions, jobs and chunk size.
THEOREM TypeCorrect == Spec => []TypeOK
BY TypeInit, TypeStep, PTL DEF Spec

(***************************************************************************)
(* What no step takes back.                                                *)
(***************************************************************************)
Onward ==
  /\ scene' = scene
  /\ joined \subseteq joined' /\ held \subseteq held' /\ registered' \subseteq registered
  /\ DOMAIN session' = DOMAIN session
  /\ \A i \in DOMAIN session : session'[i].owner = session[i].owner
  /\ \A j \in Jobs : steady'[j] \subseteq steady[j]
  /\ \A j \in Jobs, t \in Tokens : tried'[j][t] >= tried[j][t]

\* The next state for a worker that is not involved, or that is.
LEMMA WhoMoves ==
  ASSUME TypeOK, [Next]_vars, NEW w \in Workers
  PROVE  worker'[w] = worker[w] \/ Deliver(w) \/ Crash(w)
<1>1. ASSUME NEW v \in Workers, Deliver(v) \/ Crash(v), v # w PROVE worker'[w] = worker[w]
  <2>1. UNCHANGED worker \/ \E new : worker' = [worker EXCEPT ![v] = new]
    BY <1>1 DEF Deliver, Crash, Begin, ReadScope, ReadMembers, GetClient, ReadTokens, SendChunk, Prune, Ack,
                Set, Go, GiveUp
  <2> QED
    BY <1>1, <2>1 DEF TypeOK
<1>2. CASE UNCHANGED worker
  BY <1>2
<1>3. ASSUME Change PROVE UNCHANGED worker
  BY <1>3 DEF Change
<1> QED
  BY <1>1, <1>2, <1>3 DEF Next, LeaveOrJoin, DeletePost, GoOnline, Refresh, Uninstall, vars

LEMMA StepOnward ==
  ASSUME TypeOK, [Next]_vars
  PROVE  Onward
<1>1. \A j \in Jobs, t \in Tokens : tried[j][t] \in Nat
  BY DEF TypeOK
<1>2. CASE UNCHANGED <<scene, world, past>> /\ UNCHANGED tried
  BY <1>1, <1>2 DEF Onward, world, past
<1>3. ASSUME NEW w \in Workers, SendChunk(w) PROVE Onward
  <2>1. PICK new \in Run : Sent(w, new)
    BY <1>3, SendMove
  <2>2. \A j \in Jobs, t \in Tokens : tried'[j][t] >= tried[j][t]
    BY <1>1, <2>1, AskEffect DEF Sent
  <2> QED
    BY <1>3, <2>2 DEF SendChunk, Onward, world, past
<1>4. ASSUME NEW w \in Workers, Prune(w) PROVE Onward
  BY <1>1, <1>4, PruneType DEF Prune, Onward
<1>5. ASSUME Change,
             DOMAIN session' = DOMAIN session,
             \A i \in DOMAIN session : session'[i].owner = session[i].owner,
             registered' \subseteq registered
      PROVE  Onward
  BY <1>1, <1>5 DEF Change, Onward
<1>6. ASSUME NEW i \in DOMAIN session, GoOnline(i) \/ Refresh(i) PROVE Onward
  BY <1>5, <1>6, SessionsType DEF GoOnline, Refresh
<1>7. ASSUME NEW p \in People, LeaveOrJoin(p) PROVE Onward
  BY <1>5, <1>7 DEF LeaveOrJoin
<1>8. CASE DeletePost
  BY <1>5, <1>8 DEF DeletePost
<1>9. ASSUME NEW t \in Tokens, Uninstall(t) PROVE Onward
  BY <1>5, <1>9 DEF Uninstall
<1>10. ASSUME NEW w \in Workers, Deliver(w) \/ Crash(w) PROVE Onward
  BY <1>2, <1>3, <1>4, <1>10
  DEF Deliver, Crash, Begin, ReadScope, ReadMembers, GetClient, ReadTokens, Ack
<1>11. CASE UNCHANGED vars
  BY <1>2, <1>11 DEF vars, world, past
<1> QED
  BY <1>6, <1>7, <1>8, <1>9, <1>10, <1>11 DEF Next

\* The history knows the present.
Known ==
  /\ members \subseteq joined
  /\ \A i \in DOMAIN session :
       session[i].token # NoToken => <<session[i].owner, session[i].token>> \in held
  /\ \A j \in Jobs : steady[j] \subseteq Meant(j)

LEMMA KnownInit == Init => Known
BY DEF Init, Known

LEMMA KnownStep ==
  ASSUME TypeOK, Known, [Next]_vars
  PROVE  Known'
<1>1. CASE UNCHANGED <<scene, world, past>>
  <2>1. \A j : Meant(j)' = Meant(j)
    BY <1>1 DEF Meant, Work, Hits, Selected, world
  <2> QED
    BY <1>1, <2>1 DEF Known, world, past
<1>2. ASSUME NEW w \in Workers, Prune(w) PROVE Known'
  <2>1. \A j \in Jobs : steady'[j] = steady[j] \intersect Meant(j)'
    BY <1>2 DEF Prune
  <2>2. \A i \in DOMAIN session' :
          session'[i].token # NoToken => <<session'[i].owner, session'[i].token>> \in held
    BY <1>2, PruneType DEF Known
  <2> QED
    BY <1>2, <2>1, <2>2 DEF Prune, Known
<1>3. CASE Change
  BY <1>3 DEF Change, Known
<1>4. ASSUME NEW w \in Workers, Deliver(w) \/ Crash(w) PROVE Known'
  BY <1>1, <1>2, <1>4
  DEF Deliver, Crash, Begin, ReadScope, ReadMembers, GetClient, ReadTokens, SendChunk, Ack
<1>5. CASE UNCHANGED vars
  BY <1>1, <1>5 DEF vars, world, past
<1> QED
  BY <1>3, <1>4, <1>5 DEF Next, LeaveOrJoin, DeletePost, GoOnline, Refresh, Uninstall

(***************************************************************************)
(* Who gets a push.                                                        *)
(***************************************************************************)
Allowed(j, t) ==
  \/ ~Work(j).community /\ t \in ToSet(Work(j).given)
  \/ \E p \in Work(j).to : <<p, t>> \in held /\ (Work(j).community => p \in joined)

\* Until the tokens are read there are none but those the job names, and
\* a community audience has been members; afterwards every token is allowed.
Addressed(w) ==
  /\ worker[w].to \subseteq Work(JobOf(w)).to
  /\ worker[w].pc \in {"scope", "members"} => Work(JobOf(w)).community
  /\ worker[w].pc \in {"client", "tokens"} =>
       IF Work(JobOf(w)).community THEN worker[w].tokens = << >> /\ worker[w].to \subseteq joined
       ELSE worker[w].tokens = Work(JobOf(w)).given
  /\ worker[w].pc \in {"send", "prune"} =>
       \A k \in DOMAIN worker[w].tokens : Allowed(JobOf(w), worker[w].tokens[k])

Audience == TypeOK /\ Known /\ (\A w \in Workers : Addressed(w)) /\ OnlyAudience

LEMMA AllowedOnward ==
  ASSUME Onward, NEW j, NEW t, Allowed(j, t)
  PROVE  Allowed(j, t)'
BY DEF Onward, Allowed, Work

LEMMA AddressedStays ==
  ASSUME Onward, NEW w \in Workers, Addressed(w), worker'[w] = worker[w]
  PROVE  Addressed(w)'
<1>1. scene' = scene /\ joined \subseteq joined'
  BY DEF Onward
<1>2. \A j, t : Allowed(j, t) => Allowed(j, t)'
  BY AllowedOnward
<1> QED
  BY <1>1, <1>2 DEF Addressed, JobOf, Work

LEMMA AddressedIdle ==
  ASSUME NEW w \in Workers, worker'[w] = Idle
  PROVE  Addressed(w)'
BY DEF Addressed, Idle, JobOf

LEMMA AddressedMoves ==
  ASSUME TypeOK, Known, Onward, NEW w \in Workers, Addressed(w), Deliver(w) \/ Crash(w)
  PROVE  Addressed(w)'
<1> USE DEF Moved, JobOf, At
<1>0. \A j : Work(j)' = Work(j)
  BY DEF Onward, Work
<1>1. CASE Begin(w)
  <2>1. PICK j \in Jobs, new \in Run :
          /\ Moved(w, new) /\ new.job = j /\ new.to = Work(j).to /\ new.tokens = Work(j).given
          /\ new.pc = IF Work(j).community THEN "scope" ELSE "client"
    BY <1>1, BeginMove
  <2> QED
    BY <1>0, <2>1 DEF Addressed
<1>2. CASE ReadScope(w)
  <2>1. PICK new \in Run :
          /\ Moved(w, new) /\ new.job = worker[w].job /\ new.to = worker[w].to
          /\ new.pc \in {"members", "done"}
    BY <1>2, ReadScopeMove
  <2>2. worker[w].pc = "scope"
    BY <1>2 DEF ReadScope
  <2> QED
    BY <1>0, <2>1, <2>2 DEF Addressed
<1>3. CASE ReadMembers(w)
  <2>1. PICK new \in Run :
          /\ Moved(w, new) /\ new.job = worker[w].job /\ new.to \subseteq worker[w].to
          /\ \/ new.pc = "client" /\ new.to \subseteq members /\ new.tokens = << >>
             \/ new.pc = "done"
    BY <1>3, ReadMembersMove
  <2>2. worker[w].pc = "members" /\ members \subseteq joined' /\ members \subseteq joined
    BY <1>3 DEF ReadMembers, Known, Onward
  <2> QED
    BY <1>0, <2>1, <2>2 DEF Addressed
<1>9. CASE GetClient(w)
  <2>1. PICK new \in Run :
          /\ Moved(w, new) /\ new.job = worker[w].job /\ new.to = worker[w].to
          /\ (new.pc = "tokens" /\ new.tokens = worker[w].tokens) \/ new.pc = "done"
    BY <1>9, GetClientMove
  <2>2. worker[w].pc = "client" /\ joined \subseteq joined'
    BY <1>9 DEF GetClient, Onward
  <2> QED
    BY <1>0, <2>1, <2>2 DEF Addressed
<1>4. CASE ReadTokens(w)
  <2>1. PICK new \in Run :
          /\ Moved(w, new) /\ new.job = worker[w].job /\ new.to = worker[w].to
          /\ \/ new.pc = "done"
             \/ /\ new.tokens \in IF worker[w].tokens # << >> THEN {worker[w].tokens}
                                  ELSE TokensFor(worker[w].to, Work(JobOf(w)).all)
                /\ new.pc \in {"send", "done"}
    BY <1>4, ReadTokensMove
  <2>2. worker[w].pc = "tokens"
    BY <1>4 DEF ReadTokens
  <2>3. ASSUME new.pc = "send", NEW k \in DOMAIN new.tokens
        PROVE  Allowed(JobOf(w), new.tokens[k])
    <3>1. CASE worker[w].tokens # << >>
      <4>1. ~Work(JobOf(w)).community /\ new.tokens = Work(JobOf(w)).given
        BY <2>1, <2>2, <2>3, <3>1 DEF Addressed
      <4> QED
        BY <2>3, <4>1 DEF Allowed, ToSet
    <3>2. CASE worker[w].tokens = << >>
      <4>1. new.tokens[k] \in Wanted(worker[w].to, Work(JobOf(w)).all)
        BY <2>1, <2>3, <3>2, TokensForType
      <4>2. PICK i \in DOMAIN session :
              /\ session[i].token = new.tokens[k] /\ session[i].token # NoToken
              /\ session[i].owner \in worker[w].to
        BY <4>1 DEF Wanted, Hits, Selected
      <4>3. <<session[i].owner, new.tokens[k]>> \in held
        BY <4>2 DEF Known
      <4>4. /\ session[i].owner \in Work(JobOf(w)).to
            /\ Work(JobOf(w)).community => session[i].owner \in joined
        BY <2>2, <4>2 DEF Addressed
      <4> QED
        BY <4>3, <4>4 DEF Allowed
    <3> QED
      BY <3>1, <3>2
  <2>4. new.pc = "send" => \A k \in DOMAIN new.tokens : Allowed(JobOf(w), new.tokens[k])'
    <3>1. PICK j : j = worker[w].job /\ j = worker'[w].job
      BY <2>1
    <3>2. new.pc = "send" => \A k \in DOMAIN new.tokens : Allowed(j, new.tokens[k])
      BY <2>3, <3>1
    <3>3. new.pc = "send" => \A k \in DOMAIN new.tokens : Allowed(j, new.tokens[k])'
      BY <3>2, AllowedOnward
    <3> QED
      BY <3>1, <3>3
  <2> QED
    BY <1>0, <2>1, <2>4 DEF Addressed
<1>5. CASE SendChunk(w)
  <2>1. PICK new \in Run : Sent(w, new)
    BY <1>5, SendMove
  <2>2. worker[w].pc = "send"
    BY <1>5 DEF SendChunk
  <2>3. \A k \in DOMAIN new.tokens : Allowed(worker[w].job, new.tokens[k])'
    BY <2>1, <2>2, AllowedOnward DEF Addressed, Sent
  <2> QED
    BY <1>0, <2>1, <2>3 DEF Addressed, Sent
<1>6. CASE Prune(w)
  <2>1. PICK new \in Run :
          Moved(w, new) /\ new.pc = "done" /\ new.job = worker[w].job /\ new.to = worker[w].to
    BY <1>6, GoMove DEF Prune
  <2> QED
    BY <1>0, <2>1 DEF Addressed
<1>7. CASE Ack(w)
  BY <1>7, AddressedIdle DEF Ack, Set, TypeOK
<1>8. CASE Crash(w)
  BY <1>8, AddressedIdle, AddressedStays DEF Crash, Set, TypeOK
<1> QED
  BY <1>1, <1>2, <1>3, <1>4, <1>5, <1>6, <1>7, <1>8, <1>9 DEF Deliver

LEMMA OnlyAudienceStep ==
  ASSUME Audience, Onward, [Next]_vars
  PROVE  OnlyAudience'
<1>1. \A j \in Jobs, t \in Tokens : tried[j][t] > 0 => Allowed(j, t)
  BY DEF Audience, OnlyAudience, Allowed
<1>2. ASSUME NEW j \in Jobs, NEW t \in Tokens, tried'[j][t] > 0 PROVE Allowed(j, t)
  <2>1. CASE UNCHANGED tried
    BY <1>1, <1>2, <2>1
  <2>2. ASSUME NEW w \in Workers, SendChunk(w), ~UNCHANGED tried PROVE Allowed(j, t)
    <3>1. PICK new \in Run : Sent(w, new)
      BY <2>2, SendMove DEF Audience
    <3>2. TypeOK /\ Ask(w)
      BY <2>2, <3>1 DEF Audience, Sent
    <3>3. tried[j][t] \in Nat /\ tried'[j][t] \in Nat /\ tried'[j][t] >= tried[j][t]
      BY <3>2, AskEffect DEF TypeOK
    <3>4. CASE tried'[j][t] > tried[j][t]
      <4>1. j = JobOf(w) /\ \E k \in Slice(w) : worker[w].tokens[k] = t
        BY <3>2, <3>4, AskEffect
      <4>2. Slice(w) \subseteq DOMAIN worker[w].tokens
        BY <3>2, SliceType
      <4>3. Addressed(w) /\ worker[w].pc = "send"
        BY <2>2 DEF Audience, SendChunk, At
      <4> QED
        BY <4>1, <4>2, <4>3 DEF Addressed
    <3> QED
      BY <1>1, <1>2, <3>3, <3>4
  <2> QED
    BY <2>1, <2>2
    DEF Next, Deliver, Crash, Begin, ReadScope, ReadMembers, GetClient, ReadTokens, Prune, Ack, Change,
        LeaveOrJoin, DeletePost, GoOnline, Refresh, Uninstall, vars
<1>3. \A j \in Jobs, t \in Tokens : tried'[j][t] > 0 => Allowed(j, t)'
  BY <1>2, AllowedOnward
<1> QED
  BY <1>3 DEF OnlyAudience, Allowed

LEMMA AudienceInit == Init => Audience
<1> SUFFICES ASSUME Init PROVE Audience
  OBVIOUS
<1>1. TypeOK /\ Known
  BY TypeInit, KnownInit
<1>2. \A w \in Workers : worker[w].pc = "idle" /\ worker[w].to = {}
  BY DEF Init, Idle
<1>3. \A w \in Workers : Addressed(w)
  BY <1>2 DEF Addressed
<1>4. OnlyAudience
  BY DEF Init, OnlyAudience
<1> QED
  BY <1>1, <1>3, <1>4 DEF Audience

LEMMA AudienceStep == Audience /\ [Next]_vars => Audience'
<1> SUFFICES ASSUME Audience, [Next]_vars PROVE Audience'
  OBVIOUS
<1>1. TypeOK' /\ Known' /\ Onward
  BY TypeStep, KnownStep, StepOnward DEF Audience
<1>2. OnlyAudience'
  BY <1>1, OnlyAudienceStep
<1>3. ASSUME NEW w \in Workers PROVE Addressed(w)'
  BY <1>1, WhoMoves, AddressedStays, AddressedMoves DEF Audience
<1> QED
  BY <1>1, <1>2, <1>3 DEF Audience

\* Whatever members, sessions and posts do while a push is on its way, and
\* however often it is delivered, it reaches no device outside its audience.
THEOREM NobodyElse == Spec => []OnlyAudience
<1>1. Audience => OnlyAudience
  BY DEF Audience
<1> QED
  BY <1>1, AudienceInit, AudienceStep, PTL DEF Spec

(***************************************************************************)
(* Which registrations are given up.                                       *)
(***************************************************************************)
Refusable(j, t) == t \notin registered \/ (~Work(j).valid /\ tried[j][t] > 0)

\* Every token a run has noted down has been refused, and for good.
Noted(w) == \A t \in worker[w].dead : Refusable(worker[w].job, t)

LEMMA RefusableOnward ==
  ASSUME TypeOK, TypeOK', Onward, NEW j \in Jobs, NEW t \in Tokens, Refusable(j, t)
  PROVE  Refusable(j, t)'
<1>1. tried'[j][t] >= tried[j][t] /\ tried[j][t] \in Nat /\ tried'[j][t] \in Nat
  BY DEF Onward, TypeOK
<1> QED
  BY <1>1 DEF Onward, Refusable, Work

LEMMA NotedMoves ==
  ASSUME TypeOK, TypeOK', Onward, NEW w \in Workers, Noted(w), [Next]_vars
  PROVE  Noted(w)'
<1> USE DEF Moved
<1>1. /\ worker[w].dead \subseteq Tokens /\ worker[w].job \in Jobs
      /\ \A t \in worker[w].dead : Refusable(worker[w].job, t)
  BY RunType DEF Noted
<1>2. ASSUME worker'[w].job = worker[w].job, worker'[w].dead = worker[w].dead PROVE Noted(w)'
  <2>1. PICK j \in Jobs : j = worker[w].job /\ j = worker'[w].job
    BY <1>1, <1>2
  <2>2. \A t \in worker[w].dead : Refusable(j, t)'
    BY <1>1, <2>1, RefusableOnward
  <2> QED
    BY <1>2, <2>1, <2>2 DEF Noted
<1>3. ASSUME worker'[w].dead = {} PROVE Noted(w)'
  BY <1>3 DEF Noted
<1>4. CASE SendChunk(w)
  <2>1. PICK new \in Run : Sent(w, new)
    BY <1>4, SendMove
  <2>2. PICK j \in Jobs : j = worker[w].job /\ j = worker'[w].job /\ JobOf(w) = j
    BY <1>1, <2>1 DEF Sent, JobOf
  <2>3. ASSUME NEW t \in new.dead PROVE t \in Tokens /\ Refusable(j, t)'
    <3>1. t \in Tokens
      BY <2>1, <2>3 DEF Run
    <3>2. CASE t \in worker[w].dead
      BY <1>1, <2>2, <3>1, <3>2, RefusableOnward
    <3>3. CASE t \notin worker[w].dead
      <4>1. /\ t \notin registered \/ ~Work(j).valid
            /\ Ask(w) /\ \E k \in Slice(w) : worker[w].tokens[k] = t
        BY <2>1, <2>2, <2>3, <3>3 DEF Sent
      <4>2. tried'[j][t] > 0
        <5>1. PICK k \in Slice(w) : worker[w].tokens[k] = t
          BY <4>1
        <5>2. tried'[JobOf(w)][worker[w].tokens[k]] > 0
          BY <4>1, AskEffect
        <5> QED
          BY <2>2, <5>1, <5>2
      <4>3. (~Work(j).valid)' <=> ~Work(j).valid
        BY Zenon DEF Onward, Work
      <4>4. t \notin registered' \/ (~Work(j).valid)'
        BY <4>1, <4>3 DEF Onward
      <4> QED
        BY <3>1, <4>2, <4>4 DEF Refusable, Work
    <3> QED
      BY <3>1, <3>2, <3>3
  <2>4. worker'[w].dead = new.dead
    BY <2>1 DEF Sent
  <2> QED
    BY <2>2, <2>3, <2>4 DEF Noted
<1>5. CASE Begin(w)
  BY <1>3, <1>5, BeginMove
<1>6. CASE ReadScope(w)
  BY <1>2, <1>6, ReadScopeMove
<1>7. CASE ReadMembers(w)
  BY <1>2, <1>7, ReadMembersMove
<1>8. CASE GetClient(w) \/ ReadTokens(w)
  BY <1>2, <1>8, GetClientMove, ReadTokensMove
<1>9. CASE Prune(w)
  BY <1>2, <1>9, GoMove DEF Prune
<1>10. ASSUME Set(w, Idle) PROVE Noted(w)'
  BY <1>3, <1>10, IdleType, SetMove
<1>11. CASE worker'[w] = worker[w]
  BY <1>2, <1>11
<1> QED
  BY <1>4, <1>5, <1>6, <1>7, <1>8, <1>9, <1>10, <1>11, WhoMoves DEF Deliver, Ack, Crash

LEMMA GivenUp ==
  ASSUME TypeOK, \A w \in Workers : Noted(w), [Next]_vars,
         NEW i \in DOMAIN session, session[i].token # NoToken, session'[i].token = NoToken
  PROVE  \/ session[i].token \notin registered
         \/ \E j \in Jobs : ~Work(j).valid /\ tried[j][session[i].token] > 0
<1>1. ASSUME NEW w \in Workers, Prune(w)
      PROVE  \/ session[i].token \notin registered
             \/ \E j \in Jobs : ~Work(j).valid /\ tried[j][session[i].token] > 0
  <2>1. session[i].token \in worker[w].dead /\ worker[w].job \in Jobs
    BY <1>1, PruneType, RunType
  <2> QED
    BY <2>1 DEF Noted, Refusable
<1>2. UNCHANGED session => FALSE
  OBVIOUS
<1>3. ASSUME NEW k \in DOMAIN session, GoOnline(k) \/ Refresh(k) PROVE FALSE
  BY <1>3, SessionsType, PushAssumption
<1> QED
  BY <1>1, <1>2, <1>3
  DEF Next, Deliver, Begin, ReadScope, ReadMembers, GetClient, ReadTokens, SendChunk, Ack, Crash,
      LeaveOrJoin, DeletePost, Uninstall, world, vars

\* A registration goes only for a token the push service does not know, or one
\* it was asked to send a message to that it finds invalid.
THEOREM RegistrationsKept == Spec => PruneRight
<1> DEFINE Inv == TypeOK /\ \A w \in Workers : Noted(w)
<1>1. Init => Inv
  BY TypeInit, IdleType DEF Init, Noted
<1>2. Inv /\ [Next]_vars => Inv'
  <2> SUFFICES ASSUME Inv, [Next]_vars PROVE Inv'
    OBVIOUS
  <2>1. TypeOK' /\ Onward
    BY TypeStep, StepOnward
  <2> QED
    BY <2>1, NotedMoves
<1>3. Inv /\ [Next]_vars =>
        [\A i \in DOMAIN session :
           LET t == session[i].token IN
           (t # NoToken /\ session'[i].token = NoToken) =>
             t \notin registered \/ \E j \in Jobs : ~Work(j).valid /\ tried[j][t] > 0]_vars
  BY GivenUp
<1> QED
  BY <1>1, <1>2, <1>3, PTL DEF Spec, PruneRight

(***************************************************************************)
(* A run without failures tries every device.                              *)
(***************************************************************************)
\* The devices a job has been for all along are those of a person in the
\* audience; then they are in the list of tokens; then they have been tried,
\* as far as the chunks have come.
OnTheWay(w) ==
  LET run == worker[w]
      j   == run.job
  IN
  /\ run.pc \in {"scope", "members"} => Work(j).community /\ run.to = Work(j).to
  /\ run.pc \in {"scope", "members", "client", "tokens"} => run.start = 0
  /\ run.pc \in {"client", "tokens"} =>
       IF Work(j).community
       THEN run.tokens = << >> /\ \A d \in steady[j] : session[d[1]].owner \in run.to
       ELSE run.tokens = Work(j).given /\ run.to = Work(j).to
  /\ run.pc \in {"send", "prune"} =>
       \A d \in steady[j] : \E k \in DOMAIN run.tokens : run.tokens[k] = d[2]
  /\ run.clean /\ run.pc \in {"send", "prune"} =>
       \A k \in DOMAIN run.tokens : k <= run.start => tried[j][run.tokens[k]] > 0
  /\ run.pc = "prune" => run.start >= Len(run.tokens)
  /\ run.clean /\ run.pc = "done" => \A d \in steady[j] : tried[j][d[2]] > 0

\* The devices of a job and what is known of them, now and after the step.
LEMMA SteadyOnward ==
  ASSUME TypeOK, TypeOK', Known, Onward, NEW j \in Jobs
  PROVE  /\ steady'[j] \subseteq steady[j]
         /\ \A d \in steady[j] :
              /\ d \in Meant(j) /\ d[2] \in Tokens
              /\ Work(j).community => session'[d[1]].owner = session[d[1]].owner
         /\ \A t \in Tokens : tried[j][t] > 0 => tried'[j][t] > 0
<1>1. \A t \in Tokens : tried[j][t] \in Nat /\ tried'[j][t] \in Nat /\ tried'[j][t] >= tried[j][t]
  BY DEF TypeOK, Onward
<1>2. ASSUME NEW d \in steady[j]
      PROVE  /\ d \in Meant(j) /\ d[2] \in Tokens
             /\ Work(j).community => session'[d[1]].owner = session[d[1]].owner
  <2>1. d \in Meant(j)
    BY DEF Known
  <2>2. d \in Nat \X Tokens
    BY <2>1, MeantType
  <2>3. Work(j).community => d[1] \in DOMAIN session
    BY <2>1, MeantType
  <2> QED
    BY <2>1, <2>2, <2>3 DEF Onward
<1> QED
  BY <1>1, <1>2 DEF Onward

LEMMA OnTheWayStays ==
  ASSUME TypeOK, TypeOK', Known, Onward, NEW w \in Workers, OnTheWay(w), worker'[w] = worker[w]
  PROVE  OnTheWay(w)'
<1>1. PICK j \in Jobs : j = worker[w].job /\ j = worker'[w].job
  BY RunType
<1>2. Work(j)' = Work(j)
  BY DEF Onward, Work
<1>3. /\ steady'[j] \subseteq steady[j]
      /\ \A d \in steady[j] :
           d[2] \in Tokens /\ (Work(j).community => session'[d[1]].owner = session[d[1]].owner)
      /\ \A t \in Tokens : tried[j][t] > 0 => tried'[j][t] > 0
  BY SteadyOnward
<1>4. \A k \in DOMAIN worker[w].tokens : worker[w].tokens[k] \in Tokens
  BY RunType
<1> QED
  BY <1>1, <1>2, <1>3, <1>4 DEF OnTheWay

LEMMA OnTheWayIdle ==
  ASSUME NEW w \in Workers, worker'[w].pc = "idle"
  PROVE  OnTheWay(w)'
BY DEF OnTheWay

\* The tokens that are read are those of all the devices the job is for.
LEMMA ReadTokensComplete ==
  ASSUME TypeOK, Known, NEW w \in Workers, OnTheWay(w), At(w, "tokens"),
         NEW tokens \in IF worker[w].tokens # << >> THEN {worker[w].tokens}
                        ELSE TokensFor(worker[w].to, Work(JobOf(w)).all),
         NEW d \in steady[JobOf(w)]
  PROVE  \E k \in DOMAIN tokens : tokens[k] = d[2]
<1> DEFINE j == JobOf(w)
<1>1. j \in Jobs /\ worker[w].pc = "tokens" /\ worker[w].job = j
  BY RunType DEF At, JobOf
<1> HIDE DEF j
<1>2. d \in Meant(j)
  BY <1>1 DEF Known, j
<1>4. CASE ~Work(j).community /\ Work(j).given # << >>
  <2>1. tokens = Work(j).given
    BY <1>1, <1>4 DEF OnTheWay, j
  <2>2. \E k \in DOMAIN Work(j).given : Work(j).given[k] = d[2]
    BY <1>1, <1>2, <1>4, MeantType
  <2> QED
    BY <2>1, <2>2
<1>5. CASE Work(j).community \/ Work(j).given = << >>
  <2>1. /\ d[1] \in DOMAIN session /\ d[2] = session[d[1]].token /\ d[2] # NoToken
        /\ session[d[1]].owner \in Work(j).to
        /\ Work(j).all \/ ~session[d[1]].online
    BY <1>1, <1>2, <1>5, MeantType
  <2>2. worker[w].tokens = << >> /\ session[d[1]].owner \in worker[w].to
    BY <1>1, <1>5, <2>1 DEF OnTheWay, j
  <2>3. tokens \in TokensFor(worker[w].to, Work(j).all)
    BY <2>2 DEF j
  <2>4. d[2] \in Wanted(worker[w].to, Work(j).all)
    BY <2>1, <2>2 DEF Wanted, Hits, Selected
  <2> QED
    BY <2>3, <2>4, TokensForType
<1> QED
  BY <1>4, <1>5

LEMMA OnTheWayMoves ==
  ASSUME TypeOK, TypeOK', Known, Onward, NEW w \in Workers, OnTheWay(w), Deliver(w) \/ Crash(w)
  PROVE  OnTheWay(w)'
<1> USE DEF Moved, At
<1>0. PICK j \in Jobs : j = JobOf(w) /\ j = worker[w].job
  BY RunType DEF JobOf
<1>1. CASE Begin(w)
  <2>1. PICK i \in Jobs, new \in Run :
          /\ Moved(w, new) /\ new.job = i /\ new.to = Work(i).to /\ new.tokens = Work(i).given
          /\ new.start = 0
          /\ new.pc = IF Work(i).community THEN "scope" ELSE "client"
    BY <1>1, BeginMove
  <2>2. Work(i)' = Work(i)
    BY DEF Onward, Work
  <2> QED
    BY <2>1, <2>2 DEF OnTheWay
<1>10. /\ Work(j)' = Work(j)
       /\ steady'[j] \subseteq steady[j]
       /\ \A d \in steady[j] :
            /\ d \in Meant(j) /\ d[2] \in Tokens
            /\ Work(j).community => session'[d[1]].owner = session[d[1]].owner
       /\ \A t \in Tokens : tried[j][t] > 0 => tried'[j][t] > 0
  BY SteadyOnward DEF Onward, Work
<1>2. CASE ReadScope(w)
  <2>1. PICK new \in Run :
          /\ Moved(w, new) /\ new.job = worker[w].job /\ new.to = worker[w].to
          /\ \/ new.pc = "members" /\ new.start = worker[w].start
             \/ new.pc = "done" /\ (new.clean => ~live)
    BY <1>2, ReadScopeMove
  <2>2. worker[w].pc = "scope" /\ worker[w].start = 0
        /\ Work(j).community /\ worker[w].to = Work(j).to
    BY <1>0, <1>2 DEF ReadScope, OnTheWay
  <2>3. ~live => steady'[j] = {}
    BY <1>10, <2>2, MeantType
  <2> QED
    BY <1>0, <1>10, <2>1, <2>2, <2>3 DEF OnTheWay
<1>3. CASE ReadMembers(w)
  <2>1. PICK new \in Run :
          /\ Moved(w, new) /\ new.job = worker[w].job
          /\ \/ /\ new.pc = "client" /\ new.to = worker[w].to \intersect members
                /\ new.tokens = << >> /\ new.start = worker[w].start
             \/ new.pc = "done" /\ (new.clean => worker[w].to \intersect members = {})
    BY <1>3, ReadMembersMove
  <2>2. worker[w].pc = "members" /\ worker[w].start = 0
        /\ Work(j).community /\ worker[w].to = Work(j).to
    BY <1>0, <1>3 DEF ReadMembers, OnTheWay
  <2>3. \A d \in steady[j] : session[d[1]].owner \in worker[w].to \intersect members
    BY <1>10, <2>2, MeantType
  <2>4. \A d \in steady'[j] : session'[d[1]].owner \in worker[w].to \intersect members
    BY <1>10, <2>2, <2>3
  <2> QED
    BY <1>0, <1>10, <2>1, <2>2, <2>4 DEF OnTheWay
<1>9. CASE GetClient(w)
  <2>1. PICK new \in Run :
          /\ Moved(w, new) /\ new.job = worker[w].job /\ new.to = worker[w].to
          /\ \/ /\ new.pc = "tokens" /\ new.tokens = worker[w].tokens
                /\ new.start = worker[w].start
             \/ new.pc = "done" /\ new.clean = FALSE
    BY <1>9, GetClientMove
  <2>2. worker[w].pc = "client"
    BY <1>9 DEF GetClient
  <2> QED
    BY <1>0, <1>10, <2>1, <2>2 DEF OnTheWay
<1>4. CASE ReadTokens(w)
  <2>1. PICK new \in Run :
          /\ Moved(w, new) /\ new.job = worker[w].job
          /\ \/ new.pc = "done" /\ new.clean = FALSE
             \/ /\ new.tokens \in IF worker[w].tokens # << >> THEN {worker[w].tokens}
                                  ELSE TokensFor(worker[w].to, Work(JobOf(w)).all)
                /\ new.start = worker[w].start
                /\ new.pc = IF new.tokens # << >> THEN "send" ELSE "done"
    BY <1>4, ReadTokensMove
  <2>2. worker[w].pc = "tokens" /\ worker[w].start = 0
    BY <1>4 DEF ReadTokens, OnTheWay
  <2>3. CASE new.pc = "done" /\ new.clean = FALSE
    BY <2>1, <2>3 DEF OnTheWay
  <2>4. CASE ~(new.pc = "done" /\ new.clean = FALSE)
    <3>1. \A d \in steady[j] : \E k \in DOMAIN new.tokens : new.tokens[k] = d[2]
      <4> DEFINE tokens == new.tokens
      <4>1. tokens \in IF worker[w].tokens # << >> THEN {worker[w].tokens}
                       ELSE TokensFor(worker[w].to, Work(JobOf(w)).all)
        BY <2>1, <2>4
      <4>2. At(w, "tokens")
        BY <2>2
      <4> HIDE DEF tokens, At
      <4>3. \A d \in steady[JobOf(w)] : \E k \in DOMAIN tokens : tokens[k] = d[2]
        BY <4>1, <4>2, ReadTokensComplete
      <4> QED
        BY <1>0, <4>3 DEF tokens
    <3>2. new.tokens = << >> => steady'[j] = {}
      BY <1>10, <3>1
    <3>3. \A k \in DOMAIN new.tokens : k \in Nat \ {0}
      BY DEF Run
    <3> QED
      BY <1>0, <1>10, <2>1, <2>2, <2>4, <3>1, <3>2, <3>3 DEF OnTheWay
  <2> QED
    BY <2>3, <2>4
<1>5. CASE SendChunk(w)
  <2>1. PICK new \in Run : Sent(w, new)
    BY <1>5, SendMove
  <2>2. worker[w].pc = "send"
    BY <1>5 DEF SendChunk
  <2>3. new.job = j /\ new.tokens = worker[w].tokens /\ new.start = worker[w].start + Chunk
        /\ new.start \in Nat /\ worker'[w] = new
        /\ \A k \in DOMAIN new.tokens : new.tokens[k] \in Tokens /\ k \in Nat
        /\ Len(new.tokens) \in Nat
    BY <1>0, <2>1, RunType DEF Sent, Run
  <2>4. \A d \in steady'[j] : \E k \in DOMAIN new.tokens : new.tokens[k] = d[2]
    BY <1>0, <1>10, <2>2, <2>3 DEF OnTheWay
  <2>5. ASSUME new.clean, NEW k \in DOMAIN new.tokens, k <= new.start
        PROVE  tried'[j][new.tokens[k]] > 0
    <3>1. Ask(w) /\ worker[w].clean
      BY <2>1, <2>5 DEF Sent
    <3>2. CASE k \in Slice(w)
      BY <1>0, <2>3, <3>1, <3>2, AskEffect
    <3>3. CASE k <= worker[w].start
      <4>1. tried[j][new.tokens[k]] > 0
        BY <1>0, <2>2, <2>3, <3>1, <3>3 DEF OnTheWay
      <4> QED
        BY <1>10, <2>3, <4>1
    <3>4. /\ k \in DOMAIN worker[w].tokens /\ k <= worker[w].start + Chunk
          /\ k <= worker[w].start \/ k \in Slice(w)
      BY <2>3, <2>5, SliceType
    <3> QED
      BY <3>2, <3>3, <3>4
  <2>6. new.pc \in {"send", "prune"} /\ (new.pc = "prune" => new.start >= Len(new.tokens))
    BY <2>1, <2>3 DEF Sent
  <2> QED
    BY <2>3, <2>4, <2>5, <2>6 DEF OnTheWay
<1>6. CASE Prune(w)
  <2>1. PICK new \in Run :
          Moved(w, new) /\ new.pc = "done" /\ new.job = worker[w].job /\ new.clean = worker[w].clean
    BY <1>6, GoMove DEF Prune
  <2>2. worker[w].pc = "prune"
    BY <1>6 DEF Prune
  <2>3. ASSUME worker[w].clean, NEW d \in steady'[j] PROVE tried'[j][d[2]] > 0
    <3>1. PICK k \in DOMAIN worker[w].tokens : worker[w].tokens[k] = d[2]
      BY <1>0, <1>10, <2>2, <2>3 DEF OnTheWay
    <3>2. k <= worker[w].start
      <4>1. worker[w].tokens \in Seq(Tokens) /\ worker[w].start \in Nat
        BY RunType
      <4>2. k \in 1..Len(worker[w].tokens) /\ Len(worker[w].tokens) \in Nat
        BY <4>1
      <4>3. worker[w].start >= Len(worker[w].tokens)
        BY <2>2 DEF OnTheWay
      <4> QED
        BY <4>1, <4>2, <4>3
    <3>3. tried[j][d[2]] > 0
      BY <1>0, <2>2, <2>3, <3>1, <3>2 DEF OnTheWay
    <3> QED
      BY <1>10, <2>3, <3>3
  <2> QED
    BY <1>0, <2>1, <2>3 DEF OnTheWay
<1>7. ASSUME Set(w, Idle) PROVE OnTheWay(w)'
  BY <1>7, IdleType, SetMove, OnTheWayIdle
<1>8. CASE Crash(w)
  BY <1>7, <1>8, OnTheWayStays DEF Crash
<1> QED
  BY <1>1, <1>2, <1>3, <1>4, <1>5, <1>6, <1>7, <1>8, <1>9 DEF Deliver, Ack

LEMMA AllTriedKept ==
  ASSUME \A w \in Workers : OnTheWay(w)
  PROVE  AllTried
BY DEF AllTried, OnTheWay, At, JobOf

\* Whatever the sessions share and wherever the list is cut, no device that
\* the job is for from its publication on is passed over without an error.
THEOREM EveryDeviceTried == Spec => []AllTried
<1> DEFINE Inv == TypeOK /\ Known /\ \A w \in Workers : OnTheWay(w)
<1>1. Init => Inv
  <2> SUFFICES ASSUME Init PROVE Inv
    OBVIOUS
  <2>1. \A w \in Workers : worker[w].pc = "idle"
    BY DEF Init, Idle
  <2> QED
    BY <2>1, TypeInit, KnownInit DEF OnTheWay
<1>2. Inv /\ [Next]_vars => Inv'
  <2> SUFFICES ASSUME Inv, [Next]_vars PROVE Inv'
    OBVIOUS
  <2>1. TypeOK' /\ Known' /\ Onward
    BY TypeStep, KnownStep, StepOnward
  <2>2. ASSUME NEW w \in Workers PROVE OnTheWay(w)'
    BY <2>1, WhoMoves, OnTheWayStays, OnTheWayMoves
  <2> QED
    BY <2>1, <2>2
<1>3. Inv => AllTried
  BY AllTriedKept
<1> QED
  BY <1>1, <1>2, <1>3, PTL DEF Spec

(***************************************************************************)
(* A device is asked for once per delivery.  The invariant: what a job has *)
(* tried of a token, its copies that are ready and the runs that still     *)
(* have the token ahead of them are together no more than its deliveries;  *)
(* and the list a run goes through has the token once.                     *)
(***************************************************************************)
Ahead(w, j, t) ==
  /\ worker[w].job = j
  /\ \/ worker[w].pc \in {"scope", "members", "client", "tokens"}
     \/ /\ worker[w].pc = "send"
        /\ \E k \in DOMAIN worker[w].tokens : worker[w].tokens[k] = t /\ k > worker[w].start
Pending(j, t) == {w \in Workers : Ahead(w, j, t)}

Budget ==
  \A j \in Jobs, t \in Tokens :
    ListsOnce(j, t) => tried[j][t] + ready[j] + Cardinality(Pending(j, t)) <= 1 + doubts[j]

NoDoubles(w) ==
  worker[w].pc \in {"client", "tokens", "send"} =>
    \A t \in Tokens : ListsOnce(worker[w].job, t) => Once(worker[w].tokens, t)

LEMMA NoDoublesMoves ==
  ASSUME TypeOK, TypeOK', Onward, NEW w \in Workers, NoDoubles(w),
         worker'[w] = worker[w] \/ Deliver(w) \/ Crash(w)
  PROVE  NoDoubles(w)'
<1> USE DEF Moved
<1>1. \A j \in Jobs, t \in Tokens : ListsOnce(j, t)' <=> ListsOnce(j, t)
  BY DEF ListsOnce, Onward, Work
<1>2. worker[w].job \in Jobs /\ JobOf(w) = worker[w].job
  BY RunType DEF JobOf
<1>3. CASE worker'[w] = worker[w]
  BY <1>1, <1>2, <1>3 DEF NoDoubles
<1>4. CASE Begin(w)
  <2>1. PICK j \in Jobs, new \in Run :
          /\ Moved(w, new) /\ new.job = j /\ new.tokens = Work(j).given
          /\ new.pc = IF Work(j).community THEN "scope" ELSE "client"
    BY <1>4, BeginMove
  <2> QED
    BY <1>1, <2>1 DEF NoDoubles, ListsOnce
<1>5. CASE ReadScope(w)
  BY <1>5, ReadScopeMove DEF NoDoubles
<1>6. CASE ReadMembers(w)
  <2>1. PICK new \in Run : Moved(w, new) /\ (new.pc = "done" \/ new.tokens = << >>)
    BY <1>6, ReadMembersMove
  <2> QED
    BY <2>1 DEF NoDoubles, Once
<1>11. CASE GetClient(w)
  <2>1. PICK new \in Run :
          /\ Moved(w, new) /\ new.job = worker[w].job
          /\ new.tokens = worker[w].tokens \/ new.pc = "done"
    BY <1>11, GetClientMove
  <2>2. worker[w].pc = "client"
    BY <1>11 DEF GetClient, At
  <2> QED
    BY <1>1, <1>2, <2>1, <2>2 DEF NoDoubles
<1>7. CASE ReadTokens(w)
  <2>1. PICK new \in Run :
          /\ Moved(w, new) /\ new.job = worker[w].job
          /\ \/ new.pc = "done" /\ new.clean = FALSE
             \/ new.tokens \in IF worker[w].tokens # << >> THEN {worker[w].tokens}
                               ELSE TokensFor(worker[w].to, Work(JobOf(w)).all)
    BY <1>7, ReadTokensMove
  <2>2. worker[w].pc = "tokens"
    BY <1>7 DEF ReadTokens, At
  <2>3. CASE new.tokens = worker[w].tokens
    BY <1>1, <1>2, <2>1, <2>2, <2>3 DEF NoDoubles
  <2>4. CASE new.tokens \in TokensFor(worker[w].to, Work(JobOf(w)).all)
    <3>1. \A t : Once(new.tokens, t)
      BY <2>4, TokensForType
    <3> QED
      BY <2>1, <3>1 DEF NoDoubles
  <2> QED
    BY <2>1, <2>3, <2>4 DEF NoDoubles
<1>8. CASE SendChunk(w)
  <2>1. PICK new \in Run : Sent(w, new)
    BY <1>8, SendMove
  <2>2. worker[w].pc = "send"
    BY <1>8 DEF SendChunk, At
  <2> QED
    BY <1>1, <1>2, <2>1, <2>2 DEF NoDoubles, Sent
<1>9. CASE Prune(w)
  BY <1>9, GoMove DEF Prune, NoDoubles
<1>10. ASSUME Set(w, Idle) PROVE NoDoubles(w)'
  BY <1>10, IdleType, SetMove DEF NoDoubles
<1> QED
  BY <1>3, <1>4, <1>5, <1>6, <1>7, <1>8, <1>9, <1>10, <1>11 DEF Deliver, Ack, Crash

LEMMA PendingType ==
  ASSUME NEW j, NEW t
  PROVE  IsFiniteSet(Pending(j, t)) /\ Cardinality(Pending(j, t)) \in Nat
<1>1. Pending(j, t) \subseteq Workers
  BY DEF Pending
<1> QED
  BY <1>1, PushAssumption, FS_Subset, FS_CardinalityType

\* One worker moves: at most that worker comes or goes.
LEMMA PendingStep ==
  ASSUME NEW w \in Workers, \A v \in Workers \ {w} : worker'[v] = worker[v],
         NEW j, NEW t
  PROVE  /\ Cardinality(Pending(j, t)') \in Nat
         /\ Cardinality(Pending(j, t)') + (IF Ahead(w, j, t) THEN 1 ELSE 0)
              = Cardinality(Pending(j, t)) + (IF Ahead(w, j, t)' THEN 1 ELSE 0)
<1> DEFINE rest == Pending(j, t) \ {w}
<1>1. Pending(j, t)' = IF Ahead(w, j, t)' THEN rest \union {w} ELSE rest
  BY DEF Pending, Ahead
<1>2. w \in Pending(j, t) <=> Ahead(w, j, t)
  BY DEF Pending
<1>3. IsFiniteSet(Pending(j, t)) /\ Cardinality(Pending(j, t)) \in Nat
  BY PendingType
<1>4. /\ IsFiniteSet(rest) /\ w \notin rest
      /\ Cardinality(rest) = IF w \in Pending(j, t) THEN Cardinality(Pending(j, t)) - 1
                             ELSE Cardinality(Pending(j, t))
  BY <1>3, FS_RemoveElement
<1>5. Cardinality(rest) \in Nat
  BY <1>4, FS_CardinalityType
<1>6. Cardinality(rest \union {w}) = Cardinality(rest) + 1
  BY <1>4, FS_AddElement
<1> HIDE DEF rest
<1> QED
  BY <1>1, <1>2, <1>3, <1>4, <1>5, <1>6

LEMMA BudgetStep ==
  ASSUME TypeOK, TypeOK', Onward, Budget, NEW w \in Workers,
         \A v \in Workers \ {w} : worker'[v] = worker[v],
         \A j \in Jobs, t \in Tokens : ListsOnce(j, t) =>
           tried'[j][t] + ready'[j] + (IF Ahead(w, j, t)' THEN 1 ELSE 0) + doubts[j]
             <= tried[j][t] + ready[j] + (IF Ahead(w, j, t) THEN 1 ELSE 0) + doubts'[j]
  PROVE  Budget'
<1> SUFFICES ASSUME NEW j \in Jobs, NEW t \in Tokens, ListsOnce(j, t)'
             PROVE  tried'[j][t] + ready'[j] + Cardinality(Pending(j, t)') <= 1 + doubts'[j]
  BY DEF Budget
<1>1. ListsOnce(j, t)
  BY DEF ListsOnce, Onward, Work
<1>2. /\ Cardinality(Pending(j, t)') \in Nat
      /\ Cardinality(Pending(j, t)') + (IF Ahead(w, j, t) THEN 1 ELSE 0)
           = Cardinality(Pending(j, t)) + (IF Ahead(w, j, t)' THEN 1 ELSE 0)
  BY PendingStep
<1>3. /\ Cardinality(Pending(j, t)) \in Nat /\ tried[j][t] \in Nat /\ ready[j] \in Nat
      /\ doubts[j] \in Nat /\ tried'[j][t] \in Nat /\ ready'[j] \in Nat /\ doubts'[j] \in Nat
  BY PendingType DEF TypeOK
<1>4. tried[j][t] + ready[j] + Cardinality(Pending(j, t)) <= 1 + doubts[j]
  BY <1>1 DEF Budget
<1> QED
  BY <1>1, <1>2, <1>3, <1>4

\* A step that asks the service for nothing and takes no job.
LEMMA QuietStep ==
  ASSUME TypeOK, TypeOK', Onward, Budget, NEW w \in Workers,
         \A v \in Workers \ {w} : worker'[v] = worker[v],
         UNCHANGED <<tried, ready, doubts>>,
         \A j, t : Ahead(w, j, t)' => Ahead(w, j, t)
  PROVE  Budget'
<1> SUFFICES ASSUME NEW j \in Jobs, NEW t \in Tokens
             PROVE  tried'[j][t] + ready'[j] + (IF Ahead(w, j, t)' THEN 1 ELSE 0) + doubts[j]
                      <= tried[j][t] + ready[j] + (IF Ahead(w, j, t) THEN 1 ELSE 0) + doubts'[j]
  BY BudgetStep
<1>1. tried[j][t] \in Nat /\ ready[j] \in Nat /\ doubts[j] \in Nat
  BY DEF TypeOK
<1> QED
  BY <1>1

LEMMA BeginBudget ==
  ASSUME TypeOK, TypeOK', Onward, Budget, NEW w \in Workers, Begin(w)
  PROVE  Budget'
<1>1. PICK i \in Jobs, new \in Run :
        Moved(w, new) /\ ready[i] > 0 /\ ready' = [ready EXCEPT ![i] = @ - 1] /\ new.job = i
  BY BeginMove
<1>2. worker[w].pc = "idle" /\ UNCHANGED <<tried, doubts>>
  BY DEF Begin, At
<1> SUFFICES ASSUME NEW j \in Jobs, NEW t \in Tokens
             PROVE  tried'[j][t] + ready'[j] + (IF Ahead(w, j, t)' THEN 1 ELSE 0) + doubts[j]
                      <= tried[j][t] + ready[j] + (IF Ahead(w, j, t) THEN 1 ELSE 0) + doubts'[j]
  BY <1>1, BudgetStep DEF Moved
<1>3. tried[j][t] \in Nat /\ ready[j] \in Nat /\ doubts[j] \in Nat
  BY DEF TypeOK
<1>4. ~Ahead(w, j, t) /\ (Ahead(w, j, t)' => j = i)
  BY <1>1, <1>2 DEF Ahead, Moved
<1>5. ready'[j] = IF j = i THEN ready[j] - 1 ELSE ready[j]
  BY <1>1 DEF TypeOK
<1> QED
  BY <1>2, <1>3, <1>4, <1>5

\* A chunk asks for a token that was ahead, and then is not ahead any more.
LEMMA SendBudget ==
  ASSUME TypeOK, TypeOK', Onward, Budget, NEW w \in Workers, NoDoubles(w), SendChunk(w)
  PROVE  Budget'
<1>1. PICK new \in Run : Sent(w, new)
  BY SendMove
<1>2. worker[w].pc = "send" /\ UNCHANGED <<ready, doubts>>
  BY DEF SendChunk, At
<1>0. \A v \in Workers \ {w} : worker'[v] = worker[v]
  BY <1>1 DEF Moved, Sent
<1>3. ASSUME NEW j \in Jobs, NEW t \in Tokens, ListsOnce(j, t)
      PROVE  tried'[j][t] + ready'[j] + (IF Ahead(w, j, t)' THEN 1 ELSE 0) + doubts[j]
               <= tried[j][t] + ready[j] + (IF Ahead(w, j, t) THEN 1 ELSE 0) + doubts'[j]
  <2>1. tried[j][t] \in Nat /\ ready[j] \in Nat /\ doubts[j] \in Nat /\ tried'[j][t] \in Nat
    BY DEF TypeOK
  <2>2. worker[w].start \in Nat /\ Chunk \in Nat /\ worker[w].tokens \in Seq(Tokens)
    BY PushAssumption, RunType
  <2>3. \A k \in DOMAIN worker[w].tokens : k \in Nat
    BY <2>2
  <2>4. Ahead(w, j, t)' =>
          /\ worker[w].job = j
          /\ \E k \in DOMAIN worker[w].tokens :
               worker[w].tokens[k] = t /\ k > worker[w].start + Chunk
    BY <1>1 DEF Ahead, Sent, Moved
  <2>5. Ahead(w, j, t)' => Ahead(w, j, t)
    BY <1>2, <2>2, <2>3, <2>4 DEF Ahead
  <2>6. ASSUME tried'[j][t] > tried[j][t]
        PROVE  tried'[j][t] <= tried[j][t] + 1 /\ Ahead(w, j, t) /\ ~Ahead(w, j, t)'
    <3>1. Ask(w)
      BY <1>1, <2>1, <2>6 DEF Sent
    <3>2. PICK k \in Slice(w) : j = worker[w].job /\ worker[w].tokens[k] = t
      BY <2>6, <3>1, AskEffect DEF JobOf
    <3>3. Once(worker[w].tokens, t)
      BY <1>2, <1>3, <3>2 DEF NoDoubles
    <3>4. tried'[j][t] <= tried[j][t] + 1
      BY <3>1, <3>3, AskEffect
    <3>5. k \in DOMAIN worker[w].tokens /\ k > worker[w].start /\ k <= worker[w].start + Chunk
      BY <3>2, SliceType
    <3>6. Ahead(w, j, t)
      BY <1>2, <3>2, <3>5 DEF Ahead
    <3>7. ~Ahead(w, j, t)'
      BY <2>2, <2>3, <2>4, <3>2, <3>3, <3>5 DEF Once
    <3> QED
      BY <3>4, <3>6, <3>7
  <2> QED
    BY <1>2, <2>1, <2>5, <2>6
<1> QED
  BY <1>0, <1>3, BudgetStep

\* A delivery that comes back adds a ready copy and a doubt.
LEMMA CrashBudget ==
  ASSUME TypeOK, TypeOK', Onward, Budget, NEW w \in Workers, Crash(w)
  PROVE  Budget'
<1>1. /\ UNCHANGED tried
      /\ \A v \in Workers \ {w} : worker'[v] = worker[v]
      /\ worker'[w] = worker[w] \/ worker'[w] = Idle
      /\ JobOf(w) \in Jobs
      /\ ready' = [ready EXCEPT ![JobOf(w)] = @ + 1]
      /\ doubts' = [doubts EXCEPT ![JobOf(w)] = @ + 1]
  BY IdleType, SetMove, RunType DEF Crash, Moved
<1> SUFFICES ASSUME NEW j \in Jobs, NEW t \in Tokens
             PROVE  tried'[j][t] + ready'[j] + (IF Ahead(w, j, t)' THEN 1 ELSE 0) + doubts[j]
                      <= tried[j][t] + ready[j] + (IF Ahead(w, j, t) THEN 1 ELSE 0) + doubts'[j]
  BY <1>1, BudgetStep
<1>2. tried[j][t] \in Nat /\ ready[j] \in Nat /\ doubts[j] \in Nat
  BY DEF TypeOK
<1>3. Ahead(w, j, t)' => Ahead(w, j, t)
  BY <1>1, IdleType DEF Ahead
<1>4. /\ ready'[j] = IF j = JobOf(w) THEN ready[j] + 1 ELSE ready[j]
      /\ doubts'[j] = IF j = JobOf(w) THEN doubts[j] + 1 ELSE doubts[j]
  BY <1>1 DEF TypeOK
<1> QED
  BY <1>1, <1>2, <1>3, <1>4

LEMMA BudgetInit == Init => Budget
<1> SUFFICES ASSUME Init, NEW j \in Jobs, NEW t \in Tokens
             PROVE  tried[j][t] + ready[j] + Cardinality(Pending(j, t)) <= 1 + doubts[j]
  BY DEF Budget
<1>1. Pending(j, t) = {}
  BY IdleType DEF Init, Pending, Ahead
<1>2. Cardinality({}) = 0
  BY FS_EmptySet
<1> QED
  BY <1>1, <1>2 DEF Init

LEMMA BudgetNext ==
  ASSUME TypeOK, TypeOK', Onward, Budget, \A w \in Workers : NoDoubles(w), [Next]_vars
  PROVE  Budget'
<1>1. CASE UNCHANGED <<scene, tried, ready, doubts, worker>>
  BY <1>1 DEF Budget, ListsOnce, Work, Pending, Ahead
<1>2. ASSUME NEW w \in Workers, ReadScope(w) PROVE Budget'
  <2>1. PICK new \in Run :
          Moved(w, new) /\ new.job = worker[w].job /\ new.pc \in {"members", "done"}
    BY <1>2, ReadScopeMove
  <2>2. worker[w].pc = "scope" /\ UNCHANGED <<tried, ready, doubts>>
    BY <1>2 DEF ReadScope, At
  <2> QED
    BY <2>1, <2>2, QuietStep DEF Moved, Ahead
<1>3. ASSUME NEW w \in Workers, ReadMembers(w) PROVE Budget'
  <2>1. PICK new \in Run :
          Moved(w, new) /\ new.job = worker[w].job /\ new.pc \in {"client", "done"}
    BY <1>3, ReadMembersMove
  <2>2. worker[w].pc = "members" /\ UNCHANGED <<tried, ready, doubts>>
    BY <1>3 DEF ReadMembers, At
  <2> QED
    BY <2>1, <2>2, QuietStep DEF Moved, Ahead
<1>4. ASSUME NEW w \in Workers, ReadTokens(w) PROVE Budget'
  <2>1. PICK new \in Run : Moved(w, new) /\ new.job = worker[w].job
    BY <1>4, ReadTokensMove
  <2>2. worker[w].pc = "tokens" /\ UNCHANGED <<tried, ready, doubts>>
    BY <1>4 DEF ReadTokens, At
  <2> QED
    BY <2>1, <2>2, QuietStep DEF Moved, Ahead
<1>9. ASSUME NEW w \in Workers, GetClient(w) PROVE Budget'
  <2>1. PICK new \in Run :
          Moved(w, new) /\ new.job = worker[w].job /\ new.pc \in {"tokens", "done"}
    BY <1>9, GetClientMove
  <2>2. worker[w].pc = "client" /\ UNCHANGED <<tried, ready, doubts>>
    BY <1>9 DEF GetClient, At
  <2> QED
    BY <2>1, <2>2, QuietStep DEF Moved, Ahead
<1>5. ASSUME NEW w \in Workers, Prune(w) PROVE Budget'
  <2>1. PICK new \in Run : Moved(w, new) /\ new.pc = "done"
    BY <1>5, GoMove DEF Prune
  <2>2. UNCHANGED <<tried, ready, doubts>>
    BY <1>5 DEF Prune
  <2> QED
    BY <2>1, <2>2, QuietStep DEF Moved, Ahead
<1>6. ASSUME NEW w \in Workers, Ack(w) PROVE Budget'
  <2>1. Moved(w, Idle)
    BY <1>6, IdleType, SetMove DEF Ack
  <2>2. UNCHANGED <<tried, ready, doubts>>
    BY <1>6 DEF Ack
  <2> QED
    BY <2>1, <2>2, IdleType, QuietStep DEF Moved, Ahead
<1>7. ASSUME NEW w \in Workers, Begin(w) \/ SendChunk(w) \/ Crash(w) PROVE Budget'
  BY <1>7, BeginBudget, SendBudget, CrashBudget
<1>8. ASSUME Change PROVE Budget'
  BY <1>1, <1>8 DEF Change
<1> QED
  BY <1>1, <1>2, <1>3, <1>4, <1>5, <1>6, <1>7, <1>8, <1>9
  DEF Next, Deliver, LeaveOrJoin, DeletePost, GoOnline, Refresh, Uninstall, vars

\* However the list is cut into chunks, whatever sessions share the token and
\* whatever fails, every delivery of a job asks for a device once at most.
THEOREM OncePerDelivery == Spec => []SentOnce
<1> DEFINE Inv == TypeOK /\ Budget /\ \A w \in Workers : NoDoubles(w)
<1>1. Init => Inv
  <2> SUFFICES ASSUME Init PROVE Inv
    OBVIOUS
  <2>1. \A w \in Workers : worker[w].pc = "idle"
    BY DEF Init, Idle
  <2> QED
    BY <2>1, TypeInit, BudgetInit DEF NoDoubles
<1>2. Inv /\ [Next]_vars => Inv'
  <2> SUFFICES ASSUME Inv, [Next]_vars PROVE Inv'
    OBVIOUS
  <2>1. TypeOK' /\ Onward
    BY TypeStep, StepOnward
  <2>2. Budget'
    BY <2>1, BudgetNext
  <2>3. \A w \in Workers : NoDoubles(w)'
    BY <2>1, WhoMoves, NoDoublesMoves
  <2> QED
    BY <2>1, <2>2, <2>3
<1>3. Inv => SentOnce
  <2> SUFFICES ASSUME Inv, NEW j \in Jobs, NEW t \in Tokens, ListsOnce(j, t)
               PROVE  tried[j][t] <= 1 + doubts[j]
    BY DEF SentOnce
  <2>1. tried[j][t] + ready[j] + Cardinality(Pending(j, t)) <= 1 + doubts[j]
    BY DEF Budget
  <2>2. tried[j][t] \in Nat /\ ready[j] \in Nat /\ doubts[j] \in Nat
    BY DEF TypeOK
  <2> QED
    BY <2>1, <2>2, PendingType
<1> QED
  BY <1>1, <1>2, <1>3, PTL DEF Spec
=============================================================================
