--------------------------- MODULE PacRouterProofs ---------------------------
(***************************************************************************)
(* Proofs about PacRouter.  Every job that is owned is the one its owner   *)
(* waits for (`Jobbed`), so a reply is about the URL it reaches            *)
(* (`Talks`); a cached decision is about its URL and no error, and its age *)
(* exceeds the time it was stored by one RESOLVE_TIMEOUT at most           *)
(* (`Cached`), because a request that waits longer has given up.           *)
(* Progress: a due request is answered before the clock goes on, and the   *)
(* thread of a snapshot that nobody holds has ever fewer steps left.       *)
(***************************************************************************)
EXTENDS PacRouter, FiniteSetTheorems, SequenceTheorems, TLAPS

\* A job that somebody owns is the one its owner waits for.
Owned(j) == j.for # Nobody => conn[j.for] = [pc |-> "waiting", url |-> j.url]

Waits(c) == conn[c].pc = "waiting"
Busy == thread = "busy"

\* c's job is in the channel or in the thread's hands.
HasJob(c) ==
    \/ \E k \in DOMAIN queue : queue[k].for = c
    \/ Busy /\ job.for = c

\* The jobs in the channel and the one the thread holds are owned apart.
Jobbed ==
    /\ Busy <=> job # NoJob
    /\ \A k \in DOMAIN queue : Owned(queue[k])
    /\ Busy => Owned(job)
    /\ \A k, l \in DOMAIN queue : queue[k].for = queue[l].for /\ k # l => queue[k].for = Nobody
    /\ Busy => \A k \in DOMAIN queue : queue[k].for = job.for => job.for = Nobody
    /\ \A c \in Conn : Waits(c) => HasJob(c)

\* What a connection may do: a reply is about the URL it asked for and no older
\* than its wait; an answer follows the decision.
Choice(p, v) == IF v.result = Err /\ p = "direct" THEN Direct ELSE v.result
Talk(p, s, w) ==
    \/ s = Away
    \/ s = Ready
    \/ \E u \in Url : s = [pc |-> "waiting", url |-> u]
    \/ \E u \in Url, v \in Verdict :
          /\ s = [pc |-> "replied", url |-> u, verdict |-> v]
          /\ v.asked = u /\ v.age <= w
    \/ \E u \in Url, v \in Verdict, from \in {"cache", "thread"} :
          /\ s = [pc |-> "answered", url |-> u, choice |-> Choice(p, v), verdict |-> v, from |-> from]
          /\ v.asked = u /\ v.age < OldestAge
          /\ v.result = Err => from = "thread"

Talks == \A c \in Conn : Talk(policy, conn[c], wait[c])

\* What the cache may hold for a URL.
CachedFor(u, e) ==
    /\ e \in Entry
    /\ e.verdict.asked = u /\ e.verdict.result # Err
    /\ e.verdict.age <= e.stored + ResolveTimeout

Cached ==
    /\ IsFiniteSet(DOMAIN cache)
    /\ \A u \in DOMAIN cache : CachedFor(u, cache[u])

Inv == TypeOK /\ Talks /\ Cached /\ IsFiniteSet(pools)
IInv == Inv /\ Jobbed

USE PacAssumption
-----------------------------------------------------------------------------
\* Times add up, and the thread's job is a job or none.
LEMMA Bounds ==
    /\ OldestAge \in Nat /\ ResolveTimeout < OldestAge
    /\ NoJob \notin Job
  BY DEF OldestAge, Job, Url

\* Giving up a job changes its owner only.
LEMMA AbandonEffect ==
    ASSUME NEW c \in Conn, NEW q \in Seq(Job)
    PROVE  /\ Abandon(c, q) \in Seq(Job)
           /\ DOMAIN Abandon(c, q) = DOMAIN q /\ Len(Abandon(c, q)) = Len(q)
           /\ \A k \in DOMAIN q :
                 /\ Abandon(c, q)[k].url = q[k].url
                 /\ Abandon(c, q)[k].for = IF q[k].for = c THEN Nobody ELSE q[k].for
  <1>1. /\ Len(q) \in Nat /\ q \in [1..Len(q) -> Job] /\ DOMAIN q = 1..Len(q)
    BY LenProperties
  <1>2. \A k \in DOMAIN q :
            Abandon(c, q)[k] = IF q[k].for = c THEN [q[k] EXCEPT !.for = Nobody] ELSE q[k]
    BY DEF Abandon
  <1>3. \A k \in DOMAIN q :
            /\ Abandon(c, q)[k] \in Job
            /\ Abandon(c, q)[k].url = q[k].url
            /\ Abandon(c, q)[k].for = IF q[k].for = c THEN Nobody ELSE q[k].for
    BY <1>1, <1>2 DEF Job
  <1>4. Abandon(c, q) \in [1..Len(q) -> Job]
    BY <1>1, <1>3 DEF Abandon
  <1>5. Abandon(c, q) \in Seq(Job)
    BY <1>1, <1>4, SeqDef
  <1>6. Len(Abandon(c, q)) = Len(q)
    BY <1>1, <1>4, <1>5, LenProperties
  <1> QED BY <1>1, <1>3, <1>4, <1>5, <1>6

\* So does giving up the job that the thread holds.
LEMMA AbandonHeldEffect ==
    ASSUME NEW c \in Conn, job \in Job
    PROVE  /\ AbandonHeld(c) \in Job
           /\ AbandonHeld(c).url = job.url
           /\ AbandonHeld(c).for = IF job.for = c THEN Nobody ELSE job.for
  <1>1. <<job>> \in Seq(Job) /\ DOMAIN <<job>> = {1} /\ <<job>>[1] = job
    OBVIOUS
  <1>2. Abandon(c, <<job>>)[1] = IF job.for = c THEN [job EXCEPT !.for = Nobody] ELSE job
    BY <1>1 DEF Abandon
  <1> QED BY <1>2 DEF AbandonHeld, Job

\* The cache stays within its bound, and keeps what it had or forgets it.
LEMMA PutEffect ==
    ASSUME TypeOK, Cached, NEW u \in Url, NEW v \in Verdict,
           v.asked = u, v.result # Err, v.age <= ResolveTimeout, cache' = Put(u, v)
    PROVE  /\ Cached'
           /\ DOMAIN cache' \subseteq Url
           /\ Cardinality(DOMAIN cache') <= CacheMaxEntries
  <1> DEFINE kept == IF Cardinality(DOMAIN cache) >= CacheMaxEntries THEN {} ELSE DOMAIN cache
  <1>1. cache' = [x \in kept \cup {u} |->
                     IF x = u THEN [verdict |-> v, stored |-> 0] ELSE cache[x]]
    BY DEF Put
  <1>2. DOMAIN cache' = kept \cup {u} /\ kept \subseteq DOMAIN cache
    BY <1>1
  <1>3. IsFiniteSet(kept) /\ Cardinality(kept) \in Nat /\ Cardinality(kept) < CacheMaxEntries
    BY FS_EmptySet, FS_CardinalityType DEF Cached
  <1>4. /\ IsFiniteSet(kept \cup {u})
        /\ Cardinality(kept \cup {u}) = IF u \in kept THEN Cardinality(kept) ELSE Cardinality(kept) + 1
    BY <1>3, FS_AddElement
  <1>5. Cardinality(kept \cup {u}) <= CacheMaxEntries
    BY <1>3, <1>4
  <1>6. \A x \in DOMAIN cache' : CachedFor(x, cache'[x])
    <2> SUFFICES ASSUME NEW x \in kept \cup {u}
                 PROVE  CachedFor(x, cache'[x])
      BY <1>2
    <2>1. CASE x = u
      <3>1. cache'[x] = [verdict |-> v, stored |-> 0]
        BY <1>1, <2>1
      <3>2. [verdict |-> v, stored |-> 0] \in Entry
        BY DEF Entry
      <3> QED BY <2>1, <3>1, <3>2, ResolveTimeout \in Nat DEF CachedFor
    <2>2. CASE x # u
      BY <1>1, <1>2, <2>2 DEF Cached
    <2> QED BY <2>1, <2>2
  <1> QED BY <1>2, <1>4, <1>5, <1>6 DEF Cached, TypeOK

\* The pools stay within their cap.
LEMMA GetPoolEffect ==
    ASSUME IsFiniteSet(pools), pools \subseteq Proxy, Cardinality(pools) <= MaxUpstreams, NEW p \in Proxy
    PROVE  /\ IsFiniteSet(GetPool(p)) /\ GetPool(p) \subseteq Proxy
           /\ Cardinality(GetPool(p)) <= MaxUpstreams
  <1>1. Cardinality(pools) \in Nat
    BY FS_CardinalityType
  <1>2. IsFiniteSet(pools \cup {p})
    BY FS_AddElement
  <1>3. Cardinality(pools \cup {p}) = IF p \in pools THEN Cardinality(pools) ELSE Cardinality(pools) + 1
    BY FS_AddElement
  <1>4. CASE Cardinality(pools) >= MaxUpstreams
    BY <1>4 DEF GetPool
  <1>5. CASE ~(Cardinality(pools) >= MaxUpstreams)
    <2>1. GetPool(p) = pools \cup {p}
      BY <1>5 DEF GetPool
    <2>2. Cardinality(pools \cup {p}) <= MaxUpstreams
      BY <1>1, <1>3, <1>5
    <2> QED BY <1>2, <2>1, <2>2
  <1> QED BY <1>4, <1>5

-----------------------------------------------------------------------------
\* What a connection may do has its type.
LEMMA TalkState ==
    ASSUME NEW p, NEW s, NEW w, Talk(p, s, w)
    PROVE  s \in ConnState
  <1>1. CASE s = Away \/ s = Ready
    BY <1>1 DEF ConnState
  <1>2. CASE \E u \in Url : s = [pc |-> "waiting", url |-> u]
    BY <1>2 DEF ConnState
  <1>3. CASE \E u \in Url, v \in Verdict : s = [pc |-> "replied", url |-> u, verdict |-> v]
    BY <1>3 DEF ConnState
  <1>4. CASE \E u \in Url, v \in Verdict, from \in {"cache", "thread"} :
                s = [pc |-> "answered", url |-> u, choice |-> Choice(p, v), verdict |-> v, from |-> from]
    <2>1. PICK u \in Url, v \in Verdict, from \in {"cache", "thread"} :
                s = [pc |-> "answered", url |-> u, choice |-> Choice(p, v), verdict |-> v, from |-> from]
      BY <1>4
    <2>2. Choice(p, v) \in Decision \cup {Err}
      BY DEF Choice, Verdict, Decision
    <2> QED BY <2>1, <2>2 DEF ConnState
  <1> QED BY <1>1, <1>2, <1>3, <1>4 DEF Talk

\* A waiting connection waits for a URL; a replied one has its verdict.
LEMMA TalkOf ==
    ASSUME Talks, NEW c \in Conn
    PROVE  /\ Talk(policy, conn[c], wait[c])
           /\ conn[c].pc \in {"away", "ready", "waiting", "replied", "answered"}
           /\ conn[c].pc = "waiting" => /\ conn[c].url \in Url
                                        /\ conn[c] = [pc |-> "waiting", url |-> conn[c].url]
           /\ conn[c].pc = "replied" =>
                 /\ conn[c].url \in Url /\ conn[c].verdict \in Verdict
                 /\ conn[c] = [pc |-> "replied", url |-> conn[c].url, verdict |-> conn[c].verdict]
                 /\ conn[c].verdict.asked = conn[c].url /\ conn[c].verdict.age <= wait[c]
  <1>1. Talk(policy, conn[c], wait[c])
    BY DEF Talks
  <1>2. CASE conn[c] = Away \/ conn[c] = Ready
    BY <1>1, <1>2 DEF Away, Ready
  <1>3. CASE \E u \in Url : conn[c] = [pc |-> "waiting", url |-> u]
    BY <1>1, <1>3
  <1>4. CASE \E u \in Url, v \in Verdict :
                /\ conn[c] = [pc |-> "replied", url |-> u, verdict |-> v]
                /\ v.asked = u /\ v.age <= wait[c]
    BY <1>1, <1>4
  <1>5. CASE \E u \in Url, v \in Verdict, from \in {"cache", "thread"} : conn[c] =
                [pc |-> "answered", url |-> u, choice |-> Choice(policy, v), verdict |-> v, from |-> from]
    BY <1>1, <1>5
  <1> QED BY <1>1, <1>2, <1>3, <1>4, <1>5 DEF Talk

\* One connection changes what it does.
LEMMA TalksStep ==
    ASSUME TypeOK, Talks, NEW c \in Conn, NEW s,
           conn' = [conn EXCEPT ![c] = s], wait' = wait \/ wait' = [wait EXCEPT ![c] = 0],
           policy' = policy, Talk(policy, s, wait'[c])
    PROVE  /\ conn' \in [Conn -> ConnState] /\ wait' \in [Conn -> 0..ResolveTimeout]
           /\ Talks' /\ conn'[c] = s
           /\ \A d \in Conn : d # c => conn'[d] = conn[d]
  <1>1. /\ wait' \in [Conn -> 0..ResolveTimeout] /\ conn'[c] = s
        /\ \A d \in Conn : d # c => conn'[d] = conn[d] /\ wait'[d] = wait[d]
    BY DEF TypeOK
  <1>2. ASSUME NEW d \in Conn
        PROVE  Talk(policy, conn'[d], wait'[d])
    <2>1. Talk(policy, conn[d], wait[d])
      BY DEF Talks
    <2>2. CASE d = c
      BY <1>1, <2>2
    <2>3. CASE d # c
      BY <1>1, <2>1, <2>3
    <2> QED BY <2>2, <2>3
  <1>3. Talks'
    BY <1>2 DEF Talks
  <1>4. s \in ConnState
    BY TalkState
  <1> QED BY <1>1, <1>3, <1>4 DEF TypeOK

\* An answer that follows a decision about the URL.
LEMMA AnswerEffect ==
    ASSUME Inv, NEW c \in Conn, NEW u \in Url, NEW v \in Verdict, NEW from \in {"cache", "thread"},
           v.asked = u, v.age < OldestAge, v.result = Err => from = "thread",
           policy' = policy, Answer(c, u, v, from)
    PROVE  /\ conn' \in [Conn -> ConnState] /\ wait' \in [Conn -> 0..ResolveTimeout]
           /\ Talks' /\ conn'[c].pc = "answered"
           /\ \A d \in Conn : d # c => conn'[d] = conn[d]
           /\ pools' \subseteq Proxy /\ Cardinality(pools') <= MaxUpstreams /\ IsFiniteSet(pools')
  <1> DEFINE s == [pc |-> "answered", url |-> u, choice |-> Choice(policy, v), verdict |-> v, from |-> from]
  <1>1. conn' = [conn EXCEPT ![c] = s] /\ wait' = [wait EXCEPT ![c] = 0]
    BY DEF Answer, ToRouteChoice, Choice
  <1>2. Talk(policy, s, wait'[c])
    BY DEF Talk, Choice
  <1>3. s.pc = "answered"
    OBVIOUS
  <1> HIDE DEF s
  <1>4. /\ conn' \in [Conn -> ConnState] /\ wait' \in [Conn -> 0..ResolveTimeout]
        /\ Talks' /\ conn'[c] = s
        /\ \A d \in Conn : d # c => conn'[d] = conn[d]
    BY <1>1, <1>2, TalksStep DEF Inv
  <1>5. pools' \subseteq Proxy /\ Cardinality(pools') <= MaxUpstreams /\ IsFiniteSet(pools')
    <2>1. pools' = pools \/ \E p \in Proxy : pools' = GetPool(p)
      BY DEF Answer
    <2> QED BY <2>1, GetPoolEffect DEF Inv, TypeOK
  <1> QED BY <1>3, <1>4, <1>5

-----------------------------------------------------------------------------
\* A connection that waits for nothing owns no job; what it does besides is free.
LEMMA JobbedKept ==
    ASSUME TypeOK, Jobbed, NEW c \in Conn, conn[c].pc # "waiting", conn'[c].pc # "waiting",
           \A d \in Conn : d # c => conn'[d] = conn[d],
           UNCHANGED <<queue, thread, job>>
    PROVE  Jobbed'
  <1>1. \A k \in DOMAIN queue : queue[k] \in Job
    BY LenProperties DEF TypeOK
  <1>2. \A j \in Job : Owned(j) => Owned(j)'
    BY DEF Owned, Job
  <1>3. Busy => job \in Job
    BY DEF Jobbed, TypeOK
  <1>4. \A k \in DOMAIN queue : Owned(queue[k])'
    <2>1. \A k \in DOMAIN queue : Owned(queue[k])
      BY DEF Jobbed
    <2> QED BY <1>1, <2>1 DEF Owned, Job
  <1>5. Busy => Owned(job)'
    BY <1>3 DEF Jobbed, Owned, Job
  <1>6. \A d \in Conn : Waits(d)' => HasJob(d)'
    BY DEF Jobbed, Waits, HasJob, Busy
  <1> QED BY <1>4, <1>5, <1>6 DEF Jobbed, Busy

\* A connection that gives up its job owns none afterwards.
LEMMA JobbedAbandoned ==
    ASSUME TypeOK, Jobbed, NEW c \in Conn, conn'[c].pc # "waiting",
           \A d \in Conn : d # c => conn'[d] = conn[d],
           queue' = Abandon(c, queue), job' = IF job = NoJob THEN job ELSE AbandonHeld(c),
           thread' = thread
    PROVE  Jobbed' /\ queue' \in Seq(Job) /\ job' \in Job \cup {NoJob}
  <1>1. /\ queue' \in Seq(Job) /\ DOMAIN queue' = DOMAIN queue
        /\ \A k \in DOMAIN queue :
              /\ queue'[k].url = queue[k].url
              /\ queue'[k].for = IF queue[k].for = c THEN Nobody ELSE queue[k].for
    BY AbandonEffect DEF TypeOK
  <1>2. job # NoJob => /\ job \in Job /\ job' \in Job
                       /\ job'.url = job.url
                       /\ job'.for = IF job.for = c THEN Nobody ELSE job.for
    BY AbandonHeldEffect DEF TypeOK
  <1>3. job' = NoJob <=> job = NoJob
    BY <1>2, Bounds
  <1>4. \A k \in DOMAIN queue : queue[k] \in Job
    BY LenProperties DEF TypeOK
  <1>5. \A k \in DOMAIN queue' : Owned(queue[k])'
    <2>1. \A k \in DOMAIN queue : Owned(queue[k])
      BY DEF Jobbed
    <2> QED BY <1>1, <1>4, <2>1 DEF Owned, Job
  <1>6. Busy' => Owned(job)'
    BY <1>2 DEF Jobbed, Owned, Job, Busy
  <1>7. \A d \in Conn : Waits(d)' => HasJob(d)'
    <2> SUFFICES ASSUME NEW d \in Conn, Waits(d)' PROVE HasJob(d)'
      OBVIOUS
    <2>1. d # c /\ Waits(d)
      BY DEF Waits
    <2>2. HasJob(d)
      BY <2>1 DEF Jobbed
    <2> QED BY <1>1, <1>2, <2>1, <2>2 DEF HasJob, Busy, Jobbed
  <1>8. \A k, l \in DOMAIN queue' :
            queue'[k].for = queue'[l].for /\ k # l => queue'[k].for = Nobody
    BY <1>1 DEF Jobbed
  <1>9. Busy' => \A k \in DOMAIN queue' : queue'[k].for = job'.for => job'.for = Nobody
    BY <1>1, <1>2 DEF Jobbed, Busy
  <1> QED BY <1>1, <1>2, <1>3, <1>5, <1>6, <1>7, <1>8, <1>9 DEF Jobbed, Busy, TypeOK

-----------------------------------------------------------------------------
\* A connection is accepted, or finds its decision in the cache.
LEMMA ArriveInv ==
    ASSUME IInv, NEW c \in Conn, Accept(c) \/ \E url \in Url : AskCache(c, url)
    PROVE  IInv'
  <1> USE DEF IInv, Inv, serverVars, threadVars
  <1>1. CASE Accept(c)
    <2>1. /\ conn' = [conn EXCEPT ![c] = Ready] /\ Ready.pc # "waiting" /\ conn[c].pc # "waiting"
          /\ UNCHANGED <<policy, handle, wait, cache, pools, queue, thread, job, broken>>
      BY <1>1 DEF Accept, Ready
    <2>2. Talk(policy, Ready, wait'[c])
      BY DEF Talk
    <2>3. /\ conn' \in [Conn -> ConnState] /\ wait' \in [Conn -> 0..ResolveTimeout]
          /\ Talks' /\ conn'[c] = Ready
          /\ \A d \in Conn : d # c => conn'[d] = conn[d]
      BY <2>1, <2>2, TalksStep
    <2>4. Jobbed'
      BY <2>1, <2>3, JobbedKept
    <2>5. Cached'
      BY <2>1 DEF Cached
    <2>6. TypeOK'
      BY <2>1, <2>3 DEF TypeOK
    <2> QED BY <2>1, <2>3, <2>4, <2>5, <2>6
  <1>2. ASSUME NEW url \in Url, AskCache(c, url)
        PROVE  IInv'
    <2>1. /\ conn[c].pc # "waiting" /\ Hit(url)
          /\ UNCHANGED <<policy, handle, cache, queue, thread, job, broken>>
      BY <1>2 DEF AskCache
    <2>2. PICK v \in Verdict : /\ v = cache[url].verdict
                               /\ v.asked = url /\ v.result # Err /\ v.age < OldestAge
      <3>1. CachedFor(url, cache[url]) /\ cache[url].stored < CacheTtl
        BY <2>1 DEF Hit, Cached
      <3>2. /\ cache[url].verdict \in Verdict /\ cache[url].stored \in Nat
            /\ cache[url].verdict.age \in Nat
        BY <3>1, Bounds DEF CachedFor, Entry, Verdict
      <3> QED BY <3>1, <3>2 DEF CachedFor, OldestAge
    <2>3. Answer(c, url, v, "cache")
      BY <1>2, <2>2 DEF AskCache
    <2>4. /\ conn' \in [Conn -> ConnState] /\ wait' \in [Conn -> 0..ResolveTimeout]
          /\ Talks' /\ conn'[c].pc = "answered"
          /\ \A d \in Conn : d # c => conn'[d] = conn[d]
          /\ pools' \subseteq Proxy /\ Cardinality(pools') <= MaxUpstreams /\ IsFiniteSet(pools')
      BY <2>1, <2>2, <2>3, AnswerEffect
    <2>5. Jobbed'
      BY <2>1, <2>4, JobbedKept
    <2>6. Cached'
      BY <2>1 DEF Cached
    <2>7. TypeOK'
      BY <2>1, <2>4 DEF TypeOK
    <2> QED BY <2>4, <2>5, <2>6, <2>7
  <1> QED BY <1>1, <1>2

\* An error that is not the backend's is fresh and about its own URL.
LEMMA FailureFresh ==
    ASSUME NEW u \in Url
    PROVE  /\ Failure(u) \in Verdict /\ Failure(u).asked = u /\ Failure(u).result = Err
           /\ Failure(u).age = 0 /\ Failure(u).age < OldestAge
  BY Bounds DEF Failure, Verdict

\* A miss is sent to the thread, or fails without one.
LEMMA AskThreadInv ==
    ASSUME IInv, NEW c \in Conn, NEW url \in Url, AskThread(c, url)
    PROVE  IInv'
  <1> USE DEF IInv, Inv, serverVars, threadVars
  <1>1. /\ conn[c].pc # "waiting"
        /\ UNCHANGED <<policy, handle, cache, thread, job, broken>>
    BY DEF AskThread
  <1>2. Cached'
    BY <1>1 DEF Cached
  <1>3. CASE Answer(c, url, Failure(url), "thread") /\ UNCHANGED queue
    <2>1. /\ conn' \in [Conn -> ConnState] /\ wait' \in [Conn -> 0..ResolveTimeout]
          /\ Talks' /\ conn'[c].pc = "answered"
          /\ \A d \in Conn : d # c => conn'[d] = conn[d]
          /\ pools' \subseteq Proxy /\ Cardinality(pools') <= MaxUpstreams /\ IsFiniteSet(pools')
      BY <1>1, <1>3, FailureFresh, AnswerEffect
    <2>2. Jobbed'
      BY <1>1, <1>3, <2>1, JobbedKept
    <2>3. TypeOK'
      BY <1>1, <1>3, <2>1 DEF TypeOK
    <2> QED BY <1>2, <2>1, <2>2, <2>3
  <1>4. CASE /\ queue' = Append(queue, [url |-> url, for |-> c])
             /\ conn' = [conn EXCEPT ![c] = [pc |-> "waiting", url |-> url]]
             /\ UNCHANGED <<wait, pools>>
    <2> DEFINE s == [pc |-> "waiting", url |-> url]
               mine == [url |-> url, for |-> c]
    <2>1. Talk(policy, s, wait'[c])
      BY DEF Talk
    <2>2. /\ conn' \in [Conn -> ConnState] /\ wait' \in [Conn -> 0..ResolveTimeout]
          /\ Talks' /\ conn'[c] = s
          /\ \A d \in Conn : d # c => conn'[d] = conn[d]
      BY <1>1, <1>4, <2>1, TalksStep
    <2>3. mine \in Job /\ mine.for = c /\ mine.url = url
      BY DEF Job
    <2> HIDE DEF mine
    <2>4. /\ queue' \in Seq(Job) /\ Len(queue) \in Nat
          /\ DOMAIN queue = 1..Len(queue)
          /\ DOMAIN queue' = 1..(Len(queue) + 1)
          /\ \A k \in DOMAIN queue : queue'[k] = queue[k] /\ queue[k] \in Job
          /\ queue'[Len(queue) + 1] = mine
      <3>1. queue' = Append(queue, mine)
        BY <1>4 DEF mine
      <3> QED BY <2>3, <3>1, AppendProperties, LenProperties DEF TypeOK
    <2>5. \A k \in DOMAIN queue : queue[k].for # c
      <3>1. \A k \in DOMAIN queue : Owned(queue[k])
        BY DEF Jobbed
      <3>2. ASSUME NEW k \in DOMAIN queue, queue[k].for = c
            PROVE  FALSE
        <4>1. conn[c] = [pc |-> "waiting", url |-> queue[k].url]
          BY <3>1, <3>2 DEF Owned
        <4> QED BY <1>1, <4>1
      <3> QED BY <3>2
    <2>6. Busy => job.for # c /\ job \in Job
      BY <1>1 DEF Jobbed, Owned, Job, TypeOK
    <2>7. Jobbed'
      <3>1. ASSUME NEW k \in DOMAIN queue'
            PROVE  Owned(queue[k])'
        <4>1. CASE k \in DOMAIN queue
          <5>1. Owned(queue[k])
            BY <4>1 DEF Jobbed
          <5> QED BY <2>2, <2>4, <2>5, <4>1, <5>1 DEF Owned, Job
        <4>2. CASE k = Len(queue) + 1
          BY <2>2, <2>3, <2>4, <4>2 DEF Owned
        <4> QED BY <2>4, <4>1, <4>2
      <3>2. Busy' => Owned(job)'
        BY <1>1, <2>2, <2>6 DEF Jobbed, Owned, Job, Busy
      <3>3. ASSUME NEW k \in DOMAIN queue', NEW l \in DOMAIN queue',
                   queue'[k].for = queue'[l].for, k # l
            PROVE  queue'[k].for = Nobody
        BY <2>3, <2>4, <2>5, <3>3 DEF Jobbed
      <3>4. Busy' => \A k \in DOMAIN queue' : queue'[k].for = job'.for => job'.for = Nobody
        BY <1>1, <2>3, <2>4, <2>6 DEF Jobbed, Busy
      <3>5. ASSUME NEW d \in Conn, Waits(d)'
            PROVE  HasJob(d)'
        <4>1. CASE d = c
          BY <2>3, <2>4, <4>1 DEF HasJob
        <4>2. CASE d # c
          <5>1. HasJob(d)
            BY <2>2, <3>5, <4>2 DEF Jobbed, Waits
          <5> QED BY <1>1, <2>4, <5>1 DEF HasJob, Busy
        <4> QED BY <4>1, <4>2
      <3> QED BY <1>1, <3>1, <3>2, <3>3, <3>4, <3>5 DEF Jobbed, Busy
    <2>8. TypeOK'
      BY <1>1, <1>4, <2>2, <2>4 DEF TypeOK
    <2> QED BY <1>2, <1>4, <2>2, <2>7, <2>8
  <1> QED BY <1>3, <1>4 DEF AskThread

\* The reply is taken: a decision is cached, and the request answered.
LEMMA TakeReplyInv ==
    ASSUME IInv, NEW c \in Conn, TakeReply(c)
    PROVE  IInv'
  <1> USE DEF IInv, Inv, serverVars, threadVars
  <1>1. /\ conn[c].pc = "replied"
        /\ UNCHANGED <<policy, handle, queue, thread, job, broken>>
    BY DEF TakeReply
  <1>2. PICK u \in Url, v \in Verdict : /\ u = conn[c].url /\ v = conn[c].verdict
                                       /\ v.asked = u /\ v.age <= wait[c]
    BY <1>1, TalkOf
  <1>3. v.age <= ResolveTimeout /\ v.age < OldestAge
    <2>1. wait[c] \in 0..ResolveTimeout /\ v.age \in Nat /\ ResolveTimeout \in Nat
      BY Bounds DEF TypeOK, Verdict
    <2> QED BY <1>2, <2>1, Bounds
  <1>4. Answer(c, u, v, "thread") /\ cache' = IF v.result = Err THEN cache ELSE Put(u, v)
    BY <1>2 DEF TakeReply
  <1>5. /\ conn' \in [Conn -> ConnState] /\ wait' \in [Conn -> 0..ResolveTimeout]
        /\ Talks' /\ conn'[c].pc = "answered"
        /\ \A d \in Conn : d # c => conn'[d] = conn[d]
        /\ pools' \subseteq Proxy /\ Cardinality(pools') <= MaxUpstreams /\ IsFiniteSet(pools')
    BY <1>1, <1>2, <1>3, <1>4, AnswerEffect
  <1>6. Cached' /\ DOMAIN cache' \subseteq Url /\ Cardinality(DOMAIN cache') <= CacheMaxEntries
    <2>1. CASE v.result = Err
      BY <1>4, <2>1 DEF Cached, TypeOK
    <2>2. CASE v.result # Err
      BY <1>2, <1>3, <1>4, <2>2, PutEffect
    <2> QED BY <2>1, <2>2
  <1>7. Jobbed'
    BY <1>1, <1>5, JobbedKept
  <1>8. TypeOK'
    BY <1>1, <1>5, <1>6 DEF TypeOK, Cached, CachedFor
  <1> QED BY <1>5, <1>6, <1>7, <1>8

\* The request gives up, and its job with it.
LEMMA TimeOutInv ==
    ASSUME IInv, NEW c \in Conn, TimeOut(c)
    PROVE  IInv'
  <1> USE DEF IInv, Inv, serverVars, threadVars
  <1>1. /\ conn[c].pc = "waiting" /\ queue' = Abandon(c, queue)
        /\ job' = IF job = NoJob THEN job ELSE AbandonHeld(c)
        /\ UNCHANGED <<policy, handle, cache, thread, broken>>
    BY DEF TimeOut
  <1>2. PICK u \in Url : u = conn[c].url
    BY <1>1, TalkOf
  <1>3. Answer(c, u, Failure(u), "thread")
    BY <1>2 DEF TimeOut
  <1>4. /\ conn' \in [Conn -> ConnState] /\ wait' \in [Conn -> 0..ResolveTimeout]
        /\ Talks' /\ conn'[c].pc = "answered"
        /\ \A d \in Conn : d # c => conn'[d] = conn[d]
        /\ pools' \subseteq Proxy /\ Cardinality(pools') <= MaxUpstreams /\ IsFiniteSet(pools')
    BY <1>1, <1>3, FailureFresh, AnswerEffect
  <1>5. Jobbed' /\ queue' \in Seq(Job) /\ job' \in Job \cup {NoJob}
    BY <1>1, <1>4, JobbedAbandoned
  <1>6. Cached'
    BY <1>1 DEF Cached
  <1>7. TypeOK'
    BY <1>1, <1>4, <1>5 DEF TypeOK
  <1> QED BY <1>4, <1>5, <1>6, <1>7

\* The client goes away, and its job is nobody's.
LEMMA CloseInv ==
    ASSUME IInv, NEW c \in Conn, Close(c)
    PROVE  IInv'
  <1> USE DEF IInv, Inv, serverVars, threadVars
  <1>1. /\ conn' = [conn EXCEPT ![c] = Away] /\ wait' = [wait EXCEPT ![c] = 0]
        /\ queue' = Abandon(c, queue)
        /\ job' = IF job = NoJob THEN job ELSE AbandonHeld(c)
        /\ UNCHANGED <<policy, handle, cache, pools, thread, broken>>
    BY DEF Close
  <1>2. Talk(policy, Away, wait'[c]) /\ Away.pc # "waiting"
    BY DEF Talk, Away
  <1>3. /\ conn' \in [Conn -> ConnState] /\ wait' \in [Conn -> 0..ResolveTimeout]
        /\ Talks' /\ conn'[c] = Away
        /\ \A d \in Conn : d # c => conn'[d] = conn[d]
    BY <1>1, <1>2, TalksStep
  <1>4. Jobbed' /\ queue' \in Seq(Job) /\ job' \in Job \cup {NoJob}
    BY <1>1, <1>2, <1>3, JobbedAbandoned
  <1>5. Cached'
    BY <1>1 DEF Cached
  <1>6. TypeOK'
    BY <1>1, <1>3, <1>4 DEF TypeOK
  <1> QED BY <1>1, <1>3, <1>4, <1>5, <1>6

-----------------------------------------------------------------------------
\* The thread is built or ends, or the snapshot is replaced: no job changes.
LEMMA QuietInv ==
    ASSUME IInv, Replace \/ (\E ok \in BOOLEAN : Build(ok)) \/ Ends \/ UNCHANGED vars
    PROVE  IInv'
  <1> USE DEF IInv, Inv, serverVars, threadVars
  <1>1. UNCHANGED <<policy, conn, wait, cache, pools, queue, job>>
    BY DEF Replace, Build, Ends, vars
  <1>2. /\ handle' \in BOOLEAN /\ broken' \in BOOLEAN
        /\ thread' \in {"building", "idle", "busy", "gone"}
        /\ thread' = "busy" <=> thread = "busy"
    BY DEF Replace, Build, Ends, vars, TypeOK
  <1>3. TypeOK'
    BY <1>1, <1>2 DEF TypeOK
  <1>4. Talks' /\ Cached'
    BY <1>1 DEF Talks, Cached
  <1>5. Jobbed'
    BY <1>1, <1>2 DEF Jobbed, Busy, Owned, Waits, HasJob
  <1> QED BY <1>1, <1>3, <1>4, <1>5

\* The thread takes the oldest job.
LEMMA RecvInv ==
    ASSUME IInv, Recv
    PROVE  IInv'
  <1> USE DEF IInv, Inv, serverVars, threadVars
  <1>1. /\ thread = "idle" /\ thread' = "busy" /\ queue # <<>>
        /\ job' = Head(queue) /\ queue' = Tail(queue)
        /\ UNCHANGED <<policy, handle, conn, wait, cache, pools, broken>>
    BY DEF Recv
  <1>2. /\ queue' \in Seq(Job) /\ job' \in Job /\ job' = queue[1]
        /\ Len(queue) \in Nat \ {0}
        /\ DOMAIN queue = 1..Len(queue)
        /\ DOMAIN queue' = 1..(Len(queue) - 1)
        /\ \A k \in DOMAIN queue' : queue'[k] = queue[k + 1] /\ k + 1 \in DOMAIN queue
    BY <1>1, HeadTailProperties, LenProperties, EmptySeq DEF TypeOK
  <1>3. TypeOK'
    BY <1>1, <1>2 DEF TypeOK
  <1>4. Talks' /\ Cached'
    BY <1>1 DEF Talks, Cached
  <1>5. Jobbed'
    <2>1. \A k \in DOMAIN queue : Owned(queue[k])
      BY DEF Jobbed
    <2>2. \A k \in DOMAIN queue' : Owned(queue[k])'
      BY <1>1, <1>2, <2>1 DEF Owned
    <2>3. 1 \in DOMAIN queue
      BY <1>2
    <2>4. Owned(job)'
      BY <1>1, <1>2, <2>1, <2>3 DEF Owned
    <2>5. \A k, l \in DOMAIN queue' : queue'[k].for = queue'[l].for /\ k # l => queue'[k].for = Nobody
      <3> SUFFICES ASSUME NEW k \in DOMAIN queue', NEW l \in DOMAIN queue',
                          queue'[k].for = queue'[l].for, k # l
                   PROVE  queue'[k].for = Nobody
        OBVIOUS
      <3>1. k + 1 # l + 1
        BY <1>2
      <3> QED BY <1>2, <3>1 DEF Jobbed
    <2>6. \A k \in DOMAIN queue' : queue'[k].for = job'.for => job'.for = Nobody
      <3> SUFFICES ASSUME NEW k \in DOMAIN queue', queue'[k].for = job'.for
                   PROVE  job'.for = Nobody
        OBVIOUS
      <3>1. k + 1 # 1
        BY <1>2
      <3> QED BY <1>2, <2>3, <3>1 DEF Jobbed
    <2>7. ASSUME NEW c \in Conn, Waits(c)'
          PROVE  HasJob(c)'
      <3>1. Waits(c) /\ ~Busy
        BY <1>1, <2>7 DEF Waits, Busy
      <3>2. PICK k \in DOMAIN queue : queue[k].for = c
        BY <3>1 DEF Jobbed, HasJob
      <3>3. CASE k = 1
        BY <1>1, <1>2, <3>2, <3>3 DEF HasJob, Busy
      <3>4. CASE k # 1
        <4>1. k - 1 \in DOMAIN queue' /\ (k - 1) + 1 = k
          BY <1>2, <3>4
        <4> QED BY <1>2, <3>2, <4>1 DEF HasJob
      <3> QED BY <3>3, <3>4
    <2>8. job' # NoJob
      BY <1>2, Bounds
    <2> QED BY <1>1, <2>2, <2>4, <2>5, <2>6, <2>7, <2>8 DEF Jobbed, Busy
  <1> QED BY <1>1, <1>3, <1>4, <1>5

\* The reply reaches the request that asked for it, if it still waits.
LEMMA ResolveInv ==
    ASSUME IInv, NEW result \in Decision \cup {Err}, Resolve(result)
    PROVE  IInv'
  <1> USE DEF IInv, Inv, serverVars, threadVars
  <1>1. /\ thread = "busy" /\ thread' = "idle" /\ job' = NoJob
        /\ UNCHANGED <<policy, handle, wait, cache, pools, queue, broken>>
    BY DEF Resolve
  <1>2. /\ job \in Job
        /\ \A k \in DOMAIN queue : queue[k] \in Job /\ Owned(queue[k])
    BY <1>1, LenProperties DEF Jobbed, Busy, TypeOK
  <1>3. Cached'
    BY <1>1 DEF Cached
  <1>4. CASE job.for = Nobody
    <2>1. conn' = conn
      BY <1>4 DEF Resolve
    <2>2. Talks' /\ TypeOK'
      BY <1>1, <2>1 DEF Talks, TypeOK
    <2>3. \A k \in DOMAIN queue : Owned(queue[k])'
      BY <1>1, <1>2, <2>1 DEF Owned
    <2>4. \A c \in Conn : Waits(c)' => HasJob(c)'
      BY <1>1, <1>4, <2>1 DEF Jobbed, Waits, HasJob, Busy
    <2>5. Jobbed'
      BY <1>1, <2>3, <2>4 DEF Jobbed, Busy
    <2> QED BY <1>1, <1>3, <2>2, <2>5
  <1>5. CASE job.for # Nobody
    <2>1. PICK c \in Conn : c = job.for
      BY <1>2, <1>5 DEF Job
    <2>2. /\ conn[c] = [pc |-> "waiting", url |-> job.url] /\ job.url \in Url
          /\ conn[c].url = job.url
      BY <1>1, <1>2, <1>5, <2>1 DEF Jobbed, Busy, Owned, Job
    <2> DEFINE v == [result |-> result, asked |-> job.url, age |-> 0]
               s == [pc |-> "replied", url |-> job.url, verdict |-> v]
    <2>3. v \in Verdict /\ v.asked = job.url /\ v.age = 0
      BY <2>2, Bounds DEF Verdict
    <2>4. conn' = [conn EXCEPT ![c] = s]
      BY <1>5, <2>1, <2>2 DEF Resolve
    <2>5. Talk(policy, s, wait'[c]) /\ s.pc # "waiting"
      <3>1. v.age <= wait'[c]
        BY <1>1, <2>3 DEF TypeOK
      <3> HIDE DEF v
      <3> QED BY <2>2, <2>3, <3>1 DEF Talk
    <2> HIDE DEF s
    <2>6. /\ conn' \in [Conn -> ConnState] /\ wait' \in [Conn -> 0..ResolveTimeout]
          /\ Talks' /\ conn'[c] = s
          /\ \A d \in Conn : d # c => conn'[d] = conn[d]
      BY <1>1, <2>4, <2>5, TalksStep
    <2>7. TypeOK'
      BY <1>1, <2>6 DEF TypeOK
    <2>8. \A k \in DOMAIN queue : queue[k].for # c
      BY <1>1, <1>5, <2>1 DEF Jobbed, Busy
    <2>9. \A k \in DOMAIN queue : Owned(queue[k])'
      BY <1>1, <1>2, <2>6, <2>8 DEF Owned, Job
    <2>10. ASSUME NEW d \in Conn, Waits(d)'
           PROVE  HasJob(d)'
      <3>1. d # c /\ Waits(d)
        BY <2>5, <2>6, <2>10 DEF Waits
      <3> QED BY <1>1, <2>1, <3>1 DEF Jobbed, HasJob
    <2>11. Jobbed'
      BY <1>1, <2>9, <2>10 DEF Jobbed, Busy
    <2> QED BY <1>1, <1>3, <2>6, <2>7, <2>11
  <1> QED BY <1>4, <1>5

\* The thread dies: whoever waits finds out, and there are no more jobs.
LEMMA PanicsInv ==
    ASSUME IInv, Panics
    PROVE  IInv'
  <1> USE DEF IInv, Inv, serverVars, threadVars
  <1>1. /\ thread' = "gone" /\ queue' = <<>> /\ job' = NoJob
        /\ conn' = [c \in Conn |-> IF conn[c].pc = "waiting"
                                   THEN [pc |-> "replied", url |-> conn[c].url,
                                         verdict |-> Failure(conn[c].url)]
                                   ELSE conn[c]]
        /\ UNCHANGED <<policy, handle, wait, cache, pools, broken>>
    BY DEF Panics
  <1>2. ASSUME NEW c \in Conn
        PROVE  Talk(policy, conn'[c], wait'[c]) /\ conn'[c].pc # "waiting"
    <2>1. CASE conn[c].pc = "waiting"
      <3>1. PICK u \in Url : u = conn[c].url
        BY <2>1, TalkOf
      <3>2. conn'[c] = [pc |-> "replied", url |-> u, verdict |-> Failure(u)]
        BY <1>1, <2>1, <3>1
      <3>3. Failure(u).age <= wait'[c]
        BY <1>1, FailureFresh DEF TypeOK
      <3> QED BY <3>2, <3>3, FailureFresh DEF Talk
    <2>2. CASE conn[c].pc # "waiting"
      BY <1>1, <2>2 DEF Talks
    <2> QED BY <2>1, <2>2
  <1>3. Talks'
    BY <1>1, <1>2 DEF Talks
  <1>4. conn' \in [Conn -> ConnState]
    BY <1>1, <1>2, TalkState
  <1>5. TypeOK' /\ DOMAIN queue' = {}
    BY <1>1, <1>4, EmptySeq DEF TypeOK
  <1>6. Cached'
    BY <1>1 DEF Cached
  <1>7. Jobbed'
    BY <1>1, <1>2, <1>5 DEF Jobbed, Busy, Waits
  <1> QED BY <1>1, <1>3, <1>5, <1>6, <1>7

\* The clock ticks: replies, waits and cached decisions age together.
LEMMA TickInv ==
    ASSUME IInv, Tick
    PROVE  IInv'
  <1> USE DEF IInv, Inv, serverVars, threadVars
  <1>1. /\ \A c \in Conn : conn[c].pc \in {"waiting", "replied"} => wait[c] < ResolveTimeout
        /\ wait' = [c \in Conn |->
                      IF conn[c].pc \in {"waiting", "replied"} THEN wait[c] + 1 ELSE wait[c]]
        /\ conn' = [c \in Conn |-> IF conn[c].pc = "replied" THEN [conn[c] EXCEPT !.verdict.age = @ + 1]
                                   ELSE conn[c]]
        /\ UNCHANGED <<policy, handle, pools, queue, thread, job, broken>>
    BY DEF Tick
  <1>2. ASSUME NEW c \in Conn
        PROVE  /\ Talk(policy, conn'[c], wait'[c])
               /\ conn[c].pc # "replied" => conn'[c] = conn[c]
               /\ conn'[c].pc = conn[c].pc
    <2>1. wait[c] \in 0..ResolveTimeout
      BY DEF TypeOK
    <2>2. CASE conn[c].pc = "replied"
      <3>1. PICK u \in Url, v \in Verdict :
                    /\ conn[c] = [pc |-> "replied", url |-> u, verdict |-> v]
                    /\ v.asked = u /\ v.age <= wait[c]
        BY <2>2, TalkOf
      <3>2. wait'[c] = wait[c] + 1 /\ wait[c] < ResolveTimeout
        BY <1>1, <2>2
      <3> DEFINE w == [v EXCEPT !.age = @ + 1]
      <3>3. w \in Verdict /\ w.asked = u /\ w.age = v.age + 1
        BY <2>1, <3>1, <3>2, Bounds DEF Verdict
      <3>4. conn'[c] = [pc |-> "replied", url |-> u, verdict |-> w]
        BY <1>1, <2>2, <3>1
      <3>5. w.age <= wait'[c]
        BY <2>1, <3>1, <3>2, <3>3 DEF Verdict
      <3> HIDE DEF w
      <3>6. Talk(policy, conn'[c], wait'[c])
        BY <3>3, <3>1, <3>4, <3>5 DEF Talk
      <3>7. conn'[c].pc = conn[c].pc
        BY <3>1, <3>4
      <3> QED BY <2>2, <3>6, <3>7
    <2>3. CASE conn[c].pc # "replied"
      <3>1. conn'[c] = conn[c] /\ Talk(policy, conn[c], wait[c])
        BY <1>1, <2>3, TalkOf
      <3>2. ~\E u \in Url, v \in Verdict : conn[c] = [pc |-> "replied", url |-> u, verdict |-> v]
        <4> SUFFICES ASSUME NEW u, NEW v, conn[c] = [pc |-> "replied", url |-> u, verdict |-> v]
                     PROVE  FALSE
          OBVIOUS
        <4> QED BY <2>3
      <3> QED BY <2>3, <3>1, <3>2 DEF Talk
    <2> QED BY <2>2, <2>3
  <1>3. Talks' /\ conn' \in [Conn -> ConnState]
    BY <1>1, <1>2, TalkState DEF Talks
  <1>4. wait' \in [Conn -> 0..ResolveTimeout]
    BY <1>1 DEF TypeOK
  <1>5. DOMAIN cache' = DOMAIN cache /\ \A u \in DOMAIN cache : CachedFor(u, cache'[u])
    <2>1. cache' = [u \in DOMAIN cache |->
                    [cache[u] EXCEPT !.stored = IF @ < CacheTtl THEN @ + 1 ELSE @,
                                     !.verdict.age = IF @ < OldestAge THEN @ + 1 ELSE @]]
      BY DEF Tick
    <2> SUFFICES ASSUME NEW u \in DOMAIN cache
                 PROVE  CachedFor(u, cache'[u])
      BY <2>1
    <2>2. PICK e \in Entry : e = cache[u] /\ CachedFor(u, e)
      BY DEF Cached, CachedFor
    <2>3. PICK v \in Verdict, stored \in 0..CacheTtl : e = [verdict |-> v, stored |-> stored]
      BY DEF Entry
    <2> DEFINE w == [v EXCEPT !.age = IF @ < OldestAge THEN @ + 1 ELSE @]
               later == IF stored < CacheTtl THEN stored + 1 ELSE stored
    <2>4. cache'[u] = [verdict |-> w, stored |-> later]
      <3> DEFINE mid == [verdict |-> v, stored |-> later]
      <3>1. [e EXCEPT !.stored = IF @ < CacheTtl THEN @ + 1 ELSE @] = mid
        BY <2>3
      <3>2. cache'[u] = [mid EXCEPT !.verdict.age = IF @ < OldestAge THEN @ + 1 ELSE @]
        BY <2>1, <2>2, <3>1
      <3>3. [mid EXCEPT !.verdict.age = IF @ < OldestAge THEN @ + 1 ELSE @]
              = [verdict |-> w, stored |-> later]
        OBVIOUS
      <3> QED BY <3>2, <3>3
    <2>5. /\ w \in Verdict /\ w.asked = v.asked /\ w.result = v.result
          /\ w.age = IF v.age < OldestAge THEN v.age + 1 ELSE v.age
      BY Bounds DEF Verdict
    <2>6. v.asked = u /\ v.result # Err /\ v.age <= stored + ResolveTimeout
      BY <2>2, <2>3 DEF CachedFor
    <2>7. w.age <= later + ResolveTimeout
      <3>1. v.age \in 0..OldestAge
        BY DEF Verdict
      <3> QED BY <2>5, <2>6, <3>1 DEF OldestAge
    <2>8. later \in 0..CacheTtl
      OBVIOUS
    <2> HIDE DEF w, later
    <2> QED BY <2>4, <2>5, <2>6, <2>7, <2>8 DEF CachedFor, Entry
  <1>6. Cached'
    BY <1>5 DEF Cached
  <1>7. TypeOK'
    BY <1>1, <1>3, <1>4, <1>5 DEF TypeOK, CachedFor
  <1>8. Jobbed'
    <2>1. \A k \in DOMAIN queue : queue[k] \in Job /\ Owned(queue[k])
      BY LenProperties DEF Jobbed, TypeOK
    <2>2. \A k \in DOMAIN queue : Owned(queue[k])'
      BY <1>1, <1>2, <2>1 DEF Owned, Job
    <2>3. Busy => Owned(job)'
      <3>1. Busy => job \in Job /\ Owned(job)
        BY DEF Jobbed, TypeOK
      <3> QED BY <1>1, <1>2, <3>1 DEF Owned, Job
    <2>4. \A c \in Conn : Waits(c)' => HasJob(c)'
      BY <1>1, <1>2 DEF Jobbed, Waits, HasJob, Busy
    <2> QED BY <1>1, <2>2, <2>3, <2>4 DEF Jobbed, Busy
  <1> QED BY <1>1, <1>3, <1>6, <1>7, <1>8

-----------------------------------------------------------------------------
\* The invariant holds at the start.
LEMMA InitInv == Init => IInv
  <1> SUFFICES ASSUME Init PROVE IInv
    OBVIOUS
  <1>1. Talks
    BY DEF Init, Talks, Talk
  <1>2. conn \in [Conn -> ConnState]
    BY DEF Init, ConnState
  <1>3. DOMAIN cache = {} /\ IsFiniteSet({}) /\ Cardinality({}) = 0
    BY FS_EmptySet DEF Init
  <1>4. queue \in Seq(Job) /\ DOMAIN queue = {}
    BY EmptySeq DEF Init
  <1>5. wait \in [Conn -> 0..ResolveTimeout]
    BY DEF Init
  <1>6. TypeOK
    <2>1. 0 <= CacheMaxEntries /\ 0 <= MaxUpstreams
      OBVIOUS
    <2>2. cache = <<>> /\ pools = {} /\ job \in Job \cup {NoJob}
      BY DEF Init
    <2>3. /\ DOMAIN cache \subseteq Url /\ \A u \in DOMAIN cache : cache[u] \in Entry
          /\ Cardinality(DOMAIN cache) <= CacheMaxEntries
          /\ pools \subseteq Proxy /\ Cardinality(pools) <= MaxUpstreams
      BY <1>3, <2>1, <2>2
    <2> QED BY <1>2, <1>4, <1>5, <2>2, <2>3 DEF Init, TypeOK
  <1>7. Cached /\ IsFiniteSet(pools)
    BY <1>3 DEF Init, Cached
  <1>8. Jobbed
    BY <1>4 DEF Init, Jobbed, Busy, Waits, Away
  <1> QED BY <1>1, <1>6, <1>7, <1>8 DEF IInv, Inv

\* Every step keeps it.
LEMMA NextInv == IInv /\ [Next]_vars => IInv'
  <1> SUFFICES ASSUME IInv, [Next]_vars PROVE IInv'
    OBVIOUS
  <1>1. ASSUME NEW c \in Conn, Accept(c) \/ TakeReply(c) \/ TimeOut(c) \/ Close(c)
        PROVE  IInv'
    BY <1>1, ArriveInv, TakeReplyInv, TimeOutInv, CloseInv
  <1>2. ASSUME NEW c \in Conn, NEW url \in Url, AskCache(c, url) \/ AskThread(c, url)
        PROVE  IInv'
    BY <1>2, ArriveInv, AskThreadInv
  <1>3. CASE Replace \/ UNCHANGED vars
    BY <1>3, QuietInv
  <1>4. CASE Thread
    BY <1>4, QuietInv, RecvInv, ResolveInv DEF Thread
  <1>5. CASE Panics
    BY <1>5, PanicsInv
  <1>6. CASE Tick
    BY <1>6, TickInv
  <1> QED BY <1>1, <1>2, <1>3, <1>4, <1>5, <1>6 DEF Next

\* So it holds of every reachable state.
THEOREM Invariance == Spec => []IInv
  BY InitInv, NextInv, PTL DEF Spec

-----------------------------------------------------------------------------
\* What an answered request was told.
LEMMA AnswerOf ==
    ASSUME Talks, NEW c \in Conn, Answered(c)
    PROVE  /\ conn[c].verdict.asked = conn[c].url
           /\ conn[c].verdict.age < OldestAge
           /\ conn[c].choice = Choice(policy, conn[c].verdict)
           /\ conn[c].verdict.result = Err => conn[c].from = "thread"
  <1>1. Talk(policy, conn[c], wait[c]) /\ conn[c].pc = "answered"
    BY DEF Talks, Answered
  <1>2. conn[c] # Away /\ conn[c] # Ready
    BY <1>1 DEF Away, Ready
  <1>3. ASSUME NEW u, conn[c] = [pc |-> "waiting", url |-> u]
        PROVE  FALSE
    BY <1>1, <1>3
  <1>4. ASSUME NEW u, NEW v, conn[c] = [pc |-> "replied", url |-> u, verdict |-> v]
        PROVE  FALSE
    BY <1>1, <1>4
  <1>5. PICK u \in Url, v \in Verdict, from \in {"cache", "thread"} :
          /\ conn[c] = [pc |-> "answered", url |-> u, choice |-> Choice(policy, v),
                        verdict |-> v, from |-> from]
          /\ v.asked = u /\ v.age < OldestAge
          /\ v.result = Err => from = "thread"
    BY <1>1, <1>2, <1>3, <1>4 DEF Talk
  <1> QED BY <1>5

\* A request goes where the PAC backend's decision for its own URL says; only
\* its own error leaves it to the fail policy.
THEOREM RoutedAsDecidedHolds == Spec => []RoutedAsDecided
  <1>1. IInv => RoutedAsDecided
    <2> SUFFICES ASSUME Talks, NEW c \in Conn, Answered(c)
                 PROVE  LET v == conn[c].verdict IN
                        /\ v.asked = conn[c].url
                        /\ IF v.result # Err THEN conn[c].choice = v.result
                           ELSE /\ conn[c].from = "thread"
                                /\ conn[c].choice = IF policy = "direct" THEN Direct ELSE Err
      BY DEF IInv, Inv, RoutedAsDecided
    <2> QED BY AnswerOf DEF Choice
  <1> QED BY <1>1, Invariance, PTL

\* And that decision is younger than CACHE_TTL and one RESOLVE_TIMEOUT.
THEOREM DecisionsAreRecentHolds == Spec => []DecisionsAreRecent
  <1>1. IInv => DecisionsAreRecent
    BY AnswerOf DEF IInv, Inv, DecisionsAreRecent
  <1> QED BY <1>1, Invariance, PTL

\* The jobs, counted from the one the thread holds.
LEMMA JobsSeq ==
    ASSUME IInv
    PROVE  /\ ~Busy => Jobs = queue
           /\ Busy => /\ DOMAIN Jobs = 1..(Len(queue) + 1) /\ Jobs[1] = job
                      /\ \A k \in DOMAIN queue : Jobs[k + 1] = queue[k]
           /\ Len(queue) \in Nat /\ DOMAIN queue = 1..Len(queue)
  <1> USE DEF IInv, Inv
  <1>1. queue \in Seq(Job) /\ Len(queue) \in Nat /\ DOMAIN queue = 1..Len(queue)
    BY LenProperties DEF TypeOK
  <1>2. Busy <=> job # NoJob
    BY DEF Jobbed
  <1>3. CASE Busy
    <2>1. <<job>> \in Seq(Job) /\ Len(<<job>>) = 1 /\ <<job>>[1] = job
      BY <1>2, <1>3 DEF TypeOK
    <2>2. Jobs = <<job>> \o queue
      BY <1>2, <1>3 DEF Jobs
    <2>3. /\ Jobs \in Seq(Job) /\ Len(Jobs) = 1 + Len(queue)
          /\ \A k \in 1..(1 + Len(queue)) :
                Jobs[k] = IF k <= 1 THEN <<job>>[k] ELSE queue[k - 1]
      BY <1>1, <2>1, <2>2, ConcatProperties
    <2>4. DOMAIN Jobs = 1..(Len(queue) + 1)
      BY <1>1, <2>3, LenProperties
    <2>5. Jobs[1] = job
      BY <1>1, <2>1, <2>3
    <2>6. \A k \in DOMAIN queue : Jobs[k + 1] = queue[k]
      BY <1>1, <2>3
    <2> QED BY <1>1, <1>3, <2>4, <2>5, <2>6
  <1>4. CASE ~Busy
    BY <1>1, <1>2, <1>4 DEF Jobs
  <1> QED BY <1>3, <1>4

\* Every job that is owned is the one its owner waits for, and everybody who
\* waits has exactly one.
THEOREM JobsBelongHolds == Spec => []JobsBelong
  <1>1. ASSUME IInv
        PROVE  JobsBelong
    <2>1. TypeOK /\ Jobbed
      BY <1>1 DEF IInv, Inv
    <2>2. CASE ~Busy
      <3>1. Jobs = queue
        BY <1>1, <2>2, JobsSeq
      <3>2. \A k \in DOMAIN queue : Owned(queue[k])
        BY <2>1 DEF Jobbed
      <3>3. \A k \in DOMAIN queue : queue[k].for # Nobody =>
               conn[queue[k].for] = [pc |-> "waiting", url |-> queue[k].url]
        BY <3>2 DEF Owned
      <3>4. \A k, l \in DOMAIN queue : queue[k].for = queue[l].for /\ k # l => queue[k].for = Nobody
        BY <2>1 DEF Jobbed
      <3>5. \A c \in Conn : conn[c].pc = "waiting" => \E k \in DOMAIN queue : queue[k].for = c
        BY <2>1, <2>2 DEF Jobbed, Waits, HasJob
      <3> QED BY <2>1, <3>1, <3>3, <3>4, <3>5 DEF JobsBelong
    <2>3. CASE Busy
      <3>1. /\ DOMAIN Jobs = 1..(Len(queue) + 1) /\ Jobs[1] = job
            /\ \A k \in DOMAIN queue : Jobs[k + 1] = queue[k]
            /\ Len(queue) \in Nat /\ DOMAIN queue = 1..Len(queue)
        BY <1>1, <2>3, JobsSeq
      <3>2. \A i \in DOMAIN Jobs : \/ i = 1 /\ Jobs[i] = job
                                   \/ i - 1 \in DOMAIN queue /\ Jobs[i] = queue[i - 1]
        BY <3>1
      <3>3. /\ Owned(job)
            /\ \A k \in DOMAIN queue : Owned(queue[k])
        BY <2>1, <2>3 DEF Jobbed
      <3>4. \A i \in DOMAIN Jobs : Jobs[i].for # Nobody =>
               conn[Jobs[i].for] = [pc |-> "waiting", url |-> Jobs[i].url]
        BY <3>2, <3>3 DEF Owned
      <3>5. ASSUME NEW i \in DOMAIN Jobs, NEW j \in DOMAIN Jobs, Jobs[i].for = Jobs[j].for, i # j
            PROVE  Jobs[i].for = Nobody
        <4>1. \A k \in DOMAIN queue : queue[k].for = job.for => job.for = Nobody
          BY <2>1, <2>3 DEF Jobbed
        <4>2. CASE i = 1 \/ j = 1
          <5>1. PICK k \in DOMAIN queue : /\ {Jobs[i], Jobs[j]} = {job, queue[k]}
                                         /\ queue[k].for = job.for
            <6>1. CASE i = 1
              <7>1. j - 1 \in DOMAIN queue /\ Jobs[j] = queue[j - 1] /\ Jobs[i] = job
                BY <3>1, <3>2, <3>5, <6>1
              <7> QED BY <3>5, <7>1
            <6>2. CASE j = 1
              <7>1. i - 1 \in DOMAIN queue /\ Jobs[i] = queue[i - 1] /\ Jobs[j] = job
                BY <3>1, <3>2, <3>5, <6>2
              <7> QED BY <3>5, <7>1
            <6> QED BY <4>2, <6>1, <6>2
          <5>2. job.for = Nobody /\ queue[k].for = Nobody
            BY <4>1, <5>1
          <5>3. Jobs[i] = job \/ Jobs[i] = queue[k]
            BY <5>1
          <5> QED BY <5>2, <5>3
        <4>3. CASE i # 1 /\ j # 1
          <5>1. /\ i - 1 \in DOMAIN queue /\ Jobs[i] = queue[i - 1]
                /\ j - 1 \in DOMAIN queue /\ Jobs[j] = queue[j - 1]
            BY <3>2, <4>3
          <5>2. i - 1 # j - 1
            BY <3>1, <3>5
          <5>3. \A k, l \in DOMAIN queue :
                   queue[k].for = queue[l].for /\ k # l => queue[k].for = Nobody
            BY <2>1 DEF Jobbed
          <5> QED BY <3>5, <5>1, <5>2, <5>3
        <4> QED BY <4>2, <4>3
      <3>6. ASSUME NEW c \in Conn, conn[c].pc = "waiting"
            PROVE  \E i \in DOMAIN Jobs : Jobs[i].for = c
        <4>1. HasJob(c)
          BY <2>1, <3>6 DEF Jobbed, Waits
        <4>2. CASE job.for = c
          <5>1. 1 \in DOMAIN Jobs
            BY <3>1
          <5> QED BY <3>1, <4>2, <5>1
        <4>3. ASSUME NEW k \in DOMAIN queue, queue[k].for = c
              PROVE  \E i \in DOMAIN Jobs : Jobs[i].for = c
          <5>1. k + 1 \in DOMAIN Jobs
            BY <3>1
          <5> QED BY <3>1, <4>3, <5>1
        <4> QED BY <4>1, <4>2, <4>3 DEF HasJob
      <3> QED BY <2>1, <3>4, <3>5, <3>6 DEF JobsBelong
    <2> QED BY <2>2, <2>3
  <1> QED BY <1>1, Invariance, PTL

-----------------------------------------------------------------------------
\* A request that has asked the thread and is not answered yet; its time is up.
Asking(c) == conn[c].pc \in {"waiting", "replied"}
Due(c) == Asking(c) /\ wait[c] = ResolveTimeout

\* Where c's task can go on: its reply is there, or its timer has fired.
AnswerReady(c) == conn[c].pc = "replied" \/ (Waits(c) /\ Due(c))

\* The fairness of a request's task, with its guard written out.
AnswerGoesOn(c) == []<>~AnswerReady(c) \/ []<><<TakeReply(c) \/ TimeOut(c)>>_vars

\* Whatever anybody does, a request asks on, its wait grown by a tick of the clock
\* and by nothing else, or it is over.
LEMMA AskingStep ==
    ASSUME IInv, [Next]_vars, NEW c \in Conn, Asking(c)
    PROVE  /\ TakeReply(c) \/ TimeOut(c) => ~Asking(c)'
           /\ \/ ~Asking(c)'
              \/ IF Tick THEN ~Due(c) /\ wait'[c] = wait[c] + 1 ELSE wait'[c] = wait[c]
  <1> USE DEF IInv, Inv, Asking, Due
  <1>1. wait \in [Conn -> 0..ResolveTimeout] /\ conn \in [Conn -> ConnState]
    BY DEF TypeOK
  <1> DEFINE Same == conn'[c].pc = conn[c].pc /\ wait'[c] = wait[c]
             Replied == conn'[c].pc = "replied" /\ wait'[c] = wait[c]
  <1>2. Tick => /\ wait[c] < ResolveTimeout /\ wait'[c] = wait[c] + 1
                /\ conn'[c].pc = conn[c].pc
    <2> SUFFICES ASSUME Tick PROVE /\ wait[c] < ResolveTimeout /\ wait'[c] = wait[c] + 1
                                   /\ conn'[c].pc = conn[c].pc
      OBVIOUS
    <2>1. wait[c] < ResolveTimeout /\ wait'[c] = wait[c] + 1
      BY DEF Tick
    <2>2. conn'[c] = IF conn[c].pc = "replied"
                     THEN [conn[c] EXCEPT !.verdict.age = @ + 1] ELSE conn[c]
      BY DEF Tick
    <2>3. conn[c].pc = "replied"
            => conn[c] = [pc |-> "replied", url |-> conn[c].url, verdict |-> conn[c].verdict]
      BY TalkOf
    <2> QED BY <2>1, <2>2, <2>3
  <1>3. ASSUME NEW d \in Conn, TakeReply(d) \/ TimeOut(d) \/ Close(d)
        PROVE  IF d = c THEN ~Asking(c)' ELSE Same
    BY <1>1, <1>3 DEF TakeReply, TimeOut, Close, Answer, Away
  <1>4. ASSUME NEW d \in Conn, Accept(d) \/ \E url \in Url : AskCache(d, url) \/ AskThread(d, url)
        PROVE  Same
    <2>1. d # c
      BY <1>4 DEF Accept, AskCache, AskThread
    <2> QED BY <1>1, <1>4, <2>1 DEF Accept, AskCache, AskThread, Answer
  <1>5. ASSUME NEW result \in Decision \cup {Err}, Resolve(result)
        PROVE  Same \/ Replied
    <2>1. CASE job.for = c
      BY <1>1, <1>5, <2>1 DEF Resolve
    <2>2. CASE job.for # c
      BY <1>1, <1>5, <2>2 DEF Resolve
    <2> QED BY <2>1, <2>2
  <1>6. ASSUME Panics PROVE Same \/ Replied
    <2>1. wait' = wait /\ conn'[c] = IF conn[c].pc = "waiting"
                                      THEN [pc |-> "replied", url |-> conn[c].url,
                                            verdict |-> Failure(conn[c].url)]
                                      ELSE conn[c]
      BY <1>6 DEF Panics
    <2> QED BY <2>1
  <1>7. ASSUME Replace \/ (\E ok \in BOOLEAN : Build(ok)) \/ Recv \/ Ends \/ UNCHANGED vars
        PROVE  Same
    BY <1>7 DEF Replace, Build, Recv, Ends, vars
  <1>8. \/ ~Asking(c)' \/ Same \/ Replied
        \/ Tick
    BY <1>3, <1>4, <1>5, <1>6, <1>7 DEF Next, Thread
  <1>9. TakeReply(c) \/ TimeOut(c) => ~Asking(c)'
    BY <1>3
  <1>10. wait[c] \in 0..ResolveTimeout
    BY <1>1
  <1> QED BY <1>2, <1>8, <1>9, <1>10

\* No request waits longer than RESOLVE_TIMEOUT: its wait grows with the clock and
\* with nothing else, and once its time is up it is answered before the clock goes
\* on.  What remains is to count the ticks.
THEOREM DueIsAnswered ==
    ASSUME NEW c \in Conn
    PROVE  Spec =>
             /\ [][Asking(c) => \/ ~Asking(c)'
                                \/ IF Tick THEN ~Due(c) /\ wait'[c] = wait[c] + 1
                                   ELSE wait'[c] = wait[c]]_vars
             /\ AnswerGoesOn(c) => (Due(c) ~> ~Asking(c))
  <1>1. IInv /\ [Next]_vars
          => (Asking(c) => \/ ~Asking(c)'
                           \/ IF Tick THEN ~Due(c) /\ wait'[c] = wait[c] + 1
                              ELSE wait'[c] = wait[c])
    BY AskingStep
  <1>2. IInv /\ [Next]_vars /\ Due(c) => Due(c)' \/ ~Asking(c)'
    BY AskingStep DEF Due
  <1>3. IInv /\ Due(c) /\ <<TakeReply(c) \/ TimeOut(c)>>_vars => ~Asking(c)'
    BY DEF TakeReply, TimeOut, Answer, Asking, Due, IInv, Inv, TypeOK
  <1>4. Due(c) => AnswerReady(c) /\ Asking(c)
    BY DEF Due, Asking, AnswerReady, Waits
  <1>5. Spec => [][Asking(c) => \/ ~Asking(c)'
                                \/ IF Tick THEN ~Due(c) /\ wait'[c] = wait[c] + 1
                                   ELSE wait'[c] = wait[c]]_vars
    BY <1>1, Invariance, PTL DEF Spec
  <1>6. Spec /\ AnswerGoesOn(c) => (Due(c) ~> ~Asking(c))
    BY <1>2, <1>3, <1>4, Invariance, PTL DEF Spec, AnswerGoesOn
  <1> QED BY <1>5, <1>6

-----------------------------------------------------------------------------
\* Nobody holds the snapshot's router any more.
Released == ~handle /\ \A c \in Conn : conn[c].pc = "away"

\* Where the thread can go on: always, but for a call that does not return.
ThreadCanGo ==
    \/ thread \in {"building", "busy"}
    \/ thread = "idle" /\ (queue # <<>> \/ ~Senders)

\* Steps the thread may still take: two for each job, and its last.
ThreadLeft ==
    CASE thread = "gone" -> 0
      [] thread = "idle" -> 2 * Len(queue) + 1
      [] OTHER           -> 2 * Len(queue) + 2

\* A snapshot that nobody holds winds down: its thread can go on until it has
\* ended, each of its steps leaves fewer, and nobody gives it another job.
THEOREM SnapshotWindsDown ==
    Spec => /\ [](Released /\ thread # "gone" => ThreadCanGo)
            /\ [][Released => /\ Released'
                              /\ IF Thread \/ Panics THEN ThreadLeft' < ThreadLeft
                                 ELSE ThreadLeft' = ThreadLeft]_vars
  <1>1. IInv => (Released /\ thread # "gone" => ThreadCanGo)
    BY DEF IInv, Inv, TypeOK, Released, ThreadCanGo, Senders
  <1>2. ASSUME IInv, [Next]_vars, Released
        PROVE  /\ Released'
               /\ IF Thread \/ Panics THEN ThreadLeft' < ThreadLeft ELSE ThreadLeft' = ThreadLeft
    <2> USE <1>2 DEF IInv, Inv
    <2>1. /\ Len(queue) \in Nat /\ thread \in {"building", "idle", "busy", "gone"}
          /\ queue # <<>> => Len(Tail(queue)) = Len(queue) - 1 /\ Len(queue) > 0
      BY HeadTailProperties, EmptySeq, LenProperties DEF TypeOK
    <2>2. thread = "busy" => job.for = Nobody
      BY DEF Jobbed, Busy, Owned, Released, TypeOK, Job
    <2>3. ASSUME Thread \/ Panics
          PROVE  Released' /\ ThreadLeft' < ThreadLeft
      <3>1. UNCHANGED handle
        BY <2>3 DEF Thread, Build, Recv, Resolve, Ends, Panics, serverVars
      <3>2. Released'
        BY <2>2, <2>3, <3>1
           DEF Thread, Build, Recv, Resolve, Ends, Panics, Released
      <3>3. \/ /\ thread = "building" /\ thread' = "idle" /\ queue' = queue
            \/ /\ thread = "idle" /\ thread' = "busy" /\ queue # <<>> /\ queue' = Tail(queue)
            \/ /\ thread = "busy" /\ thread' = "idle" /\ queue' = queue
            \/ /\ thread # "gone" /\ thread' = "gone"
        BY <2>3 DEF Thread, Build, Recv, Resolve, Ends, Panics
      <3> QED BY <2>1, <3>2, <3>3 DEF ThreadLeft
    <2>4. ASSUME ~(Thread \/ Panics)
          PROVE  Released' /\ ThreadLeft' = ThreadLeft
      <3>1. CASE Tick
        <4>1. UNCHANGED <<handle, thread, queue>>
          BY <3>1 DEF Tick, serverVars, threadVars
        <4>2. \A c \in Conn : conn'[c].pc = "away"
          BY <3>1 DEF Tick, Released
        <4> QED BY <4>1, <4>2 DEF Released, ThreadLeft
      <3>2. CASE UNCHANGED vars
        BY <3>2 DEF vars, serverVars, threadVars, Released, ThreadLeft
      <3>3. ASSUME NEW c \in Conn,
                   \/ Accept(c) \/ TakeReply(c) \/ TimeOut(c) \/ Close(c)
                   \/ \E url \in Url : AskCache(c, url) \/ AskThread(c, url)
            PROVE  FALSE
        BY <3>3 DEF Accept, TakeReply, TimeOut, Close, AskCache, AskThread, Released
      <3> QED BY <2>4, <3>1, <3>2, <3>3 DEF Next, Replace, Released
    <2> QED BY <2>3, <2>4
  <1>3. IInv /\ [Next]_vars
          => [Released => /\ Released'
                          /\ IF Thread \/ Panics THEN ThreadLeft' < ThreadLeft
                             ELSE ThreadLeft' = ThreadLeft]_vars
    BY <1>2
  <1> QED BY <1>1, <1>3, Invariance, PTL DEF Spec
=============================================================================
