------------------------------ MODULE PacRouter ------------------------------
(***************************************************************************)
(* PAC routing for one routing snapshot (apps/zicade/src/pac_router.rs):   *)
(* the closure every request asks for its route, the decision cache, the   *)
(* thread that owns the WinHTTP backend and answers one job at a time, and *)
(* the snapshot's socket pools (UpstreamPools, upstream/pool.rs).          *)
(*                                                                         *)
(* A client connection asks for one request at a time and holds the        *)
(* closure as long as it lives.  The job channel is unbounded in the code. *)
(***************************************************************************)
EXTENDS Naturals, Sequences, FiniteSets

CONSTANTS
    Conn,            \* client connections
    Host, Path,      \* a URL is a host and a path (CONNECT has only one path)
    Proxy,           \* upstream host:port pairs the PAC script may name
    Direct,          \* the PAC answer DIRECT, and the choice to go direct
    Err,             \* an error, from the backend or for the request (502)
    Nobody,          \* the owner of a job whose request has gone
    NoJob,           \* the thread holds no job
    ResolveTimeout,  \* RESOLVE_TIMEOUT, in clock ticks
    CacheTtl,        \* CACHE_TTL, in clock ticks
    CacheMaxEntries, \* CACHE_MAX_ENTRIES
    MaxUpstreams,    \* UpstreamPools::MAX_UPSTREAMS
    MaxQueue         \* bound: jobs in the channel

ASSUME PacAssumption ==
    /\ ResolveTimeout \in Nat \ {0} /\ CacheTtl \in Nat \ {0}
    /\ CacheMaxEntries \in Nat \ {0} /\ MaxUpstreams \in Nat
    /\ MaxQueue \in Nat
    /\ Nobody \notin Conn
    /\ NoJob \notin [url : Host \X Path, for : Conn \cup {Nobody}]
    /\ Direct \notin Proxy /\ Err \notin Proxy /\ Direct # Err

VARIABLES
    policy,   \* routing.pac.failPolicy
    handle,   \* the RoutingHandle still holds this snapshot
    conn,     \* what each connection is doing
    wait,     \* ticks a request has waited for its reply
    cache,    \* PacCache::entries: the decisions by URL
    pools,    \* UpstreamPools::pools, the upstreams that have one
    queue,    \* the job channel
    thread,   \* what the resolver thread is doing
    job,      \* the job it holds
    broken    \* build_backend failed

serverVars == <<policy, handle>>
threadVars == <<queue, thread, job, broken>>
vars == <<serverVars, conn, wait, cache, pools, threadVars>>

Url == Host \X Path
Decision == Proxy \cup {Direct}

\* Ages stop counting here.
OldestAge == CacheTtl + ResolveTimeout

\* What the backend said; which URL it was asked for and how many ticks ago
\* are history.
Verdict == [result : Decision \cup {Err}, asked : Url, age : 0..OldestAge]

Away == [pc |-> "away"]
Ready == [pc |-> "ready"]

-----------------------------------------------------------------------------
\* Mutant: an expired entry is still served.
IgnoreTtl(url) == url \in DOMAIN cache

\* PacCache::get: a decision younger than the TTL.
Hit(url) == url \in DOMAIN cache /\ cache[url].stored < CacheTtl

\* PacCache::put: a full cache is emptied first, whatever it is full of.
Put(url, verdict) ==
    LET kept == IF Cardinality(DOMAIN cache) >= CacheMaxEntries THEN {} ELSE DOMAIN cache IN
    [u \in kept \cup {url} |->
        IF u = url THEN [verdict |-> verdict, stored |-> 0] ELSE cache[u]]

\* UpstreamPools::get: a new upstream gets a pool below the cap.
GetPool(p) == IF Cardinality(pools) >= MaxUpstreams THEN pools ELSE pools \cup {p}

\* to_route_choice: what the PAC answer, or the fail policy, makes of it.
ToRouteChoice(result) ==
    IF result = Err /\ policy = "direct" THEN Direct ELSE result

\* The request has its route: with_pool gives an upstream its pool.
Answer(c, url, verdict, from) ==
    LET choice == ToRouteChoice(verdict.result) IN
    /\ conn' = [conn EXCEPT ![c] = [pc |-> "answered", url |-> url, choice |-> choice,
                                     verdict |-> verdict, from |-> from]]
    /\ wait' = [wait EXCEPT ![c] = 0]
    /\ pools' = IF choice \in Proxy THEN GetPool(choice) ELSE pools

\* An error that is not the backend's.
Failure(url) == [result |-> Err, asked |-> url, age |-> 0]

\* Mutant: the job of a request that has gone stays its connection's.
KeepOwner(c, q) == q

\* The receiver of c's reply is dropped: nobody waits for its job any more.
Abandon(c, q) ==
    [i \in DOMAIN q |-> IF q[i].for = c THEN [q[i] EXCEPT !.for = Nobody] ELSE q[i]]

\* The same for the job the thread holds.
AbandonHeld(c) == Abandon(c, <<job>>)[1]

-----------------------------------------------------------------------------
(***************************************************************************)
(* Requests: the router closure and resolve_via_thread.                    *)
(***************************************************************************)
Accept(c) ==
    /\ handle /\ conn[c].pc = "away"
    /\ conn' = [conn EXCEPT ![c] = Ready]
    /\ UNCHANGED <<serverVars, wait, cache, pools, threadVars>>

\* A cached decision answers the request on the spot.
AskCache(c, url) ==
    /\ conn[c].pc \in {"ready", "answered"}
    /\ Hit(url)
    /\ Answer(c, url, cache[url].verdict, "cache")
    /\ UNCHANGED <<serverVars, cache, threadVars>>

\* Anything else is sent to the thread, or fails if there is none any more.
AskThread(c, url) ==
    /\ conn[c].pc \in {"ready", "answered"}
    /\ ~Hit(url)
    /\ \/ /\ thread # "gone"
          /\ Len(queue) < MaxQueue
          /\ queue' = Append(queue, [url |-> url, for |-> c])
          /\ conn' = [conn EXCEPT ![c] = [pc |-> "waiting", url |-> url]]
          /\ UNCHANGED <<wait, pools>>
       \/ /\ thread = "gone"
          /\ Answer(c, url, Failure(url), "thread")
          /\ UNCHANGED queue
    /\ UNCHANGED <<serverVars, cache, thread, job, broken>>

\* Mutant: errors are cached as well.
CacheErrorsToo(c) ==
    /\ conn[c].pc = "replied"
    /\ cache' = Put(conn[c].url, conn[c].verdict)
    /\ Answer(c, conn[c].url, conn[c].verdict, "thread")
    /\ UNCHANGED <<serverVars, threadVars>>

\* The reply is there: a decision is cached, an error is not.
TakeReply(c) ==
    /\ conn[c].pc = "replied"
    /\ cache' = IF conn[c].verdict.result = Err THEN cache
                ELSE Put(conn[c].url, conn[c].verdict)
    /\ Answer(c, conn[c].url, conn[c].verdict, "thread")
    /\ UNCHANGED <<serverVars, threadVars>>

\* Mutant: the request waits for the thread however long it takes.
NoTimeout(c) == FALSE /\ UNCHANGED vars

\* RESOLVE_TIMEOUT passes without a reply.
TimeOut(c) ==
    /\ conn[c].pc = "waiting" /\ wait[c] = ResolveTimeout
    /\ queue' = Abandon(c, queue)
    /\ job' = IF job = NoJob THEN job ELSE AbandonHeld(c)
    /\ Answer(c, conn[c].url, Failure(conn[c].url), "thread")
    /\ UNCHANGED <<serverVars, cache, thread, broken>>

\* The client goes away, in the middle of a request or not; so does its
\* connection's task with the closure.
Close(c) ==
    /\ conn[c].pc # "away"
    /\ conn' = [conn EXCEPT ![c] = Away]
    /\ wait' = [wait EXCEPT ![c] = 0]
    /\ queue' = Abandon(c, queue)
    /\ job' = IF job = NoJob THEN job ELSE AbandonHeld(c)
    /\ UNCHANGED <<serverVars, cache, pools, thread, broken>>

\* A config apply or a network change installs another routing.
Replace ==
    /\ handle
    /\ handle' = FALSE
    /\ UNCHANGED <<policy, conn, wait, cache, pools, threadVars>>

-----------------------------------------------------------------------------
(***************************************************************************)
(* The resolver thread (spawn_resolver).                                   *)
(***************************************************************************)

\* build_backend, successful or not.
Build(ok) ==
    /\ thread = "building"
    /\ thread' = "idle"
    /\ broken' = ~ok
    /\ UNCHANGED <<serverVars, conn, wait, cache, pools, queue, job>>

\* blocking_recv returns the oldest job, wanted or not.
Recv ==
    /\ thread = "idle" /\ queue # <<>>
    /\ thread' = "busy"
    /\ job' = Head(queue)
    /\ queue' = Tail(queue)
    /\ UNCHANGED <<serverVars, conn, wait, cache, pools, broken>>

\* The backend answers; the reply reaches the request if it still waits.
Resolve(result) ==
    /\ thread = "busy"
    /\ broken => result = Err
    /\ conn' = IF job.for = Nobody THEN conn
               ELSE [conn EXCEPT ![job.for] =
                        [pc |-> "replied", url |-> @.url,
                         verdict |-> [result |-> result, asked |-> job.url, age |-> 0]]]
    /\ thread' = "idle"
    /\ job' = NoJob
    /\ UNCHANGED <<serverVars, wait, cache, pools, queue, broken>>

\* The closure is held by the handle and by every connection.
Senders == handle \/ \E c \in Conn : conn[c].pc # "away"

\* The channel is closed and empty: the thread ends.
Ends ==
    /\ thread = "idle" /\ queue = <<>> /\ ~Senders
    /\ thread' = "gone"
    /\ UNCHANGED <<serverVars, conn, wait, cache, pools, queue, job, broken>>

\* The thread panics in the backend: every waiting request finds its reply's
\* sender dropped.
Panics ==
    /\ thread = "busy"
    /\ thread' = "gone"
    /\ queue' = <<>>
    /\ job' = NoJob
    /\ conn' = [c \in Conn |-> IF conn[c].pc = "waiting"
                               THEN [pc |-> "replied", url |-> conn[c].url,
                                     verdict |-> Failure(conn[c].url)]
                               ELSE conn[c]]
    /\ UNCHANGED <<serverVars, wait, cache, pools, broken>>

\* A tick of the clock.  A request whose time is up is answered before it.
Tick ==
    /\ \A c \in Conn : conn[c].pc \in {"waiting", "replied"} => wait[c] < ResolveTimeout
    /\ wait' = [c \in Conn |->
                   IF conn[c].pc \in {"waiting", "replied"} THEN wait[c] + 1 ELSE wait[c]]
    /\ conn' = [c \in Conn |-> IF conn[c].pc = "replied" THEN [conn[c] EXCEPT !.verdict.age = @ + 1]
                               ELSE conn[c]]
    /\ cache' = [u \in DOMAIN cache |->
                    [cache[u] EXCEPT !.stored = IF @ < CacheTtl THEN @ + 1 ELSE @,
                                     !.verdict.age = IF @ < OldestAge THEN @ + 1 ELSE @]]
    /\ UNCHANGED <<serverVars, pools, threadVars>>

-----------------------------------------------------------------------------
Init ==
    /\ policy \in {"direct", "error"}
    /\ handle = TRUE
    /\ conn = [c \in Conn |-> Away]
    /\ wait = [c \in Conn |-> 0]
    /\ cache = <<>>
    /\ pools = {}
    /\ queue = <<>>
    /\ thread = "building"
    /\ job = NoJob
    /\ broken = FALSE

Thread == (\E ok \in BOOLEAN : Build(ok)) \/ Recv \/ (\E d \in Decision \cup {Err} : Resolve(d)) \/ Ends

Next ==
    \/ \E c \in Conn : Accept(c) \/ TakeReply(c) \/ TimeOut(c) \/ Close(c)
    \/ \E c \in Conn, url \in Url : AskCache(c, url) \/ AskThread(c, url)
    \/ Replace \/ Thread \/ Panics \/ Tick

Spec == Init /\ [][Next]_vars

\* The runtime polls a request that can go on and the clock runs.  Nothing is
\* assumed of the thread: a WinHTTP call may never return.
FairSpec == Spec /\ WF_vars(Tick) /\ \A c \in Conn : WF_vars(TakeReply(c) \/ TimeOut(c))

-----------------------------------------------------------------------------
ConnState ==
    {Away, Ready}
    \cup [pc : {"waiting"}, url : Url]
    \cup [pc : {"replied"}, url : Url, verdict : Verdict]
    \cup [pc : {"answered"}, url : Url, choice : Decision \cup {Err}, verdict : Verdict,
          from : {"cache", "thread"}]

Entry == [verdict : Verdict, stored : 0..CacheTtl]

Job == [url : Url, for : Conn \cup {Nobody}]

\* Every variable keeps its type, and the cache and the pools their bounds.
TypeOK ==
    /\ policy \in {"direct", "error"}
    /\ handle \in BOOLEAN
    /\ conn \in [Conn -> ConnState]
    /\ wait \in [Conn -> 0..ResolveTimeout]
    /\ DOMAIN cache \subseteq Url
    /\ \A u \in DOMAIN cache : cache[u] \in Entry
    /\ Cardinality(DOMAIN cache) <= CacheMaxEntries
    /\ pools \subseteq Proxy /\ Cardinality(pools) <= MaxUpstreams
    /\ queue \in Seq(Job)
    /\ thread \in {"building", "idle", "busy", "gone"}
    /\ job \in Job \cup {NoJob}
    /\ broken \in BOOLEAN

Answered(c) == conn[c].pc = "answered"

\* A request is routed as the PAC backend decided for its own URL; only an
\* error of this very request leaves it to the fail policy.  With failPolicy =
\* "error", traffic never goes DIRECT or to an upstream without a PAC answer
\* that says so, whatever timed out, was cached or came late (to_route_choice).
RoutedAsDecided ==
    \A c \in Conn : Answered(c) =>
        LET v == conn[c].verdict IN
        /\ v.asked = conn[c].url
        /\ IF v.result # Err THEN conn[c].choice = v.result
           ELSE /\ conn[c].from = "thread"
                /\ conn[c].choice = IF policy = "direct" THEN Direct ELSE Err

\* No decision older than CACHE_TTL and one RESOLVE_TIMEOUT routes a request,
\* although the cache counts from the moment the reply was taken.
DecisionsAreRecent ==
    \A c \in Conn : Answered(c) => conn[c].verdict.age < OldestAge

\* The jobs in the channel and in the thread's hands, in order.
Jobs == IF job = NoJob THEN queue ELSE <<job>> \o queue

\* A reply can only reach the request that asked: every job that is owned is
\* the one its owner waits for, and no request owns two.  Timeouts, closed
\* connections and new requests on the same connection do not confuse them.
\* (And every variable has its type.)
JobsBelong ==
    /\ TypeOK
    /\ \A i \in DOMAIN Jobs : Jobs[i].for # Nobody =>
          conn[Jobs[i].for] = [pc |-> "waiting", url |-> Jobs[i].url]
    /\ \A i, j \in DOMAIN Jobs : Jobs[i].for = Jobs[j].for /\ i # j => Jobs[i].for = Nobody
    /\ \A c \in Conn : conn[c].pc = "waiting" => \E i \in DOMAIN Jobs : Jobs[i].for = c

\* A wedged WinHTTP call never parks a request (RESOLVE_TIMEOUT's comment), and
\* a snapshot nobody holds any more ends its thread, backlog and all, if its
\* backend's calls return.
NothingIsStuck ==
    /\ \A c \in Conn : conn[c].pc = "waiting" ~> conn[c].pc # "waiting"
    /\ WF_vars(Thread) => ((~handle /\ \A c \in Conn : conn[c].pc = "away") ~> thread = "gone")
=============================================================================
