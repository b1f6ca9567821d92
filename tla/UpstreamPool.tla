---------------------------- MODULE UpstreamPool ----------------------------
(***************************************************************************)
(* One prewarmed-socket pool of a routing snapshot                         *)
(* (zicade-proxy/src/upstream/pool.rs) and the background task that keeps  *)
(* it at its watermark (pool/prewarm.rs), run against client connections   *)
(* that take sockets, a gateway that closes or writes to parked ones, and  *)
(* the routing being replaced while all of them are at work.               *)
(*                                                                         *)
(* The pool lives as long as somebody holds an Arc of it: the routing      *)
(* handle, every accepted client connection (each cloned the routing when  *)
(* it was accepted), and, for one step at a time, the prewarm task, which  *)
(* upgrades its Weak.  The idle list is ordered by `since`, so it is a set *)
(* of sockets with an age: pop_back is "the youngest".                     *)
(***************************************************************************)
EXTENDS Integers, FiniteSets

CONSTANTS
    Sock,         \* sockets to the upstream; a closed one's name is used again
    Conn,         \* client connections that were accepted with this snapshot
    Handle,       \* the RoutingHandle, as a holder of the pool
    Task,         \* the prewarm task, as a holder of the pool
    NoSock,       \* no socket
    MinIdle,      \* PoolConfig::min_idle, the watermark
    IdleTimeout,  \* PoolConfig::idle_timeout, in clock ticks
    FirstDelay,   \* Backoff::FIRST
    MaxDelay      \* Backoff::MAX

ASSUME PoolAssumption ==
    /\ IsFiniteSet(Sock)
    /\ NoSock \notin Sock
    /\ Handle \notin Conn /\ Task \notin Conn /\ Handle # Task
    /\ MinIdle \in Nat \ {0}
    /\ IdleTimeout \in Nat \ {0}
    /\ FirstDelay \in Nat \ {0}
    /\ MaxDelay \in Nat
    /\ FirstDelay <= MaxDelay

VARIABLES
    holders,     \* who holds an Arc<UpstreamPool>
    idle,        \* UpstreamPool::idle, the parked sockets
    age,         \* ticks since Idle::since, for parked sockets
    disturbed,   \* parked sockets the gateway closed or wrote to
    permit,      \* the stored permit of UpstreamPool::wake (a tokio Notify)
    conn,        \* what each client connection is doing
    got,         \* the socket `take` returned to a connection
    pc,          \* where the prewarm task is
    fresh,       \* the socket the task has just dialed
    next,        \* Backoff::next
    aborted,     \* the task's abort handle was triggered by the pool's Drop
    unpaced,     \* history: dials begun since the task last paused, less the
                 \* sockets that left the pool by a take, by expiry or with it
    orphanDials  \* history: dials begun while only the task could hold the pool

poolVars == <<holders, idle, age, disturbed>>
connVars == <<conn, got>>
taskVars == <<pc, fresh, next>>
history == <<unpaced, orphanDials>>
vars == <<poolVars, connVars, taskVars, permit, aborted, history>>

\* orphanDials stops counting here: two is already one too many.
DialCountCap == 2

ConnState == {"away", "ready", "taking", "popped", "using"}

\* Where the task may be suspended at an await, and so be cancelled.
AwaitPoint == {"full", "pause", "dialing", "retry"}
TaskState == AwaitPoint \cup
             {"unborn", "top", "refresh", "dial", "dialed", "put", "ended"}

-----------------------------------------------------------------------------
\* A dial has begun and its socket is neither parked nor given up yet.
InFlight == IF pc \in {"dialing", "dialed", "put"} THEN 1 ELSE 0

\* Everybody but the task that keeps the pool alive.
Outside == holders \ {Task}

\* Sockets in use by nobody: a dial may yield any of them.
Free == Sock \ (idle \cup {fresh} \cup {got[c] : c \in Conn})

\* `usable`: young enough, still open and silent.
Usable(s) == age[s] < IdleTimeout /\ s \notin disturbed

\* The youngest of a set of parked sockets.
Youngest(S) == {s \in S : \A t \in S : age[s] <= age[t]}

\* Time passes for every parked socket; ages past the timeout are all alike.
Older == [s \in Sock |-> IF s \notin idle THEN 0
                         ELSE IF age[s] < IdleTimeout THEN age[s] + 1 ELSE age[s]]

\* Mutant: the socket handed out stays in the list.
PeekInstead(s) == {t \in idle : age[t] >= age[s]}

\* What is left when s is popped: the sockets older than it.
Below(s) == {t \in idle : age[t] >= age[s]} \ {s}

\* Mutants: off by one, either way.
FullOneLate(kept) == Cardinality(kept) > MinIdle
FullOneEarly(kept) == Cardinality(kept) + 1 >= MinIdle

\* The pool is at its watermark with these sockets (`refresh`).
IsFull(kept) == Cardinality(kept) >= MinIdle

\* Mutant: sockets the gateway closed do not count.
NeverBackOff(young, kept) == FALSE

\* `closed_by_peer > 0`: the second retain dropped some of the young sockets.
ClosedByPeer(young, kept) == kept # young

\* `Backoff::next_delay`: the delay after this one.
NextDelay == IF 2 * next < MaxDelay THEN 2 * next ELSE MaxDelay

CountDial(n) == IF n < DialCountCap THEN n + 1 ELSE n

\* Mutant: the task keeps its Arc across awaits.
TaskKeepsArc(h, parked) ==
    /\ holders' = IF h = Task THEN holders ELSE holders \ {h}
    /\ IF holders \subseteq {h} /\ h # Task
       THEN /\ idle' = {}
            /\ aborted' = (pc # "unborn")
       ELSE /\ idle' = parked
            /\ UNCHANGED aborted

\* Mutant: the idle sockets outlive the pool.
NothingCloses(h, parked) ==
    /\ holders' = holders \ {h}
    /\ idle' = parked
    /\ aborted' = (aborted \/ (holders \subseteq {h} /\ pc # "unborn"))

\* h gives its Arc back, leaving `parked` in the idle list.  The last one out
\* runs Drop: the idle sockets close with the list and the task is aborted.
Release(h, parked) ==
    /\ holders' = holders \ {h}
    /\ IF holders \subseteq {h}
       THEN /\ idle' = {}
            /\ aborted' = (pc # "unborn")
       ELSE /\ idle' = parked
            /\ UNCHANGED aborted

\* How far the parked sockets that go with a last release lower `unpaced`.
ClosedWith(h, parked) == IF holders \subseteq {h} THEN Cardinality(parked) ELSE 0

-----------------------------------------------------------------------------
(***************************************************************************)
(* Holders: the server accepts and ends connections, the routing is        *)
(* replaced.                                                               *)
(***************************************************************************)

\* An accepted connection clones the current routing, and the Arc with it.
Accept(c) ==
    /\ conn[c] = "away"
    /\ Handle \in holders
    /\ holders' = holders \cup {c}
    /\ conn' = [conn EXCEPT ![c] = "ready"]
    /\ UNCHANGED <<idle, age, disturbed, got, taskVars, permit, aborted, history>>

\* A connection ends: between requests, or dropped while it uses a socket.
Close(c) ==
    /\ conn[c] \in {"ready", "using"}
    /\ conn' = [conn EXCEPT ![c] = "away"]
    /\ got' = [got EXCEPT ![c] = NoSock]
    /\ Release(c, idle)
    /\ unpaced' = unpaced - ClosedWith(c, idle)
    /\ UNCHANGED <<age, disturbed, taskVars, permit, orphanDials>>

\* RoutingHandle::set installs another snapshot and drops this one.
Replace ==
    /\ Handle \in holders
    /\ Release(Handle, idle)
    /\ unpaced' = unpaced - ClosedWith(Handle, idle)
    /\ UNCHANGED <<age, disturbed, connVars, taskVars, permit, orphanDials>>

-----------------------------------------------------------------------------
(***************************************************************************)
(* `take`, one step per lock or wake-up it performs.                       *)
(***************************************************************************)

\* start_prewarm: the OnceLock spawns the task on the first take only.
StartPrewarm(c) ==
    /\ conn[c] = "ready"
    /\ conn' = [conn EXCEPT ![c] = "taking"]
    /\ pc' = IF pc = "unborn" THEN "top" ELSE pc
    /\ UNCHANGED <<poolVars, got, fresh, next, permit, aborted, history>>

\* take_idle: pop from the young end, closing unusable sockets on the way.
TakeIdle(c) ==
    /\ conn[c] = "taking"
    /\ conn' = [conn EXCEPT ![c] = "popped"]
    /\ LET usable == {s \in idle : Usable(s)} IN
       \/ /\ usable = {}
          /\ got' = [got EXCEPT ![c] = NoSock]
          /\ idle' = {}
       \/ \E s \in Youngest(usable) :
             /\ got' = [got EXCEPT ![c] = s]
             /\ idle' = Below(s)
    /\ unpaced' = unpaced - (Cardinality(idle) - Cardinality(idle'))
    /\ UNCHANGED <<holders, age, disturbed, taskVars, permit, aborted, orphanDials>>

\* Mutant: the wake-up is forgotten.
NoNotify(c) ==
    /\ conn[c] = "popped"
    /\ conn' = [conn EXCEPT ![c] = "using"]
    /\ UNCHANGED <<poolVars, got, taskVars, permit, aborted, history>>

\* wake.notify_one(), after the pop.
Notify(c) ==
    /\ conn[c] = "popped"
    /\ permit' = TRUE
    /\ conn' = [conn EXCEPT ![c] = "using"]
    /\ UNCHANGED <<poolVars, got, taskVars, aborted, history>>

\* The CONNECT failed: the socket is closed, the client may ask again.
Finish(c) ==
    /\ conn[c] = "using"
    /\ conn' = [conn EXCEPT ![c] = "ready"]
    /\ got' = [got EXCEPT ![c] = NoSock]
    /\ UNCHANGED <<poolVars, taskVars, permit, aborted, history>>

-----------------------------------------------------------------------------
(***************************************************************************)
(* The prewarm task, `run`.  It upgrades its Weak, works, and gives the    *)
(* Arc back before its next await.                                         *)
(***************************************************************************)

\* pool.upgrade() at the top of the loop; None ends the task.
Upgrade ==
    /\ pc = "top"
    /\ \/ /\ holders # {}
          /\ holders' = holders \cup {Task}
          /\ pc' = "refresh"
       \/ /\ holders = {}
          /\ pc' = "ended"
          /\ UNCHANGED holders
    /\ UNCHANGED <<idle, age, disturbed, connVars, fresh, next, permit, aborted, history>>

\* refresh: close expired sockets, then those the gateway touched; a full pool
\* resets the backoff and waits, a gateway that closes sockets is backed off from.
Refresh ==
    /\ pc = "refresh"
    /\ LET young == {s \in idle : age[s] < IdleTimeout}
           kept == young \ disturbed
           full == IsFull(kept)
           closedByPeer == ClosedByPeer(young, kept)
           expired == Cardinality(idle) - Cardinality(young)
       IN  /\ Release(Task, kept)
           /\ \/ /\ full
                 /\ pc' = "full"
                 /\ next' = FirstDelay
                 /\ unpaced' = 0
              \/ /\ ~full /\ closedByPeer
                 /\ pc' = "pause"
                 /\ next' = NextDelay
                 /\ unpaced' = 0
              \/ /\ ~full /\ ~closedByPeer
                 /\ pc' = "dial"
                 /\ next' = next
                 /\ unpaced' = unpaced - expired - ClosedWith(Task, kept)
    /\ UNCHANGED <<age, disturbed, connVars, fresh, permit, orphanDials>>

\* The wait on a full pool ends with a permit, which it consumes, or with the
\* timeout, which leaves the permit alone.
WakeUp ==
    /\ pc = "full" /\ ~aborted
    /\ \/ permit /\ permit' = FALSE
       \/ UNCHANGED permit
    /\ pc' = "top"
    /\ UNCHANGED <<poolVars, connVars, fresh, next, aborted, history>>

\* The backoff after closed sockets is over: go on to the dial.
PauseOver ==
    /\ pc = "pause" /\ ~aborted
    /\ pc' = "dial"
    /\ UNCHANGED <<poolVars, connVars, fresh, next, permit, aborted, history>>

\* TcpStream::connect is called.
StartDial ==
    /\ pc = "dial"
    /\ pc' = "dialing"
    /\ unpaced' = unpaced + 1
    /\ orphanDials' = IF Outside = {} THEN CountDial(orphanDials) ELSE orphanDials
    /\ UNCHANGED <<poolVars, connVars, fresh, next, permit, aborted>>

\* The dial succeeds; it took at least a tick.
DialOk ==
    /\ pc = "dialing" /\ ~aborted
    /\ fresh' \in Free
    /\ disturbed' = disturbed \cap idle
    /\ pc' = "dialed"
    /\ age' = Older
    /\ UNCHANGED <<holders, idle, connVars, next, permit, aborted, history>>

\* The dial is refused or runs into DIAL_TIMEOUT: back off.
DialErr ==
    /\ pc = "dialing" /\ ~aborted
    /\ pc' = "retry"
    /\ next' = NextDelay
    /\ unpaced' = 0
    /\ UNCHANGED <<poolVars, connVars, fresh, permit, aborted, orphanDials>>

\* The backoff after a failed dial is over: look at the pool again.
RetryOver ==
    /\ pc = "retry" /\ ~aborted
    /\ pc' = "top"
    /\ UNCHANGED <<poolVars, connVars, fresh, next, permit, aborted, history>>

\* pool.upgrade() after the dial; None closes the socket and ends the task.
UpgradeDialed ==
    /\ pc = "dialed"
    /\ \/ /\ holders # {}
          /\ holders' = holders \cup {Task}
          /\ pc' = "put"
          /\ UNCHANGED fresh
       \/ /\ holders = {}
          /\ pc' = "ended"
          /\ fresh' = NoSock
          /\ UNCHANGED holders
    /\ UNCHANGED <<idle, age, disturbed, connVars, next, permit, aborted, history>>

\* put: park the socket below the watermark, close it otherwise.
Put ==
    /\ pc = "put"
    /\ LET room == Cardinality(idle) < MinIdle
           parked == IF room THEN idle \cup {fresh} ELSE idle
       IN  /\ Release(Task, parked)
           /\ age' = IF room THEN [age EXCEPT ![fresh] = 0] ELSE age
           /\ unpaced' = unpaced - ClosedWith(Task, parked)
    /\ fresh' = NoSock
    /\ pc' = "top"
    /\ UNCHANGED <<disturbed, connVars, next, permit, orphanDials>>

\* The abort reaches the task at an await: its future, and a dial in progress,
\* are dropped.
Abort ==
    /\ aborted
    /\ pc \in AwaitPoint
    /\ pc' = "ended"
    /\ UNCHANGED <<poolVars, connVars, fresh, next, permit, aborted, history>>

-----------------------------------------------------------------------------
(***************************************************************************)
(* The gateway and the clock.                                              *)
(***************************************************************************)

\* The gateway closes a parked socket, or writes to it.
GatewayActs(s) ==
    /\ s \in idle /\ s \notin disturbed
    /\ disturbed' = disturbed \cup {s}
    /\ UNCHANGED <<holders, idle, age, connVars, taskVars, permit, aborted, history>>

\* Time passes.
Tick ==
    /\ \E s \in idle : age[s] < IdleTimeout
    /\ age' = Older
    /\ UNCHANGED <<holders, idle, disturbed, connVars, taskVars, permit, aborted, history>>

-----------------------------------------------------------------------------
Init ==
    /\ holders = {Handle}
    /\ idle = {}
    /\ age = [s \in Sock |-> 0]
    /\ disturbed = {}
    /\ permit = FALSE
    /\ conn = [c \in Conn |-> "away"]
    /\ got = [c \in Conn |-> NoSock]
    /\ pc = "unborn"
    /\ fresh = NoSock
    /\ next = FirstDelay
    /\ aborted = FALSE
    /\ unpaced = 0
    /\ orphanDials = 0

Client(c) ==
    \/ Accept(c) \/ Close(c) \/ StartPrewarm(c)
    \/ TakeIdle(c) \/ Notify(c) \/ Finish(c)

\* The task's own steps, all but the outcome of a dial.
TaskStep ==
    \/ Upgrade \/ Refresh \/ WakeUp \/ PauseOver \/ StartDial
    \/ RetryOver \/ UpgradeDialed \/ Put \/ Abort

Next ==
    \/ \E c \in Conn : Client(c)
    \/ Replace
    \/ TaskStep \/ DialOk \/ DialErr
    \/ \E s \in Sock : GatewayActs(s)
    \/ Tick

Spec == Init /\ [][Next]_vars

\* The runtime keeps polling the task, its timers fire, a dial is answered or
\* times out, and a take in progress (no await inside it) runs to its end.
Fairness ==
    /\ WF_vars(TaskStep)
    /\ WF_vars(DialOk \/ DialErr)
    /\ \A c \in Conn : WF_vars(TakeIdle(c) \/ Notify(c))

FairSpec == Spec /\ Fairness
-----------------------------------------------------------------------------
(***************************************************************************)
(* Properties.                                                             *)
(***************************************************************************)

\* Every variable keeps the type the code gives it; `next` stays within
\* Backoff's bounds.
TypeOK ==
    /\ holders \subseteq Conn \cup {Handle, Task}
    /\ idle \subseteq Sock
    /\ age \in [Sock -> 0..IdleTimeout]
    /\ disturbed \subseteq Sock
    /\ permit \in BOOLEAN
    /\ conn \in [Conn -> ConnState]
    /\ got \in [Conn -> Sock \cup {NoSock}]
    /\ pc \in TaskState
    /\ fresh \in Sock \cup {NoSock}
    /\ next \in FirstDelay..MaxDelay
    /\ aborted \in BOOLEAN
    /\ unpaced \in Int
    /\ orphanDials \in 0..DialCountCap

\* The parked sockets and the one being dialed never exceed min_idle together:
\* the gateway never sees more spare connections than configured, and the
\* watermark check in `put` never has to close a socket that was just dialed.
Watermark == Cardinality(idle) + InFlight <= MinIdle

\* A socket is parked, in the task's hands or in one connection's, and never in
\* two of these places: what a CONNECT was given is never handed out again nor
\* parked, so no authentication state passes to another CONNECT (pool.rs 4-8).
SoleOwner ==
    /\ fresh \notin idle
    /\ \A c \in Conn : got[c] # NoSock =>
          /\ got[c] \notin idle \cup {fresh}
          /\ \A d \in Conn \ {c} : got[d] # got[c]

\* No lost wake-up: while the task waits on a pool it saw full, a pool that is
\* short again has a permit stored, or the take that made it short is about to
\* store one (notify_one comes after the pop).
NoLostWakeup ==
    pc = "full" /\ holders # {} /\ Cardinality(idle) < MinIdle
        => permit \/ \E c \in Conn : conn[c] = "popped"

\* No tight redial loop: since it last paused (a backoff, or a full pool) the
\* task has begun at most min_idle dials more than sockets left the pool for
\* another reason than the gateway closing them (Refresh::Short's comment).
PacedDials == unpaced <= MinIdle

\* Once nobody but the task can reach the pool, at most one more dial begins:
\* the task holds no Arc across an await, so it cannot keep the pool alive.
FewOrphanDials == orphanDials <= 1

\* What bounds the load on the gateway, in one: the backoff stays within FIRST and
\* MAX, never more spare connections than configured, no tight redial loop, and
\* no dials for a pool that nobody can reach.
DialsAreBounded == TypeOK /\ Watermark /\ PacedDials /\ FewOrphanDials

\* A parked socket leaves the pool only by being handed out, by being unusable,
\* or with the pool: `take` and `refresh` never waste a good socket.
Spared ==
    \A s \in idle \ idle' :
        \/ ~Usable(s)
        \/ \E c \in Conn : got'[c] = s
        \/ holders' = {}

NoGoodSocketClosed == [][Spared]_vars

\* The life of a socket: it has one owner at a time, and is lost to nobody while
\* it is good.
SocketsAreKept == [][SoleOwner' /\ Spared]_vars

\* The pool seen as a shelf of spare sockets.
Shelf == INSTANCE SocketShelf WITH
    parked <- idle,
    bad <- {s \in idle : ~Usable(s)},
    lent <- got,
    dialing <- pc = "dialing",
    dialed <- fresh,
    closed <- holders = {}

\* Task, takes and Drop together do only what a shelf of spare sockets does,
\* whatever step of one comes between two of the others (pool.rs 1-14).
ImplementsShelf == Shelf!ShelfSpec

\* Once nobody outside holds the pool, the task ends, the idle sockets close
\* and a socket dialed in the meantime is given up (Drop's abort).
PoolStops == Outside = {} ~> /\ pc \in {"unborn", "ended"}
                             /\ holders = {} /\ idle = {} /\ fresh = NoSock

\* What takes sockets out of the pool or keeps them from coming in.
Disturbance ==
    \/ \E c \in Conn : TakeIdle(c)
    \/ DialErr
    \/ \E s \in Sock : GatewayActs(s)
    \/ Tick

\* A pool that was used and is still held is full again and again, if takes,
\* closes by the gateway, failed dials and the passing of time come to an end:
\* neither the permit nor the backoff leaves the task asleep on a short pool.
Refilled ==
    <>[][~Disturbance]_vars
        => []<>(pc = "unborn" \/ Outside = {} \/ Cardinality(idle) = MinIdle)
=============================================================================
