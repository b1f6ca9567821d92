----------------------------- MODULE ProxyServer -----------------------------
(***************************************************************************)
(* The accept loop and its shutdown (zicade-proxy/src/server.rs), the      *)
(* connection tasks and the requests they serve (http_forward.rs), and the *)
(* books they keep: the active count (metrics.rs) and the tracked entries  *)
(* (tracker.rs, counting.rs).                                              *)
(*                                                                         *)
(* A request's entry is closed by whoever drops the last handle to it: the *)
(* service future, the request or the response body, or the detached       *)
(* tunnel task.  Tunnels are Tunnel's subject and requests to an upstream  *)
(* UpstreamHandshake's; here they succeed or fail.  A request without a    *)
(* host is answered 400, touches none of this and is left out.             *)
(***************************************************************************)
EXTENDS Naturals, Sequences, FiniteSets

CONSTANTS
    Conn,         \* client connections, each accepted once
    MaxRequests,  \* bound: requests and tunnels
    HistoryLen    \* HISTORY_LEN

ASSUME ServerAssumption ==
    /\ IsFiniteSet(Conn)
    /\ MaxRequests \in Nat
    /\ HistoryLen \in Nat \ {0}

VARIABLES
    server,    \* where `serve` is
    routing,   \* the mode of the live Routing behind RoutingHandle
    task,      \* each connection's task
    snapshot,  \* the routing it was accepted with
    current,   \* the request it serves, 0 for none
    tunnel,    \* each request's detached tunnel task
    holders,   \* each request's handles to its entry
    entry,     \* each request's tracked entry: state, live, fails
    active,    \* ProxyMetrics::active
    total,     \* ProxyMetrics::total_requests, and the last id given
    failed,    \* ProxyMetrics::failed_requests
    history    \* Book::closed, newest last

taskVars == <<task, snapshot, current, active>>
bookVars == <<holders, entry, total, failed, history>>
vars == <<server, routing, taskVars, tunnel, bookVars>>

Request == 1..MaxRequests
Mode == {"direct", "upstream", "pac"}
Holder == {"service", "up", "down", "tunnel"}

\* Tasks whose future was polled, and so hold a ConnectionGuard.
Guarded == {"idle", "forward", "connect", "refused", "response", "upgrading"}
TaskState == Guarded \cup {"none", "spawned", "ended"}
TunnelState == {"none", "upgrade", "orphan", "relay", "over"}

Unborn == [state |-> "connecting", live |-> TRUE, fails |-> 0]

-----------------------------------------------------------------------------
\* Tracker::close, the second half: the oldest finished entry makes room.
Remember(i) ==
    IF Len(history) = HistoryLen THEN Append(Tail(history), i) ELSE Append(history, i)

\* Mutant: a failed entry ends as closed.
DropForgets(i, gone) ==
    /\ holders' = [holders EXCEPT ![i] = @ \ gone]
    /\ IF holders[i] # {} /\ holders[i] \subseteq gone
       THEN /\ entry' = [entry EXCEPT ![i].live = FALSE, ![i].state = "closed"]
            /\ history' = Remember(i)
       ELSE UNCHANGED <<entry, history>>

\* Handles to i's entry are dropped; the last one closes it.
DropHandles(i, gone) ==
    /\ holders' = [holders EXCEPT ![i] = @ \ gone]
    /\ IF holders[i] # {} /\ holders[i] \subseteq gone
       THEN /\ entry' = [entry EXCEPT ![i].live = FALSE,
                                      ![i].state = IF @ = "failed" THEN @ ELSE "closed"]
            /\ history' = Remember(i)
       ELSE UNCHANGED <<entry, history>>

\* Tracked::fail: counted once, however often it is called.
Fail(i) ==
    IF entry[i].fails = 0
    THEN /\ entry' = [entry EXCEPT ![i].state = "failed", ![i].fails = 1]
         /\ failed' = failed + 1
    ELSE UNCHANGED <<entry, failed>>

\* Tracked::set_open.
SetOpen(i) ==
    entry' = [entry EXCEPT ![i].state = IF @ = "connecting" THEN "open" ELSE @]

\* What a connection's task holds of the request it serves.
TaskHolds == {"service", "down"}

\* Mutant: the guard is released for a task that never took it.
ReleaseAlways(c) == active - 1

\* ConnectionGuard::drop, when a task that was polled ends.
Release(c) == IF task[c] \in Guarded THEN active - 1 ELSE active

\* Mutant: a response body outlives the task that relays it.
EndTaskKeepsBody(c) ==
    /\ task' = [task EXCEPT ![c] = "ended"]
    /\ current' = [current EXCEPT ![c] = 0]
    /\ active' = Release(c)
    /\ UNCHANGED <<server, routing, snapshot, tunnel, bookVars>>

\* c's task ends, dropping its guard and its part of the request.  A tunnel
\* that waits for the upgrade finds the connection gone.
EndTask(c) ==
    /\ task' = [task EXCEPT ![c] = "ended"]
    /\ current' = [current EXCEPT ![c] = 0]
    /\ active' = Release(c)
    /\ IF current[c] = 0
       THEN UNCHANGED <<tunnel, holders, entry, history>>
       ELSE /\ DropHandles(current[c], TaskHolds)
            /\ tunnel' = [tunnel EXCEPT ![current[c]] = IF @ = "upgrade" THEN "orphan" ELSE @]
    /\ UNCHANGED <<server, routing, snapshot, total, failed>>

-----------------------------------------------------------------------------
(***************************************************************************)
(* The accept loop.                                                        *)
(***************************************************************************)

\* accept: the task is spawned with a clone of the current routing.
Accept(c) ==
    /\ server = "serving" /\ task[c] = "none"
    /\ task' = [task EXCEPT ![c] = "spawned"]
    /\ snapshot' = [snapshot EXCEPT ![c] = routing]
    /\ UNCHANGED <<server, routing, current, active, tunnel, bookVars>>

\* handle_connection is polled for the first time.
Start(c) ==
    /\ task[c] = "spawned"
    /\ task' = [task EXCEPT ![c] = "idle"]
    /\ active' = active + 1
    /\ UNCHANGED <<server, routing, snapshot, current, tunnel, bookVars>>

SetRouting(mode) ==
    /\ mode # routing
    /\ routing' = mode
    /\ UNCHANGED <<server, taskVars, tunnel, bookVars>>

Shutdown ==
    /\ server = "serving"
    /\ server' = "draining"
    /\ UNCHANGED <<routing, taskVars, tunnel, bookVars>>

\* Mutant: a connection that has sent its response's head is done.
HeadIsEnough(c) == task[c] \in {"none", "ended", "response"}

\* The accept loop's JoinSet holds no task of c.
Joined(c) == task[c] \in {"none", "ended"}

\* Mutant: drain waits for its connections without a limit.
NoDrainTimeout == FALSE /\ UNCHANGED vars

\* shutdown_timeout is over: abort_all.
DrainTimeout ==
    /\ server = "draining"
    /\ \E c \in Conn : ~Joined(c)
    /\ server' = "aborting"
    /\ UNCHANGED <<routing, taskVars, tunnel, bookVars>>

Abort(c) ==
    /\ server = "aborting"
    /\ ~Joined(c)
    /\ EndTask(c)

\* Every task has been joined: serve returns.
DrainEnds ==
    /\ server \in {"draining", "aborting"}
    /\ \A c \in Conn : Joined(c)
    /\ server' = "stopped"
    /\ UNCHANGED <<routing, taskVars, tunnel, bookVars>>

-----------------------------------------------------------------------------
(***************************************************************************)
(* Requests on a connection.                                               *)
(***************************************************************************)

\* Tracked::start for the next request.
Track(c, by) ==
    /\ total < MaxRequests
    /\ total' = total + 1
    /\ current' = [current EXCEPT ![c] = total + 1]
    /\ holders' = [holders EXCEPT ![total + 1] = by]
    /\ UNCHANGED <<server, routing, snapshot, active, entry, failed, history>>

\* handle_connect: the tunnel's task is spawned before anything is dialed.
ConnectDirect(c) ==
    /\ task[c] = "idle" /\ snapshot[c] = "direct"
    /\ Track(c, {"tunnel"})
    /\ task' = [task EXCEPT ![c] = "upgrading"]
    /\ tunnel' = [tunnel EXCEPT ![total + 1] = "upgrade"]

\* handle_connect_upstream and handle_connect_pac have to wait first.
ConnectVia(c) ==
    /\ task[c] = "idle" /\ snapshot[c] # "direct"
    /\ Track(c, {"service"})
    /\ task' = [task EXCEPT ![c] = "connect"]
    /\ UNCHANGED tunnel

\* forward_tracked: the request body holds the entry, too.
Forward(c) ==
    /\ task[c] = "idle"
    /\ Track(c, {"service", "up"})
    /\ task' = [task EXCEPT ![c] = "forward"]
    /\ UNCHANGED tunnel

\* The upstream, or the origin PAC chose, is there: spawn the tunnel.
ConnectOk(c) ==
    /\ task[c] = "connect"
    /\ task' = [task EXCEPT ![c] = "upgrading"]
    /\ tunnel' = [tunnel EXCEPT ![current[c]] = "upgrade"]
    /\ holders' = [holders EXCEPT ![current[c]] = {"tunnel"}]
    /\ UNCHANGED <<server, routing, snapshot, current, active, entry, total, failed, history>>

\* PAC, the dial, the handshake or the forward failed.
ServiceErr(c) ==
    /\ task[c] \in {"connect", "forward"}
    /\ task' = [task EXCEPT ![c] = "refused"]
    /\ Fail(current[c])
    /\ UNCHANGED <<server, routing, snapshot, current, active, tunnel, holders, total, history>>

\* The 502 is sent.
Refuse(c) ==
    /\ task[c] = "refused"
    /\ task' = [task EXCEPT ![c] = "idle"]
    /\ current' = [current EXCEPT ![c] = 0]
    /\ DropHandles(current[c], {"service"})
    /\ UNCHANGED <<server, routing, snapshot, active, tunnel, total, failed>>

\* The origin answered: set_status, and the response body takes the handle.
Respond(c) ==
    /\ task[c] = "forward"
    /\ task' = [task EXCEPT ![c] = "response"]
    /\ SetOpen(current[c])
    /\ holders' = [holders EXCEPT ![current[c]] = (@ \ {"service"}) \cup {"down"}]
    /\ UNCHANGED <<server, routing, snapshot, current, active, tunnel, total, failed, history>>

\* The response body has been relayed.
ResponseEnds(c) ==
    /\ task[c] = "response"
    /\ task' = [task EXCEPT ![c] = "idle"]
    /\ current' = [current EXCEPT ![c] = 0]
    /\ DropHandles(current[c], {"down"})
    /\ UNCHANGED <<server, routing, snapshot, active, tunnel, total, failed>>

\* The task of the connection to the origin drops the request body.
RequestBodyEnds(i) ==
    /\ "up" \in holders[i]
    /\ DropHandles(i, {"up"})
    /\ UNCHANGED <<server, routing, taskVars, tunnel, total, failed>>

\* hyper hands the connection over and its future is done.
Upgrade(c) ==
    /\ task[c] = "upgrading"
    /\ task' = [task EXCEPT ![c] = "ended"]
    /\ current' = [current EXCEPT ![c] = 0]
    /\ active' = Release(c)
    /\ tunnel' = [tunnel EXCEPT ![current[c]] = "relay"]
    /\ UNCHANGED <<server, routing, snapshot, bookVars>>

\* The client goes away, or the connection fails, at any point.
Disconnect(c) ==
    /\ task[c] \in Guarded
    /\ EndTask(c)

-----------------------------------------------------------------------------
(***************************************************************************)
(* Tunnel tasks, which nothing joins.                                      *)
(***************************************************************************)
TunnelOpens(i) ==
    /\ tunnel[i] = "relay" /\ entry[i].state = "connecting"
    /\ SetOpen(i)
    /\ UNCHANGED <<server, routing, taskVars, tunnel, holders, total, failed, history>>

\* The upgrade, the dial or the relay failed.
TunnelFails(i) ==
    /\ tunnel[i] \in {"orphan", "relay"}
    /\ tunnel' = [tunnel EXCEPT ![i] = "over"]
    /\ Fail(i)
    /\ UNCHANGED <<server, routing, taskVars, holders, total, history>>

TunnelCompletes(i) ==
    /\ tunnel[i] = "relay" /\ entry[i].state = "open"
    /\ tunnel' = [tunnel EXCEPT ![i] = "over"]
    /\ UNCHANGED <<server, routing, taskVars, bookVars>>

TunnelDrops(i) ==
    /\ tunnel[i] = "over"
    /\ tunnel' = [tunnel EXCEPT ![i] = "none"]
    /\ DropHandles(i, {"tunnel"})
    /\ UNCHANGED <<server, routing, taskVars, total, failed>>

\* serve has returned and the runtime is dropped, with every task left in it.
RuntimeDrops(i) ==
    /\ server = "stopped" /\ holders[i] # {}
    /\ tunnel' = [tunnel EXCEPT ![i] = "none"]
    /\ DropHandles(i, Holder)
    /\ UNCHANGED <<server, routing, taskVars, total, failed>>

-----------------------------------------------------------------------------
Init ==
    /\ server = "serving"
    /\ routing \in Mode
    /\ task = [c \in Conn |-> "none"]
    /\ snapshot = [c \in Conn |-> routing]
    /\ current = [c \in Conn |-> 0]
    /\ tunnel = [i \in Request |-> "none"]
    /\ holders = [i \in Request |-> {}]
    /\ entry = [i \in Request |-> Unborn]
    /\ active = 0 /\ total = 0 /\ failed = 0
    /\ history = <<>>

ConnStep(c) ==
    \/ Accept(c) \/ Start(c) \/ Abort(c) \/ Disconnect(c)
    \/ ConnectDirect(c) \/ ConnectVia(c) \/ ConnectOk(c) \/ Upgrade(c)
    \/ Forward(c) \/ Respond(c) \/ ResponseEnds(c)
    \/ ServiceErr(c) \/ Refuse(c)

TaskStep(i) ==
    \/ RequestBodyEnds(i) \/ TunnelOpens(i) \/ TunnelFails(i)
    \/ TunnelCompletes(i) \/ TunnelDrops(i) \/ RuntimeDrops(i)

Next ==
    \/ \E c \in Conn : ConnStep(c)
    \/ \E i \in Request : TaskStep(i)
    \/ \E mode \in Mode : SetRouting(mode)
    \/ Shutdown \/ DrainTimeout \/ DrainEnds

Spec == Init /\ [][Next]_vars

\* The runtime polls `serve`, its timer fires, and aborted tasks are dropped.
\* Nothing is assumed of clients, origins or tunnels.
FairSpec ==
    /\ Spec
    /\ WF_vars(DrainTimeout) /\ WF_vars(DrainEnds)
    /\ \A c \in Conn : WF_vars(Abort(c))

-----------------------------------------------------------------------------
\* Every variable keeps its type, the history its length.
TypeOK ==
    /\ server \in {"serving", "draining", "aborting", "stopped"}
    /\ routing \in Mode
    /\ task \in [Conn -> TaskState]
    /\ snapshot \in [Conn -> Mode]
    /\ current \in [Conn -> 0..total]
    /\ tunnel \in [Request -> TunnelState]
    /\ holders \in [Request -> SUBSET Holder]
    /\ entry \in [Request -> [state : {"connecting", "open", "closed", "failed"},
                              live : BOOLEAN, fails : 0..1]]
    /\ active \in Nat /\ total \in 0..MaxRequests /\ failed \in 0..total
    /\ history \in Seq(Request) /\ Len(history) <= HistoryLen

Born == 1..total

\* The active count is the number of connection tasks that were started and
\* have not ended, however they end, an abort before the first poll included:
\* nothing leaks (metrics.rs, "a failing or hung connection cannot leak
\* bookkeeping").  Every failure that is shown is counted, every 502 is shown as
\* a failure.  (And every variable has its type.)
CountsAreExact ==
    /\ TypeOK
    /\ active = Cardinality({c \in Conn : task[c] \in Guarded})
    /\ failed = Cardinality({i \in Born : entry[i].state = "failed"})
    /\ \A c \in Conn : task[c] = "refused" => entry[current[c]].state = "failed"

\* What the connections page lists is true.  An entry listed as open has
\* somebody at work for it ("a dead connection can never linger as open",
\* tracker.rs); one in the history is finished and there once.
ListsAreTrue ==
    /\ \A i \in Born : entry[i].live =>
          \/ \E c \in Conn : current[c] = i /\ task[c] \in Guarded
          \/ tunnel[i] # "none"
          \/ "up" \in holders[i]
    /\ \A k \in DOMAIN history : ~entry[history[k]].live
    /\ \A j, k \in DOMAIN history : j # k => history[j] # history[k]

\* A shutdown within its time cuts no request off but the tunnels, whose tasks
\* nothing joins, and the tail of a request body that the origin has answered
\* early: drain waits for every connection task, and those end their requests.
DrainCutsOnlyTunnels ==
    [][server = "draining" /\ server' = "stopped" =>
          \A i \in Born : entry[i].live => tunnel[i] # "none" \/ holders[i] = {"up"}]_vars

\* serve returns, whatever the connections do.
ShutdownEnds == server = "draining" ~> server = "stopped"

\* Every request's entry behaves as the tracker promises.
Tracked(i) == INSTANCE TrackedEntry
                WITH state <- entry[i].state, live <- entry[i].live, fails <- entry[i].fails
ImplementsEntries ==
    /\ \A i \in Request : Tracked(i)!EntryInit
    /\ [][\A i \in Request : [Tracked(i)!EntryNext]_(Tracked(i)!entryVars)]_vars
=============================================================================
