# Zicade in TLA+

Zicade is a local forward proxy for Windows machines behind a corporate
gateway. Clients send it plain-HTTP requests and CONNECTs; it answers them
directly, through an upstream proxy with Negotiate/NTLM or Basic
authentication, or as a PAC script decides, and it goes direct when the
machine leaves the corporate network. This directory models the parts of it
whose correctness depends on the order in which threads, tasks, sockets and
timers happen to act. Line numbers below and in the modules refer to the
repository's files at the commit the project was written against.

Contents: 1 inventory, 2 modules and code, 3 runs, 4 fairness, 5 proofs,
6 where the code and its words differ, 7 what is not modelled, 8 plan.

## 1. Inventory

| component | state it keeps | operations | talks to |
|---|---|---|---|
| Prewarmed socket pool (`zicade-proxy/upstream/pool.rs`, `pool/prewarm.rs`) | idle sockets with the time they were parked, a `Notify`, the background task and its backoff | `take`, `refresh`, `put`, `start_prewarm`, `Drop`; the task's loop | CONNECTs take from it; its lifetime follows the routing snapshot's `Arc`s |
| Upstream authentication (`upstream/auth.rs`, `zicade-auth`) | per socket: keyword learned, tokens sent, whether the credential went out | `initial_header`, `on_challenge`, `NegotiateHandshake::step` | SSPI through `Authenticator`; driven by the two handshake loops |
| Upstream conversation (`upstream/connect.rs`, `upstream.rs`, `upstream/wire.rs`) | the socket, the leg counter, the response being read | `connect_via_upstream`, `forward_via_upstream`, read head, drain body, one retry on a fresh socket | gateway; pool; auth |
| CONNECT tunnel (`tunnel.rs`) | the two pumps, their outcomes, the grace period | `tunnel`, `splice`, `pump`, `drain_other`, `classify` | client and origin/upstream sockets; tracked entry |
| Server (`server.rs`, `http_forward.rs`) | accept loop, `JoinSet` of connection tasks, routing handle, detached tunnel tasks | `serve`, `drain`, `handle_connection`, request and CONNECT handlers | everything above |
| Tracker and metrics (`tracker.rs`, `metrics.rs`, `counting.rs`) | open entries, bounded history, counters | `start`, `set_open`, `fail`, drop of the last handle; `connection_guard` | server, tunnel, request and response bodies; read by the UI |
| PAC router (`apps/zicade/pac_router.rs`) | decision cache, pools per upstream, job channel, one resolver thread | the router closure, `resolve_via_thread`, `PacCache`, thread loop | WinHTTP; server |
| Live routing (`zicade-control/control.rs`, `netmon/gate.rs`, `app.rs`, `routing.rs`) | current config, its file, status label, gate (enabled, config, last decision), live routing | `Control::apply`, `GateInner::{evaluate, apply, reconfigure}`, monitor thread, start | settings form, file, network monitor, server's routing handle |
| Config (`zicade-config`) | the config file | load or create, merge secrets, validate, save | settings form, live routing |
| Settings page (`form_model.rs`, `views/config`) | what the widgets hold, what was loaded, a save in the background | `from_config`, `to_config`, `reload`, `save` and its answer | Control; closed and reopened with the window |
| Log store and page (`zicade-observe`, `log_buffer.rs`, `views/logs.rs`) | sequence counter, ring, broadcast channel; per page a buffer and a receiver | `push`, `recent`, `subscribe`, `LogBuffer::push` | every logging thread; the window |
| Tray mode and process (`main.rs`, `tray.rs`, `shell.rs`, `zicade-win/tray`) | main, runtime and tray threads, the start report, the shutdown flag, UI commands, the tray's message queue | launch, start, Open, Close, join, quit, window opened and closed | server, UI, Windows messages |
| Proxy lists and discovery (`zicade-routing/pac.rs`, `zicade-win/winhttp/discovery.rs`, `netmon/mod.rs`) | none | parse a list, choose a strategy, match a bypass list or a DNS suffix | PAC router, gate |
| Windows seams (`zicade-win`: SSPI, WinHTTP, adapters) | OS handles | one OS call per function | auth, PAC router, gate |
| UI (`zicade-ui`) | what it draws | rendering, rates | control, tracker, logs |

What is hard here, and so what the properties are for:

* **Shared lifetime.** A routing snapshot, its pools and its PAC thread live
  until the last `Arc` goes, and the holders (handle, client connections, the
  pool's own task) leave in any order. Tracked entries are closed by whichever
  of up to four handles is dropped last.
* **Races without a lock.** Between `refresh` and the wait on `Notify`;
  between `resolve_via_thread`'s timeout and the thread's reply; between the
  three steps of `LogStore::push`; between a detection and the registration
  for the next address change.
* **Half-finished work.** A config file truncated and not yet written; a
  direction of a tunnel that failed while the other still relays; tasks aborted
  before their first poll.
* **Protocol sequences of a peer one does not control.** The gateway may answer
  any status with any challenge at any leg, close, or stay silent.
* **Something must end.** Stalled sinks, silent gateways, wedged WinHTTP calls,
  idle keep-alive connections at shutdown, a process whose tray icon is gone.
* **A page over a moving config.** A save runs in the background while the user
  types on, or closes the window and opens another.
* **Text of strangers.** Proxy lists, bypass patterns, DNS suffixes and the framing of
  a gateway's refusal decide routes and must not be read almost right.

`PROJECT.json` lists the hazards with the line where each bites.

## 2. Modules and the code

State variables carry the names of the fields they stand for, and each action
one comment naming the function. Variables marked *history* in a module record
the past for a property and influence nothing.

**UpstreamPool** — one pool. `holders` is the set of `Arc` owners; the step that
removes the last one also runs `Drop` (`Release`). `idle` with `age` is the
deque, whose order is the order of ages. `take` is three steps (start the task,
pop under the lock, notify) because another thread can act between them. The
task's `pc` distinguishes each await (where an abort can hit it) from the code
between awaits. Time is ticks of `age`; sockets' names are reused once closed.
**SocketShelf** is the abstract specification of what all of it amounts to
(`pool.rs:1`): spare sockets come fresh from the dial, stay until they have gone bad
or somebody takes them, and serve one taker. The refinement is the `INSTANCE` in
UpstreamPool: the shelf's spares are `idle`, its bad ones the unusable, its lent ones
`got`, and it is closed when nobody holds the pool.

**UpstreamAuth / UpstreamHandshake** — the first holds the pure functions of the
authentication driver, the second runs them in the CONNECT and the forward loop
against a gateway that is free to do anything. A token is the number of the
SSPI step that made it, an offer is what the driver can see of a 407.

**TrackedEntry** — the abstract specification of one tracker entry: connecting,
then perhaps open, then failed at most once, then closed for good. **Tunnel**
and **ProxyServer** implement it.

**Tunnel** — one tunnel's two pumps and the code that waits for them. A pump's
outcome and the `select!` that sees it are one poll and so one step. Endpoints
send, half-close, reset or stop consuming.

**ProxyServer** — accept loop, connection tasks, requests, detached tunnel
tasks, the books, and shutdown by drain and by abort. The tunnel's and the
upstream's inner workings are the modules above; here they end well or badly.

**PacRouter** — router closure, cache, pools per upstream, job channel and
thread of one PAC snapshot. A job carries its owner; dropping the owner's
receiver (timeout, disconnect) turns the owner into `Nobody`. The thread may be
slow, may have failed to build its backend, may panic, may never return.
A verdict carries, as history, the URL it was asked for and its age.

**RoutingControl** — `Control::apply` lock by lock, the gate, the monitor
thread, the file with its truncated intermediate state `Torn`, start, stop and
crash. A routing is identified with the config it was built from.

**LogStream** — the three steps of `push`, the ring, the channel with its depth,
and a page that subscribes, replays, follows, lags and closes. An event is its
sequence number.

**TrayMode** — the process from its command line to its end: the main thread
(launch, wait for the start report, UI loop), the runtime's thread, and the tray's
thread with its message pump, whose menu runs a loop of its own in which a second
click can still select an item. The channel of UI commands is a sequence; once
`main = "exited"` nothing moves.

**SettingsPage** — form, page and the background save. Each field the form treats
in its own way is kept with a few texts; `" u"` stands for a padded name, `"x"` for
what is not a number. Each window has its own save; a window that is gone never
sees the answer. `Apply` reads the config, merges passwords, validates and writes;
`Commit` replaces the config (RoutingControl splits this further).

**Lookups** — the pure functions: `PacResult::parse`, `select_strategy`, the host of
a URL, the bypass list, `on_corp`, and `drain_body` over a stream of lines and data. A
behaviour picks one input and computes one result; the properties compare it with
what the text means, defined independently of the code's way of reading it.

`MCxxx` modules instantiate them for TLC. Definitions commented `Mutant` are
deliberately wrong variants of the definition that follows them; no
specification uses them. Replacing the definition by its variant makes TLC
report the property the variant is paired with in `PROJECT.json`, which shows
that the property can fail.

Composition is by abstraction rather than by one large state machine:
ProxyServer's tunnels are refined by Tunnel through the common specification
TrackedEntry; UpstreamHandshake assumes of a pooled socket only what SocketShelf
states and UpstreamPool implements (nobody else has it or has had it; it may have died
since it was taken). TrayMode's drain is ProxyServer's
shutdown, which its run shows to end; SettingsPage's apply is RoutingControl's, seen
from the form.

## 3. Runs

| run | instance | what it shows |
|---|---|---|
| `pool` | 3 sockets, 2 connections, watermark 2, timeout 2 ticks | `ImplementsShelf`: every step is one of SocketShelf. `SocketsAreKept`: no socket is in two hands, and `take` and `refresh` waste none. `NoLostWakeup`: a short pool never has its task asleep with nobody about to wake it. `DialsAreBounded`: parked sockets and the dial in flight never exceed `min_idle`, a gateway that closes every socket is not redialed in a loop, and a task that alone holds the pool starts at most one dial. `PoolStops`: a pool nobody holds stops. `Refilled`: once disturbances end the pool is full again and again. |
| `handshake` | the code's own limits, 10 tokens and 12 legs | `NoRetryAfterAnswer`, `NothingSentAfterRefusal`, `OneHandshakePerSocket`; `NeverExhausted`: the outer limit is dead code; `ConnectEnds` against a silent gateway. |
| `tunnel` | 3 chunks each way | `CompletedMeansRelayed`: an entry ends as closed only if everything was relayed. `BlameIsTrue`: `reset_by` names an endpoint that did reset or stall. `NothingHangs`: no failed or stalled tunnel stays. `ImplementsEntry`. |
| `proxy_server` | 2 connections, 3 requests, history of 2 | `CountsAreExact`, `ListsAreTrue`: the books balance under every order of ends, aborts and disconnects. `ImplementsEntries`. `DrainCutsOnlyTunnels`: a drain that was not cut short leaves nothing unfinished but tunnels. `ShutdownEnds` whatever clients do. |
| `pac_router` | 2 connections, 2 URLs, 1 proxy, cache of 1, 1 pool | `RoutedAsDecided`: a request follows the PAC answer for its own URL, and the fail policy only for its own error. `JobsBelong`: late replies reach nobody else. `DecisionsAreRecent`: age is below TTL + timeout although the cache stamps late. `NothingIsStuck`: requests are answered with a thread that may hang for ever; the thread of a snapshot that is gone ends if its calls return. |
| `routing_control` | 1 window, 2 users, 2 passwords, 1 failed rebuild | `RoutingFollowsGate`: routing, decision and status agree after every evaluation and reconfiguration, failed ones included. `ShownConfigIsRunning`: page, status, gate and file agree over edits, failed writes and restarts. `FollowsNetwork`: a change that woke nobody is caught by the poll. |
| `log_stream` | 2 threads, 5 events, ring 2, channel 2, buffer 3 | `ShownOnceInOrder`; `SkipsOnlyReordered`: an event is missing only if overlapping pushes reordered it. |
| `tray` | every launch, 3 clicks | `CloseDrains`: after Close the process does not end before the runtime has. `ProcessEnds`: no process stays behind without its icon. `WindowComes`: Open, and a start that failed in the background, show the window or end the process. |
| `settings` | 2 windows, 3 edits | `SavedIsRunning`: what the page calls saved is what runs, and that is valid. `OnlyEditsSaved`: a save changes what was edited and nothing else. `PasswordKept`: blank keeps the password, of the same user only. `HiddenNeverBlocks`: what blocks a save is on screen. |
| `lookups` | texts of up to 4 symbols (5 for an active suffix), bodies of up to 2 chunks | `FirstUsableEntry`, `AutoFollowsWindows`, `SuffixesMatchByLabel`: list, bypass and suffix matching against their meaning. `DrainPositions`: after a refusal's body the next response follows. |
| `failed_apply`, `log_gap` | smallest instances | each is violated; see section 6. |

Why the bounds suffice. Every hazard above involves at most two client
connections (or two threads) and one background task, so two of each are
enough for the races; limits (watermark, cache, pools, history, ring) are set so
small that they are reached and exceeded; timers are two or three ticks, enough
to tell "before", "at" and "after". The handshake needs no scaling. Three
requests make a history of two overflow. Three sockets let two be parked while
one is in a client's hands; what more sockets or connections could do to the
pool is covered by the theorems. Two windows are what an overtaken save needs, and
three edits let a mode, a user and a field of a third section change in one form.
Three clicks open the window, open it again and choose Close, or select twice inside
one menu. Four symbols are enough for a pattern with two stars and a part between
them that overlaps its ends, for a suffix that ends inside a label, and for a useless
entry before two others. With one proxy the pool registry of `pac_router` is filled but
never asked for a second pool; no run uses symmetry.

Deadlock checking is off in every run: the environment (clients, gateway,
endpoints, user) may stop for good, and finished tunnels, handshakes and servers
do stop.

## 4. Fairness

* Pool: weak fairness of the task's own steps, of a dial's outcome (bounded by
  `DIAL_TIMEOUT`) and of a `take` in progress (it contains no await). tokio polls
  a woken task and its timers fire. Clients, the gateway and the routing's
  replacement are free.
* Handshake: only the CONNECT timeout. Nothing is assumed of the gateway. A
  forwarded plain-HTTP request has no timeout in the code, and nothing is claimed.
* Tunnel: the pumps' own progress when their operation is ready, the grace timer
  and the write-stall timer. Endpoints are free to do nothing.
* Server: the drain timeout, the abort, and `serve`'s return. Not the
  connections.
* PAC: the clock and a request whose reply or timeout is there. `NothingIsStuck` adds
  weak fairness of the thread in the property itself, as the premise of its second
  half.
* Tray: each of the three threads goes on when it can, since each blocks only in
  receives and joins that the others end; a drain ends because `serve` bounds it. The
  user, and Windows when it destroys the tray's window, are free.
* Settings, lookups and logs: none; their properties are about safety.
* Routing: the monitor loop (its wait is bounded by the poll interval) and an
  apply that has begun.

`Refilled` has the premise that disturbances come to an end, written
`<>[][~Disturbance]_vars`.

## 5. Proofs

Eight modules hold theorems; TLAPS checks every leaf. They assume only the
named `ASSUME`s of the modules they extend: limits are natural numbers, and what
stands for "absent", "nobody" or "torn" is none of the values it could be taken for
(in Rust it is another variant of the type).

Nine theorems about progress state a property that a run checks, or a part of one,
under an explicit fairness. `WF_v(A)` means `[]<>~ENABLED <<A>>_v \/ []<><<A>>_v`, and
`ENABLED` is beyond the provers; so these theorems assume `[]<>~G \/ []<><<A>>_v`, where
`G` is written out: where the thread, task or timer can go on by itself
(`TaskCanGo`, `TimerRuns`, `PumpReady`, `Closing`, `MonitorRuns`, `MainCanGo`,
`RuntimeCanGo`, `TrayCanGo`, `Draining`, `AbortPending`, `AllJoined`, `AnswerReady`). On the runs'
instances TLC confirms `G => ENABLED <<A>>_v` in every reachable state, which makes
the assumption no stronger there than the weak fairness of section 4. TLC checks
the properties themselves under `WF_`.

**UpstreamPoolProofs**, for any finite set of sockets, any set of connections
and any watermark and delays. `TypeOK` is inductive with `FreshDialed`
(`TypeCorrect`). The
others need what the code's author relies on silently: `RoomToDial` (from the
check in `refresh` to the dial only the task itself adds sockets) gives
`WatermarkHolds`; `DialsAccounted` (every unpaced dial is parked, under way or
left for a reason) gives `PacedDialsHolds`; `ArcsAccounted` (the task holds an
`Arc` exactly between `upgrade` and the next await, and a pool without holders has
been dropped) with `OrphanIsLast` gives `FewOrphanDialsHolds`. `SoleOwnerHolds`
and `NoLostWakeupHolds` are inductive relative to types.
`NoGoodSocketClosedHolds` is an action property. `DialsAreBoundedHolds` and
`SocketsAreKeptHolds` put these parts together into the properties the run checks.
`ShelfRefinement` maps each action to one of SocketShelf, or to a stutter; it needs
`PoolInv`: the invariants above, and that a connection asks the pool only with empty
hands (`EmptyHands`). `PoolStopsHolds`: without outside holders the task's
next upgrade fails, or it is the last owner and runs `Drop` itself; every await
ends in a bounded number of the task's own steps, and no other step takes it back.

**UpstreamHandshakeProofs**, for any two limits with `MaxLegs > MaxTokens + 1`.
The invariant `IInv` ties the loop's counter, the driver's counter and the token
in the header together (`Driver`), says which sockets may have answered
(`Sockets`), that all keywords sent are the learned one (`Learned`) and that the
driver has no answer after a refusal (`RefusalIsFinal`). The safety properties
are projections of it; `NeverExhaustedHolds` is where the assumption on the
limits is used. `RequestsAreFinite`: `StepsLeft`, which counts the legs, the steps
within one and the socket that may still be dialed, is a natural number and falls with
every step, so a gateway that goes on answering cannot keep a request
busy, a forwarded one included. `ConnectEndsHolds` is about the gateway that does not
answer: with `TimerFires` a CONNECT ends.

**TunnelProofs**, for any number of chunks. `IInv` says what a settled pump knows
about its endpoints (`Outcomes`), that only a failure lets the other direction be
dropped (`DroppedForFailure`), which outcomes each phase can have (`Shape`) and
what the entry shows in each phase (`Books`). `CompletedMeansRelayedHolds`
follows because `Books` records that an entry about to close without a failure
has two settled pumps for which the classifier found none. `EntryRefinement` shows
that every step is a step of TrackedEntry or leaves the entry alone.
`NothingHangsHolds` follows a failed pump through the grace period, the classifier and
the drop (`FailureCloses`), and a write to its end (`WriteEnds`): who writes is relaying
(`WritesAreRelayed`), and then the pump's await is ready.

The types of the handshake and the tunnel are proved (`TypeCorrect`) and so are not
among the properties of their runs.

**AppProofs**, for any number of windows, users and passwords (RoutingControl) and
of clicks (TrayMode; the module extends both, which share no name).
`RoutingFollowsGateHolds`: the step that rebuilds a routing is the only one that
moves it, and each caller leaves `Follows(gate)`. `ShownConfigIsRunningHolds` has a
hypothesis, `[]NoOverlap`: of two overlapping applies one can install its config in
the gate and the other in the page, which section 6 lists. Without overlap `Copies`
is inductive: which of file, gate, label and config already hold the new config at
each step of the one apply that is under way. `OneWindowAgrees` removes the
hypothesis for one window, the instance the run checks. `CloseDrainsHolds`: once
Close was chosen it is about to be taken up, or the tray waits in `join`, or the
runtime's thread has ended (`CloseIsOnItsWay`), and that thread never starts again
because nobody can choose Close before the main thread has spawned the tray
(`Launching`).

Progress of the app. `FollowsNetworkHolds`: while the program is up its monitor is on
(`Monitored`), goes round from arming to evaluating, and an evaluation installs the
routing for the network of that moment; if the network changes again the
property's own escape applies. `WindowComesHolds`: a wanted window is in the main
thread's way, as a failed start or a command not yet received (`WantedIsSeen`), and
each of its steps brings it closer. `TrayComesToItsEnd`: Close, a failed tray and a
destroyed tray window take the tray's thread to its end through the runtime's drain
(`EndIsAhead`: who waits for the runtime has stopped it, and an ended tray has sent its
Quit). `QuitIsReached`: from there the main thread can always go on, each of its
steps leaves fewer commands (`MainLeft`) and nobody adds one.

**ProxyServerProofs**, for any finite set of connections and requests and any history
limit. The books are only true together with where everybody is: which tasks hold a
handle of which entry, in which phase each is, and which guard it still owes.
`IInv` says so for every task and entry; `CountsAreExactHolds`, `ListsAreTrueHolds` and
`DrainCutsOnlyTunnelsHolds` follow from it. `EntriesRefinement` shows each step to be
a step of TrackedEntry for one request and a stutter for the others.
`ConnectionsAreLetGo`: a shutdown goes one way (`ShutdownGoesOn`), so the drain's timer
and the abort reach each connection's task that does not end by itself.
`ServeReturns`: when they all have, serve returns.

**PacRouterProofs**, for any sets of connections, hosts and proxies. The
invariant says where each job is (queue, thread, reply) and that it is the one its
owner waits for (`JobsBelongHolds`); that every verdict in the cache, in the thread's
hands or in a reply is the backend's for its own URL (`RoutedAsDecidedHolds`); and
how its age is bounded by who holds it: the time already waited plus, in the cache,
the time since the stamp (`DecisionsAreRecentHolds`).
`DueIsAnswered`: a wait grows by ticks of the clock only, and a request
whose time is up holds the clock back until it is answered (`AskingStep`).
`SnapshotWindsDown`: the thread of a snapshot that nobody holds can always go on, and
`ThreadLeft`, two steps for each job of the backlog, falls with each of its steps.

**LogStreamProofs**, for any number of threads and events and any capacities with the
channel at least as deep as the ring, as `LogStore::new` makes it.
`ShownOnceInOrderHolds` needs the buffer only. `SkipsOnlyReorderedHolds` needs where each
line came from: the page follows the store from a point in the ring and a point in
the channel (`Following`), every event is stored before it is broadcast and is
broadcast or on its way (`Pushes`), and what the page has passed is shown, older than
the page, missed, or overlapped with another push.

**SettingsPageProofs**, for any number of windows and edits. `Edited` (the form differs
from what it was loaded from in the edited fields), `Current` (which is what runs,
unless another save ran) and `Jobs` (a window has at most one save) make
`PromiseKept` applicable when a save starts: about `FormOf`, `ToConfig` and
`KeepSecrets` alone, it says that a form that differs from a config's in some fields
becomes a config that differs from it in those. `Promises` carries this to the
commit, where it is what `OnlyEditsSaved` and `PasswordKept` say.
`HiddenNeverBlocksHolds` is about every form of the right type, reachable or not
(`NotBlocked`). The texts of the model are the few that section 2 mentions; the
proofs go through them where `Trim` and `Number` are concerned and nowhere else.

Only model-checked:

* `Refilled`: a pool fills up by one socket at a time, which needs an induction over a
  temporal formula; the provers have none.
* `NothingIsStuck`, `ShutdownEnds` and `ProcessEnds` as a whole. What is proved of the first
  lacks the counting of the ticks and of `ThreadLeft`; of the second, the step from each
  of finitely many connections to all of them at once; of the third, the counting down of
  `MainLeft`. Each is the same kind of induction.
* The four properties of Lookups, whose functions recurse over their input: what they
  compute for every input would need an induction over sequences, which the provers
  cannot instantiate.

`ShownConfigIsRunning` for applies that overlap does not hold (section 6).

## 6. Where the code and its words differ

Two runs state what the repository says and are violated by what it does:

* `failed_apply` — "Nothing changes unless every step before the hook succeeds"
  (`control.rs:171`), but `save_file` (`io.rs:30`) truncates the file before it
  writes, so a failed write leaves a file that the next start cannot parse.
* `log_gap` — nothing is said to fall between backlog and channel
  (`log_buffer.rs:24`), but `push` numbers an event before it takes the lock and
  broadcasts after it released it, so of two overlapping pushes the page may
  drop the lower number unseen.

Met while modelling and visible in the models, without a run of their own.

Routing:

* A failed adapter enumeration is said to keep the configured mode
  (`netmon/win.rs:28`, `README.md:238`), but `evaluate` (`gate.rs:72`) sees an empty
  list, concludes "off the corporate network" and goes direct (`EvaluateGate`).
* A failed rebuild is said never to wedge the gate (`gate.rs:19`), but the decision is
  recorded with it (`gate.rs:73`), so nothing is rebuilt until the network or the
  config changes (`ApplyCorp`).
* A replaced routing's pool goes on dialing while a keep-alive client accepted under
  it lives (`pool.rs:10` speaks of the replacement; `PoolStops` holds from the last
  holder on).
* Two overlapping applies can leave the settings page with a config other than the
  running one (`ShownConfigIsRunning` is checked for one window).
* Enabling the gate in the form takes effect at once, where `README.md:239` asks for a
  restart.
* PAC decisions are cached per URL for five minutes, where `README.md:348` says they
  are not and `pac_router.rs:38` says per host.
* `winhttp/mod.rs:41` says that auto-detection is also enabled as a fallback when a
  script's address is given; `Session::resolve` uses one or the other (`Resolve`).
* A proxy list may be separated by blanks (`pac.rs:10`), but behind a useless entry
  only `;` and a line's end are looked for (the exception in `FirstUsableEntry`); and
  a manual proxy given per scheme always yields its first entry.

Connections:

* A relaying tunnel is neither drained (`server.rs:110`, `README.md:134`) nor counted
  as an active connection (`metrics.rs:23`), because it runs detached from its
  connection's task; the exit cuts it (`DrainCutsOnlyTunnels`).
* `drain_body` promises the next response (`wire.rs:86`), but `drain_chunked`
  (`wire.rs:110`) reads one line after the last chunk, so trailer fields leave the next
  head misplaced, and with a Content-Length and chunks it counts the chunks' lines as
  data (the exceptions in `DrainPositions`).

Process and window:

* `zicade-ui/src/lib.rs:33` says that Quit comes when the proxy has been stopped; after
  a tray that failed or whose window was destroyed, Quit is sent at once and the
  process ends while the proxy may still serve (`SendQuit`; `CloseDrains` is about
  Close).
* A start that fails opens the window (`tray.rs:90`), but `App::run` failing after it
  has reported success leaves the icon of a proxy that does not serve (`RunApp`).

Settings:

* A window opened while another's save runs shows the config from before it, and
  saving that form undoes the other save (`overtaken`); what is typed while a save
  runs is discarded when it succeeds (`Finish`).
* The re-check interval is still parsed when the gate has been switched off and the
  field is hidden, against `form_model.rs:5` (the exception in `HiddenNeverBlocks`).
  A zero in it is not replaced by the default, against `form_model.rs:13`.
* A hand-written user name with blanks around it is trimmed by the save and counts as
  another user, whose password is then dropped (the premise in `PasswordKept`).
* `validate` accepts an upstream without a host and a listen host that is no address.

## 7. What is not modelled

* Windows calls (SSPI, WinHTTP, adapters, the message pump's own calls): only their
  possible outcomes appear.
* Bytes: header text, the contents of bodies, byte counts, limits on the length of a
  head or a line. Lookups reads bodies symbol by symbol; UpstreamHandshake takes the
  outcome.
* serde, hosts and the other texts the form only carries, log text, filtering and
  rendering, charts and rates, the installer and start-on-login.
* Limits that a model replaces by a smaller number are CONSTANTS; the unbounded job
  channel and the number of events, chunks, requests, clicks, windows and edits are
  bounded by `MaxQueue`, `MaxEvents`, `MaxChunks`, `MaxRequests`, `MaxClicks`,
  `MaxWindows` and `MaxEdits` in guards.
* Memory handed over by Windows and its release, and whatever else is undefined only
  outside the safe part of the language.

## 8. Plan

Order of work: upstream sockets and authentication, live routing, tunnels, PAC,
books and shutdown, and logs came first; the process's threads, the settings page and
the pure functions second. What is left:

1. **Proofs** — every safety property of the runs but those of Lookups is a theorem, and
   so are their progress properties but for the four named in section 5. Left: an abstract
   specification of the log page, as SocketShelf is one of the pool.
2. **Rates** — `throughput.rs` and `connection_rates.rs`, pure functions of two
   snapshots, as operators in Lookups.
