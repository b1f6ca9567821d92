------------------------------ MODULE LogStream ------------------------------
(***************************************************************************)
(* From a logging thread to the log page: LogStore (zicade-observe/src/    *)
(* store.rs), a ring of recent events and a tokio broadcast channel, and   *)
(* the page that replays the ring and then follows the channel             *)
(* (zicade-ui/src/views/logs.rs) into its LogBuffer (log_buffer.rs).       *)
(*                                                                         *)
(* An event is its sequence number.  push stamps, stores and broadcasts in *)
(* three steps, and only the second holds the lock.                        *)
(***************************************************************************)
EXTENDS Naturals, Sequences

CONSTANTS
    Logger,     \* threads that log
    Cap,        \* LogStore's ring capacity
    Depth,      \* depth of the broadcast channel
    MaxLines,   \* LogBuffer's capacity
    MaxEvents   \* bound: events logged

\* new: the channel is at least as deep as the ring.
ASSUME StreamAssumption ==
    /\ Cap \in Nat \ {0} /\ Depth \in Nat /\ Depth >= Cap
    /\ MaxLines \in Nat \ {0} /\ MaxEvents \in Nat

VARIABLES
    seq,      \* Inner::seq
    stamped,  \* each logger's event on its way to the ring, 0 for none
    stored,   \* each logger's event on its way to the channel, 0 for none
    ring,     \* Inner::ring
    channel,  \* everything broadcast so far; the last Depth can be received
    page,     \* what the log page is doing
    at,       \* how much of the channel its receiver has passed
    backlog,  \* what `recent` returned and is not yet in the buffer
    last,     \* LogBuffer::last_seq
    lines,    \* LogBuffer::events
    lost,     \* history: events the receiver missed by falling behind
    order     \* history: everything ever stored, in the order of the ring

storeVars == <<seq, stamped, stored, ring, channel, order>>
pageVars == <<page, at, backlog, last, lines, lost>>
vars == <<storeVars, pageVars>>

-----------------------------------------------------------------------------
\* Append to a bounded deque, the oldest element making room.
PushBounded(s, e, cap) == IF Len(s) = cap THEN Append(Tail(s), e) ELSE Append(s, e)

\* Mutant: an event repeated by the channel is appended again.
BufferPushAll(e) ==
    /\ last' = IF e > last THEN e ELSE last
    /\ lines' = PushBounded(lines, e, MaxLines)

\* LogBuffer::push.
BufferPush(e) ==
    IF e <= last
    THEN UNCHANGED <<last, lines>>
    ELSE /\ last' = e
         /\ lines' = PushBounded(lines, e, MaxLines)

-----------------------------------------------------------------------------
(***************************************************************************)
(* LogStore::push.                                                         *)
(***************************************************************************)
Stamp(l) ==
    /\ stamped[l] = 0 /\ stored[l] = 0
    /\ seq < MaxEvents
    /\ seq' = seq + 1
    /\ stamped' = [stamped EXCEPT ![l] = seq + 1]
    /\ UNCHANGED <<stored, ring, channel, order, pageVars>>

Store(l) ==
    /\ stamped[l] # 0
    /\ ring' = PushBounded(ring, stamped[l], Cap)
    /\ order' = Append(order, stamped[l])
    /\ stored' = [stored EXCEPT ![l] = stamped[l]]
    /\ stamped' = [stamped EXCEPT ![l] = 0]
    /\ UNCHANGED <<seq, channel, pageVars>>

Broadcast(l) ==
    /\ stored[l] # 0
    /\ channel' = Append(channel, stored[l])
    /\ stored' = [stored EXCEPT ![l] = 0]
    /\ UNCHANGED <<seq, stamped, ring, order, pageVars>>

-----------------------------------------------------------------------------
(***************************************************************************)
(* The log page.                                                           *)
(***************************************************************************)
Subscribe ==
    /\ page = "shut"
    /\ page' = "subscribed"
    /\ at' = Len(channel)
    /\ UNCHANGED <<storeVars, backlog, last, lines, lost>>

\* recent: a copy of the ring.
Recent ==
    /\ page = "subscribed"
    /\ page' = "replay"
    /\ backlog' = ring
    /\ UNCHANGED <<storeVars, at, last, lines, lost>>

\* One event of the backlog goes into the buffer.
Replay ==
    /\ page = "replay" /\ backlog # <<>>
    /\ BufferPush(Head(backlog))
    /\ backlog' = Tail(backlog)
    /\ UNCHANGED <<storeVars, page, at, lost>>

\* Mutant: the subscription begins after the replay.
FollowFromNow ==
    /\ page = "replay" /\ backlog = <<>>
    /\ page' = "live"
    /\ at' = Len(channel)
    /\ UNCHANGED <<storeVars, backlog, last, lines, lost>>

\* The task that follows the channel is spawned.
Follow ==
    /\ page = "replay" /\ backlog = <<>>
    /\ page' = "live"
    /\ UNCHANGED <<storeVars, at, backlog, last, lines, lost>>

\* The oldest event the channel still holds comes after this many.
Oldest == IF Len(channel) > Depth THEN Len(channel) - Depth ELSE 0

\* recv returns the next event.
Recv ==
    /\ page = "live" /\ at < Len(channel) /\ at >= Oldest
    /\ BufferPush(channel[at + 1])
    /\ at' = at + 1
    /\ UNCHANGED <<storeVars, page, backlog, lost>>

\* recv returns Lagged: the receiver goes on with the oldest event there is.
Lagged ==
    /\ page = "live" /\ at < Oldest
    /\ lost' = lost \cup {channel[i] : i \in (at + 1)..Oldest}
    /\ at' = Oldest
    /\ UNCHANGED <<storeVars, page, backlog, last, lines>>

\* The window is closed, and another may be opened later.
Shut ==
    /\ page = "live"
    /\ page' = "shut"
    /\ at' = 0 /\ last' = 0 /\ lines' = <<>> /\ lost' = {}
    /\ UNCHANGED <<storeVars, backlog>>

-----------------------------------------------------------------------------
Init ==
    /\ seq = 0
    /\ stamped = [l \in Logger |-> 0] /\ stored = [l \in Logger |-> 0]
    /\ ring = <<>> /\ channel = <<>>
    /\ page = "shut" /\ at = 0 /\ backlog = <<>>
    /\ last = 0 /\ lines = <<>> /\ lost = {} /\ order = <<>>

Next ==
    \/ \E l \in Logger : Stamp(l) \/ Store(l) \/ Broadcast(l)
    \/ Subscribe \/ Recent \/ Replay \/ Follow \/ Recv \/ Lagged \/ Shut

Spec == Init /\ [][Next]_vars

-----------------------------------------------------------------------------
\* Every variable keeps its type, the ring and the buffer their capacity.
TypeOK ==
    /\ seq \in 0..MaxEvents
    /\ stamped \in [Logger -> 0..seq] /\ stored \in [Logger -> 0..seq]
    /\ ring \in Seq(1..seq) /\ Len(ring) <= Cap
    /\ channel \in Seq(1..seq)
    /\ page \in {"shut", "subscribed", "replay", "live"}
    /\ at \in 0..Len(channel)
    /\ backlog \in Seq(1..seq)
    /\ last \in 0..seq
    /\ lines \in Seq(1..seq) /\ Len(lines) <= MaxLines
    /\ lost \subseteq 1..seq
    /\ order \in Seq(1..seq)

\* However the backlog and the channel overlap, the page shows every event at
\* most once and in the order of the sequence numbers (LogBuffer's "each shown
\* once").  (And every variable has its type.)
ShownOnceInOrder ==
    /\ TypeOK
    /\ \A i, j \in DOMAIN lines : i < j => lines[i] < lines[j]

\* The page has received everything and no push is under way.
CaughtUp ==
    /\ page = "live" /\ at = Len(channel)
    /\ \A l \in Logger : stamped[l] = 0 /\ stored[l] = 0

\* What should be on the page, between its oldest line and the newest event,
\* and is not, the events that the receiver was told it missed aside.
Skipped == (lines[1]..seq) \ ({lines[i] : i \in DOMAIN lines} \cup lost)

\* e and another event are in s in the opposite order of their numbers.
Reordered(e, s) ==
    \E i, j \in DOMAIN s : i < j /\ s[i] > s[j] /\ e \in {s[i], s[j]}

\* Subscribing before the replay leaves no gap between the backlog and the
\* channel: an event is skipped only if two pushes overlapped and it was stored
\* or broadcast in another order than it was numbered.
SkipsOnlyReordered ==
    CaughtUp /\ lines # <<>> =>
        \A e \in Skipped : Reordered(e, order) \/ Reordered(e, channel)

\* What log_buffer.rs 24-27 says: "Append `event` unless it was already seen.
\* The view subscribes before replaying the backlog so nothing falls in
\* between": no event at all is skipped.
NothingInBetween == CaughtUp /\ lines # <<>> => Skipped = {}
=============================================================================
