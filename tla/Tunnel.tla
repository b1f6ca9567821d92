------------------------------- MODULE Tunnel -------------------------------
(***************************************************************************)
(* One CONNECT tunnel (zicade-proxy/src/tunnel.rs): dial the origin or     *)
(* take the upstream's socket, pump both directions, and once one of them  *)
(* has settled decide how long the other may go on and whether the tunnel  *)
(* completed or failed.  The two endpoints are the environment: they send, *)
(* half-close, reset, or stop consuming.                                   *)
(*                                                                         *)
(* A chunk is what one read returns.  A pump that settles and the select!  *)
(* (or drain_other) that waits for it are one poll, and so one step.       *)
(***************************************************************************)
EXTENDS Naturals

CONSTANT MaxChunks   \* bound: chunks an endpoint sends

ASSUME MaxChunksAssumption == MaxChunks \in Nat

VARIABLES
    phase,      \* where `tunnel` / `splice` is
    pump,       \* each direction's pump: what it awaits, or how it ended
    sent,       \* chunks the direction's source has sent
    delivered,  \* chunks written to the direction's sink
    fin,        \* endpoints that have closed their sending half
    reset,      \* endpoints that have reset the connection
    stalled,    \* endpoints that have stopped consuming, for good
    blame,      \* the endpoint the close is attributed to
    state,      \* the tracked entry's state
    live,       \* the tracked entry is listed as open
    fails       \* times this tunnel was counted as failed

peers == <<sent, fin, reset, stalled>>
entry == <<state, live, fails>>
vars == <<phase, pump, delivered, blame, peers, entry>>

Endpoint == {"client", "upstream"}
Nobody == "-"
Dir == {"up", "down"}
Other(d) == IF d = "up" THEN "down" ELSE "up"
Source(d) == IF d = "up" THEN "client" ELSE "upstream"
Sink(d) == Source(Other(d))

\* Outcome: Eof, Failed (by the operation that failed) or Dropped.
Failed == {"readErr", "writeErr"}
Settled == Failed \cup {"eof", "dropped"}
PumpState == {"read", "write"} \cup Settled

\* Waiting for both pumps, or for the second one with or without a time limit.
Relaying == {"both", "full", "grace"}
Phase == Relaying \cup {"dial", "given", "classify", "drop", "closed"}

-----------------------------------------------------------------------------
\* Mutant: a write failure blames the source.
WhoResetSource(d, outcome) == Source(d)

\* who_reset: a read failure blames the source, a write failure the sink.
WhoReset(d, outcome) == IF outcome = "readErr" THEN Source(d) ELSE Sink(d)

\* wait_for: how the tunnel goes on when direction d settles first.
WaitFor(d, outcome) ==
    IF outcome = "eof" THEN "full"
    ELSE IF WhoReset(d, outcome) = "client" THEN "classify" ELSE "grace"

\* Mutant: a download that reached EOF always counts as a completed transfer.
DownloadDecides(up, down) ==
    IF down = "eof" THEN {}
    ELSE IF down \in Failed THEN {"down"}
    ELSE IF up \in Failed THEN {"up"}
    ELSE {}

\* The close classifier: the direction that failed the transfer, if any.
RealFailure(up, down) ==
    IF up = "writeErr" THEN {"up"}
    ELSE IF down = "eof" THEN {}
    ELSE IF down \in Failed THEN {"down"}
    ELSE IF up \in Failed THEN {"up"}
    ELSE {}

\* Direction d ends with the outcome, and whoever waits for it goes on: the
\* first to settle fixes the wait, the second ends the tunnel.
Settle(d, outcome) ==
    LET next == IF phase = "both" THEN WaitFor(d, outcome) ELSE "classify" IN
    /\ phase' = next
    /\ pump' = IF phase = "both" /\ next = "classify"
               THEN [pump EXCEPT ![d] = outcome, ![Other(d)] = "dropped"]
               ELSE [pump EXCEPT ![d] = outcome]
    /\ UNCHANGED <<delivered, blame, peers, entry>>

-----------------------------------------------------------------------------
(***************************************************************************)
(* `tunnel` and `splice`.                                                  *)
(***************************************************************************)

\* The origin is dialed, or the upstream's socket is there: start relaying.
Begin ==
    /\ phase \in {"dial", "given"}
    /\ phase' = "both"
    /\ state' = "open"
    /\ UNCHANGED <<pump, delivered, blame, peers, live, fails>>

\* tracked.fail counts and marks the entry, the first time it is called.
CountFailure ==
    IF fails = 0
    THEN fails' = 1 /\ state' = "failed"
    ELSE UNCHANGED <<fails, state>>

DialErr ==
    /\ phase = "dial"
    /\ phase' = "drop"
    /\ CountFailure
    /\ UNCHANGED <<pump, delivered, blame, peers, live>>

\* read returns a chunk.  After a reset, what was sent before may still come.
ReadChunk(d) ==
    /\ phase \in Relaying /\ pump[d] = "read"
    /\ delivered[d] < sent[d]
    /\ pump' = [pump EXCEPT ![d] = "write"]
    /\ UNCHANGED <<phase, delivered, blame, peers, entry>>

\* read returns 0, and the sink is half-closed.
ReadEof(d) ==
    /\ phase \in Relaying /\ pump[d] = "read"
    /\ fin[Source(d)] /\ delivered[d] = sent[d]
    /\ Settle(d, "eof")

ReadErr(d) ==
    /\ phase \in Relaying /\ pump[d] = "read"
    /\ reset[Source(d)]
    /\ Settle(d, "readErr")

\* write_all completes, and the chunk is counted.
WriteOk(d) ==
    /\ phase \in Relaying /\ pump[d] = "write"
    /\ ~reset[Sink(d)] /\ ~stalled[Sink(d)]
    /\ delivered' = [delivered EXCEPT ![d] = @ + 1]
    /\ pump' = [pump EXCEPT ![d] = "read"]
    /\ UNCHANGED <<phase, blame, peers, entry>>

\* Mutant: a write may wait for ever.
WriteErrOnReset(d) ==
    /\ phase \in Relaying /\ pump[d] = "write"
    /\ reset[Sink(d)]
    /\ Settle(d, "writeErr")

\* The write fails, or WRITE_STALL_TIMEOUT passes without progress.
WriteErr(d) ==
    /\ phase \in Relaying /\ pump[d] = "write"
    /\ reset[Sink(d)] \/ stalled[Sink(d)]
    /\ Settle(d, "writeErr")

\* CLOSE_GRACE is over: the direction still running is dropped.
GraceOver ==
    /\ phase = "grace"
    /\ phase' = "classify"
    /\ pump' = [d \in Dir |-> IF pump[d] \in Settled THEN pump[d] ELSE "dropped"]
    /\ UNCHANGED <<delivered, blame, peers, entry>>

\* Decide between completed and failed.
Classify ==
    /\ phase = "classify"
    /\ phase' = "drop"
    /\ LET failure == RealFailure(pump["up"], pump["down"]) IN
       \/ /\ failure = {}
          /\ UNCHANGED <<blame, state, fails>>
       \/ \E d \in failure :
             /\ blame' = WhoReset(d, pump[d])
             /\ CountFailure
    /\ UNCHANGED <<pump, delivered, peers, live>>

\* Mutant: a failed tunnel is shown as closed in the history.
DropForgets ==
    /\ phase = "drop"
    /\ phase' = "closed"
    /\ live' = FALSE
    /\ state' = "closed"
    /\ UNCHANGED <<pump, delivered, blame, peers, fails>>

\* The tunnel's task ends and drops its Tracked.
DropTracked ==
    /\ phase = "drop"
    /\ phase' = "closed"
    /\ live' = FALSE
    /\ state' = IF state = "failed" THEN state ELSE "closed"
    /\ UNCHANGED <<pump, delivered, blame, peers, fails>>

-----------------------------------------------------------------------------
(***************************************************************************)
(* The endpoints.                                                          *)
(***************************************************************************)
SendChunk(d) ==
    /\ ~fin[Source(d)] /\ ~reset[Source(d)]
    /\ sent[d] < MaxChunks
    /\ sent' = [sent EXCEPT ![d] = @ + 1]
    /\ UNCHANGED <<phase, pump, delivered, blame, fin, reset, stalled, entry>>

HalfClose(e) ==
    /\ ~fin[e] /\ ~reset[e]
    /\ fin' = [fin EXCEPT ![e] = TRUE]
    /\ UNCHANGED <<phase, pump, delivered, blame, sent, reset, stalled, entry>>

Reset(e) ==
    /\ ~reset[e]
    /\ reset' = [reset EXCEPT ![e] = TRUE]
    /\ UNCHANGED <<phase, pump, delivered, blame, sent, fin, stalled, entry>>

Stall(e) ==
    /\ ~stalled[e]
    /\ stalled' = [stalled EXCEPT ![e] = TRUE]
    /\ UNCHANGED <<phase, pump, delivered, blame, sent, fin, reset, entry>>

-----------------------------------------------------------------------------
\* Direct mode has yet to dial, upstream mode has its socket.
Init ==
    /\ phase \in {"dial", "given"}
    /\ pump = [d \in Dir |-> "read"]
    /\ sent = [d \in Dir |-> 0]
    /\ delivered = [d \in Dir |-> 0]
    /\ fin = [e \in Endpoint |-> FALSE]
    /\ reset = [e \in Endpoint |-> FALSE]
    /\ stalled = [e \in Endpoint |-> FALSE]
    /\ blame = Nobody
    /\ state = "connecting"
    /\ live = TRUE
    /\ fails = 0

Pump(d) == ReadChunk(d) \/ ReadEof(d) \/ ReadErr(d) \/ WriteOk(d) \/ WriteErr(d)

Splice == GraceOver \/ Classify \/ DropTracked

Peer ==
    \/ \E d \in Dir : SendChunk(d)
    \/ \E e \in Endpoint : HalfClose(e) \/ Reset(e) \/ Stall(e)

Next == Begin \/ DialErr \/ (\E d \in Dir : Pump(d)) \/ Splice \/ Peer

Spec == Init /\ [][Next]_vars

\* The runtime polls the tunnel's task and its timers fire; a dial is answered.
\* Nothing is assumed of the endpoints.
Fairness ==
    /\ \A d \in Dir : WF_vars(Pump(d))
    /\ WF_vars(Splice)
    /\ WF_vars(Begin \/ DialErr)

FairSpec == Spec /\ Fairness

-----------------------------------------------------------------------------
\* Every variable keeps its type.
TypeOK ==
    /\ phase \in Phase
    /\ pump \in [Dir -> PumpState]
    /\ sent \in [Dir -> 0..MaxChunks]
    /\ delivered \in [Dir -> 0..MaxChunks]
    /\ fin \in [Endpoint -> BOOLEAN]
    /\ reset \in [Endpoint -> BOOLEAN]
    /\ stalled \in [Endpoint -> BOOLEAN]
    /\ blame \in Endpoint \cup {Nobody}
    /\ state \in {"connecting", "open", "closed", "failed"}
    /\ live \in BOOLEAN
    /\ fails \in 0..1

\* A tunnel reported as completed relayed everything: all that the upstream
\* sent until it closed reached the client's socket, and all that the client
\* sent reached the upstream's, unless the client itself reset (the comments of
\* the classifier, tunnel.rs 169-188).  So a half-closed tunnel that ends well has
\* waited for its slow direction (CLOSE_GRACE's comment).
CompletedMeansRelayed ==
    state = "closed" =>
        /\ fin["upstream"] /\ delivered["down"] = sent["down"]
        /\ (fin["client"] /\ delivered["up"] = sent["up"]) \/ reset["client"]

\* The endpoint a failure is attributed to really reset the connection or
\* stopped consuming: `reset_by` never accuses the wrong side.
BlameIsTrue == \A e \in Endpoint : blame = e => reset[e] \/ stalled[e]

\* Nothing parks a tunnel for ever: once a direction has failed the tunnel ends,
\* however the endpoints behave, and a sink that stops consuming ends the write
\* that waits for it (CLOSE_GRACE and the write-stall limit).
NothingHangs ==
    /\ (\E d \in Dir : pump[d] \in Failed) ~> phase = "closed"
    /\ \A d \in Dir : pump[d] = "write" ~> pump[d] # "write"

\* The tracked entry behaves as the tracker promises.
Tracked == INSTANCE TrackedEntry
ImplementsEntry == Tracked!EntrySpec
=============================================================================
