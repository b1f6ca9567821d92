---------------------------- MODULE TunnelProofs ----------------------------
(***************************************************************************)
(* Proofs about Tunnel: what a settled pump knows (`Outcomes`), which      *)
(* outcomes each phase can have (`Shape`), and what the tracked entry      *)
(* shows in it (`Books`) are inductive together with TypeOK, and give the  *)
(* safety properties and the refinement of TrackedEntry.                   *)
(***************************************************************************)
EXTENDS Tunnel, TLAPS

\* A pump writes a chunk only if one is there, and its outcome says what
\* happened at its source or its sink.
Outcomes ==
    \A d \in Dir :
        /\ delivered[d] <= sent[d]
        /\ pump[d] = "write" => delivered[d] < sent[d]
        /\ pump[d] = "eof" => fin[Source(d)] /\ delivered[d] = sent[d]
        /\ pump[d] = "readErr" => reset[Source(d)]
        /\ pump[d] = "writeErr" => reset[Sink(d)] \/ stalled[Sink(d)]

\* Only a failed direction lets the other one be dropped.
DroppedForFailure ==
    \A d \in Dir : pump[d] = "dropped" => pump[Other(d)] \in Failed

\* Which outcomes there are in each phase.
Shape ==
    /\ phase \in {"dial", "given", "both"} => \A d \in Dir : pump[d] \in {"read", "write"}
    /\ phase = "full" => \E d \in Dir : pump[d] = "eof" /\ pump[Other(d)] \in {"read", "write"}
    /\ phase = "grace" => \E d \in Dir : pump[d] \in Failed /\ pump[Other(d)] \in {"read", "write"}
    /\ phase = "classify" => \A d \in Dir : pump[d] \in Settled

\* What the tracked entry shows in each phase.
Books ==
    /\ live = (phase # "closed")
    /\ fails = (IF state = "failed" THEN 1 ELSE 0)
    /\ phase \in {"dial", "given"} => state = "connecting"
    /\ phase \in Relaying \cup {"classify"} => state = "open"
    /\ phase = "drop" => state \in {"open", "failed"}
    /\ phase = "closed" => state \in {"closed", "failed"}
    /\ state = "closed" => phase = "closed"
    /\ (phase = "drop" /\ state = "open") \/ state = "closed"
          => /\ \A d \in Dir : pump[d] \in Settled
             /\ RealFailure(pump["up"], pump["down"]) = {}

IInv == TypeOK /\ Outcomes /\ DroppedForFailure /\ Shape /\ Books /\ BlameIsTrue

USE DEF Dir, Endpoint, Other, Source, Sink, Failed, Settled, PumpState, Relaying, Phase, Nobody

-----------------------------------------------------------------------------
\* The invariant holds before the tunnel is established.
LEMMA InitInv == Init => IInv
  <1> SUFFICES ASSUME Init PROVE IInv
    OBVIOUS
  <1>1. TypeOK
    BY MaxChunksAssumption DEF Init, TypeOK
  <1>2. Outcomes /\ DroppedForFailure /\ Shape /\ BlameIsTrue
    BY DEF Init, Outcomes, DroppedForFailure, Shape, BlameIsTrue
  <1>3. Books
    BY DEF Init, Books
  <1> QED BY <1>1, <1>2, <1>3 DEF IInv

\* Whoever waits when a direction settles, wait_for answers with a phase that
\* fits the outcome.
LEMMA WaitForPhase ==
    ASSUME NEW d \in Dir, NEW outcome \in Failed \cup {"eof"}
    PROVE  /\ WaitFor(d, outcome) \in {"full", "grace", "classify"}
           /\ WaitFor(d, outcome) = "full" => outcome = "eof"
           /\ WaitFor(d, outcome) \in {"grace", "classify"} => outcome \in Failed
  BY DEF WaitFor, WhoReset

\* Settling keeps the invariant, if the outcome tells the truth.
LEMMA SettleInv ==
    ASSUME IInv, NEW d \in Dir, NEW outcome \in Failed \cup {"eof"},
           phase \in Relaying, pump[d] \in {"read", "write"},
           outcome = "eof" => fin[Source(d)] /\ delivered[d] = sent[d],
           outcome = "readErr" => reset[Source(d)],
           outcome = "writeErr" => reset[Sink(d)] \/ stalled[Sink(d)],
           Settle(d, outcome)
    PROVE  IInv'
  <1> DEFINE next == IF phase = "both" THEN WaitFor(d, outcome) ELSE "classify"
  <1>1. /\ phase' = next
        /\ next \in {"full", "grace", "classify"}
        /\ pump' \in [Dir -> PumpState]
        /\ pump'[d] = outcome
        /\ pump'[Other(d)] = IF phase = "both" /\ next = "classify" THEN "dropped" ELSE pump[Other(d)]
        /\ UNCHANGED <<delivered, blame, peers, entry>>
    BY WaitForPhase DEF Settle, IInv, TypeOK
  <1>2. phase = "both" => pump[Other(d)] \in {"read", "write"}
    BY DEF IInv, Shape
  <1>3. phase # "both" => pump[Other(d)] \in {"eof"} \cup Failed
    BY DEF IInv, Shape
  <1>4. next = "full" => outcome = "eof" /\ phase = "both"
    BY WaitForPhase
  <1>5. next = "grace" => outcome \in Failed /\ phase = "both"
    BY WaitForPhase
  <1>6. next = "classify" /\ phase = "both" => outcome \in Failed
    BY WaitForPhase
  <1> HIDE DEF next
  <1>7. \A c \in Dir : c = d \/ c = Other(d)
    OBVIOUS
  <1>8. TypeOK'
    BY <1>1 DEF IInv, TypeOK, peers, entry
  <1>9. Outcomes'
    <2> SUFFICES ASSUME NEW c \in Dir PROVE Outcomes!(c)'
      BY DEF Outcomes
    <2>1. CASE c = d
      BY <2>1, <1>1 DEF IInv, Outcomes, peers
    <2>2. CASE c = Other(d)
      BY <2>2, <1>1 DEF IInv, Outcomes, peers
    <2> QED BY <2>1, <2>2, <1>7
  <1>10. DroppedForFailure'
    BY <1>1, <1>2, <1>3, <1>6 DEF IInv, DroppedForFailure
  <1>11. Shape'
    <2>1. phase' = "classify" => \A c \in Dir : pump'[c] \in Settled
      BY <1>1, <1>2, <1>3, <1>7
    <2>2. phase' = "full" => pump'[d] = "eof" /\ pump'[Other(d)] \in {"read", "write"}
      BY <1>1, <1>2, <1>4
    <2>3. phase' = "grace" => pump'[d] \in Failed /\ pump'[Other(d)] \in {"read", "write"}
      BY <1>1, <1>2, <1>5
    <2> QED BY <2>1, <2>2, <2>3, <1>1 DEF Shape
  <1>12. Books'
    BY <1>1 DEF IInv, Books, entry
  <1>13. BlameIsTrue'
    BY <1>1 DEF IInv, BlameIsTrue, peers
  <1> QED BY <1>8, <1>9, <1>10, <1>11, <1>12, <1>13 DEF IInv

\* Whatever the classifier blames is a failed direction, and it finds a failure
\* unless both directions settled well enough.
LEMMA RealFailureFailed ==
    ASSUME NEW up \in Settled, NEW down \in Settled
    PROVE  /\ RealFailure(up, down) \subseteq Dir
           /\ "up" \in RealFailure(up, down) => up \in Failed
           /\ "down" \in RealFailure(up, down) => down \in Failed
  BY DEF RealFailure

\* Every step keeps the invariant.
LEMMA NextInv == IInv /\ [Next]_vars => IInv'
  <1> SUFFICES ASSUME IInv, [Next]_vars PROVE IInv'
    OBVIOUS
  <1>1. CASE Begin
    BY <1>1 DEF Begin, IInv, TypeOK, Outcomes, DroppedForFailure, Shape, Books, BlameIsTrue, peers
  <1>2. CASE DialErr
    BY <1>2 DEF DialErr, CountFailure, IInv, TypeOK, Outcomes, DroppedForFailure, Shape, Books,
                BlameIsTrue, peers
  <1>3. ASSUME NEW d \in Dir, ReadChunk(d) PROVE IInv'
    <2>1. /\ pump' = [pump EXCEPT ![d] = "write"]
          /\ UNCHANGED <<phase, delivered, blame, peers, entry>>
          /\ pump[d] = "read" /\ delivered[d] < sent[d]
      BY <1>3 DEF ReadChunk
    <2>2. TypeOK' /\ Outcomes' /\ DroppedForFailure' /\ BlameIsTrue'
      BY <2>1 DEF IInv, TypeOK, Outcomes, DroppedForFailure, BlameIsTrue, peers, entry
    <2>3. Shape'
      BY <2>1, <1>3 DEF IInv, TypeOK, Shape, ReadChunk
    <2>4. Books'
      BY <2>1, <1>3 DEF IInv, TypeOK, Books, ReadChunk, entry
    <2> QED BY <2>2, <2>3, <2>4 DEF IInv
  <1>4. ASSUME NEW d \in Dir, ReadEof(d) PROVE IInv'
    BY <1>4, SettleInv DEF ReadEof
  <1>5. ASSUME NEW d \in Dir, ReadErr(d) PROVE IInv'
    BY <1>5, SettleInv DEF ReadErr
  <1>6. ASSUME NEW d \in Dir, WriteOk(d) PROVE IInv'
    <2>1. /\ delivered' = [delivered EXCEPT ![d] = @ + 1]
          /\ pump' = [pump EXCEPT ![d] = "read"]
          /\ UNCHANGED <<phase, blame, peers, entry>>
          /\ pump[d] = "write" /\ phase \in Relaying
          /\ delivered[d] < sent[d]
      BY <1>6 DEF WriteOk, IInv, Outcomes
    <2>2. TypeOK' /\ DroppedForFailure' /\ BlameIsTrue'
      BY <2>1, MaxChunksAssumption DEF IInv, TypeOK, DroppedForFailure, BlameIsTrue, peers, entry
    <2>3. Outcomes'
      BY <2>1, MaxChunksAssumption DEF IInv, TypeOK, Outcomes, peers
    <2>4. Shape'
      BY <2>1 DEF IInv, TypeOK, Shape
    <2>5. Books'
      BY <2>1 DEF IInv, TypeOK, Books, entry
    <2> QED BY <2>2, <2>3, <2>4, <2>5 DEF IInv
  <1>7. ASSUME NEW d \in Dir, WriteErr(d) PROVE IInv'
    BY <1>7, SettleInv DEF WriteErr
  <1>8. CASE GraceOver
    <2>1. PICK d \in Dir : pump[d] \in Failed /\ pump[Other(d)] \in {"read", "write"}
      BY <1>8 DEF GraceOver, IInv, Shape
    <2>2. pump' = [pump EXCEPT ![Other(d)] = "dropped"]
      BY <2>1, <1>8 DEF GraceOver, IInv, TypeOK
    <2>3. TypeOK' /\ BlameIsTrue'
      BY <2>2, <1>8 DEF GraceOver, IInv, TypeOK, BlameIsTrue, peers, entry
    <2>4. Outcomes' /\ DroppedForFailure'
      BY <2>1, <2>2, <1>8 DEF GraceOver, IInv, TypeOK, Outcomes, DroppedForFailure, peers
    <2>5. Shape'
      BY <2>1, <2>2, <1>8 DEF GraceOver, IInv, TypeOK, Shape
    <2>6. Books'
      BY <1>8 DEF GraceOver, IInv, Books, entry
    <2> QED BY <2>3, <2>4, <2>5, <2>6 DEF IInv
  <1>9. CASE Classify
    <2>1. /\ phase = "classify" /\ phase' = "drop"
          /\ UNCHANGED <<pump, delivered, peers, live>>
          /\ \A d \in Dir : pump[d] \in Settled
      BY <1>9 DEF Classify, IInv, Shape
    <2>2. CASE /\ RealFailure(pump["up"], pump["down"]) = {}
               /\ UNCHANGED <<blame, state, fails>>
      BY <2>1, <2>2 DEF IInv, TypeOK, Outcomes, DroppedForFailure, Shape, Books, BlameIsTrue, peers
    <2>3. ASSUME NEW d \in RealFailure(pump["up"], pump["down"]),
                 blame' = WhoReset(d, pump[d]), CountFailure
          PROVE  IInv'
      <3>1. d \in Dir /\ pump[d] \in Failed
        BY <2>1, <2>3, RealFailureFailed
      <3>2. state' = "failed" /\ fails' = 1
        BY <2>1, <2>3 DEF CountFailure, IInv, Books
      <3>3. blame' \in Endpoint /\ BlameIsTrue'
        BY <2>1, <2>3, <3>1 DEF WhoReset, BlameIsTrue, IInv, Outcomes, peers
      <3> QED
        BY <2>1, <3>2, <3>3 DEF IInv, TypeOK, Outcomes, DroppedForFailure, Shape, Books, peers
    <2> QED BY <1>9, <2>2, <2>3 DEF Classify
  <1>10. CASE DropTracked
    <2>1. TypeOK' /\ Outcomes' /\ DroppedForFailure' /\ Shape' /\ BlameIsTrue'
      BY <1>10, ZenonT(30) DEF DropTracked, IInv, TypeOK, Outcomes, DroppedForFailure, Shape,
                              BlameIsTrue, peers
    <2>2. Books'
      BY <1>10 DEF DropTracked, IInv, Books
    <2> QED BY <2>1, <2>2 DEF IInv
  <1>11. ASSUME NEW d \in Dir, SendChunk(d) PROVE IInv'
    <2>1. /\ sent' = [sent EXCEPT ![d] = @ + 1]
          /\ UNCHANGED <<phase, pump, delivered, blame, fin, reset, stalled, entry>>
          /\ ~fin[Source(d)] /\ sent[d] < MaxChunks
      BY <1>11 DEF SendChunk
    <2>2. TypeOK' /\ Outcomes'
      BY <2>1, MaxChunksAssumption DEF IInv, TypeOK, Outcomes, entry
    <2>3. DroppedForFailure' /\ Shape' /\ Books' /\ BlameIsTrue'
      BY <2>1 DEF IInv, DroppedForFailure, Shape, Books, BlameIsTrue, entry
    <2> QED BY <2>2, <2>3 DEF IInv
  <1>12. ASSUME NEW e \in Endpoint, HalfClose(e) \/ Reset(e) \/ Stall(e) PROVE IInv'
    <2>1. /\ UNCHANGED <<phase, pump, delivered, blame, sent, entry>>
          /\ TypeOK'
          /\ \A f \in Endpoint : /\ fin[f] => fin'[f]
                                 /\ reset[f] => reset'[f]
                                 /\ stalled[f] => stalled'[f]
      BY <1>12, ZenonT(30) DEF HalfClose, Reset, Stall, IInv, TypeOK, entry
    <2>2. Outcomes' /\ DroppedForFailure' /\ Shape' /\ Books' /\ BlameIsTrue'
      BY <2>1 DEF IInv, Outcomes, DroppedForFailure, Shape, Books, BlameIsTrue, entry
    <2> QED BY <2>1, <2>2 DEF IInv
  <1>13. CASE UNCHANGED vars
    BY <1>13 DEF vars, peers, entry, IInv, TypeOK, Outcomes, DroppedForFailure, Shape, Books,
                 BlameIsTrue
  <1> QED
    BY <1>1, <1>2, <1>3, <1>4, <1>5, <1>6, <1>7, <1>8, <1>9, <1>10, <1>11, <1>12, <1>13
    DEF Next, Pump, Splice, Peer

\* The inductive invariant holds in every reachable state.
THEOREM Invariance == Spec => []IInv
  BY InitInv, NextInv, PTL DEF Spec

-----------------------------------------------------------------------------
\* The variables keep their types for every bound on the chunks.
THEOREM TypeCorrect == Spec => []TypeOK
  BY Invariance, PTL DEF IInv

\* A tunnel that is reported as completed relayed everything there was.
THEOREM CompletedMeansRelayedHolds == Spec => []CompletedMeansRelayed
  <1>1. IInv => CompletedMeansRelayed
    <2> SUFFICES ASSUME IInv, state = "closed" PROVE CompletedMeansRelayed
      BY DEF CompletedMeansRelayed
    <2>1. /\ pump["up"] \in Settled /\ pump["down"] \in Settled
          /\ RealFailure(pump["up"], pump["down"]) = {}
      BY DEF IInv, Books
    <2>2. pump["down"] = "eof" /\ pump["up"] \in {"eof", "readErr"}
      BY <2>1 DEF RealFailure, IInv, DroppedForFailure
    <2> QED BY <2>2 DEF CompletedMeansRelayed, IInv, Outcomes
  <1> QED BY <1>1, Invariance, PTL

\* The endpoint blamed for a failure is one that caused it.
THEOREM BlameIsTrueHolds == Spec => []BlameIsTrue
  BY Invariance, PTL DEF IInv

\* A tunnel drives its entry the way the tracker promises.
THEOREM EntryRefinement == Spec => ImplementsEntry
  <1>1. Init => Tracked!EntryInit
    BY DEF Init, Tracked!EntryInit
  <1>2. IInv /\ [Next]_vars => [Tracked!EntryNext]_Tracked!entryVars
    <2> SUFFICES ASSUME IInv, [Next]_vars
                 PROVE  Tracked!EntryNext \/ UNCHANGED <<state, live, fails>>
      BY DEF Tracked!entryVars
    <2>1. CASE Begin
      BY <2>1 DEF Begin, IInv, Books, Tracked!EntryNext, Tracked!SetOpen
    <2>2. CASE DialErr
      BY <2>2 DEF DialErr, CountFailure, IInv, Books, Tracked!EntryNext, Tracked!Fail
    <2>3. CASE Classify
      BY <2>3 DEF Classify, CountFailure, IInv, Books, Tracked!EntryNext, Tracked!Fail
    <2>4. CASE DropTracked
      BY <2>4 DEF DropTracked, IInv, Books, Tracked!EntryNext, Tracked!CloseEntry
    <2>5. CASE GraceOver \/ Peer \/ \E d \in Dir : Pump(d)
      BY <2>5 DEF GraceOver, Peer, Pump, ReadChunk, ReadEof, ReadErr, WriteOk, WriteErr, Settle,
                  SendChunk, HalfClose, Reset, Stall, entry
    <2>6. CASE UNCHANGED vars
      BY <2>6 DEF vars, entry
    <2> QED BY <2>1, <2>2, <2>3, <2>4, <2>5, <2>6 DEF Next, Splice
  <1> QED BY <1>1, <1>2, Invariance, PTL DEF Spec, ImplementsEntry, Tracked!EntrySpec

-----------------------------------------------------------------------------
\* Where splice goes on by itself: the grace period is running, or both pumps
\* are over.
Closing == phase \in {"grace", "classify", "drop"}

\* What a pump's await waits for is there: a chunk, an end of the stream or an
\* error to read; a write ends in any case, by progress, a reset or the stall
\* limit.
PumpReady(d) ==
    /\ phase \in Relaying
    /\ \/ pump[d] = "write"
       \/ /\ pump[d] = "read"
          /\ \/ delivered[d] < sent[d]
             \/ fin[Source(d)] /\ delivered[d] = sent[d]
             \/ reset[Source(d)]

\* The fairness of splice and of the pumps, with their guards written out.
SpliceGoesOn == []<>~Closing \/ []<><<Splice>>_vars
PumpGoesOn(d) == []<>~PumpReady(d) \/ []<><<Pump(d)>>_vars

\* A failed direction leads on to the end, in at most three steps of splice.
LEMMA FailureCloses ==
    Spec /\ SpliceGoesOn => ((\E d \in Dir : pump[d] \in Failed) ~> phase = "closed")
  <1>1. IInv /\ (\E d \in Dir : pump[d] \in Failed) => Closing \/ phase = "closed"
    BY DEF IInv, Shape, TypeOK, Closing
  <1>2. [Next]_vars
          => /\ phase = "grace" => (phase \in {"grace", "classify"})'
             /\ phase = "classify" => (phase \in {"classify", "drop"})'
             /\ phase = "drop" => (phase \in {"drop", "closed"})'
    BY DEF Next, vars, Begin, DialErr, Pump, ReadChunk, ReadEof, ReadErr, WriteOk, WriteErr, Settle,
           Splice, GraceOver, Classify, DropTracked, Peer, SendChunk, HalfClose, Reset, Stall
  <1>3. <<Splice>>_vars
          => /\ phase = "grace" => (phase = "classify")'
             /\ phase = "classify" => (phase = "drop")'
             /\ phase = "drop" => (phase = "closed")'
    BY DEF Splice, GraceOver, Classify, DropTracked
  <1> DEFINE Grace == phase = "grace"
             Classifying == phase = "classify"
             Dropping == phase = "drop"
             Closed == phase = "closed"
  <1>4. /\ Closing => Grace \/ Classifying \/ Dropping
        /\ Grace \/ Classifying \/ Dropping => Closing
        /\ Grace => ~Classifying /\ ~Dropping
        /\ Classifying => ~Dropping
    BY DEF Closing
  <1>5. [Next]_vars
          => /\ Grace => Grace' \/ Classifying'
             /\ Classifying => Classifying' \/ Dropping'
             /\ Dropping => Dropping' \/ Closed'
    BY <1>2
  <1>6. <<Splice>>_vars
          => (Grace => Classifying') /\ (Classifying => Dropping') /\ (Dropping => Closed')
    BY <1>3
  <1>7. IInv /\ (\E d \in Dir : pump[d] \in Failed) => Closing \/ Closed
    BY <1>1
  <1> HIDE DEF Grace, Classifying, Dropping, Closed
  <1>8. Spec /\ SpliceGoesOn => ((\E d \in Dir : pump[d] \in Failed) ~> Closed)
    BY <1>4, <1>5, <1>6, <1>7, Invariance, PTL DEF Spec, SpliceGoesOn
  <1> QED BY <1>8 DEF Closed

\* Nothing is written before the relaying begins, nor after it is over.
WritesAreRelayed == \A d \in Dir : pump[d] = "write" => phase \in Relaying

LEMMA WritesAreRelayedStep ==
    IInv /\ IInv' /\ WritesAreRelayed /\ [Next]_vars => WritesAreRelayed'
  <1> SUFFICES ASSUME IInv, IInv', WritesAreRelayed, [Next]_vars,
                      NEW d \in Dir, pump'[d] = "write"
               PROVE  phase' \in Relaying
    BY DEF WritesAreRelayed
  <1> USE DEF IInv, TypeOK, WritesAreRelayed
  <1>1. CASE Begin \/ GraceOver
    BY <1>1 DEF Begin, GraceOver
  <1>2. CASE DialErr \/ Classify \/ DropTracked
    BY <1>2 DEF DialErr, Classify, DropTracked, Shape
  <1>3. ASSUME NEW e \in Dir, ReadChunk(e) \/ WriteOk(e) PROVE phase' \in Relaying
    BY <1>3 DEF ReadChunk, WriteOk
  <1>4. ASSUME NEW e \in Dir, ReadEof(e) \/ ReadErr(e) \/ WriteErr(e) PROVE phase' \in Relaying
    <2>1. phase' \in Relaying \cup {"classify"}
      BY <1>4, WaitForPhase DEF ReadEof, ReadErr, WriteErr, Settle
    <2> QED BY <2>1 DEF Shape
  <1>5. CASE Peer \/ UNCHANGED vars
    BY <1>5 DEF Peer, SendChunk, HalfClose, Reset, Stall, vars
  <1> QED BY <1>1, <1>2, <1>3, <1>4, <1>5 DEF Next, Pump, Splice

\* A write that waits is over in one step of its pump.
LEMMA WriteEnds ==
    ASSUME NEW d \in Dir
    PROVE  Spec /\ PumpGoesOn(d) => (pump[d] = "write" ~> pump[d] # "write")
  <1>1. Init => WritesAreRelayed
    BY DEF Init, WritesAreRelayed
  <1>2. WritesAreRelayed /\ pump[d] = "write" => PumpReady(d)
    BY DEF WritesAreRelayed, PumpReady
  <1>3. IInv /\ pump[d] = "write" /\ <<Pump(d)>>_vars => (pump[d] # "write")'
    BY DEF IInv, TypeOK, Pump, ReadChunk, ReadEof, ReadErr, WriteOk, WriteErr, Settle
  <1>4. pump[d] # "write" \/ pump[d] = "write"
    OBVIOUS
  <1> QED
    BY <1>1, <1>2, <1>3, <1>4, Invariance, WritesAreRelayedStep, PTL DEF Spec, PumpGoesOn

\* NothingHangs, for every number of chunks: a failed tunnel closes and a waiting
\* write ends, whatever the endpoints do (CLOSE_GRACE, WRITE_STALL_TIMEOUT).
THEOREM NothingHangsHolds ==
    Spec /\ SpliceGoesOn /\ (\A d \in Dir : PumpGoesOn(d)) => NothingHangs
  <1>1. (\A d \in Dir : PumpGoesOn(d)) /\ Spec
          => \A d \in Dir : pump[d] = "write" ~> pump[d] # "write"
    BY WriteEnds
  <1> QED BY <1>1, FailureCloses, PTL DEF NothingHangs
=============================================================================
