------------------------- MODULE ProxyServerProofs -------------------------
(***************************************************************************)
(* Proofs about ProxyServer: who serves a request (`Serving`), what each   *)
(* task holds of it (`Held`) and whose each handle is (`Owned`) are        *)
(* inductive; with what the entries and the history say (`Entries`,        *)
(* `Listed`) they give the lists' truth, the drain's and the refinement of *)
(* TrackedEntry for every request.  The counts are exact on top of that.   *)
(* A shutdown lets go of every connection, and serve returns when it has   *)
(* let go of all.                                                          *)
(***************************************************************************)
EXTENDS ProxyServer, FiniteSetTheorems, SequenceTheorems, TLAPS

\* Tasks that serve a request.
Busy == {"forward", "connect", "refused", "response", "upgrading"}

\* Exactly the busy tasks have a request, each its own, and a server that has
\* returned has left no task behind.
Serving ==
    /\ \A c \in Conn : current[c] # 0 <=> task[c] \in Busy
    /\ \A c, d \in Conn : current[c] = current[d] /\ current[c] # 0 => c = d
    /\ server = "stopped" => \A c \in Conn : Joined(c)

\* What a busy task holds of its request.
HeldBy(c) ==
    /\ task[c] = "connect" => holders[current[c]] = {"service"}
    /\ task[c] \in {"forward", "refused"} =>
          "service" \in holders[current[c]] /\ holders[current[c]] \subseteq {"service", "up"}
    /\ task[c] = "response" =>
          "down" \in holders[current[c]] /\ holders[current[c]] \subseteq {"down", "up"}
    /\ task[c] = "upgrading" => tunnel[current[c]] = "upgrade"

\* Whose each handle is: a task's, a tunnel's, or the request body's.
OwnedOf(i) ==
    /\ "service" \in holders[i] =>
          \E c \in Conn : current[c] = i /\ task[c] \in {"forward", "connect", "refused"}
    /\ "down" \in holders[i] => \E c \in Conn : current[c] = i /\ task[c] = "response"
    /\ tunnel[i] = "upgrade" => \E c \in Conn : current[c] = i /\ task[c] = "upgrading"
    /\ "tunnel" \in holders[i] => holders[i] = {"tunnel"} /\ tunnel[i] # "none"
    /\ tunnel[i] # "none" => holders[i] = {"tunnel"}
    /\ i > total => holders[i] = {}

\* An entry lives as long as it has a handle, and counts its failure.
EntryOf(i) ==
    /\ i <= total => (entry[i].live <=> holders[i] # {})
    /\ i > total => entry[i] = Unborn
    /\ entry[i].fails = IF entry[i].state = "failed" THEN 1 ELSE 0
    /\ entry[i].live => entry[i].state # "closed"

\* A task that answers 502 has marked its entry.
RefusedBy(c) == task[c] = "refused" => entry[current[c]].state = "failed"

Held == \A c \in Conn : HeldBy(c)
Owned == \A i \in Request : OwnedOf(i)
Entries == \A i \in Request : EntryOf(i)
Refused == \A c \in Conn : RefusedBy(c)

\* The history lists entries that were born and closed, each once.
Listed ==
    /\ \A k \in DOMAIN history : history[k] <= total /\ ~entry[history[k]].live
    /\ \A j, k \in DOMAIN history : j # k => history[j] # history[k]

Started == {c \in Conn : task[c] \in Guarded}
FailedOnes == {i \in Born : entry[i].state = "failed"}

Counts == active = Cardinality(Started) /\ failed = Cardinality(FailedOnes)

Inv == TypeOK /\ Serving /\ Held /\ Owned /\ Entries /\ Listed /\ Refused
IInv == Inv /\ Counts

EntryRecord == [state : {"connecting", "open", "closed", "failed"}, live : BOOLEAN, fails : 0..1]

-----------------------------------------------------------------------------
\* Remembering a request keeps the history bounded and adds that request only.
LEMMA RememberEffect ==
    ASSUME NEW i \in Request, history \in Seq(Request), Len(history) <= HistoryLen
    PROVE  /\ Remember(i) \in Seq(Request)
           /\ Len(Remember(i)) <= HistoryLen
           /\ \E shift \in {0, 1} :
                 \A k \in 1..Len(Remember(i)) :
                    \/ k = Len(Remember(i)) /\ Remember(i)[k] = i
                    \/ k + shift \in 1..Len(history) /\ Remember(i)[k] = history[k + shift]
  <1>1. CASE Len(history) = HistoryLen
    <2>1. history # <<>>
      BY <1>1, ServerAssumption
    <2>2. /\ Tail(history) \in Seq(Request)
          /\ Len(Tail(history)) = Len(history) - 1
          /\ \A k \in 1..Len(Tail(history)) : Tail(history)[k] = history[k + 1]
      BY <2>1, HeadTailProperties
    <2>3. /\ Remember(i) \in Seq(Request)
          /\ Len(Remember(i)) = Len(history)
          /\ \A k \in 1..(Len(history) - 1) : Remember(i)[k] = Tail(history)[k]
          /\ Remember(i)[Len(history)] = i
      BY <1>1, <2>2, AppendProperties, ServerAssumption DEF Remember
    <2>4. \A k \in 1..Len(Remember(i)) :
                    \/ k = Len(Remember(i)) /\ Remember(i)[k] = i
                    \/ k + 1 \in 1..Len(history) /\ Remember(i)[k] = history[k + 1]
      BY <1>1, <2>2, <2>3, ServerAssumption
    <2> QED BY <1>1, <2>3, <2>4
  <1>2. CASE Len(history) # HistoryLen
    <2>1. /\ Remember(i) \in Seq(Request)
          /\ Len(Remember(i)) = Len(history) + 1
          /\ \A k \in 1..Len(history) : Remember(i)[k] = history[k]
          /\ Remember(i)[Len(history) + 1] = i
      BY <1>2, AppendProperties DEF Remember
    <2>2. \A k \in 1..Len(Remember(i)) :
                    \/ k = Len(Remember(i)) /\ Remember(i)[k] = i
                    \/ k + 0 \in 1..Len(history) /\ Remember(i)[k] = history[k + 0]
      BY <2>1, LenProperties
    <2> QED BY <1>2, <2>1, <2>2, ServerAssumption
  <1> QED BY <1>1, <1>2

\* The history's elements are requests.
LEMMA HistoryType ==
    ASSUME TypeOK
    PROVE  /\ DOMAIN history = 1..Len(history) /\ Len(history) \in Nat
           /\ \A k \in DOMAIN history : history[k] \in Request
  BY LenProperties DEF TypeOK

\* Dropping handles of i touches i only, and closes its entry with the last one.
LEMMA DropHandlesEffect ==
    ASSUME Inv, NEW i \in 1..total, NEW gone \in SUBSET Holder, DropHandles(i, gone), total' = total
    PROVE  /\ holders' \in [Request -> SUBSET Holder]
           /\ holders'[i] = holders[i] \ gone
           /\ \A j \in Request : j # i => holders'[j] = holders[j] /\ entry'[j] = entry[j]
           /\ entry' \in [Request -> EntryRecord]
           /\ (entry'[i].live <=> holders'[i] # {})
           /\ entry'[i].fails = entry[i].fails
           /\ entry'[i].state = "failed" <=> entry[i].state = "failed"
           /\ entry'[i].live => entry'[i].state = entry[i].state
           /\ history' \in Seq(Request) /\ Len(history') <= HistoryLen
           /\ Entries' /\ Listed'
  <1> USE DEF Inv
  <1>1. i \in Request /\ total \in Nat
    BY ServerAssumption DEF TypeOK, Request
  <1>2. /\ holders' \in [Request -> SUBSET Holder]
        /\ holders'[i] = holders[i] \ gone
        /\ \A j \in Request : j # i => holders'[j] = holders[j]
    BY <1>1 DEF DropHandles, TypeOK
  <1>3. CASE holders[i] # {} /\ holders[i] \subseteq gone
    <2>1. /\ entry' \in [Request -> EntryRecord]
          /\ \A j \in Request : j # i => entry'[j] = entry[j]
          /\ entry'[i].live = FALSE
          /\ entry'[i].fails = entry[i].fails
          /\ entry'[i].state = IF entry[i].state = "failed" THEN "failed" ELSE "closed"
      <3>1. entry \in [Request -> EntryRecord]
        BY DEF TypeOK, EntryRecord
      <3>2. entry' = [entry EXCEPT ![i].live = FALSE,
                                   ![i].state = IF @ = "failed" THEN @ ELSE "closed"]
        BY <1>3 DEF DropHandles
      <3>3. \A j \in Request : j # i => entry'[j] = entry[j]
        BY <3>1, <3>2
      <3>4. entry'[i].live = FALSE
        BY <1>1, <3>1, <3>2 DEF EntryRecord
      <3>5. entry'[i].fails = entry[i].fails
        BY <1>1, <3>1, <3>2 DEF EntryRecord
      <3>6. entry'[i].state = IF entry[i].state = "failed" THEN "failed" ELSE "closed"
        BY <1>1, <3>1, <3>2 DEF EntryRecord
      <3>7. entry' \in [Request -> EntryRecord]
        BY <1>1, <3>1, <3>2 DEF EntryRecord
      <3> QED BY <3>3, <3>4, <3>5, <3>6, <3>7
    <2>2. holders'[i] = {}
      BY <1>2, <1>3
    <2>3. entry[i].live
      BY <1>1, <1>3 DEF Entries, EntryOf
    <2>4. history' = Remember(i)
      BY <1>3 DEF DropHandles
    <2>5. PICK shift \in {0, 1} :
                 \A k \in 1..Len(Remember(i)) :
                    \/ k = Len(Remember(i)) /\ Remember(i)[k] = i
                    \/ k + shift \in 1..Len(history) /\ Remember(i)[k] = history[k + shift]
      BY <1>1, RememberEffect DEF TypeOK
    <2>6. history' \in Seq(Request) /\ Len(history') <= HistoryLen
      BY <1>1, <2>4, RememberEffect DEF TypeOK
    <2>7. DOMAIN history = 1..Len(history) /\ DOMAIN history' = 1..Len(history')
      BY <2>6, LenProperties DEF TypeOK
    <2>8. \A k \in DOMAIN history : history[k] # i /\ history[k] \in Request
      BY <2>3, HistoryType DEF Listed
    <2>9. Listed'
      <3>1. \A k \in DOMAIN history' : history'[k] <= total' /\ ~entry'[history'[k]].live
        <4> SUFFICES ASSUME NEW k \in DOMAIN history'
                     PROVE  history'[k] <= total /\ ~entry'[history'[k]].live
          OBVIOUS
        <4>1. CASE history'[k] = i
          BY <1>1, <2>1, <4>1
        <4>2. CASE k + shift \in DOMAIN history /\ history'[k] = history[k + shift]
          BY <2>1, <2>8, <4>2 DEF Listed
        <4> QED BY <4>1, <4>2, <2>4, <2>5, <2>7
      <3>2. ASSUME NEW j \in DOMAIN history', NEW k \in DOMAIN history', j # k
            PROVE  history'[j] # history'[k]
        <4>1. j \in Int /\ k \in Int
          BY <2>7
        <4>2. CASE history'[j] = i /\ j = Len(history')
          BY <3>2, <4>1, <4>2, <2>4, <2>5, <2>7, <2>8
        <4>3. CASE history'[k] = i /\ k = Len(history')
          BY <3>2, <4>1, <4>3, <2>4, <2>5, <2>7, <2>8
        <4>4. CASE /\ j + shift \in 1..Len(history) /\ history'[j] = history[j + shift]
                   /\ k + shift \in 1..Len(history) /\ history'[k] = history[k + shift]
          BY <3>2, <4>1, <4>4, <2>7 DEF Listed
        <4> QED BY <4>2, <4>3, <4>4, <2>4, <2>5, <2>7
      <3> QED BY <3>1, <3>2 DEF Listed
    <2>10. Entries'
      BY <1>1, <1>2, <2>1, <2>2 DEF Entries, EntryOf, TypeOK, EntryRecord
    <2> QED BY <1>2, <2>1, <2>2, <2>6, <2>9, <2>10
  <1>4. CASE ~(holders[i] # {} /\ holders[i] \subseteq gone)
    <2>1. UNCHANGED <<entry, history>>
      BY <1>4 DEF DropHandles
    <2>2. holders'[i] = {} <=> holders[i] = {}
      BY <1>2, <1>4
    <2>3. Entries'
      BY <1>1, <1>2, <2>1, <2>2 DEF Entries, EntryOf
    <2> QED BY <1>1, <1>2, <2>1, <2>2, <2>3 DEF Entries, EntryOf, Listed, TypeOK, EntryRecord
  <1> QED BY <1>3, <1>4

\* Reporting a failure marks a living entry, and counts it unless it was marked.
LEMMA FailEffect ==
    ASSUME Inv, NEW i \in 1..total, entry[i].live, Fail(i),
           UNCHANGED <<holders, total, history>>
    PROVE  /\ entry' \in [Request -> EntryRecord]
           /\ \A j \in Request : j # i => entry'[j] = entry[j]
           /\ entry'[i].live /\ entry'[i].state = "failed"
           /\ failed' = IF entry[i].state = "failed" THEN failed ELSE failed + 1
           /\ Entries' /\ Listed'
  <1> USE DEF Inv
  <1>1. i \in Request
    BY ServerAssumption DEF TypeOK, Request
  <1>2. /\ entry' \in [Request -> EntryRecord]
        /\ \A j \in Request : j # i => entry'[j] = entry[j]
        /\ entry'[i].live /\ entry'[i].state = "failed" /\ entry'[i].fails = 1
        /\ failed' = IF entry[i].state = "failed" THEN failed ELSE failed + 1
    <2>1. entry \in [Request -> EntryRecord]
      BY DEF TypeOK, EntryRecord
    <2>2. CASE entry[i].fails = 0
      <3>1. entry' = [entry EXCEPT ![i].state = "failed", ![i].fails = 1]
            /\ failed' = failed + 1
        BY <2>2 DEF Fail
      <3>2. entry' \in [Request -> EntryRecord]
        <4> DEFINE marked == [entry EXCEPT ![i].state = "failed"]
        <4>1. marked \in [Request -> EntryRecord]
          BY <1>1, <2>1 DEF EntryRecord
        <4>2. entry' = [marked EXCEPT ![i].fails = 1]
          BY <3>1
        <4> HIDE DEF marked
        <4> QED BY <1>1, <4>1, <4>2 DEF EntryRecord
      <3>3. \A j \in Request : j # i => entry'[j] = entry[j]
        BY <2>1, <3>1
      <3>4. entry'[i].live
        BY <1>1, <2>1, <3>1 DEF EntryRecord
      <3>5. entry'[i].state = "failed" /\ entry'[i].fails = 1
        BY <1>1, <2>1, <3>1 DEF EntryRecord
      <3>6. entry[i].state # "failed"
        BY <1>1, <2>2 DEF Entries, EntryOf
      <3> QED BY <3>1, <3>2, <3>3, <3>4, <3>5, <3>6
    <2>3. CASE entry[i].fails # 0
      <3>1. entry[i].state = "failed" /\ entry[i].fails = 1
        BY <1>1, <2>3 DEF Entries, EntryOf
      <3> QED BY <2>1, <2>3, <3>1 DEF Fail
    <2> QED BY <2>2, <2>3
  <1>3. Entries'
    BY <1>1, <1>2 DEF Entries, EntryOf, TypeOK
  <1>4. Listed'
    <2>1. \A k \in DOMAIN history : entry'[history[k]] = entry[history[k]]
      BY <1>2, HistoryType DEF Listed
    <2> QED BY <2>1 DEF Listed
  <1> QED BY <1>2, <1>3, <1>4

\* Opening touches an entry that is connecting, and marks no failure.
LEMMA SetOpenEffect ==
    ASSUME Inv, NEW i \in 1..total, entry[i].live, SetOpen(i),
           total' = total, history' = history,
           \A j \in Request : holders'[j] = {} <=> holders[j] = {},
           \A j \in Request : j > total => holders'[j] = {}
    PROVE  /\ entry' \in [Request -> EntryRecord]
           /\ \A j \in Request : j # i => entry'[j] = entry[j]
           /\ entry'[i].live /\ entry'[i].fails = entry[i].fails
           /\ entry'[i].state = IF entry[i].state = "connecting" THEN "open" ELSE entry[i].state
           /\ Entries' /\ Listed'
  <1> USE DEF Inv
  <1>1. i \in Request
    BY ServerAssumption DEF TypeOK, Request
  <1>2. /\ entry' \in [Request -> EntryRecord]
        /\ \A j \in Request : j # i => entry'[j] = entry[j]
        /\ entry'[i].live /\ entry'[i].fails = entry[i].fails
        /\ entry'[i].state = IF entry[i].state = "connecting" THEN "open" ELSE entry[i].state
    BY <1>1 DEF SetOpen, TypeOK, EntryRecord
  <1>3. Entries'
    <2>1. \A j \in Request : j # i => EntryOf(j)'
      BY <1>2 DEF Entries, EntryOf
    <2>2. EntryOf(i)'
      BY <1>1, <1>2 DEF Entries, EntryOf
    <2> QED BY <2>1, <2>2 DEF Entries
  <1>4. Listed'
    <2>1. \A k \in DOMAIN history : entry'[history[k]] = entry[history[k]]
      BY <1>2, HistoryType DEF Listed
    <2> QED BY <2>1 DEF Listed
  <1> QED BY <1>2, <1>3, <1>4

-----------------------------------------------------------------------------
USE DEF Guarded, TaskState, TunnelState, Holder, TaskHolds, Mode, Busy, Joined

\* A task's request was born, and its entry is alive while the task holds it.
LEMMA CurrentBorn ==
    ASSUME Inv, NEW c \in Conn, task[c] \in Busy
    PROVE  /\ current[c] \in 1..total /\ current[c] \in Request
           /\ entry[current[c]].live
           /\ \A d \in Conn : d # c => current[d] # current[c]
  <1> USE DEF Inv
  <1>1. current[c] \in 1..total
    BY DEF TypeOK, Serving
  <1>2. current[c] \in Request
    BY <1>1, ServerAssumption DEF TypeOK, Request
  <1>3. holders[current[c]] # {}
    BY <1>2 DEF Held, HeldBy, Owned, OwnedOf
  <1>4. entry[current[c]].live
    BY <1>1, <1>2, <1>3 DEF Entries, EntryOf
  <1> QED BY <1>1, <1>2, <1>4 DEF Serving

\* A tunnel's task works for a request that was born and is alive.
LEMMA TunnelBorn ==
    ASSUME Inv, NEW i \in Request, tunnel[i] # "none"
    PROVE  i \in 1..total /\ entry[i].live /\ holders[i] = {"tunnel"}
  <1> USE DEF Inv
  <1>1. holders[i] = {"tunnel"}
    BY DEF Owned, OwnedOf
  <1>2. i \in 1..total
    BY <1>1, ServerAssumption DEF Owned, OwnedOf, TypeOK, Request
  <1> QED BY <1>1, <1>2 DEF Entries, EntryOf

\* A step of c's task on its request i leaves the others as they are: what they
\* hold and owe, and whose the other requests' handles are.
LEMMA OthersKept ==
    ASSUME Inv, NEW c \in Conn, NEW i \in Nat,
           total' \in Nat, total' >= total,
           \A d \in Conn : d # c => task'[d] = task[d] /\ current'[d] = current[d],
           \A d \in Conn : d # c => current[d] = 0 \/ current[d] # i,
           current[c] \in {0, i},
           \A j \in Request : j # i => /\ tunnel'[j] = tunnel[j]
                                       /\ holders'[j] = holders[j]
                                       /\ entry'[j] = entry[j]
    PROVE  /\ \A d \in Conn : d # c => HeldBy(d)' /\ RefusedBy(d)'
           /\ \A j \in Request : j # i => OwnedOf(j)'
  <1> USE DEF Inv
  <1>1. ASSUME NEW d \in Conn, d # c, task'[d] \in Busy
        PROVE  /\ task'[d] = task[d] /\ current'[d] = current[d]
               /\ tunnel'[current[d]] = tunnel[current[d]]
               /\ holders'[current[d]] = holders[current[d]]
               /\ entry'[current[d]] = entry[current[d]]
    <2>1. current[d] \in Request /\ current[d] \in 1..total
      BY <1>1, CurrentBorn
    <2> QED BY <1>1, <2>1
  <1>2. \A d \in Conn : d # c => HeldBy(d)' /\ RefusedBy(d)'
    BY <1>1 DEF Held, HeldBy, Refused, RefusedBy
  <1>3. ASSUME NEW j \in Request, j # i
        PROVE  OwnedOf(j)'
    <2>1. j \in Nat /\ j # 0 /\ total \in Nat
      BY DEF Request, TypeOK
    <2>2. \A d \in Conn : current[d] = j => d # c
      BY <1>3, <2>1
    <2> QED BY <1>3, <2>1, <2>2 DEF Owned, OwnedOf
  <1> QED BY <1>2, <1>3

\* So the invariant's parts about tasks need a look at c and i only.
LEMMA ServeStep ==
    ASSUME Inv, NEW c \in Conn, NEW i \in Request, ~Joined(c), server' = server,
           total' \in Nat, total' >= total,
           current[c] \in {0, i}, current'[c] \in {0, i}, task'[c] \in Busy <=> current'[c] = i,
           \A d \in Conn : d # c => /\ current[d] # i
                                    /\ task'[d] = task[d] /\ current'[d] = current[d],
           \A j \in Request : j # i => /\ tunnel'[j] = tunnel[j]
                                       /\ holders'[j] = holders[j]
                                       /\ entry'[j] = entry[j],
           HeldBy(c)', RefusedBy(c)', OwnedOf(i)'
    PROVE  Serving' /\ Held' /\ Owned' /\ Refused'
  <1>1. i \in Nat /\ i # 0
    BY DEF Request
  <1>2. /\ \A d \in Conn : d # c => HeldBy(d)' /\ RefusedBy(d)'
        /\ \A j \in Request : j # i => OwnedOf(j)'
    BY <1>1, OthersKept
  <1>3. Serving'
    <2>1. \A d \in Conn : current'[d] # 0 <=> task'[d] \in Busy
      BY <1>1 DEF Inv, Serving
    <2>2. \A d, e \in Conn : current'[d] = current'[e] /\ current'[d] # 0 => d = e
      BY <1>1 DEF Inv, Serving
    <2>3. server' # "stopped"
      BY DEF Inv, Serving
    <2> QED BY <2>1, <2>2, <2>3 DEF Serving
  <1> QED BY <1>2, <1>3 DEF Held, Owned, Refused

\* A connection's step that concerns no request.
LEMMA IdleStepInv ==
    ASSUME Inv, TypeOK', NEW c \in Conn, NEW to \in {"spawned", "idle", "ended"},
           task' = [task EXCEPT ![c] = to], task[c] \notin Busy,
           server = "stopped" => to = "ended",
           UNCHANGED <<server, current, tunnel, holders, entry, total, history>>
    PROVE  Inv'
  <1> USE DEF Inv
  <1>1. Serving'
    BY DEF Serving, TypeOK
  <1>2. Held' /\ Owned' /\ Refused'
    BY DEF Held, HeldBy, Owned, OwnedOf, Refused, RefusedBy, TypeOK
  <1>3. Entries' /\ Listed'
    BY DEF Entries, EntryOf, Listed
  <1> QED BY <1>1, <1>2, <1>3

-----------------------------------------------------------------------------
\* The sets that are counted are finite, and no more entries fail than were born.
LEMMA CountedFinite ==
    ASSUME total \in Nat
    PROVE  /\ IsFiniteSet(Started)
           /\ IsFiniteSet(FailedOnes)
           /\ Cardinality(FailedOnes) \in 0..total
  <1>1. IsFiniteSet(Started)
    BY ServerAssumption, FS_Subset DEF Started
  <1>2. IsFiniteSet(1..total) /\ Cardinality(1..total) = total
    BY FS_Interval
  <1>3. FailedOnes \in SUBSET (1..total)
    BY DEF FailedOnes, Born
  <1>4. IsFiniteSet(FailedOnes) /\ Cardinality(FailedOnes) <= Cardinality(1..total)
    BY <1>2, <1>3, FS_Subset
  <1> QED BY <1>1, <1>2, <1>4, FS_CardinalityType

\* The count stays if nobody starts or ends.
LEMMA SameStarted ==
    ASSUME active = Cardinality(Started), active' = active,
           \A c \in Conn : task'[c] \in Guarded <=> task[c] \in Guarded
    PROVE  active' = Cardinality(Started')
  <1>1. Started' = Started
    BY DEF Started
  <1> QED BY <1>1

\* A task that ends is counted out if it was counted in.
LEMMA ReleaseCounts ==
    ASSUME TypeOK, active = Cardinality(Started), NEW c \in Conn,
           task' = [task EXCEPT ![c] = "ended"], active' = Release(c)
    PROVE  active' \in Nat /\ active' = Cardinality(Started')
  <1>1. IsFiniteSet(Started)
    BY CountedFinite DEF TypeOK
  <1>2. CASE task[c] \in Guarded
    <2>1. Started' = Started \ {c} /\ c \in Started
      BY <1>2 DEF Started, TypeOK
    <2>2. /\ IsFiniteSet(Started \ {c})
          /\ Cardinality(Started \ {c}) = Cardinality(Started) - 1
      BY <1>1, <2>1, FS_RemoveElement
    <2>3. Cardinality(Started \ {c}) \in Nat
      BY <2>2, FS_CardinalityType
    <2>4. active' = active - 1
      BY <1>2 DEF Release
    <2> QED BY <2>1, <2>2, <2>3, <2>4
  <1>3. CASE task[c] \notin Guarded
    <2>1. Started' = Started
      BY <1>3 DEF Started, TypeOK
    <2> QED BY <1>3, <2>1 DEF Release, TypeOK
  <1> QED BY <1>2, <1>3

\* A task that starts is counted in.
LEMMA StartCounts ==
    ASSUME TypeOK, active = Cardinality(Started), NEW c \in Conn, Start(c)
    PROVE  active' \in Nat /\ active' = Cardinality(Started')
  <1>1. IsFiniteSet(Started)
    BY CountedFinite DEF TypeOK
  <1>2. Started' = Started \cup {c} /\ c \notin Started
    BY DEF Started, Start, TypeOK
  <1>3. Cardinality(Started \cup {c}) = Cardinality(Started) + 1
    BY <1>1, <1>2, FS_AddElement
  <1> QED BY <1>2, <1>3 DEF Start, TypeOK

\* The failures stay if no entry is marked that was not.
LEMMA SameFailed ==
    ASSUME total \in Nat, total' \in Nat, total' >= total,
           failed = Cardinality(FailedOnes), failed' = failed,
           \A j \in 1..total : entry'[j].state = "failed" <=> entry[j].state = "failed",
           \A j \in 1..total' : j > total => entry'[j].state # "failed"
    PROVE  failed' \in 0..total' /\ failed' = Cardinality(FailedOnes')
  <1>1. FailedOnes' = FailedOnes
    BY DEF FailedOnes, Born
  <1>2. failed \in 0..total
    BY CountedFinite
  <1> QED BY <1>1, <1>2

\* A failure that is reported is counted the first time.
LEMMA FailCounts ==
    ASSUME Inv, failed = Cardinality(FailedOnes), NEW i \in 1..total, entry[i].live, Fail(i),
           UNCHANGED <<holders, total, history>>
    PROVE  failed' \in 0..total' /\ failed' = Cardinality(FailedOnes')
  <1>1. /\ \A j \in Request : j # i => entry'[j] = entry[j]
        /\ entry'[i].state = "failed"
        /\ failed' = IF entry[i].state = "failed" THEN failed ELSE failed + 1
    BY FailEffect
  <1>2. total \in Nat /\ 1..total \subseteq Request
    BY ServerAssumption DEF Inv, TypeOK, Request
  <1>3. FailedOnes' = FailedOnes \cup {i}
    BY <1>1, <1>2 DEF FailedOnes, Born
  <1>4. i \in FailedOnes <=> entry[i].state = "failed"
    BY DEF FailedOnes, Born
  <1>5. Cardinality(FailedOnes \cup {i}) = IF i \in FailedOnes THEN failed ELSE failed + 1
    BY <1>2, CountedFinite, FS_AddElement
  <1>6. IsFiniteSet(1..total) /\ Cardinality(1..total) = total
    BY <1>2, FS_Interval
  <1>7. Cardinality(FailedOnes \cup {i}) <= total
    <2>1. FailedOnes \cup {i} \in SUBSET (1..total)
      BY DEF FailedOnes, Born
    <2> QED BY <1>6, <2>1, FS_Subset
  <1>8. failed \in Nat
    BY <1>2, CountedFinite
  <1> QED BY <1>1, <1>2, <1>3, <1>4, <1>5, <1>7, <1>8

-----------------------------------------------------------------------------
\* Ending a task.
LEMMA EndTaskInv ==
    ASSUME Inv, NEW c \in Conn, EndTask(c), ~Joined(c), active' \in Nat
    PROVE  Inv'
  <1> USE DEF Inv
  <1>1. /\ task' = [task EXCEPT ![c] = "ended"]
        /\ current' = [current EXCEPT ![c] = 0]
        /\ UNCHANGED <<server, routing, snapshot, total, failed>>
    BY DEF EndTask
  <1>2. CASE current[c] = 0
    <2>1. UNCHANGED <<current, tunnel, holders, entry, history>> /\ task[c] \notin Busy
      BY <1>1, <1>2 DEF EndTask, Serving, TypeOK
    <2>2. TypeOK'
      BY <1>1, <2>1 DEF TypeOK
    <2> QED BY <1>1, <2>1, <2>2, IdleStepInv
  <1>3. CASE current[c] # 0
    <2>1. PICK i \in Request : /\ i = current[c] /\ i \in 1..total
                               /\ \A d \in Conn : d # c => current[d] # i
      BY <1>3, CurrentBorn DEF Serving
    <2>2. /\ DropHandles(i, TaskHolds)
          /\ tunnel' = [tunnel EXCEPT ![i] = IF @ = "upgrade" THEN "orphan" ELSE @]
      BY <1>3, <2>1 DEF EndTask
    <2>3. /\ holders' \in [Request -> SUBSET Holder]
          /\ holders'[i] = holders[i] \ TaskHolds
          /\ \A j \in Request : j # i => holders'[j] = holders[j] /\ entry'[j] = entry[j]
          /\ entry' \in [Request -> EntryRecord]
          /\ history' \in Seq(Request) /\ Len(history') <= HistoryLen
          /\ Entries' /\ Listed'
      BY <1>1, <2>1, <2>2, DropHandlesEffect
    <2>4. TypeOK'
      <3>1. tunnel' \in [Request -> TunnelState]
        BY <2>1, <2>2 DEF TypeOK
      <3>2. current' \in [Conn -> 0..total'] /\ task' \in [Conn -> TaskState]
        BY <1>1 DEF TypeOK
      <3> QED BY <1>1, <2>3, <3>1, <3>2 DEF TypeOK, EntryRecord
    <2>5. HeldBy(c)' /\ RefusedBy(c)' /\ task'[c] \notin Busy /\ current'[c] = 0
      BY <1>1 DEF TypeOK, HeldBy, RefusedBy
    <2>6. OwnedOf(i)'
      BY <1>1, <2>1, <2>2, <2>3 DEF Owned, OwnedOf, Held, HeldBy, TypeOK
    <2>7. Serving' /\ Held' /\ Owned' /\ Refused'
      <3>1. /\ total' \in Nat /\ total' >= total
            /\ \A d \in Conn : d # c => task'[d] = task[d] /\ current'[d] = current[d]
        BY <1>1 DEF TypeOK
      <3>2. \A j \in Request : j # i => tunnel'[j] = tunnel[j]
        BY <2>2 DEF TypeOK
      <3> QED BY <1>1, <2>1, <2>3, <2>5, <2>6, <3>1, <3>2, ServeStep DEF Request
    <2> QED BY <2>3, <2>4, <2>7
  <1> QED BY <1>2, <1>3

\* Ending a task, with the counts.
LEMMA EndTaskStep ==
    ASSUME IInv, NEW c \in Conn, EndTask(c), ~Joined(c)
    PROVE  IInv'
  <1> USE DEF IInv
  <1>1. active' \in Nat /\ active' = Cardinality(Started')
    BY ReleaseCounts DEF EndTask, Counts, Inv
  <1>2. Inv'
    BY <1>1, EndTaskInv
  <1>3. failed' = Cardinality(FailedOnes')
    <2>1. CASE current[c] = 0
      <3>1. UNCHANGED <<entry, total, failed>>
        BY <2>1 DEF EndTask
      <3>2. FailedOnes' = FailedOnes
        BY <3>1 DEF FailedOnes, Born
      <3> QED BY <3>1, <3>2 DEF Counts
    <2>2. CASE current[c] # 0
      <3>1. PICK i \in 1..total : i = current[c]
        BY <2>2, CurrentBorn DEF Inv, Serving
      <3>2. DropHandles(i, TaskHolds) /\ UNCHANGED <<total, failed>>
        BY <2>2, <3>1 DEF EndTask
      <3>3. /\ \A j \in Request : j # i => entry'[j] = entry[j]
            /\ entry'[i].state = "failed" <=> entry[i].state = "failed"
        BY <3>2, DropHandlesEffect
      <3>4. total \in Nat /\ 1..total \subseteq Request
        BY ServerAssumption DEF Inv, TypeOK, Request
      <3> QED BY <3>2, <3>3, <3>4, SameFailed DEF Counts
    <2> QED BY <2>1, <2>2
  <1> QED BY <1>1, <1>2, <1>3 DEF Counts

\* A new request belongs to the task that tracks it, which holds `by` of it.
LEMMA TrackStep ==
    ASSUME IInv, NEW c \in Conn, NEW by \in (SUBSET Holder) \ {{}}, Track(c, by),
           NEW to \in {"upgrading", "connect", "forward"}, task[c] = "idle",
           task' = [task EXCEPT ![c] = to],
           to = "connect" => by = {"service"},
           to = "forward" => by = {"service", "up"},
           to = "upgrading" => by = {"tunnel"},
           tunnel' = [tunnel EXCEPT ![total + 1] = IF to = "upgrading" THEN "upgrade" ELSE @]
    PROVE  IInv'
  <1> USE DEF IInv, Inv
  <1>1. PICK i \in Request : i = total + 1 /\ i \in 1..total'
    BY ServerAssumption DEF Track, TypeOK, Request
  <1>2. /\ total' = total + 1 /\ total' \in 0..MaxRequests /\ total \in Nat
        /\ current' = [current EXCEPT ![c] = i]
        /\ holders' = [holders EXCEPT ![i] = by]
        /\ UNCHANGED <<server, routing, snapshot, active, entry, failed, history>>
    <2>1. total' = total + 1 /\ total < MaxRequests /\ total \in Nat
      BY DEF Track, TypeOK
    <2>2. total' \in 0..MaxRequests
      BY <2>1, ServerAssumption
    <2> QED BY <1>1, <2>1, <2>2 DEF Track
  <1>3. /\ current[c] = 0
        /\ \A d \in Conn : current[d] # i
        /\ tunnel[i] = "none" /\ entry[i] = Unborn
    <2>1. current[c] = 0
      BY DEF Serving
    <2>2. \A d \in Conn : current[d] \in 0..total
      BY DEF TypeOK
    <2>3. i > total
      BY <1>1, <1>2
    <2>4. OwnedOf(i) /\ EntryOf(i)
      BY DEF Owned, Entries
    <2>5. holders[i] = {} /\ entry[i] = Unborn
      BY <2>3, <2>4 DEF OwnedOf, EntryOf
    <2>6. tunnel[i] = "none"
      BY <2>4, <2>5 DEF OwnedOf
    <2> QED BY <1>1, <1>2, <2>1, <2>2, <2>5, <2>6
  <1>4. TypeOK'
    <2>1. current' \in [Conn -> 0..total'] /\ task' \in [Conn -> TaskState]
      BY <1>1, <1>2 DEF TypeOK
    <2>2. holders' \in [Request -> SUBSET Holder] /\ tunnel' \in [Request -> TunnelState]
      BY <1>1, <1>2 DEF TypeOK
    <2>3. failed' \in 0..total'
      BY <1>2 DEF TypeOK
    <2> QED BY <1>2, <2>1, <2>2, <2>3 DEF TypeOK
  <1>5. HeldBy(c)' /\ RefusedBy(c)' /\ OwnedOf(i)'
    <2>1. /\ current'[c] = i /\ task'[c] = to /\ holders'[i] = by /\ total' = i
          /\ tunnel'[i] = IF to = "upgrading" THEN "upgrade" ELSE "none"
      BY <1>1, <1>2, <1>3 DEF TypeOK
    <2>2. CASE to = "connect"
      BY <2>1, <2>2 DEF HeldBy, RefusedBy, OwnedOf, Request
    <2>3. CASE to = "forward"
      BY <2>1, <2>3 DEF HeldBy, RefusedBy, OwnedOf, Request
    <2>4. CASE to = "upgrading"
      BY <2>1, <2>4 DEF HeldBy, RefusedBy, OwnedOf, Request
    <2> QED BY <2>2, <2>3, <2>4
  <1>6. Serving' /\ Held' /\ Owned' /\ Refused'
    <2>1. /\ total' \in Nat /\ total' >= total /\ current'[c] = i /\ task'[c] \in Busy
          /\ \A d \in Conn : d # c => task'[d] = task[d] /\ current'[d] = current[d]
      BY <1>2 DEF TypeOK
    <2>2. \A j \in Request : j # i => tunnel'[j] = tunnel[j] /\ holders'[j] = holders[j]
      BY <1>1, <1>2 DEF TypeOK
    <2> QED BY <1>2, <1>3, <1>5, <2>1, <2>2, ServeStep
  <1>7. Entries'
    <2>1. \A j \in Request : j # i => EntryOf(j)'
      BY <1>1, <1>2 DEF Entries, EntryOf, TypeOK, Request
    <2>2. EntryOf(i)'
      BY <1>1, <1>2, <1>3 DEF EntryOf, Unborn, TypeOK
    <2> QED BY <2>1, <2>2 DEF Entries
  <1>8. Listed'
    BY <1>2, HistoryType DEF Listed, Request
  <1>9. active' = Cardinality(Started')
    BY <1>2, SameStarted DEF Counts, TypeOK
  <1>10. failed' = Cardinality(FailedOnes')
    <2>1. \A j \in 1..total' : j > total => entry'[j].state # "failed"
      BY <1>1, <1>2, <1>3 DEF Unborn
    <2> QED BY <1>2, <2>1, SameFailed DEF Counts
  <1> QED BY <1>4, <1>6, <1>7, <1>8, <1>9, <1>10 DEF Counts

-----------------------------------------------------------------------------
\* Counting, when nobody starts, ends or fails.
LEMMA CountsKept ==
    ASSUME IInv, total' = total, active' = active, failed' = failed, NEW i \in 1..total,
           \A d \in Conn : task'[d] \in Guarded <=> task[d] \in Guarded,
           \A j \in Request : j # i => entry'[j] = entry[j],
           entry'[i].state = "failed" <=> entry[i].state = "failed"
    PROVE  Counts' /\ active' \in Nat /\ failed' \in 0..total'
  <1>1. total \in Nat /\ 1..total \subseteq Request
    BY ServerAssumption DEF IInv, Inv, TypeOK, Request
  <1>2. active' = Cardinality(Started')
    BY SameStarted DEF IInv, Counts
  <1>3. failed' \in 0..total' /\ failed' = Cardinality(FailedOnes')
    BY <1>1, SameFailed DEF IInv, Counts
  <1> QED BY <1>2, <1>3 DEF Counts, IInv, Inv, TypeOK

\* A failed attempt's entry is marked; the 502 follows.
LEMMA ServiceErrInv ==
    ASSUME IInv, NEW c \in Conn, ServiceErr(c)
    PROVE  IInv'
  <1> USE DEF IInv, Inv
  <1>1. PICK i \in Request : /\ i = current[c] /\ i \in 1..total /\ entry[i].live
                             /\ \A d \in Conn : d # c => current[d] # i
    BY CurrentBorn DEF ServiceErr
  <1>2. /\ task' = [task EXCEPT ![c] = "refused"] /\ Fail(i)
        /\ UNCHANGED <<server, routing, snapshot, current, active, tunnel, holders, total, history>>
    BY <1>1 DEF ServiceErr
  <1>3. /\ entry' \in [Request -> EntryRecord]
        /\ \A j \in Request : j # i => entry'[j] = entry[j]
        /\ entry'[i].live /\ entry'[i].state = "failed"
        /\ Entries' /\ Listed'
    BY <1>1, <1>2, FailEffect
  <1>4. failed' \in 0..total' /\ failed' = Cardinality(FailedOnes')
    BY <1>1, <1>2, FailCounts DEF Counts
  <1>5. active' = Cardinality(Started')
    BY <1>2, SameStarted DEF Counts, ServiceErr, TypeOK
  <1>6. TypeOK'
    BY <1>2, <1>3, <1>4 DEF TypeOK, EntryRecord
  <1>7. HeldBy(c)' /\ RefusedBy(c)' /\ OwnedOf(i)'
    <2>1. HeldBy(c) /\ OwnedOf(i)
      BY DEF Held, Owned
    <2> QED BY <1>1, <1>2, <1>3, <2>1 DEF ServiceErr, HeldBy, RefusedBy, OwnedOf, TypeOK
  <1>8. Serving' /\ Held' /\ Owned' /\ Refused'
    <2>1. /\ total' \in Nat /\ total' >= total /\ task'[c] \in Busy /\ ~Joined(c)
          /\ \A d \in Conn : d # c => task'[d] = task[d]
      BY <1>2 DEF TypeOK, ServiceErr
    <2> QED BY <1>1, <1>2, <1>3, <1>7, <2>1, ServeStep
  <1> QED BY <1>3, <1>4, <1>5, <1>6, <1>8 DEF Counts

\* A task lets go of its request, which ends unless its body is still sent.
LEMMA LetGoInv ==
    ASSUME IInv, NEW c \in Conn, NEW what \in {"service", "down"},
           \/ task[c] = "refused" /\ what = "service"
           \/ task[c] = "response" /\ what = "down",
           task' = [task EXCEPT ![c] = "idle"], current' = [current EXCEPT ![c] = 0],
           DropHandles(current[c], {what}),
           UNCHANGED <<server, routing, snapshot, active, tunnel, total, failed>>
    PROVE  IInv'
  <1> USE DEF IInv, Inv
  <1>1. PICK i \in Request : /\ i = current[c] /\ i \in 1..total /\ entry[i].live
                             /\ \A d \in Conn : d # c => current[d] # i
    BY CurrentBorn
  <1>2. DropHandles(i, {what}) /\ {what} \in SUBSET Holder
    BY <1>1
  <1>3. /\ holders' \in [Request -> SUBSET Holder]
        /\ holders'[i] = holders[i] \ {what}
        /\ \A j \in Request : j # i => holders'[j] = holders[j] /\ entry'[j] = entry[j]
        /\ entry' \in [Request -> EntryRecord]
        /\ entry'[i].state = "failed" <=> entry[i].state = "failed"
        /\ history' \in Seq(Request) /\ Len(history') <= HistoryLen
        /\ Entries' /\ Listed'
    BY <1>1, <1>2, DropHandlesEffect
  <1>4. Counts'
    <2>1. \A d \in Conn : task'[d] \in Guarded <=> task[d] \in Guarded
      BY DEF TypeOK
    <2>2. /\ total' = total /\ active' = active /\ failed' = failed /\ i \in 1..total
          /\ \A j \in Request : j # i => entry'[j] = entry[j]
          /\ entry'[i].state = "failed" <=> entry[i].state = "failed"
      BY <1>1, <1>3
    <2> QED BY <2>1, <2>2, CountsKept
  <1>5. TypeOK'
    BY <1>3 DEF TypeOK, EntryRecord
  <1>6. HeldBy(c)' /\ RefusedBy(c)' /\ task'[c] \notin Busy /\ current'[c] = 0
    BY DEF TypeOK, HeldBy, RefusedBy
  <1>7. OwnedOf(i)'
    <2>1. HeldBy(c) /\ OwnedOf(i)
      BY DEF Held, Owned
    <2>2. /\ "service" \notin holders'[i] /\ "down" \notin holders'[i]
          /\ "tunnel" \notin holders'[i] /\ tunnel'[i] = "none"
      BY <1>1, <1>3, <2>1 DEF HeldBy, OwnedOf
    <2> QED BY <1>1, <2>2 DEF OwnedOf, TypeOK
  <1>8. Serving' /\ Held' /\ Owned' /\ Refused'
    <2>1. /\ total' \in Nat /\ total' >= total /\ ~Joined(c)
          /\ \A d \in Conn : d # c => task'[d] = task[d] /\ current'[d] = current[d]
      BY DEF TypeOK
    <2> QED BY <1>1, <1>3, <1>6, <1>7, <2>1, ServeStep DEF Request
  <1> QED BY <1>3, <1>4, <1>5, <1>8

\* The origin's answer opens the entry and hands it to the response body.
LEMMA RespondInv ==
    ASSUME IInv, NEW c \in Conn, Respond(c)
    PROVE  IInv'
  <1> USE DEF IInv, Inv
  <1>1. PICK i \in Request : /\ i = current[c] /\ i \in 1..total /\ entry[i].live
                             /\ \A d \in Conn : d # c => current[d] # i
    BY CurrentBorn DEF Respond
  <1>2. /\ task' = [task EXCEPT ![c] = "response"] /\ SetOpen(i)
        /\ holders' = [holders EXCEPT ![i] = (@ \ {"service"}) \cup {"down"}]
        /\ UNCHANGED <<server, routing, snapshot, current, active, tunnel, total, failed, history>>
    BY <1>1 DEF Respond
  <1>3. /\ holders' \in [Request -> SUBSET Holder]
        /\ holders'[i] = (holders[i] \ {"service"}) \cup {"down"}
        /\ \A j \in Request : j # i => holders'[j] = holders[j]
    BY <1>2 DEF TypeOK
  <1>4. HeldBy(c) /\ OwnedOf(i) /\ "service" \in holders[i] /\ holders[i] \subseteq {"service", "up"}
    BY <1>1 DEF Held, Owned, HeldBy, Respond
  <1>5. /\ entry' \in [Request -> EntryRecord]
        /\ \A j \in Request : j # i => entry'[j] = entry[j]
        /\ entry'[i].state = "failed" <=> entry[i].state = "failed"
        /\ Entries' /\ Listed'
    <2>1. \A j \in Request : holders'[j] = {} <=> holders[j] = {}
      BY <1>3, <1>4
    <2>2. \A j \in Request : j > total => holders'[j] = {}
      BY <1>1, <1>3 DEF Owned, OwnedOf, TypeOK
    <2>3. entry'[i].state = IF entry[i].state = "connecting" THEN "open" ELSE entry[i].state
      BY <1>1, <1>2, <2>1, <2>2, SetOpenEffect
    <2> QED BY <1>1, <1>2, <2>1, <2>2, <2>3, SetOpenEffect
  <1>6. Counts'
    <2>1. \A d \in Conn : task'[d] \in Guarded <=> task[d] \in Guarded
      BY <1>2 DEF TypeOK, Respond
    <2> QED BY <1>1, <1>2, <1>5, <2>1, CountsKept
  <1>7. TypeOK'
    BY <1>2, <1>3, <1>5 DEF TypeOK, EntryRecord
  <1>8. task'[c] = "response" /\ current'[c] = i
    BY <1>1, <1>2 DEF TypeOK
  <1>9. HeldBy(c)' /\ RefusedBy(c)'
    BY <1>3, <1>4, <1>8 DEF HeldBy, RefusedBy
  <1>10. OwnedOf(i)'
    <2>1. /\ "service" \notin holders'[i] /\ "tunnel" \notin holders'[i]
          /\ tunnel'[i] = "none"
      BY <1>2, <1>3, <1>4 DEF OwnedOf
    <2> QED BY <1>1, <1>2, <1>8, <2>1 DEF OwnedOf, TypeOK
  <1>11. Serving' /\ Held' /\ Owned' /\ Refused'
    <2>1. /\ total' \in Nat /\ total' >= total /\ ~Joined(c)
          /\ \A d \in Conn : d # c => task'[d] = task[d] /\ current'[d] = current[d]
      BY <1>2 DEF TypeOK, Respond
    <2> QED BY <1>1, <1>2, <1>3, <1>5, <1>8, <1>9, <1>10, <2>1, ServeStep
  <1> QED BY <1>5, <1>6, <1>7, <1>11

\* A tunnel's task takes the request over.
LEMMA ConnectOkInv ==
    ASSUME IInv, NEW c \in Conn, ConnectOk(c)
    PROVE  IInv'
  <1> USE DEF IInv, Inv
  <1>1. PICK i \in Request : /\ i = current[c] /\ i \in 1..total /\ entry[i].live
                             /\ \A d \in Conn : d # c => current[d] # i
    BY CurrentBorn DEF ConnectOk
  <1>2. /\ task' = [task EXCEPT ![c] = "upgrading"]
        /\ tunnel' = [tunnel EXCEPT ![i] = "upgrade"]
        /\ holders' = [holders EXCEPT ![i] = {"tunnel"}]
        /\ UNCHANGED <<server, routing, snapshot, current, active, entry, total, failed, history>>
    BY <1>1 DEF ConnectOk
  <1>3. /\ task'[c] = "upgrading" /\ current'[c] = i
        /\ tunnel'[i] = "upgrade" /\ holders'[i] = {"tunnel"}
        /\ \A j \in Request : j # i => tunnel'[j] = tunnel[j] /\ holders'[j] = holders[j]
    BY <1>1, <1>2 DEF TypeOK
  <1>4. Entries'
    BY <1>1, <1>2, <1>3 DEF Entries, EntryOf
  <1>5. Listed'
    BY <1>2 DEF Listed
  <1>6. Counts'
    <2>1. \A d \in Conn : task'[d] \in Guarded <=> task[d] \in Guarded
      BY <1>2 DEF TypeOK, ConnectOk
    <2> QED BY <1>1, <1>2, <2>1, CountsKept
  <1>7. TypeOK'
    <2>1. /\ task' \in [Conn -> TaskState] /\ tunnel' \in [Request -> TunnelState]
          /\ holders' \in [Request -> SUBSET Holder]
      BY <1>2 DEF TypeOK
    <2> QED BY <1>2, <2>1 DEF TypeOK
  <1>8. HeldBy(c)' /\ RefusedBy(c)' /\ OwnedOf(i)'
    BY <1>1, <1>2, <1>3 DEF HeldBy, RefusedBy, OwnedOf, TypeOK
  <1>9. Serving' /\ Held' /\ Owned' /\ Refused'
    <2>1. /\ total' \in Nat /\ total' >= total /\ ~Joined(c)
          /\ \A d \in Conn : d # c => task'[d] = task[d] /\ current'[d] = current[d]
      BY <1>2 DEF TypeOK, ConnectOk
    <2> QED BY <1>1, <1>2, <1>3, <1>8, <2>1, ServeStep
  <1> QED BY <1>4, <1>5, <1>6, <1>7, <1>9

\* The upgraded connection leaves its task, and the tunnel's task has it.
LEMMA UpgradeInv ==
    ASSUME IInv, NEW c \in Conn, Upgrade(c)
    PROVE  IInv'
  <1> USE DEF IInv, Inv
  <1>1. PICK i \in Request : /\ i = current[c] /\ i \in 1..total /\ entry[i].live
                             /\ \A d \in Conn : d # c => current[d] # i
    BY CurrentBorn DEF Upgrade
  <1>2. /\ task' = [task EXCEPT ![c] = "ended"]
        /\ current' = [current EXCEPT ![c] = 0]
        /\ active' = Release(c)
        /\ tunnel' = [tunnel EXCEPT ![i] = "relay"]
        /\ UNCHANGED <<server, routing, snapshot, holders, entry, total, failed, history>>
    BY <1>1 DEF Upgrade, bookVars
  <1>3. /\ task'[c] = "ended" /\ current'[c] = 0 /\ tunnel'[i] = "relay"
        /\ \A j \in Request : j # i => tunnel'[j] = tunnel[j]
    BY <1>1, <1>2 DEF TypeOK
  <1>4. Entries' /\ Listed'
    BY <1>2 DEF Entries, EntryOf, Listed
  <1>5. active' \in Nat /\ active' = Cardinality(Started')
    BY <1>2, ReleaseCounts DEF Counts
  <1>6. FailedOnes' = FailedOnes
    BY <1>2 DEF FailedOnes, Born
  <1>7. TypeOK'
    <2>1. /\ task' \in [Conn -> TaskState] /\ tunnel' \in [Request -> TunnelState]
          /\ current' \in [Conn -> 0..total']
      BY <1>2 DEF TypeOK
    <2> QED BY <1>2, <1>5, <2>1 DEF TypeOK
  <1>8. HeldBy(c)' /\ RefusedBy(c)' /\ OwnedOf(i)'
    <2>1. HeldBy(c) /\ OwnedOf(i)
      BY DEF Held, Owned
    <2> QED BY <1>1, <1>2, <1>3, <2>1 DEF HeldBy, RefusedBy, OwnedOf, TypeOK, Upgrade
  <1>9. Serving' /\ Held' /\ Owned' /\ Refused'
    <2>1. /\ total' \in Nat /\ total' >= total /\ ~Joined(c)
          /\ \A d \in Conn : d # c => task'[d] = task[d] /\ current'[d] = current[d]
      BY <1>2 DEF TypeOK, Upgrade
    <2> QED BY <1>1, <1>2, <1>3, <1>8, <2>1, ServeStep DEF Request
  <1> QED BY <1>2, <1>4, <1>5, <1>6, <1>7, <1>9 DEF Counts

-----------------------------------------------------------------------------
\* A step of another task on i leaves what the connections' tasks hold of the
\* other requests.
LEMMA BackgroundStep ==
    ASSUME Inv, NEW i \in Request, UNCHANGED <<server, task, current, total>>,
           \A j \in Request : j # i => /\ tunnel'[j] = tunnel[j]
                                       /\ holders'[j] = holders[j]
                                       /\ entry'[j] = entry[j],
           \A c \in Conn : current[c] = i => HeldBy(c)' /\ RefusedBy(c)',
           OwnedOf(i)'
    PROVE  Serving' /\ Held' /\ Owned' /\ Refused'
  <1> USE DEF Inv
  <1>1. Serving'
    BY DEF Serving
  <1>2. ASSUME NEW c \in Conn, current[c] # i
        PROVE  HeldBy(c)' /\ RefusedBy(c)'
    <2>1. CASE task[c] \in Busy
      <3>1. current[c] \in Request
        BY <2>1, CurrentBorn
      <3>2. HeldBy(c) /\ RefusedBy(c)
        BY DEF Held, Refused
      <3> QED BY <1>2, <3>1, <3>2 DEF HeldBy, RefusedBy
    <2>2. CASE task[c] \notin Busy
      BY <2>2 DEF HeldBy, RefusedBy
    <2> QED BY <2>1, <2>2
  <1>3. ASSUME NEW j \in Request, j # i
        PROVE  OwnedOf(j)'
    <2>1. OwnedOf(j)
      BY DEF Owned
    <2> QED BY <1>3, <2>1 DEF OwnedOf
  <1> QED BY <1>1, <1>2, <1>3 DEF Held, Owned, Refused

\* Nobody's task serves a request that its tunnel's task has taken over.
LEMMA TunnelAlone ==
    ASSUME Inv, NEW i \in Request, tunnel[i] \notin {"none", "upgrade"}, NEW c \in Conn
    PROVE  current[c] # i
  <1> USE DEF Inv
  <1> SUFFICES ASSUME current[c] = i PROVE FALSE
    OBVIOUS
  <1>1. holders[i] = {"tunnel"}
    BY TunnelBorn
  <1>2. task[c] \in Busy
    BY DEF Serving, Request
  <1>3. HeldBy(c)
    BY DEF Held
  <1> QED BY <1>1, <1>2, <1>3 DEF HeldBy

\* The request body is dropped.
LEMMA RequestBodyEndsInv ==
    ASSUME IInv, NEW i \in Request, RequestBodyEnds(i)
    PROVE  IInv'
  <1> USE DEF IInv, Inv
  <1>1. /\ "up" \in holders[i] /\ DropHandles(i, {"up"}) /\ {"up"} \in SUBSET Holder
        /\ UNCHANGED <<server, routing, task, snapshot, current, active, tunnel, total, failed>>
    BY DEF RequestBodyEnds, taskVars
  <1>2. i \in 1..total /\ OwnedOf(i) /\ tunnel[i] = "none"
    BY <1>1, ServerAssumption DEF Owned, OwnedOf, TypeOK, Request
  <1>3. /\ holders' \in [Request -> SUBSET Holder]
        /\ holders'[i] = holders[i] \ {"up"}
        /\ \A j \in Request : j # i => holders'[j] = holders[j] /\ entry'[j] = entry[j]
        /\ entry' \in [Request -> EntryRecord]
        /\ entry'[i].state = "failed" <=> entry[i].state = "failed"
        /\ history' \in Seq(Request) /\ Len(history') <= HistoryLen
        /\ Entries' /\ Listed'
    BY <1>1, <1>2, DropHandlesEffect
  <1>4. Counts'
    BY <1>1, <1>2, <1>3, CountsKept
  <1>5. TypeOK'
    BY <1>1, <1>3 DEF TypeOK, EntryRecord
  <1>6. \A c \in Conn : current[c] = i => HeldBy(c)' /\ RefusedBy(c)'
    <2> SUFFICES ASSUME NEW c \in Conn, current[c] = i PROVE HeldBy(c)' /\ RefusedBy(c)'
      OBVIOUS
    <2>1. HeldBy(c) /\ RefusedBy(c)
      BY DEF Held, Refused
    <2> QED BY <1>1, <1>2, <1>3, <2>1 DEF HeldBy, RefusedBy
  <1>7. OwnedOf(i)'
    BY <1>1, <1>2, <1>3 DEF OwnedOf
  <1>8. Serving' /\ Held' /\ Owned' /\ Refused'
    BY <1>1, <1>3, <1>6, <1>7, BackgroundStep
  <1> QED BY <1>3, <1>4, <1>5, <1>8

\* The tunnel's task works on its request: it opens, fails, or is done.
LEMMA TunnelWorkInv ==
    ASSUME IInv, NEW i \in Request, TunnelOpens(i) \/ TunnelFails(i) \/ TunnelCompletes(i)
    PROVE  IInv'
  <1> USE DEF IInv, Inv
  <1>1. /\ tunnel[i] \in {"orphan", "relay"} /\ tunnel' \in [Request -> TunnelState]
        /\ tunnel'[i] \in {"orphan", "relay", "over"}
        /\ \A j \in Request : j # i => tunnel'[j] = tunnel[j]
        /\ UNCHANGED <<server, routing, task, snapshot, current, active, holders, total, history>>
    BY DEF TunnelOpens, TunnelFails, TunnelCompletes, taskVars, bookVars, TypeOK
  <1>2. /\ i \in 1..total /\ entry[i].live /\ holders[i] = {"tunnel"}
        /\ \A c \in Conn : current[c] # i
    BY <1>1, TunnelBorn, TunnelAlone
  <1>3. /\ entry' \in [Request -> EntryRecord]
        /\ \A j \in Request : j # i => entry'[j] = entry[j]
        /\ failed' \in 0..total' /\ failed' = Cardinality(FailedOnes')
        /\ Entries' /\ Listed'
    <2>1. CASE TunnelOpens(i)
      <3>1. SetOpen(i) /\ failed' = failed /\ entry[i].state = "connecting"
        BY <2>1 DEF TunnelOpens
      <3>2. \A j \in Request : j > total => holders'[j] = {}
        BY <1>1 DEF Owned, OwnedOf
      <3>3. /\ entry' \in [Request -> EntryRecord]
            /\ \A j \in Request : j # i => entry'[j] = entry[j]
            /\ entry'[i].state = IF entry[i].state = "connecting" THEN "open" ELSE entry[i].state
            /\ Entries' /\ Listed'
        BY <1>1, <1>2, <3>1, <3>2, SetOpenEffect
      <3>4. Counts' /\ failed' \in 0..total'
        BY <1>1, <1>2, <3>1, <3>3, CountsKept
      <3> QED BY <3>3, <3>4 DEF Counts
    <2>2. CASE TunnelFails(i)
      <3>1. Fail(i)
        BY <2>2 DEF TunnelFails
      <3> QED BY <1>1, <1>2, <3>1, FailEffect, FailCounts DEF Counts
    <2>3. CASE TunnelCompletes(i)
      <3>1. UNCHANGED <<entry, failed>>
        BY <2>3 DEF TunnelCompletes, bookVars
      <3>2. FailedOnes' = FailedOnes
        BY <1>1, <3>1 DEF FailedOnes, Born
      <3>3. Entries' /\ Listed'
        BY <1>1, <3>1 DEF Entries, EntryOf, Listed
      <3> QED BY <1>1, <3>1, <3>2, <3>3 DEF Counts, TypeOK, EntryRecord
    <2> QED BY <2>1, <2>2, <2>3
  <1>4. active' = Cardinality(Started')
    BY <1>1, SameStarted DEF Counts
  <1>5. TypeOK'
    BY <1>1, <1>3 DEF TypeOK, EntryRecord
  <1>6. OwnedOf(i)'
    BY <1>1, <1>2 DEF OwnedOf, TypeOK
  <1>7. Serving' /\ Held' /\ Owned' /\ Refused'
    BY <1>1, <1>2, <1>3, <1>6, BackgroundStep
  <1> QED BY <1>3, <1>4, <1>5, <1>7 DEF Counts

\* The tunnel's task ends, or the runtime is dropped with whatever is left.
LEMMA TunnelEndInv ==
    ASSUME IInv, NEW i \in Request, TunnelDrops(i) \/ RuntimeDrops(i)
    PROVE  IInv'
  <1> USE DEF IInv, Inv
  <1>1. PICK gone \in SUBSET Holder : DropHandles(i, gone) /\ holders[i] # {}
                                      /\ (gone = {"tunnel"} \/ gone = Holder)
                                      /\ (gone = {"tunnel"} => tunnel[i] # "none")
                                      /\ \A c \in Conn : current[c] # i
    <2>1. CASE TunnelDrops(i)
      <3>1. /\ DropHandles(i, {"tunnel"}) /\ {"tunnel"} \in SUBSET Holder
            /\ tunnel[i] = "over"
        BY <2>1 DEF TunnelDrops
      <3>2. holders[i] = {"tunnel"} /\ \A c \in Conn : current[c] # i
        BY <3>1, TunnelBorn, TunnelAlone
      <3> QED BY <3>1, <3>2
    <2>2. CASE RuntimeDrops(i)
      <3>1. DropHandles(i, Holder) /\ server = "stopped" /\ holders[i] # {}
        BY <2>2 DEF RuntimeDrops
      <3>2. ASSUME NEW c \in Conn
            PROVE  current[c] # i
        BY <3>1 DEF Serving, Request
      <3>3. Holder # {"tunnel"} /\ Holder \in SUBSET Holder
        OBVIOUS
      <3> QED BY <3>1, <3>2, <3>3
    <2> QED BY <2>1, <2>2
  <1>2. /\ tunnel' = [tunnel EXCEPT ![i] = "none"]
        /\ UNCHANGED <<server, routing, task, snapshot, current, active, total, failed>>
    BY DEF TunnelDrops, RuntimeDrops, taskVars
  <1>3. i \in 1..total /\ OwnedOf(i)
    BY <1>1, ServerAssumption DEF Owned, OwnedOf, TypeOK, Request
  <1>4. /\ holders' \in [Request -> SUBSET Holder]
        /\ holders'[i] = holders[i] \ gone
        /\ \A j \in Request : j # i => holders'[j] = holders[j] /\ entry'[j] = entry[j]
        /\ entry' \in [Request -> EntryRecord]
        /\ entry'[i].state = "failed" <=> entry[i].state = "failed"
        /\ history' \in Seq(Request) /\ Len(history') <= HistoryLen
        /\ Entries' /\ Listed'
    BY <1>1, <1>2, <1>3, DropHandlesEffect
  <1>5. holders'[i] = {} /\ tunnel'[i] = "none"
    BY <1>1, <1>2, <1>3, <1>4 DEF OwnedOf, TypeOK
  <1>6. Counts'
    BY <1>2, <1>3, <1>4, CountsKept
  <1>7. TypeOK'
    <2>1. tunnel' \in [Request -> TunnelState]
      BY <1>2 DEF TypeOK
    <2> QED BY <1>2, <1>4, <2>1 DEF TypeOK, EntryRecord
  <1>8. OwnedOf(i)'
    BY <1>5 DEF OwnedOf
  <1>9. Serving' /\ Held' /\ Owned' /\ Refused'
    <2>1. \A j \in Request : j # i => tunnel'[j] = tunnel[j]
      BY <1>2 DEF TypeOK
    <2> QED BY <1>1, <1>2, <1>4, <1>8, <2>1, BackgroundStep
  <1> QED BY <1>4, <1>6, <1>7, <1>9

-----------------------------------------------------------------------------
\* A connection is accepted, or its task polled for the first time.
LEMMA ArrivalInv ==
    ASSUME IInv, NEW c \in Conn, Accept(c) \/ Start(c)
    PROVE  IInv'
  <1> USE DEF IInv, Inv
  <1>1. PICK to \in {"spawned", "idle"} :
            /\ task' = [task EXCEPT ![c] = to] /\ task[c] \notin Busy /\ server # "stopped"
            /\ to = "spawned" => Accept(c)
            /\ to = "idle" => Start(c)
    BY DEF Accept, Start, Serving
  <1>2. UNCHANGED <<server, routing, current, tunnel, holders, entry, total, failed, history>>
    BY DEF Accept, Start, bookVars
  <1>3. active' \in Nat /\ active' = Cardinality(Started')
    <2>1. CASE Accept(c)
      BY <2>1, SameStarted DEF Accept, Counts, TypeOK
    <2>2. CASE Start(c)
      BY <2>2, StartCounts DEF Counts
    <2> QED BY <2>1, <2>2
  <1>4. TypeOK'
    <2>1. task' \in [Conn -> TaskState] /\ snapshot' \in [Conn -> Mode]
      <3>1. task' \in [Conn -> TaskState]
        BY <1>1 DEF TypeOK
      <3>2. CASE Accept(c)
        <4>1. snapshot' \in [Conn -> Mode]
          BY <3>2 DEF TypeOK, Accept
        <4> QED BY <3>1, <4>1
      <3>3. CASE Start(c)
        BY <3>1, <3>3 DEF TypeOK, Start
      <3> QED BY <3>2, <3>3
    <2> QED BY <1>2, <1>3, <2>1 DEF TypeOK
  <1>5. Inv'
    BY <1>1, <1>2, <1>4, IdleStepInv
  <1>6. FailedOnes' = FailedOnes
    BY <1>2 DEF FailedOnes, Born
  <1> QED BY <1>2, <1>3, <1>5, <1>6 DEF Counts

\* Routing, shutdown and its end change nothing about requests.
LEMMA ControlInv ==
    ASSUME IInv,
           \/ \E mode \in Mode : SetRouting(mode)
           \/ Shutdown \/ DrainTimeout \/ DrainEnds
           \/ UNCHANGED vars
    PROVE  IInv'
  <1> USE DEF IInv, Inv
  <1>1. UNCHANGED <<task, snapshot, current, active, tunnel, holders, entry, total, failed, history>>
    BY DEF SetRouting, Shutdown, DrainTimeout, DrainEnds, vars, taskVars, bookVars
  <1>2. /\ server' \in {"serving", "draining", "aborting", "stopped"} /\ routing' \in Mode
        /\ server' = "stopped" => \A c \in Conn : Joined(c)
    BY DEF SetRouting, Shutdown, DrainTimeout, DrainEnds, vars, TypeOK, Serving
  <1>3. TypeOK'
    BY <1>1, <1>2 DEF TypeOK
  <1>4. Serving'
    BY <1>1, <1>2 DEF Serving
  <1>5. Held' /\ Owned' /\ Entries' /\ Listed' /\ Refused'
    BY <1>1 DEF Held, HeldBy, Owned, OwnedOf, Entries, EntryOf, Listed, Refused, RefusedBy
  <1>6. Started' = Started /\ FailedOnes' = FailedOnes
    BY <1>1 DEF Started, FailedOnes, Born
  <1> QED BY <1>1, <1>3, <1>4, <1>5, <1>6 DEF Counts

\* The task's request is tracked when it arrives.
LEMMA RequestInv ==
    ASSUME IInv, NEW c \in Conn, ConnectDirect(c) \/ ConnectVia(c) \/ Forward(c)
    PROVE  IInv'
  <1>1. CASE ConnectDirect(c)
    BY <1>1, TrackStep DEF ConnectDirect, IInv, Inv, TypeOK
  <1>2. CASE ConnectVia(c)
    <2>1. tunnel' = [tunnel EXCEPT ![total + 1] = @]
      BY <1>2 DEF ConnectVia, IInv, Inv, TypeOK
    <2> QED BY <1>2, <2>1, TrackStep DEF ConnectVia
  <1>3. CASE Forward(c)
    <2>1. tunnel' = [tunnel EXCEPT ![total + 1] = @]
      BY <1>3 DEF Forward, IInv, Inv, TypeOK
    <2> QED BY <1>3, <2>1, TrackStep DEF Forward
  <1> QED BY <1>1, <1>2, <1>3

\* The invariant holds at the start.
LEMMA InitInv == Init => IInv
  <1> SUFFICES ASSUME Init PROVE IInv
    OBVIOUS
  <1>1. TypeOK
    <2>1. <<>> \in Seq(Request) /\ Len(<<>>) = 0
      OBVIOUS
    <2>2. Unborn \in EntryRecord
      BY DEF Unborn, EntryRecord
    <2> QED BY <2>1, <2>2, ServerAssumption DEF Init, TypeOK, EntryRecord
  <1>2. Serving /\ Held /\ Owned /\ Refused
    BY DEF Init, Serving, Held, HeldBy, Owned, OwnedOf, Refused, RefusedBy
  <1>3. Entries
    BY DEF Init, Entries, EntryOf, Unborn, Request
  <1>4. Listed
    BY DEF Init, Listed
  <1>5. Started = {} /\ FailedOnes = {}
    BY DEF Init, Started, FailedOnes, Born
  <1>6. Cardinality(Started) = 0 /\ Cardinality(FailedOnes) = 0
    BY <1>5, FS_EmptySet
  <1> QED BY <1>1, <1>2, <1>3, <1>4, <1>6 DEF Init, IInv, Inv, Counts

\* Every step keeps it.
LEMMA NextInv == IInv /\ [Next]_vars => IInv'
  <1> SUFFICES ASSUME IInv, [Next]_vars PROVE IInv'
    OBVIOUS
  <1>1. ASSUME NEW c \in Conn, ConnStep(c)
        PROVE  IInv'
    <2>1. CASE Accept(c) \/ Start(c)
      BY <2>1, ArrivalInv
    <2>2. CASE Abort(c) \/ Disconnect(c)
      BY <2>2, EndTaskStep DEF Abort, Disconnect
    <2>3. CASE ConnectDirect(c) \/ ConnectVia(c) \/ Forward(c)
      BY <2>3, RequestInv
    <2>4. CASE ConnectOk(c)
      BY <2>4, ConnectOkInv
    <2>5. CASE Upgrade(c)
      BY <2>5, UpgradeInv
    <2>6. CASE Respond(c)
      BY <2>6, RespondInv
    <2>7. CASE ResponseEnds(c)
      BY <2>7, LetGoInv DEF ResponseEnds
    <2>8. CASE ServiceErr(c)
      BY <2>8, ServiceErrInv
    <2>9. CASE Refuse(c)
      BY <2>9, LetGoInv DEF Refuse
    <2> QED BY <1>1, <2>1, <2>2, <2>3, <2>4, <2>5, <2>6, <2>7, <2>8, <2>9 DEF ConnStep
  <1>2. ASSUME NEW i \in Request, TaskStep(i)
        PROVE  IInv'
    BY <1>2, RequestBodyEndsInv, TunnelWorkInv, TunnelEndInv DEF TaskStep
  <1>3. CASE \/ \E mode \in Mode : SetRouting(mode)
             \/ Shutdown \/ DrainTimeout \/ DrainEnds
             \/ UNCHANGED vars
    BY <1>3, ControlInv
  <1> QED BY <1>1, <1>2, <1>3 DEF Next

\* So it holds of every reachable state.
THEOREM Invariance == Spec => []IInv
  BY InitInv, NextInv, PTL DEF Spec

-----------------------------------------------------------------------------
\* The active count is the number of connection tasks that were polled and have
\* not ended, whichever way each ended, and failures are counted once each.
THEOREM CountsAreExactHolds == Spec => []CountsAreExact
  <1>1. IInv => CountsAreExact
    <2>1. IInv => \A c \in Conn : task[c] = "refused" => entry[current[c]].state = "failed"
      BY DEF IInv, Inv, Refused, RefusedBy
    <2> QED BY <2>1 DEF IInv, Inv, Counts, Started, FailedOnes, CountsAreExact
  <1> QED BY <1>1, Invariance, PTL

\* A living entry has a handle, and who holds it is at work.
LEMMA LiveIsHeld ==
    ASSUME Inv, NEW i \in Born, entry[i].live
    PROVE  \/ \E c \in Conn : current[c] = i /\ task[c] \in Guarded
           \/ tunnel[i] # "none"
           \/ "up" \in holders[i]
  <1>1. i \in Request /\ i <= total
    BY ServerAssumption DEF Inv, TypeOK, Born, Request
  <1>2. OwnedOf(i) /\ EntryOf(i)
    BY <1>1 DEF Inv, Owned, Entries
  <1>3. holders[i] # {} /\ holders[i] \subseteq Holder
    BY <1>1, <1>2 DEF EntryOf, Inv, TypeOK
  <1>4. CASE "service" \in holders[i]
    BY <1>2, <1>4 DEF OwnedOf
  <1>5. CASE "down" \in holders[i]
    BY <1>2, <1>5 DEF OwnedOf
  <1>6. CASE "tunnel" \in holders[i]
    BY <1>2, <1>6 DEF OwnedOf
  <1>7. CASE "up" \in holders[i]
    BY <1>7
  <1> QED BY <1>3, <1>4, <1>5, <1>6, <1>7

\* Entries listed as open have somebody at work for them; the history lists
\* finished ones, each once.
THEOREM ListsAreTrueHolds == Spec => []ListsAreTrue
  <1>1. ASSUME IInv
        PROVE  ListsAreTrue
    <2>1. Inv
      BY <1>1 DEF IInv
    <2>2. \A i \in Born : entry[i].live =>
             \/ \E c \in Conn : current[c] = i /\ task[c] \in Guarded
             \/ tunnel[i] # "none"
             \/ "up" \in holders[i]
      BY <2>1, LiveIsHeld
    <2> QED BY <2>1, <2>2 DEF Inv, Listed, ListsAreTrue
  <1> QED BY <1>1, Invariance, PTL

\* When serve returns within the shutdown's time, every entry that is still
\* open is a tunnel's, or all that is left of it is its request's body.
THEOREM DrainCutsOnlyTunnelsHolds == Spec => DrainCutsOnlyTunnels
  <1>1. ASSUME IInv, [Next]_vars, server = "draining", server' = "stopped",
               NEW i \in Born, entry[i].live
        PROVE  tunnel[i] # "none" \/ holders[i] = {"up"}
    <2>1. \A c \in Conn : Joined(c)
      <3>1. ~UNCHANGED server
        BY <1>1
      <3>2. ASSUME NEW c \in Conn, ConnStep(c)
            PROVE  UNCHANGED server
        BY <3>2 DEF ConnStep, Accept, Start, Abort, Disconnect, EndTask, ConnectDirect, ConnectVia,
                    Forward, Track, ConnectOk, Upgrade, Respond, ResponseEnds, ServiceErr, Refuse
      <3>3. ASSUME NEW j \in Request, TaskStep(j)
            PROVE  UNCHANGED server
        BY <3>3 DEF TaskStep, RequestBodyEnds, TunnelOpens, TunnelFails, TunnelCompletes,
                    TunnelDrops, RuntimeDrops
      <3>4. CASE (\E mode \in Mode : SetRouting(mode)) \/ Shutdown \/ DrainTimeout
        BY <1>1, <3>4 DEF SetRouting, Shutdown, DrainTimeout
      <3>5. CASE DrainEnds
        BY <3>5 DEF DrainEnds
      <3> QED BY <1>1, <3>1, <3>2, <3>3, <3>4, <3>5 DEF Next, vars
    <2>2. i \in Request /\ i <= total
      BY <1>1, ServerAssumption DEF IInv, Inv, TypeOK, Born, Request
    <2>3. OwnedOf(i) /\ EntryOf(i)
      BY <1>1, <2>2 DEF IInv, Inv, Owned, Entries
    <2>4. holders[i] # {} /\ holders[i] \subseteq Holder
      BY <1>1, <2>2, <2>3 DEF EntryOf, IInv, Inv, TypeOK
    <2>5. "service" \notin holders[i] /\ "down" \notin holders[i]
      BY <2>1, <2>3 DEF OwnedOf
    <2>6. "tunnel" \in holders[i] => tunnel[i] # "none"
      BY <2>3 DEF OwnedOf
    <2> QED BY <2>4, <2>5, <2>6
  <1>2. IInv /\ [Next]_vars =>
           [server = "draining" /\ server' = "stopped" =>
              \A i \in Born : entry[i].live => tunnel[i] # "none" \/ holders[i] = {"up"}]_vars
    BY <1>1
  <1> QED BY <1>2, Invariance, PTL DEF Spec, DrainCutsOnlyTunnels

-----------------------------------------------------------------------------
\* Every step on a request's entry is one the tracker promises, or none.
EntryStep(i) == [Tracked(i)!EntryNext]_(Tracked(i)!entryVars)

\* Dropping handles closes a living entry, or leaves it alone.
LEMMA DropIsClose ==
    ASSUME Inv, NEW i \in 1..total, NEW gone \in SUBSET Holder, DropHandles(i, gone)
    PROVE  \A j \in Request : EntryStep(j)
  <1> USE DEF Inv
  <1>1. i \in Request /\ entry \in [Request -> EntryRecord]
    BY ServerAssumption DEF TypeOK, Request, EntryRecord
  <1>2. CASE holders[i] # {} /\ holders[i] \subseteq gone
    <2>1. entry' = [entry EXCEPT ![i].live = FALSE,
                                 ![i].state = IF @ = "failed" THEN @ ELSE "closed"]
      BY <1>2 DEF DropHandles
    <2>2. entry[i].live
      BY <1>1, <1>2 DEF Entries, EntryOf
    <2>3. entry'[i].live = FALSE
      BY <1>1, <2>1 DEF EntryRecord
    <2>4. entry'[i].fails = entry[i].fails
      BY <1>1, <2>1 DEF EntryRecord
    <2>5. entry'[i].state = IF entry[i].state = "failed" THEN entry[i].state ELSE "closed"
      BY <1>1, <2>1 DEF EntryRecord
    <2>6. Tracked(i)!EntryNext
      BY <2>2, <2>3, <2>4, <2>5 DEF Tracked!EntryNext, Tracked!CloseEntry
    <2>7. \A j \in Request : j # i => entry'[j] = entry[j]
      BY <1>1, <2>1
    <2> QED BY <2>6, <2>7 DEF EntryStep, Tracked!entryVars
  <1>3. CASE ~(holders[i] # {} /\ holders[i] \subseteq gone)
    BY <1>3 DEF DropHandles, EntryStep, Tracked!entryVars
  <1> QED BY <1>2, <1>3

\* So is a failure that is reported.
LEMMA FailIsStep ==
    ASSUME Inv, NEW i \in 1..total, entry[i].live, Fail(i)
    PROVE  \A j \in Request : EntryStep(j)
  <1> USE DEF Inv
  <1>1. i \in Request /\ entry \in [Request -> EntryRecord]
    BY ServerAssumption DEF TypeOK, Request, EntryRecord
  <1>2. CASE entry[i].fails = 0
    <2>1. entry' = [entry EXCEPT ![i].state = "failed", ![i].fails = 1]
      BY <1>2 DEF Fail
    <2>2. entry'[i].live = entry[i].live
      BY <1>1, <2>1 DEF EntryRecord
    <2>3. entry'[i].state = "failed" /\ entry'[i].fails = 1
      BY <1>1, <2>1 DEF EntryRecord
    <2>4. Tracked(i)!EntryNext
      BY <1>2, <2>2, <2>3 DEF Tracked!EntryNext, Tracked!Fail
    <2>5. \A j \in Request : j # i => entry'[j] = entry[j]
      BY <1>1, <2>1
    <2> QED BY <2>4, <2>5 DEF EntryStep, Tracked!entryVars
  <1>3. CASE entry[i].fails # 0
    BY <1>3 DEF Fail, EntryStep, Tracked!entryVars
  <1> QED BY <1>2, <1>3

\* And so is opening.
LEMMA SetOpenIsStep ==
    ASSUME Inv, NEW i \in 1..total, entry[i].live, SetOpen(i)
    PROVE  \A j \in Request : EntryStep(j)
  <1> USE DEF Inv
  <1>1. i \in Request /\ entry \in [Request -> EntryRecord]
    BY ServerAssumption DEF TypeOK, Request, EntryRecord
  <1>2. /\ \A j \in Request : j # i => entry'[j] = entry[j]
        /\ entry'[i].live = entry[i].live /\ entry'[i].fails = entry[i].fails
        /\ entry'[i].state = IF entry[i].state = "connecting" THEN "open" ELSE entry[i].state
    BY <1>1 DEF SetOpen, EntryRecord
  <1>3. EntryStep(i)
    <2>1. CASE entry[i].state = "connecting"
      BY <1>2, <2>1 DEF EntryStep, Tracked!EntryNext, Tracked!SetOpen
    <2>2. CASE entry[i].state # "connecting"
      BY <1>2, <2>2 DEF EntryStep, Tracked!entryVars
    <2> QED BY <2>1, <2>2
  <1> QED BY <1>2, <1>3 DEF EntryStep, Tracked!entryVars

\* A step that touches no entry stutters.
LEMMA NoEntryStep ==
    ASSUME UNCHANGED entry
    PROVE  \A j \in Request : EntryStep(j)
  BY DEF EntryStep, Tracked!entryVars

\* A request's entry opens, fails and closes as the tracker promises, whichever
\* of the server's tasks holds it, and whichever fails or goes away.
THEOREM EntriesRefinement == Spec => ImplementsEntries
  <1>1. Init => \A i \in Request : Tracked(i)!EntryInit
    BY DEF Init, Unborn, Tracked!EntryInit
  <1>2. ASSUME IInv, [Next]_vars
        PROVE  \A j \in Request : EntryStep(j)
    <2>1. Inv
      BY <1>2 DEF IInv
    <2>2. ASSUME NEW c \in Conn, ConnStep(c)
          PROVE  \A j \in Request : EntryStep(j)
      <3>1. CASE \/ Accept(c) \/ Start(c) \/ ConnectDirect(c) \/ ConnectVia(c)
                 \/ Forward(c) \/ ConnectOk(c) \/ Upgrade(c)
        BY <3>1, NoEntryStep DEF Accept, Start, ConnectDirect, ConnectVia, Forward, Track,
                                 ConnectOk, Upgrade, bookVars
      <3>2. CASE Abort(c) \/ Disconnect(c)
        <4>1. EndTask(c)
          BY <3>2 DEF Abort, Disconnect
        <4>2. CASE current[c] = 0
          BY <4>1, <4>2, NoEntryStep DEF EndTask
        <4>3. CASE current[c] # 0
          <5>1. current[c] \in 1..total
            BY <2>1, <4>3 DEF Inv, TypeOK
          <5> QED BY <2>1, <4>1, <4>3, <5>1, DropIsClose DEF EndTask
        <4> QED BY <4>2, <4>3
      <3>3. CASE Refuse(c) \/ ResponseEnds(c) \/ ServiceErr(c) \/ Respond(c)
        <4>1. task[c] \in Busy
          BY <3>3 DEF Refuse, ResponseEnds, ServiceErr, Respond
        <4>2. current[c] \in 1..total /\ entry[current[c]].live
          BY <2>1, <4>1, CurrentBorn
        <4>3. {"service"} \in SUBSET Holder /\ {"down"} \in SUBSET Holder
          OBVIOUS
        <4> QED BY <2>1, <3>3, <4>2, <4>3, DropIsClose, FailIsStep, SetOpenIsStep
                DEF Refuse, ResponseEnds, ServiceErr, Respond
      <3> QED BY <2>2, <3>1, <3>2, <3>3 DEF ConnStep
    <2>3. ASSUME NEW i \in Request, TaskStep(i)
          PROVE  \A j \in Request : EntryStep(j)
      <3>1. CASE TunnelCompletes(i)
        BY <3>1, NoEntryStep DEF TunnelCompletes, bookVars
      <3>2. CASE TunnelOpens(i) \/ TunnelFails(i)
        <4>1. i \in 1..total /\ entry[i].live
          BY <2>1, <3>2, TunnelBorn DEF TunnelOpens, TunnelFails
        <4> QED BY <2>1, <3>2, <4>1, FailIsStep, SetOpenIsStep DEF TunnelOpens, TunnelFails
      <3>3. CASE RequestBodyEnds(i) \/ TunnelDrops(i) \/ RuntimeDrops(i)
        <4>1. holders[i] # {}
          BY <2>1, <3>3, TunnelBorn DEF RequestBodyEnds, TunnelDrops, RuntimeDrops
        <4>2. i \in 1..total
          BY <2>1, <4>1, ServerAssumption DEF Inv, Owned, OwnedOf, TypeOK, Request
        <4>3. {"up"} \in SUBSET Holder /\ {"tunnel"} \in SUBSET Holder /\ Holder \in SUBSET Holder
          OBVIOUS
        <4> QED BY <2>1, <3>3, <4>2, <4>3, DropIsClose DEF RequestBodyEnds, TunnelDrops, RuntimeDrops
      <3> QED BY <2>3, <3>1, <3>2, <3>3 DEF TaskStep
    <2>4. CASE \/ \E mode \in Mode : SetRouting(mode)
               \/ Shutdown \/ DrainTimeout \/ DrainEnds
               \/ UNCHANGED vars
      BY <2>4, NoEntryStep DEF SetRouting, Shutdown, DrainTimeout, DrainEnds, vars, bookVars
    <2> QED BY <1>2, <2>2, <2>3, <2>4 DEF Next
  <1>3. IInv /\ [Next]_vars =>
           [\A i \in Request : [Tracked(i)!EntryNext]_(Tracked(i)!entryVars)]_vars
    BY <1>2 DEF EntryStep
  <1> QED BY <1>1, <1>3, Invariance, PTL DEF Spec, ImplementsEntries

-----------------------------------------------------------------------------
\* Where the accept loop's timer runs, where it reaches a connection's task, and
\* where it has nobody left to wait for.
Draining == server = "draining" /\ \E c \in Conn : ~Joined(c)
AbortPending(c) == server = "aborting" /\ ~Joined(c)
AllJoined == server \in {"draining", "aborting"} /\ \A c \in Conn : Joined(c)

\* The fairness of a shutdown, with its guards written out.
DrainTimerFires == []<>~Draining \/ []<><<DrainTimeout>>_vars
AbortReaches(c) == []<>~AbortPending(c) \/ []<><<Abort(c)>>_vars
ServeGoesOn == []<>~AllJoined \/ []<><<DrainEnds>>_vars

\* A shutdown goes one way, nothing is accepted any more, and a task that has
\* ended does not come back.
LEMMA ShutdownGoesOn ==
    ASSUME TypeOK, [Next]_vars, server # "serving"
    PROVE  /\ server = "draining" => server' \in {"draining", "aborting", "stopped"}
           /\ server = "aborting" => server' \in {"aborting", "stopped"}
           /\ server # "stopped" /\ server' = "stopped" => \A c \in Conn : Joined(c)
           /\ \A c \in Conn : Joined(c) => Joined(c)'
  <1>1. ASSUME NEW d \in Conn, ConnStep(d)
        PROVE  server' = server /\ \A c \in Conn : Joined(c) => Joined(c)'
    <2>1. server' = server
      BY <1>1 DEF ConnStep, Accept, Start, Abort, Disconnect, EndTask, ConnectDirect, ConnectVia,
                  Forward, Track, ConnectOk, Upgrade, Respond, ResponseEnds, ServiceErr, Refuse
    <2>2. /\ ~Joined(d) /\ \A c \in Conn \ {d} : task'[c] = task[c]
      BY <1>1 DEF ConnStep, Accept, Start, Abort, Disconnect, EndTask, ConnectDirect, ConnectVia,
                  Forward, Track, ConnectOk, Upgrade, Respond, ResponseEnds, ServiceErr, Refuse,
                  Joined, Guarded, TypeOK
    <2> QED BY <2>1, <2>2 DEF Joined
  <1>2. ASSUME NEW i \in Request, TaskStep(i)
        PROVE  UNCHANGED <<server, task>>
    BY <1>2 DEF TaskStep, RequestBodyEnds, TunnelOpens, TunnelFails, TunnelCompletes,
                TunnelDrops, RuntimeDrops, taskVars
  <1>3. CASE (\E mode \in Mode : SetRouting(mode)) \/ Shutdown \/ DrainTimeout \/ UNCHANGED vars
    BY <1>3 DEF SetRouting, Shutdown, DrainTimeout, vars, taskVars, Joined
  <1>4. CASE DrainEnds
    BY <1>4 DEF DrainEnds, taskVars, Joined
  <1> QED BY <1>1, <1>2, <1>3, <1>4 DEF Next, Joined, TypeOK

\* Once a shutdown has begun every connection's task is over in the end, whatever
\* the client, the origin and the other connections do (shutdown_timeout and
\* abort_all).
THEOREM ConnectionsAreLetGo ==
    ASSUME NEW c \in Conn
    PROVE  Spec /\ DrainTimerFires /\ AbortReaches(c) => (server = "draining" ~> Joined(c))
  <1> DEFINE Drains == server = "draining" /\ ~Joined(c)
             Aborts == server = "aborting" /\ ~Joined(c)
             Over == Joined(c)
  <1>1. IInv /\ [Next]_vars
          => /\ Drains => Drains' \/ Aborts' \/ Over'
             /\ Aborts => Aborts' \/ Over'
    BY ShutdownGoesOn DEF IInv, Inv, Joined
  <1>2. <<DrainTimeout>>_vars => ~Drains'
    BY DEF DrainTimeout
  <1>3. IInv /\ <<Abort(c)>>_vars => Over'
    BY DEF Abort, EndTask, Joined, IInv, Inv, TypeOK
  <1>4. (Drains => Draining) /\ (Aborts => AbortPending(c)) /\ (server = "draining" => Drains \/ Over)
    BY DEF Draining, AbortPending
  <1>5. /\ ~(Drains /\ Aborts)
        /\ Over => ~Drains /\ ~Aborts
    OBVIOUS
  <1> HIDE DEF Drains, Aborts, Over
  <1>6. Spec /\ DrainTimerFires /\ AbortReaches(c) => (server = "draining" ~> Over)
    BY <1>1, <1>2, <1>3, <1>4, <1>5, Invariance, PTL DEF Spec, DrainTimerFires, AbortReaches
  <1> QED BY <1>6 DEF Over

\* With every task over, serve returns.
THEOREM ServeReturns == Spec /\ ServeGoesOn => (AllJoined ~> server = "stopped")
  <1>1. IInv /\ AllJoined /\ [Next]_vars => AllJoined' \/ (server = "stopped")'
    BY ShutdownGoesOn DEF IInv, Inv, AllJoined, Joined
  <1>2. <<DrainEnds>>_vars => (server = "stopped")'
    BY DEF DrainEnds
  <1>3. AllJoined => ~(server = "stopped")
    BY DEF AllJoined
  <1> QED BY <1>1, <1>2, <1>3, Invariance, PTL DEF Spec, ServeGoesOn
=============================================================================
