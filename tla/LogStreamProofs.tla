-------------------------- MODULE LogStreamProofs --------------------------
(***************************************************************************)
(* Proofs about LogStream.  That the page shows each event once and in     *)
(* order needs the buffer only (`Buffer`).  That nothing is skipped unless *)
(* two pushes overlapped needs where each line came from: the page follows *)
(* the store from a point in the ring and a point in the channel           *)
(* (`Follows`), and what it passed on the way is accounted for.            *)
(***************************************************************************)
EXTENDS LogStream, SequenceTheorems, TLAPS

\* The lines are in order, and the newest is the last one pushed.
Buffer ==
    /\ \A i, j \in DOMAIN lines : i < j => lines[i] < lines[j]
    /\ last = IF lines = <<>> THEN 0 ELSE lines[Len(lines)]

Shown == {lines[i] : i \in DOMAIN lines}

\* Every event is on its way or was broadcast, and is stored before that; the
\* ring is the end of what was stored.
Pushes ==
    /\ \A e \in 1..seq : \/ \E l \in Logger : stamped[l] = e \/ stored[l] = e
                         \/ \E p \in DOMAIN channel : channel[p] = e
    /\ \A l \in Logger : stamped[l] = 0 \/ stored[l] = 0
    /\ \A l \in Logger : stored[l] # 0 => \E q \in DOMAIN order : order[q] = stored[l]
    /\ \A p \in DOMAIN channel : \E q \in DOMAIN order : order[q] = channel[p]
    /\ Len(ring) <= Len(order)
    /\ \A i \in DOMAIN ring : ring[i] = order[(Len(order) - Len(ring)) + i]

\* e needs no excuse: it is shown, or older than the page, or was missed, or
\* overlapped with another push.
Settled(e) ==
    lines # <<>> /\ e >= lines[1] =>
        e \in Shown \/ e \in lost \/ Reordered(e, order) \/ Reordered(e, channel)

\* The page follows the store: from the ring it has passed order[m+1..k] and
\* order[k+1..n] is still in the backlog; from the channel it has passed
\* channel[a+1..at].  Each line comes from the first, or from the second and is
\* newer than all of the first.
Follows(m, k, n, a) ==
    /\ m <= k /\ k <= n /\ a <= at
    /\ Len(backlog) = n - k
    /\ \A i \in DOMAIN backlog : backlog[i] = order[k + i]
    /\ page = "replay" => at = a
    /\ page = "live" => k = n
    /\ \A p \in 1..a : \E q \in 1..n : order[q] = channel[p]
    /\ \A q \in (m + 1)..k : Settled(order[q]) /\ order[q] <= last
    /\ \A p \in (a + 1)..at : Settled(channel[p]) /\ (channel[p] <= last \/ channel[p] \in lost)
    /\ \A i \in DOMAIN lines :
          \/ \E q \in (m + 1)..k : lines[i] = order[q]
          \/ /\ \E p \in (a + 1)..at : lines[i] = channel[p]
             /\ \A q \in (m + 1)..k : order[q] < lines[i]

Following ==
    /\ page \in {"shut", "subscribed"} => lines = <<>> /\ lost = {}
    /\ page \in {"replay", "live"} =>
          \E m, k, n \in 0..Len(order), a \in 0..Len(channel) : Follows(m, k, n, a)

BInv == TypeOK /\ Buffer
IInv == BInv /\ Pushes /\ Following

USE StreamAssumption
-----------------------------------------------------------------------------
\* t is s with e appended and its first d elements dropped.
Pushed(s, t, e, d) ==
    /\ Len(t) = Len(s) + 1 - d
    /\ DOMAIN t = 1..Len(t) /\ Len(t) \in Nat /\ Len(t) >= 1
    /\ t[Len(t)] = e
    /\ \A i \in 1..(Len(t) - 1) : t[i] = s[i + d]

\* Pushing onto a bounded deque appends, and makes room at the front if it must.
LEMMA PushBoundedEffect ==
    ASSUME NEW S, NEW s \in Seq(S), NEW e \in S, NEW cap \in Nat \ {0}, Len(s) <= cap
    PROVE  /\ PushBounded(s, e, cap) \in Seq(S) /\ Len(PushBounded(s, e, cap)) <= cap
           /\ \E d \in {0, 1} : Pushed(s, PushBounded(s, e, cap), e, d)
  <1>0. Len(s) \in Nat
    BY LenProperties
  <1>1. CASE Len(s) = cap
    <2>1. s # <<>>
      BY <1>1
    <2>2. /\ Tail(s) \in Seq(S) /\ Len(Tail(s)) = Len(s) - 1
          /\ \A i \in 1..Len(Tail(s)) : Tail(s)[i] = s[i + 1]
      BY <2>1, HeadTailProperties
    <2> DEFINE t == Append(Tail(s), e)
    <2>3. /\ t \in Seq(S) /\ Len(t) = Len(s)
          /\ \A i \in 1..(Len(s) - 1) : t[i] = Tail(s)[i]
          /\ t[Len(s)] = e
      BY <1>0, <1>1, <2>2, AppendProperties
    <2>4. DOMAIN t = 1..Len(t)
      BY <2>3, LenProperties
    <2>5. PushBounded(s, e, cap) = t
      BY <1>1 DEF PushBounded
    <2> HIDE DEF t
    <2>6. Pushed(s, t, e, 1)
      BY <1>0, <1>1, <2>2, <2>3, <2>4 DEF Pushed
    <2> QED BY <1>1, <2>3, <2>5, <2>6
  <1>2. CASE Len(s) # cap
    <2> DEFINE t == Append(s, e)
    <2>1. /\ t \in Seq(S) /\ Len(t) = Len(s) + 1
          /\ \A i \in 1..Len(s) : t[i] = s[i]
          /\ t[Len(s) + 1] = e
      BY <1>0, AppendProperties
    <2>2. DOMAIN t = 1..Len(t)
      BY <2>1, LenProperties
    <2>3. PushBounded(s, e, cap) = t
      BY <1>2 DEF PushBounded
    <2> HIDE DEF t
    <2>4. Pushed(s, t, e, 0)
      BY <1>0, <2>1, <2>2 DEF Pushed
    <2>5. Len(t) <= cap
      BY <1>0, <1>2, <2>1
    <2> QED BY <2>1, <2>3, <2>4, <2>5
  <1> QED BY <1>1, <1>2

\* t, to which e was pushed, is in order; what it lost of s is older than the rest.
Continues(s, t, e) ==
    /\ \A i, j \in DOMAIN t : i < j => t[i] < t[j]
    /\ Len(s) >= 1 => t[1] >= s[1]
    /\ \A i \in DOMAIN s : s[i] >= t[1] => \E j \in DOMAIN t : t[j] = s[i]
    /\ \A j \in DOMAIN t : t[j] = e \/ \E i \in DOMAIN s : t[j] = s[i]
    /\ \E j \in DOMAIN t : t[j] = e

\* A number that exceeds all of an increasing sequence can be pushed onto it; a
\* number goes only if it is smaller than all that stay.
LEMMA PushedOrdered ==
    ASSUME NEW s, NEW t, NEW e \in Nat, NEW d \in {0, 1}, Pushed(s, t, e, d),
           Len(s) \in Nat, DOMAIN s = 1..Len(s),
           \A i \in DOMAIN s : s[i] \in Nat /\ s[i] < e,
           \A i, j \in DOMAIN s : i < j => s[i] < s[j]
    PROVE  Continues(s, t, e)
  <1>1. /\ Len(t) = Len(s) + 1 - d
        /\ DOMAIN t = 1..Len(t) /\ Len(t) \in Nat /\ Len(t) >= 1
        /\ t[Len(t)] = e
    BY DEF Pushed
  <1>2. \A i \in 1..(Len(t) - 1) : t[i] = s[i + d] /\ i + d \in DOMAIN s
    BY <1>1 DEF Pushed
  <1>3. ASSUME NEW i \in DOMAIN t, NEW j \in DOMAIN t, i < j
        PROVE  t[i] < t[j]
    <2>1. i \in 1..(Len(t) - 1)
      BY <1>1, <1>3
    <2>2. t[i] = s[i + d] /\ i + d \in DOMAIN s
      BY <1>2, <2>1
    <2>3. CASE j = Len(t)
      BY <1>1, <2>2, <2>3
    <2>4. CASE j # Len(t)
      <3>1. j \in 1..(Len(t) - 1)
        BY <1>1, <2>4
      <3>2. t[j] = s[j + d] /\ j + d \in DOMAIN s
        BY <1>2, <3>1
      <3>3. i + d < j + d
        BY <1>1, <1>3
      <3> QED BY <2>2, <3>2, <3>3
    <2> QED BY <2>3, <2>4
  <1>4. ASSUME Len(s) >= 1
        PROVE  t[1] >= s[1]
    <2>1. 1 \in DOMAIN s
      BY <1>4
    <2>2. CASE Len(t) = 1
      <3>1. t[1] = e /\ s[1] \in Nat /\ s[1] < e
        BY <1>1, <2>1, <2>2
      <3> QED BY <3>1
    <2>3. CASE Len(t) # 1
      <3>1. 1 \in 1..(Len(t) - 1)
        BY <1>1, <2>3
      <3>2. t[1] = s[1 + d] /\ 1 + d \in DOMAIN s
        BY <1>2, <3>1
      <3>3. CASE d = 0
        BY <2>1, <3>2, <3>3
      <3>4. CASE d = 1
        BY <2>1, <3>2, <3>4
      <3> QED BY <3>3, <3>4
    <2> QED BY <2>2, <2>3
  <1>5. ASSUME NEW i \in DOMAIN s, s[i] >= t[1]
        PROVE  \E j \in DOMAIN t : t[j] = s[i]
    <2>1. CASE d = 0
      <3>1. i \in 1..(Len(t) - 1) /\ i + d = i
        BY <1>1, <2>1
      <3> QED BY <1>1, <1>2, <3>1
    <2>2. CASE d = 1 /\ i # 1
      <3>1. i - 1 \in 1..(Len(t) - 1) /\ (i - 1) + d = i
        BY <1>1, <2>2
      <3>2. t[i - 1] = s[i] /\ i - 1 \in DOMAIN t
        BY <1>1, <1>2, <3>1, SMTT(30)
      <3> QED BY <3>2
    <2>3. CASE d = 1 /\ i = 1
      <3>1. CASE Len(t) = 1
        <4>1. t[1] = e /\ s[i] < e /\ s[i] \in Nat
          BY <1>1, <3>1
        <4> QED BY <1>5, <4>1
      <3>2. CASE Len(t) # 1
        <4>1. 1 \in 1..(Len(t) - 1)
          BY <1>1, <3>2
        <4>2. t[1] = s[1 + 1] /\ 1 + 1 \in DOMAIN s
          BY <1>2, <2>3, <4>1
        <4>3. s[1] < s[1 + 1] /\ s[1] \in Nat /\ s[1 + 1] \in Nat
          BY <2>3, <4>2
        <4> QED BY <1>5, <2>3, <4>2, <4>3
      <3> QED BY <3>1, <3>2
    <2> QED BY <2>1, <2>2, <2>3
  <1>6. ASSUME NEW j \in DOMAIN t
        PROVE  t[j] = e \/ \E i \in DOMAIN s : t[j] = s[i]
    <2>1. j = Len(t) \/ j \in 1..(Len(t) - 1)
      BY <1>1
    <2> QED BY <1>1, <1>2, <2>1
  <1>7. Len(t) \in DOMAIN t
    BY <1>1
  <1> QED BY <1>1, <1>3, <1>4, <1>5, <1>6, <1>7 DEF Continues

\* The sequences' domains, and the oldest and newest line.
LEMMA Domains ==
    ASSUME TypeOK
    PROVE  /\ seq \in Nat
           /\ Len(lines) \in Nat /\ DOMAIN lines = 1..Len(lines)
           /\ Len(ring) \in Nat /\ DOMAIN ring = 1..Len(ring)
           /\ Len(order) \in Nat /\ DOMAIN order = 1..Len(order)
           /\ Len(channel) \in Nat /\ DOMAIN channel = 1..Len(channel)
           /\ Len(backlog) \in Nat /\ DOMAIN backlog = 1..Len(backlog)
           /\ \A i \in DOMAIN lines : lines[i] \in 1..seq
           /\ \A i \in DOMAIN order : order[i] \in 1..seq
           /\ \A i \in DOMAIN channel : channel[i] \in 1..seq
           /\ \A i \in DOMAIN backlog : backlog[i] \in 1..seq
           /\ lines # <<>> => Len(lines) >= 1
  <1>1. /\ Len(lines) \in Nat /\ DOMAIN lines = 1..Len(lines)
        /\ \A i \in DOMAIN lines : lines[i] \in 1..seq
        /\ lines # <<>> => Len(lines) >= 1
    BY LenProperties, EmptySeq DEF TypeOK
  <1>2. Len(ring) \in Nat /\ DOMAIN ring = 1..Len(ring)
    BY LenProperties DEF TypeOK
  <1>3. /\ Len(order) \in Nat /\ DOMAIN order = 1..Len(order)
        /\ \A i \in DOMAIN order : order[i] \in 1..seq
    BY LenProperties DEF TypeOK
  <1>4. /\ Len(channel) \in Nat /\ DOMAIN channel = 1..Len(channel)
        /\ \A i \in DOMAIN channel : channel[i] \in 1..seq
    BY LenProperties DEF TypeOK
  <1>5. /\ Len(backlog) \in Nat /\ DOMAIN backlog = 1..Len(backlog)
        /\ \A i \in DOMAIN backlog : backlog[i] \in 1..seq
    BY LenProperties DEF TypeOK
  <1> QED BY <1>1, <1>2, <1>3, <1>4, <1>5 DEF TypeOK

\* Pushing into the buffer keeps the lines in order; a line goes only if it is
\* older than all that stay, and what is not pushed is no newer than the last.
LEMMA BufferPushEffect ==
    ASSUME BInv, NEW e \in 1..seq, BufferPush(e)
    PROVE  /\ lines' \in Seq(1..seq) /\ Len(lines') <= MaxLines /\ last' \in 0..seq
           /\ Buffer'
           /\ last' >= last /\ e <= last'
           /\ lines' # <<>>
           /\ lines # <<>> => lines'[1] >= lines[1]
           /\ \A x \in Shown : x >= lines'[1] => x \in Shown'
           /\ Shown' \subseteq Shown \cup {e}
           /\ e > last => e \in Shown'
           /\ e <= last => lines' = lines
  <1> USE DEF BInv
  <1>1. /\ seq \in Nat /\ last \in Nat
        /\ Len(lines) \in Nat /\ DOMAIN lines = 1..Len(lines)
        /\ \A i \in DOMAIN lines : lines[i] \in Nat /\ lines[i] \in 1..seq
        /\ lines # <<>> => Len(lines) >= 1
    BY Domains DEF TypeOK
  <1>2. \A i \in DOMAIN lines : lines[i] <= last
    <2> SUFFICES ASSUME NEW i \in DOMAIN lines PROVE lines[i] <= last
      OBVIOUS
    <2>1. lines # <<>> /\ Len(lines) \in DOMAIN lines
      BY <1>1
    <2>2. last = lines[Len(lines)]
      BY <2>1 DEF Buffer
    <2>3. i = Len(lines) \/ i < Len(lines)
      BY <1>1
    <2> QED BY <1>1, <2>1, <2>2, <2>3 DEF Buffer
  <1>3. CASE e <= last
    <2>1. lines' = lines /\ last' = last
      BY <1>3 DEF BufferPush
    <2>2. lines # <<>>
      BY <1>3 DEF Buffer
    <2>3. Shown' = Shown
      BY <2>1 DEF Shown
    <2>4. lines[1] \in Nat
      BY <1>1, <2>2
    <2> QED BY <1>1, <1>3, <2>1, <2>2, <2>3, <2>4 DEF Buffer, TypeOK
  <1>4. CASE ~(e <= last)
    <2>1. last' = e /\ lines' = PushBounded(lines, e, MaxLines)
      BY <1>4 DEF BufferPush
    <2>2. Len(lines) <= MaxLines /\ lines \in Seq(1..seq) /\ MaxLines \in Nat \ {0}
      BY DEF TypeOK
    <2>3. /\ lines' \in Seq(1..seq) /\ Len(lines') <= MaxLines
          /\ \E d \in {0, 1} : Pushed(lines, lines', e, d)
      <3>1. /\ PushBounded(lines, e, MaxLines) \in Seq(1..seq)
            /\ Len(PushBounded(lines, e, MaxLines)) <= MaxLines
            /\ \E d \in {0, 1} : Pushed(lines, PushBounded(lines, e, MaxLines), e, d)
        BY <2>2, PushBoundedEffect
      <3> QED BY <2>1, <3>1
    <2>4. e > last /\ e \in Nat /\ \A i \in DOMAIN lines : lines[i] < e
      BY <1>1, <1>2, <1>4
    <2>5. \A i, j \in DOMAIN lines : i < j => lines[i] < lines[j]
      BY DEF Buffer
    <2>6. Continues(lines, lines', e)
      <3>1. PICK d \in {0, 1} : Pushed(lines, lines', e, d)
        BY <2>3
      <3>2. \A i \in DOMAIN lines : lines[i] \in Nat /\ lines[i] < e
        BY <1>1, <2>4
      <3> QED BY <1>1, <2>4, <2>5, <3>1, <3>2, PushedOrdered
    <2>7. lines' # <<>> /\ last' = lines'[Len(lines')]
      BY <2>1, <2>3 DEF Pushed
    <2>8. Buffer'
      BY <2>6, <2>7 DEF Buffer, Continues
    <2>9. \A x \in Shown : x >= lines'[1] => x \in Shown'
      BY <2>6 DEF Shown, Continues
    <2>10. Shown' \subseteq Shown \cup {e} /\ e \in Shown'
      BY <2>6 DEF Shown, Continues
    <2>11. lines # <<>> => lines'[1] >= lines[1]
      BY <1>1, <2>6 DEF Continues
    <2> QED BY <1>1, <1>4, <2>1, <2>3, <2>4, <2>6, <2>7, <2>8, <2>9, <2>10, <2>11
  <1> QED BY <1>3, <1>4

-----------------------------------------------------------------------------
\* Appending adds one element at the end.
LEMMA AppendEffect ==
    ASSUME NEW S, NEW s \in Seq(S), NEW e \in S
    PROVE  /\ Append(s, e) \in Seq(S) /\ Len(Append(s, e)) = Len(s) + 1
           /\ DOMAIN Append(s, e) = 1..(Len(s) + 1) /\ DOMAIN s = 1..Len(s) /\ Len(s) \in Nat
           /\ \A i \in DOMAIN s : Append(s, e)[i] = s[i]
           /\ Append(s, e)[Len(s) + 1] = e
  <1>1. Len(s) \in Nat /\ DOMAIN s = 1..Len(s)
    BY LenProperties
  <1>2. /\ Append(s, e) \in Seq(S) /\ Len(Append(s, e)) = Len(s) + 1
        /\ \A i \in 1..Len(s) : Append(s, e)[i] = s[i]
        /\ Append(s, e)[Len(s) + 1] = e
    BY AppendProperties
  <1> QED BY <1>1, <1>2, LenProperties

\* A logger's step keeps the types, and what the page does.
LEMMA StoreType ==
    ASSUME BInv, NEW l \in Logger, Stamp(l) \/ Store(l) \/ Broadcast(l)
    PROVE  BInv'
  <1> USE DEF BInv, storeVars, pageVars
  <1>1. UNCHANGED <<page, at, backlog, last, lines, lost>>
    BY DEF Stamp, Store, Broadcast
  <1>2. Buffer'
    BY <1>1 DEF Buffer
  <1>3. CASE Stamp(l)
    <2>1. seq' = seq + 1 /\ seq' \in 0..MaxEvents /\ 1..seq \subseteq 1..seq' /\ 0..seq \subseteq 0..seq'
      BY <1>3 DEF Stamp, TypeOK
    <2>2. UNCHANGED <<stored, ring, channel, order>>
      BY <1>3 DEF Stamp
    <2>3. stamped' \in [Logger -> 0..seq'] /\ stored' \in [Logger -> 0..seq']
      BY <1>3, <2>1, <2>2, SMTT(30) DEF Stamp, TypeOK
    <2>4. ring' \in Seq(1..seq') /\ channel' \in Seq(1..seq') /\ order' \in Seq(1..seq')
      BY <2>1, <2>2, SeqMonotonic DEF TypeOK
    <2>5. backlog' \in Seq(1..seq') /\ lines' \in Seq(1..seq')
      BY <1>1, <2>1, SeqMonotonic DEF TypeOK
    <2> QED BY <1>1, <1>2, <2>1, <2>2, <2>3, <2>4, <2>5 DEF TypeOK
  <1>4. CASE Store(l)
    <2>1. /\ ring' = PushBounded(ring, stamped[l], Cap)
          /\ order' = Append(order, stamped[l])
          /\ UNCHANGED <<seq, channel>>
      BY <1>4 DEF Store
    <2>2. stamped[l] \in 1..seq
      BY <1>4 DEF Store, TypeOK
    <2>3. ring' \in Seq(1..seq) /\ Len(ring') <= Cap
      BY <2>1, <2>2, PushBoundedEffect DEF TypeOK
    <2>4. order' \in Seq(1..seq)
      BY <2>1, <2>2, AppendEffect DEF TypeOK
    <2>5. stamped' \in [Logger -> 0..seq] /\ stored' \in [Logger -> 0..seq]
      BY <1>4 DEF Store, TypeOK
    <2> QED BY <1>1, <1>2, <2>1, <2>3, <2>4, <2>5 DEF TypeOK
  <1>5. CASE Broadcast(l)
    <2>1. /\ channel' = Append(channel, stored[l])
          /\ UNCHANGED <<seq, stamped, ring, order>>
      BY <1>5 DEF Broadcast
    <2>2. stored[l] \in 1..seq
      BY <1>5 DEF Broadcast, TypeOK
    <2>3. channel' \in Seq(1..seq) /\ Len(channel') = Len(channel) + 1 /\ Len(channel) \in Nat
      BY <2>1, <2>2, AppendEffect DEF TypeOK
    <2>4. stored' \in [Logger -> 0..seq] /\ at' \in 0..Len(channel')
      BY <1>1, <1>5, <2>3 DEF Broadcast, TypeOK
    <2> QED BY <1>1, <1>2, <2>1, <2>3, <2>4 DEF TypeOK
  <1> QED BY <1>3, <1>4, <1>5

\* The page's steps keep the buffer in order.
LEMMA PageType ==
    ASSUME BInv, Subscribe \/ Recent \/ Replay \/ Follow \/ Recv \/ Lagged \/ Shut
    PROVE  BInv'
  <1> USE DEF BInv, storeVars, pageVars
  <1>1. UNCHANGED <<seq, stamped, stored, ring, channel, order>>
    BY DEF Subscribe, Recent, Replay, Follow, Recv, Lagged, Shut
  <1>2. CASE Subscribe \/ Recent \/ Follow
    <2>1. /\ UNCHANGED <<last, lines, lost>> /\ at' \in {at, Len(channel)}
          /\ backlog' \in {backlog, ring}
          /\ page' \in {"subscribed", "replay", "live"}
      BY <1>2 DEF Subscribe, Recent, Follow
    <2>2. Len(channel) \in Nat
      BY Domains
    <2> QED BY <1>1, <2>1, <2>2, SMTT(30) DEF TypeOK, Buffer
  <1>3. CASE Replay
    <2>1. /\ backlog # <<>> /\ BufferPush(Head(backlog)) /\ backlog' = Tail(backlog)
          /\ UNCHANGED <<page, at, lost>>
      BY <1>3 DEF Replay
    <2>2. Head(backlog) \in 1..seq /\ Tail(backlog) \in Seq(1..seq)
      BY <2>1, HeadTailProperties DEF TypeOK
    <2>3. /\ lines' \in Seq(1..seq) /\ Len(lines') <= MaxLines /\ last' \in 0..seq
          /\ Buffer'
      BY <2>1, <2>2, BufferPushEffect
    <2> QED BY <1>1, <2>1, <2>2, <2>3 DEF TypeOK
  <1>4. CASE Recv
    <2>1. /\ at < Len(channel) /\ BufferPush(channel[at + 1]) /\ at' = at + 1
          /\ UNCHANGED <<page, backlog, lost>>
      BY <1>4 DEF Recv
    <2>2. channel[at + 1] \in 1..seq /\ at' \in 0..Len(channel)
      BY <2>1, Domains, SMTT(30) DEF TypeOK
    <2>3. /\ lines' \in Seq(1..seq) /\ Len(lines') <= MaxLines /\ last' \in 0..seq
          /\ Buffer'
      BY <2>1, <2>2, BufferPushEffect
    <2> QED BY <1>1, <2>1, <2>2, <2>3 DEF TypeOK
  <1>5. CASE Lagged
    <2>1. /\ lost' = lost \cup {channel[i] : i \in (at + 1)..Oldest} /\ at' = Oldest
          /\ UNCHANGED <<page, backlog, last, lines>>
      BY <1>5 DEF Lagged
    <2>2. Oldest \in 0..Len(channel) /\ Len(channel) \in Nat
      BY Domains DEF Oldest
    <2>3. ASSUME NEW i \in (at + 1)..Oldest
          PROVE  channel[i] \in 1..seq
      BY <2>2, Domains, SMTT(30) DEF TypeOK
    <2>4. lost' \subseteq 1..seq
      BY <2>1, <2>3 DEF TypeOK
    <2>5. Buffer'
      BY <2>1 DEF Buffer
    <2> QED BY <1>1, <2>1, <2>2, <2>4, <2>5 DEF TypeOK
  <1>6. CASE Shut
    <2>1. /\ page' = "shut" /\ at' = 0 /\ last' = 0 /\ lines' = <<>> /\ lost' = {}
          /\ UNCHANGED backlog
      BY <1>6 DEF Shut
    <2>2. <<>> \in Seq(1..seq) /\ Len(<<>>) = 0 /\ DOMAIN <<>> = {}
      BY EmptySeq
    <2>3. Len(channel) \in Nat /\ seq \in Nat
      BY Domains
    <2> QED BY <1>1, <2>1, <2>2, <2>3 DEF TypeOK, Buffer
  <1> QED BY <1>2, <1>3, <1>4, <1>5, <1>6

\* It starts empty.
LEMMA InitType == Init => BInv
  <1> SUFFICES ASSUME Init PROVE BInv
    OBVIOUS
  <1>1. <<>> \in Seq(1..seq) /\ Len(<<>>) = 0 /\ DOMAIN <<>> = {}
    BY EmptySeq
  <1>2. seq = 0 /\ seq \in 0..MaxEvents
    BY DEF Init
  <1>3. ring \in Seq(1..seq) /\ Len(ring) <= Cap
    BY <1>1 DEF Init
  <1>4. channel \in Seq(1..seq) /\ backlog \in Seq(1..seq) /\ order \in Seq(1..seq)
    BY <1>1 DEF Init
  <1>5. lines \in Seq(1..seq) /\ Len(lines) <= MaxLines
    BY <1>1 DEF Init
  <1>6. stamped \in [Logger -> 0..seq] /\ stored \in [Logger -> 0..seq] /\ at \in 0..Len(channel)
    BY <1>1, <1>2 DEF Init
  <1>7. TypeOK
    BY <1>2, <1>3, <1>4, <1>5, <1>6 DEF Init, TypeOK
  <1>8. Buffer
    BY <1>1 DEF Init, Buffer
  <1> QED BY <1>7, <1>8 DEF BInv

\* However the backlog and the channel overlap, a line is shown once, in order.
THEOREM ShownOnceInOrderHolds == Spec => []ShownOnceInOrder
  <1>1. BInv /\ [Next]_vars => BInv'
    <2> SUFFICES ASSUME BInv, [Next]_vars PROVE BInv'
      OBVIOUS
    <2>1. CASE UNCHANGED vars
      BY <2>1 DEF vars, storeVars, pageVars, BInv, TypeOK, Buffer
    <2> QED BY <2>1, StoreType, PageType DEF Next
  <1>2. BInv => ShownOnceInOrder
    BY DEF BInv, Buffer, ShownOnceInOrder
  <1> QED BY <1>1, <1>2, InitType, PTL DEF Spec

-----------------------------------------------------------------------------
\* t is s, or s with something appended.
Extended(s, t) ==
    /\ Len(s) \in Nat /\ Len(t) \in Nat /\ Len(s) <= Len(t)
    /\ DOMAIN s = 1..Len(s) /\ DOMAIN t = 1..Len(t)
    /\ \A i \in DOMAIN s : t[i] = s[i]

\* What was stored or broadcast out of order stays so.
LEMMA ReorderedGrows ==
    ASSUME NEW s, NEW t, NEW e, Extended(s, t), Reordered(e, s)
    PROVE  Reordered(e, t)
  <1>1. PICK i \in DOMAIN s, j \in DOMAIN s : i < j /\ s[i] > s[j] /\ e \in {s[i], s[j]}
    BY DEF Reordered
  <1>2. i \in DOMAIN t /\ j \in DOMAIN t /\ t[i] = s[i] /\ t[j] = s[j]
    BY <1>1 DEF Extended
  <1> QED BY <1>1, <1>2 DEF Reordered

\* A logger's step only adds to what was stored and broadcast.
LEMMA StoreExtends ==
    ASSUME BInv, NEW l \in Logger, Stamp(l) \/ Store(l) \/ Broadcast(l)
    PROVE  Extended(order, order') /\ Extended(channel, channel')
  <1> USE DEF BInv
  <1>1. Extended(order, order) /\ Extended(channel, channel)
    BY Domains DEF Extended
  <1>2. CASE Stamp(l)
    BY <1>1, <1>2 DEF Stamp
  <1>3. CASE Store(l)
    <2>1. order' = Append(order, stamped[l]) /\ channel' = channel
      BY <1>3 DEF Store
    <2>2. stamped[l] \in 1..seq /\ order \in Seq(1..seq)
      BY <1>3 DEF Store, TypeOK
    <2>3. Extended(order, order')
      BY <2>1, <2>2, AppendEffect DEF Extended
    <2> QED BY <1>1, <2>1, <2>3
  <1>4. CASE Broadcast(l)
    <2>1. channel' = Append(channel, stored[l]) /\ order' = order
      BY <1>4 DEF Broadcast
    <2>2. stored[l] \in 1..seq /\ channel \in Seq(1..seq)
      BY <1>4 DEF Broadcast, TypeOK
    <2>3. Extended(channel, channel')
      BY <2>1, <2>2, AppendEffect DEF Extended
    <2> QED BY <1>1, <2>1, <2>3
  <1> QED BY <1>2, <1>3, <1>4

\* An event is on its way, then stored, then broadcast.
LEMMA StorePushes ==
    ASSUME BInv, Pushes, NEW l \in Logger, Stamp(l) \/ Store(l) \/ Broadcast(l)
    PROVE  Pushes'
  <1> USE DEF BInv
  <1>1. /\ \A e \in 1..seq : \/ \E k \in Logger : stamped[k] = e \/ stored[k] = e
                             \/ \E p \in DOMAIN channel : channel[p] = e
        /\ \A k \in Logger : stamped[k] = 0 \/ stored[k] = 0
        /\ \A k \in Logger : stored[k] # 0 => \E q \in DOMAIN order : order[q] = stored[k]
        /\ \A p \in DOMAIN channel : \E q \in DOMAIN order : order[q] = channel[p]
    BY DEF Pushes
  <1>2. /\ Len(ring) <= Len(order)
        /\ \A i \in DOMAIN ring : ring[i] = order[(Len(order) - Len(ring)) + i]
    BY DEF Pushes
  <1>3. /\ seq \in Nat
        /\ Len(ring) \in Nat /\ DOMAIN ring = 1..Len(ring)
        /\ Len(order) \in Nat /\ DOMAIN order = 1..Len(order)
        /\ Len(channel) \in Nat /\ DOMAIN channel = 1..Len(channel)
    BY Domains
  <1>4. CASE Stamp(l)
    <2>1. /\ stamped[l] = 0 /\ stored[l] = 0 /\ seq' = seq + 1
          /\ stamped' = [stamped EXCEPT ![l] = seq + 1]
          /\ UNCHANGED <<stored, ring, channel, order>>
      BY <1>4 DEF Stamp
    <2>2. /\ stamped'[l] = seq + 1
          /\ \A k \in Logger : k # l => stamped'[k] = stamped[k]
      BY <2>1 DEF TypeOK
    <2>3. ASSUME NEW e \in 1..seq'
          PROVE  \/ \E k \in Logger : stamped'[k] = e \/ stored'[k] = e
                 \/ \E p \in DOMAIN channel' : channel'[p] = e
      <3>1. CASE e = seq + 1
        BY <2>2, <3>1
      <3>2. CASE e # seq + 1
        <4>1. e \in 1..seq
          BY <1>3, <2>1, <3>2
        <4> QED BY <1>1, <2>1, <2>2, <4>1
      <3> QED BY <3>1, <3>2
    <2>4. \A k \in Logger : stamped'[k] = 0 \/ stored'[k] = 0
      BY <1>1, <2>1, <2>2
    <2> QED BY <1>1, <1>2, <2>1, <2>3, <2>4 DEF Pushes
  <1>5. CASE Store(l)
    <2>1. /\ stamped[l] # 0 /\ ring' = PushBounded(ring, stamped[l], Cap)
          /\ order' = Append(order, stamped[l])
          /\ stored' = [stored EXCEPT ![l] = stamped[l]]
          /\ stamped' = [stamped EXCEPT ![l] = 0]
          /\ UNCHANGED <<seq, channel>>
      BY <1>5 DEF Store
    <2>2. stamped[l] \in 1..seq /\ stored[l] = 0
      BY <1>1, <2>1 DEF TypeOK
    <2>3. /\ stored'[l] = stamped[l] /\ stamped'[l] = 0
          /\ \A k \in Logger : k # l => stamped'[k] = stamped[k] /\ stored'[k] = stored[k]
      BY <2>1 DEF TypeOK
    <2>4. /\ Len(order') = Len(order) + 1 /\ DOMAIN order' = 1..(Len(order) + 1)
          /\ \A i \in DOMAIN order : order'[i] = order[i] /\ i \in DOMAIN order'
          /\ order'[Len(order) + 1] = stamped[l] /\ Len(order) + 1 \in DOMAIN order'
      BY <1>3, <2>1, <2>2, AppendEffect DEF TypeOK
    <2>5. ASSUME NEW e \in 1..seq'
          PROVE  \/ \E k \in Logger : stamped'[k] = e \/ stored'[k] = e
                 \/ \E p \in DOMAIN channel' : channel'[p] = e
      <3>1. e # 0 /\ e \in 1..seq
        BY <2>1
      <3>2. CASE \E p \in DOMAIN channel : channel[p] = e
        BY <2>1, <3>2
      <3>3. ASSUME NEW k \in Logger, stamped[k] = e \/ stored[k] = e
            PROVE  stamped'[k] = e \/ stored'[k] = e
        BY <2>2, <2>3, <3>1, <3>3
      <3> QED BY <1>1, <3>1, <3>2, <3>3
    <2>6. \A k \in Logger : stamped'[k] = 0 \/ stored'[k] = 0
      BY <1>1, <2>3
    <2>7. \A k \in Logger : stored'[k] # 0 => \E q \in DOMAIN order' : order'[q] = stored'[k]
      BY <1>1, <2>3, <2>4
    <2>8. \A p \in DOMAIN channel' : \E q \in DOMAIN order' : order'[q] = channel'[p]
      BY <1>1, <2>1, <2>4
    <2>9. /\ Len(ring') <= Len(order')
          /\ \A i \in DOMAIN ring' : ring'[i] = order'[(Len(order') - Len(ring')) + i]
      <3>1. PICK d \in {0, 1} : Pushed(ring, ring', stamped[l], d)
        <4> DEFINE e == stamped[l]
                   r == PushBounded(ring, e, Cap)
        <4>1. /\ Len(ring) <= Cap /\ ring \in Seq(1..seq) /\ Cap \in Nat \ {0}
              /\ e \in 1..seq
          BY <2>2 DEF TypeOK
        <4> HIDE DEF e
        <4>2. r \in Seq(1..seq) /\ Len(r) <= Cap /\ \E d \in {0, 1} : Pushed(ring, r, e, d)
          BY <4>1, PushBoundedEffect
        <4> QED BY <2>1, <4>2 DEF e
      <3>2. /\ Len(ring') = Len(ring) + 1 - d /\ DOMAIN ring' = 1..Len(ring')
            /\ Len(ring') \in Nat /\ Len(ring') >= 1 /\ ring'[Len(ring')] = stamped[l]
            /\ \A i \in 1..(Len(ring') - 1) : ring'[i] = ring[i + d]
        BY <3>1 DEF Pushed
      <3>3. Len(ring') <= Len(order')
        BY <1>2, <1>3, <2>4, <3>2
      <3>4. ASSUME NEW i \in DOMAIN ring'
            PROVE  ring'[i] = order'[(Len(order') - Len(ring')) + i]
        <4>1. CASE i = Len(ring')
          <5>1. (Len(order') - Len(ring')) + i = Len(order) + 1
            BY <1>3, <2>4, <3>2, <4>1
          <5> QED BY <2>4, <3>2, <4>1, <5>1
        <4>2. CASE i # Len(ring')
          <5>1. i \in 1..(Len(ring') - 1) /\ i + d \in DOMAIN ring
            BY <1>3, <3>2, <4>2
          <5>2. ring'[i] = order[(Len(order) - Len(ring)) + (i + d)]
            BY <1>2, <3>2, <5>1
          <5>3. /\ (Len(order) - Len(ring)) + (i + d) = (Len(order') - Len(ring')) + i
                /\ (Len(order) - Len(ring)) + (i + d) \in DOMAIN order
            BY <1>2, <1>3, <2>4, <3>2, <5>1, SMTT(30)
          <5> QED BY <2>4, <5>2, <5>3
        <4> QED BY <4>1, <4>2
      <3> QED BY <3>3, <3>4
    <2> QED BY <2>5, <2>6, <2>7, <2>8, <2>9 DEF Pushes
  <1>6. CASE Broadcast(l)
    <2>1. /\ stored[l] # 0 /\ channel' = Append(channel, stored[l])
          /\ stored' = [stored EXCEPT ![l] = 0]
          /\ UNCHANGED <<seq, stamped, ring, order>>
      BY <1>6 DEF Broadcast
    <2>2. stored[l] \in 1..seq
      BY <2>1 DEF TypeOK
    <2>3. /\ stored'[l] = 0
          /\ \A k \in Logger : k # l => stored'[k] = stored[k]
      BY <2>1 DEF TypeOK
    <2>4. /\ DOMAIN channel' = 1..(Len(channel) + 1)
          /\ \A i \in DOMAIN channel : channel'[i] = channel[i] /\ i \in DOMAIN channel'
          /\ channel'[Len(channel) + 1] = stored[l] /\ Len(channel) + 1 \in DOMAIN channel'
      BY <1>3, <2>1, <2>2, AppendEffect DEF TypeOK
    <2>5. ASSUME NEW e \in 1..seq'
          PROVE  \/ \E k \in Logger : stamped'[k] = e \/ stored'[k] = e
                 \/ \E p \in DOMAIN channel' : channel'[p] = e
      BY <1>1, <2>1, <2>3, <2>4
    <2>6. \A k \in Logger : stamped'[k] = 0 \/ stored'[k] = 0
      BY <1>1, <2>1, <2>3
    <2>7. \A k \in Logger : stored'[k] # 0 => \E q \in DOMAIN order' : order'[q] = stored'[k]
      BY <1>1, <2>1, <2>3
    <2>8. ASSUME NEW p \in DOMAIN channel'
          PROVE  \E q \in DOMAIN order' : order'[q] = channel'[p]
      <3>1. p = Len(channel) + 1 \/ p \in DOMAIN channel
        BY <1>3, <2>4
      <3> QED BY <1>1, <2>1, <2>4, <3>1
    <2> QED BY <1>2, <2>1, <2>5, <2>6, <2>7, <2>8 DEF Pushes
  <1> QED BY <1>4, <1>5, <1>6

\* While a logger takes a step the page stays where it is.
LEMMA StoreFollows ==
    ASSUME BInv, Following, NEW l \in Logger, Stamp(l) \/ Store(l) \/ Broadcast(l)
    PROVE  Following'
  <1> USE DEF BInv
  <1>1. UNCHANGED <<page, at, backlog, last, lines, lost>>
    BY DEF Stamp, Store, Broadcast, pageVars
  <1>2. Extended(order, order') /\ Extended(channel, channel')
    BY StoreExtends
  <1>3. /\ DOMAIN order = 1..Len(order) /\ Len(order) \in Nat
        /\ DOMAIN channel = 1..Len(channel) /\ Len(channel) \in Nat
        /\ \A q \in 1..Len(order) : order'[q] = order[q]
        /\ \A p \in 1..Len(channel) : channel'[p] = channel[p]
        /\ Len(order') \in Nat /\ Len(order) <= Len(order')
        /\ Len(channel') \in Nat /\ Len(channel) <= Len(channel')
    BY <1>2 DEF Extended
  <1>4. ASSUME NEW e, Settled(e)
        PROVE  Settled(e)'
    BY <1>1, <1>2, <1>4, ReorderedGrows DEF Settled, Shown
  <1>5. page' \in {"shut", "subscribed"} => lines' = <<>> /\ lost' = {}
    BY <1>1 DEF Following
  <1>6. ASSUME page \in {"replay", "live"}
        PROVE  \E m, k, n \in 0..Len(order'), a \in 0..Len(channel') : Follows(m, k, n, a)'
    <2>1. PICK m \in 0..Len(order), k \in 0..Len(order), n \in 0..Len(order), a \in 0..Len(channel) :
             Follows(m, k, n, a)
      BY <1>6 DEF Following
    <2>2. at \in 0..Len(channel)
      BY DEF TypeOK
    <2>3. /\ m <= k /\ k <= n /\ a <= at
          /\ Len(backlog) = n - k
          /\ \A i \in DOMAIN backlog : backlog[i] = order[k + i]
          /\ page = "replay" => at = a
          /\ page = "live" => k = n
      BY <2>1 DEF Follows
    <2>4. \A p \in 1..a : \E q \in 1..n : order[q] = channel[p]
      BY <2>1 DEF Follows
    <2>5. \A q \in (m + 1)..k : Settled(order[q]) /\ order[q] <= last
      BY <2>1 DEF Follows
    <2>6. \A p \in (a + 1)..at : Settled(channel[p]) /\ (channel[p] <= last \/ channel[p] \in lost)
      BY <2>1 DEF Follows
    <2>7. \A i \in DOMAIN lines :
             \/ \E q \in (m + 1)..k : lines[i] = order[q]
             \/ /\ \E p \in (a + 1)..at : lines[i] = channel[p]
                /\ \A q \in (m + 1)..k : order[q] < lines[i]
      BY <2>1 DEF Follows
    <2>8. /\ \A q \in (m + 1)..k : order'[q] = order[q]
          /\ \A q \in 1..n : order'[q] = order[q]
          /\ \A p \in 1..a : channel'[p] = channel[p]
          /\ \A p \in (a + 1)..at : channel'[p] = channel[p]
      BY <1>3, <2>2, SMTT(30)
    <2>9. \A i \in DOMAIN backlog : order'[k + i] = order[k + i]
      <3>1. Len(backlog) \in Nat /\ DOMAIN backlog = 1..Len(backlog)
        BY Domains
      <3> QED BY <1>3, <2>3, <3>1
    <2>10. \A p \in 1..a : \E q \in 1..n : order'[q] = channel'[p]
      BY <2>4, <2>8
    <2>11. \A q \in (m + 1)..k : Settled(order[q])'
      <3> SUFFICES ASSUME NEW q \in (m + 1)..k PROVE Settled(order[q])'
        OBVIOUS
      <3>1. Settled(order[q]) /\ order'[q] = order[q]
        BY <2>5, <2>8
      <3>2. PICK x : x = order[q]
        OBVIOUS
      <3>3. Settled(x)
        BY <3>1, <3>2
      <3>4. Settled(x)'
        BY <1>4, <3>3
      <3> QED BY <3>1, <3>2, <3>4 DEF Settled
    <2>12. \A p \in (a + 1)..at : Settled(channel[p])'
      <3> SUFFICES ASSUME NEW p \in (a + 1)..at PROVE Settled(channel[p])'
        OBVIOUS
      <3>1. Settled(channel[p]) /\ channel'[p] = channel[p]
        BY <2>6, <2>8
      <3>2. PICK x : x = channel[p]
        OBVIOUS
      <3>3. Settled(x)
        BY <3>1, <3>2
      <3>4. Settled(x)'
        BY <1>4, <3>3
      <3> QED BY <3>1, <3>2, <3>4 DEF Settled
    <2>13. Follows(m, k, n, a)'
      BY <1>1, <2>3, <2>5, <2>6, <2>7, <2>8, <2>9, <2>10, <2>11, <2>12, SMTT(30) DEF Follows
    <2> QED BY <1>3, <2>13
  <1> QED BY <1>1, <1>5, <1>6 DEF Following

-----------------------------------------------------------------------------
\* What was accounted for stays so when an event is pushed.
LEMMA SettledStays ==
    ASSUME BInv, NEW e \in 1..seq, BufferPush(e), UNCHANGED <<order, channel, lost>>,
           NEW x \in 1..seq, Settled(x), x <= last \/ x \in lost
    PROVE  Settled(x)' /\ (x <= last' \/ x \in lost')
  <1>1. /\ last' >= last /\ last' \in Nat /\ last \in Nat /\ seq \in Nat
        /\ lines # <<>> => lines'[1] >= lines[1] /\ lines'[1] \in Nat /\ lines[1] \in Nat
        /\ \A y \in Shown : y >= lines'[1] => y \in Shown'
        /\ lines' # <<>>
    <2>1. lines' \in Seq(1..seq) /\ lines' # <<>> /\ last' \in 0..seq /\ last \in 0..seq /\ seq \in Nat
      BY BufferPushEffect DEF BInv, TypeOK
    <2>2. lines'[1] \in 1..seq
      BY <2>1, EmptySeq, LenProperties
    <2>3. lines # <<>> => lines[1] \in 1..seq
      BY EmptySeq, LenProperties DEF BInv, TypeOK
    <2> QED BY <2>1, <2>2, <2>3, BufferPushEffect
  <1>2. x <= last' \/ x \in lost'
    BY <1>1
  <1>3. CASE lines = <<>>
    <2>1. last = 0
      BY <1>3 DEF BInv, Buffer
    <2>2. x \in lost'
      BY <2>1
    <2> QED BY <1>2, <2>2 DEF Settled
  <1>4. CASE lines # <<>>
    <2>1. ASSUME x >= lines'[1]
          PROVE  x \in Shown' \/ x \in lost' \/ Reordered(x, order') \/ Reordered(x, channel')
      <3>1. x >= lines[1]
        BY <1>1, <1>4, <2>1
      <3>2. x \in Shown \/ x \in lost \/ Reordered(x, order) \/ Reordered(x, channel)
        BY <1>4, <3>1 DEF Settled
      <3> QED BY <1>1, <2>1, <3>2
    <2> QED BY <1>2, <2>1 DEF Settled
  <1> QED BY <1>3, <1>4

\* An event of the backlog is shown, or was stored after a newer one.
LEMMA ReplayFollows ==
    ASSUME BInv, Following, Replay
    PROVE  Following'
  <1> USE DEF BInv
  <1>1. /\ page = "replay" /\ backlog # <<>> /\ BufferPush(Head(backlog))
        /\ backlog' = Tail(backlog)
        /\ UNCHANGED <<seq, order, channel, page, at, lost>>
    BY DEF Replay, storeVars
  <1>2. PICK m \in 0..Len(order), k \in 0..Len(order), n \in 0..Len(order), a \in 0..Len(channel) :
           Follows(m, k, n, a)
    BY <1>1 DEF Following
  <1>3. /\ m <= k /\ k <= n /\ at = a
        /\ Len(backlog) = n - k
        /\ \A i \in DOMAIN backlog : backlog[i] = order[k + i]
    BY <1>1, <1>2 DEF Follows
  <1>0. seq \in Nat /\ last \in Nat /\ at \in Nat
    <2>1. seq \in Nat /\ Len(channel) \in Nat /\ last \in 0..seq /\ at \in 0..Len(channel)
      BY Domains DEF TypeOK
    <2> QED BY <2>1
  <1>4. /\ seq \in Nat /\ last \in Nat /\ at \in Nat
        /\ Len(backlog) \in Nat /\ DOMAIN backlog = 1..Len(backlog)
        /\ Len(order) \in Nat /\ DOMAIN order = 1..Len(order)
        /\ \A i \in DOMAIN order : order[i] \in 1..seq
        /\ Len(lines) \in Nat /\ DOMAIN lines = 1..Len(lines)
        /\ lines # <<>> => Len(lines) >= 1
    BY <1>0, Domains
  <1>5. /\ Len(backlog) >= 1 /\ Head(backlog) = backlog[1]
        /\ Len(Tail(backlog)) = Len(backlog) - 1
        /\ DOMAIN Tail(backlog) = 1..Len(Tail(backlog))
        /\ \A i \in 1..Len(Tail(backlog)) : Tail(backlog)[i] = backlog[i + 1]
    BY <1>1, <1>4, HeadTailProperties, EmptySeq, LenProperties DEF TypeOK
  <1>6. PICK e \in 1..seq :
           /\ e = order[k + 1] /\ k + 1 \in 1..n /\ k + 1 \in DOMAIN order
           /\ Head(backlog) = e
    <2>1. k + 1 \in 1..n /\ k + 1 \in DOMAIN order /\ Head(backlog) = order[k + 1]
      BY <1>3, <1>4, <1>5, SMTT(30)
    <2> QED BY <1>4, <2>1
  <1>7. BufferPush(e)
    BY <1>1, <1>6
  <1>8. /\ e <= last' /\ Shown' \subseteq Shown \cup {e}
        /\ e > last => e \in Shown'
        /\ e <= last => lines' = lines
    BY <1>6, <1>7, BufferPushEffect
  <1>9. \A i \in DOMAIN lines : \E q \in (m + 1)..k : lines[i] = order[q]
    <2> SUFFICES ASSUME NEW i \in DOMAIN lines PROVE \E q \in (m + 1)..k : lines[i] = order[q]
      OBVIOUS
    <2>1. \/ \E q \in (m + 1)..k : lines[i] = order[q]
          \/ \E p \in (a + 1)..at : lines[i] = channel[p]
      BY <1>2 DEF Follows
    <2> QED BY <1>3, <1>4, <2>1
  <1>10. Settled(e)'
    <2>1. CASE e > last
      BY <1>8, <2>1 DEF Settled
    <2>2. CASE ~(e > last)
      <3>1. lines' = lines /\ lines # <<>> /\ last = lines[Len(lines)] /\ e <= last
        BY <1>4, <1>6, <1>8, <2>2 DEF Buffer
      <3>2. Len(lines) \in DOMAIN lines
        BY <1>4, <3>1
      <3>3. CASE e = last
        <4>1. e \in Shown'
          BY <3>1, <3>2, <3>3 DEF Shown
        <4> QED BY <4>1 DEF Settled
      <3>4. CASE e # last
        <4>1. PICK q \in (m + 1)..k : last = order[q]
          BY <1>9, <3>1, <3>2
        <4>2. q \in DOMAIN order /\ q < k + 1 /\ order[q] > e
          BY <1>3, <1>4, <1>6, <3>1, <3>4, <4>1
        <4>3. Reordered(e, order)
          BY <1>6, <4>2 DEF Reordered
        <4> QED BY <1>1, <4>3 DEF Settled
      <3> QED BY <3>3, <3>4
    <2> QED BY <2>1, <2>2
  <1>11. ASSUME NEW q \in (m + 1)..(k + 1)
         PROVE  Settled(order[q])' /\ order'[q] <= last'
    <2>1. CASE q = k + 1
      <3>1. order[q] = e
        BY <1>6, <2>1
      <3> QED BY <1>1, <1>8, <1>10, <3>1 DEF Settled
    <2>2. CASE q # k + 1
      <3>1. q \in (m + 1)..k /\ order[q] \in 1..seq
        BY <1>3, <1>4, <2>2
      <3>2. Settled(order[q]) /\ order[q] <= last
        BY <1>2, <3>1 DEF Follows
      <3>3. PICK x \in 1..seq : x = order[q]
        BY <3>1
      <3>4. x <= last'
        <4>1. last' >= last /\ last' \in Nat
          <5>1. last' >= last /\ last' \in 0..seq
            BY <1>6, <1>7, BufferPushEffect
          <5> QED BY <1>4, <5>1
        <4> QED BY <1>4, <3>2, <3>3, <4>1
      <3>5. Settled(x)'
        <4>1. Settled(x) /\ x <= last
          BY <3>2, <3>3
        <4> QED BY <1>1, <1>6, <1>7, <4>1, SettledStays
      <3> QED BY <1>1, <3>3, <3>4, <3>5 DEF Settled
    <2> QED BY <2>1, <2>2
  <1>12. ASSUME NEW i \in DOMAIN lines'
         PROVE  \E q \in (m + 1)..(k + 1) : lines'[i] = order'[q]
    <2>1. lines'[i] \in Shown \/ lines'[i] = e
      BY <1>8 DEF Shown
    <2>2. CASE lines'[i] = e
      BY <1>1, <1>3, <1>4, <1>6, <2>2
    <2>3. CASE lines'[i] \in Shown
      <3>1. PICK q \in (m + 1)..k : lines'[i] = order[q]
        BY <1>9, <2>3 DEF Shown
      <3>2. q \in (m + 1)..(k + 1)
        BY <1>3, <1>4
      <3> QED BY <1>1, <3>1, <3>2
    <2> QED BY <2>1, <2>2, <2>3
  <1>13. \A i \in DOMAIN backlog' : backlog'[i] = order'[(k + 1) + i]
    <2> SUFFICES ASSUME NEW i \in DOMAIN backlog' PROVE backlog'[i] = order'[(k + 1) + i]
      OBVIOUS
    <2>1. i \in 1..Len(Tail(backlog)) /\ i + 1 \in DOMAIN backlog /\ (k + 1) + i = k + (i + 1)
      BY <1>1, <1>4, <1>5
    <2> QED BY <1>1, <1>3, <1>5, <2>1
  <1>14. /\ m <= k + 1 /\ k + 1 <= n /\ k + 1 \in 0..Len(order)
         /\ Len(backlog') = n - (k + 1)
    BY <1>1, <1>3, <1>4, <1>5, <1>6
  <1>15. \A p \in 1..a : \E q \in 1..n : order'[q] = channel'[p]
    BY <1>1, <1>2 DEF Follows
  <1>16. \A p \in (a + 1)..at : FALSE
    BY <1>3, <1>4
  <1>17. Follows(m, k + 1, n, a)'
    BY <1>1, <1>3, <1>4, <1>11, <1>12, <1>13, <1>14, <1>15, <1>16 DEF Follows
  <1> QED BY <1>1, <1>14, <1>17 DEF Following

\* An event of the channel is shown, or was already passed in the backlog, or
\* overtook a newer one on the way.
LEMMA RecvSettles ==
    ASSUME BInv, Pushes, Recv,
           NEW m \in 0..Len(order), NEW k \in 0..Len(order), NEW n \in 0..Len(order),
           NEW a \in 0..Len(channel), Follows(m, k, n, a),
           NEW e \in 1..seq, e = channel[at + 1], at + 1 \in DOMAIN channel
    PROVE  Settled(e)'
  <1> USE DEF BInv
  <1>1. BufferPush(e) /\ UNCHANGED <<seq, order, channel, lost>>
    BY DEF Recv, storeVars
  <1>2. /\ e > last => e \in Shown'
        /\ e <= last => lines' = lines
    BY <1>1, BufferPushEffect
  <1>3. /\ Len(order) \in Nat /\ DOMAIN order = 1..Len(order)
        /\ \A i \in DOMAIN order : order[i] \in Nat
        /\ Len(channel) \in Nat /\ DOMAIN channel = 1..Len(channel)
        /\ Len(lines) \in Nat /\ DOMAIN lines = 1..Len(lines)
        /\ \A i \in DOMAIN lines : lines[i] \in Nat
        /\ lines # <<>> => Len(lines) >= 1
    <2>1. seq \in Nat
      BY Domains
    <2> QED BY <2>1, Domains, SMTT(30)
  <1>4. last \in Nat /\ at \in 0..Len(channel)
    <2>1. seq \in Nat /\ last \in 0..seq
      BY Domains DEF TypeOK
    <2> QED BY <2>1 DEF TypeOK
  <1>5. m <= k /\ k = n /\ a <= at
    BY DEF Follows, Recv
  <1>6. \A i \in DOMAIN lines :
           \/ \E q \in (m + 1)..k : lines[i] = order[q]
           \/ /\ \E p \in (a + 1)..at : lines[i] = channel[p]
              /\ \A q \in (m + 1)..k : order[q] < lines[i]
    BY DEF Follows
  <1>7. CASE e > last
    BY <1>2, <1>7 DEF Settled
  <1>8. CASE ~(e > last)
    <2>1. lines' = lines /\ lines # <<>> /\ last = lines[Len(lines)] /\ e <= last
      BY <1>2, <1>4, <1>8 DEF Buffer
    <2>2. Len(lines) \in DOMAIN lines /\ 1 \in DOMAIN lines
      BY <1>3, <2>1
    <2>3. lines[1] <= last
      <3>1. CASE Len(lines) = 1
        BY <1>3, <2>1, <2>2, <3>1
      <3>2. CASE Len(lines) # 1
        <4>1. 1 < Len(lines)
          BY <1>3, <2>2, <3>2
        <4>2. lines[1] < lines[Len(lines)]
          BY <2>2, <4>1 DEF Buffer
        <4> QED BY <1>3, <2>1, <2>2, <4>2, SMTT(30)
      <3> QED BY <3>1, <3>2
    <2>4. CASE e \in Shown
      <3>1. e \in Shown'
        BY <2>1, <2>4 DEF Shown
      <3> QED BY <3>1 DEF Settled
    <2>5. CASE Reordered(e, order) \/ Reordered(e, channel)
      BY <1>1, <2>5 DEF Settled
    <2>6. ASSUME e \notin Shown, ~Reordered(e, order), ~Reordered(e, channel), e >= lines[1]
          PROVE  e \in lost
      <3>1. e < last /\ e > lines[1]
        <4>1. last \in Shown /\ lines[1] \in Shown
          BY <2>1, <2>2 DEF Shown
        <4> QED BY <1>3, <1>4, <2>1, <2>2, <2>6, <4>1, SMTT(30)
      <3>2. ASSUME NEW p \in (a + 1)..at, last = channel[p]
            PROVE  FALSE
        <4>1. p \in DOMAIN channel /\ p < at + 1 /\ channel[p] > e
          BY <1>3, <1>4, <3>1, <3>2
        <4>2. Reordered(e, channel)
          BY <4>1 DEF Reordered
        <4> QED BY <2>6, <4>2
      <3>3. PICK q \in (m + 1)..k : last = order[q]
        BY <1>6, <2>1, <2>2, <3>2
      <3>4. q \in DOMAIN order
        BY <1>3, <3>3
      <3>5. PICK r \in DOMAIN order : order[r] = e
        <4>1. \A p \in DOMAIN channel : \E x \in DOMAIN order : order[x] = channel[p]
          BY DEF Pushes
        <4>2. PICK p \in DOMAIN channel : channel[p] = e
          OBVIOUS
        <4> QED BY <4>1, <4>2
      <3>6. ~(r > q)
        <4>1. SUFFICES ASSUME r > q PROVE FALSE
          OBVIOUS
        <4>2. Reordered(e, order)
          BY <3>1, <3>3, <3>4, <3>5, <4>1 DEF Reordered
        <4> QED BY <2>6, <4>2
      <3>7. CASE r >= m + 1
        <4>1. r \in (m + 1)..k
          BY <1>3, <3>3, <3>4, <3>5, <3>6, <3>7
        <4>2. Settled(order[r])
          BY <4>1 DEF Follows
        <4>3. Settled(e)
          BY <3>5, <4>2
        <4> QED BY <2>1, <2>6, <4>3 DEF Settled
      <3>8. CASE ~(r >= m + 1)
        <4>1. PICK x \in (m + 1)..k : lines[1] = order[x]
          <5>1. order[q] = last /\ order[q] \in Nat
            BY <3>3, <3>4, <1>3
          <5>2. lines[1] \in Nat
            BY <1>3, <2>2
          <5>3. ~(order[q] < lines[1])
            BY <2>3, <5>1, <5>2
          <5> QED BY <1>6, <2>2, <3>3, <5>3
        <4>2. x \in DOMAIN order /\ r < x
          BY <1>3, <1>5, <3>5, <3>8, <4>1
        <4>3. Reordered(e, order)
          BY <3>1, <3>5, <4>1, <4>2 DEF Reordered
        <4> QED BY <2>6, <4>3
      <3> QED BY <3>7, <3>8
    <2> QED BY <1>1, <2>1, <2>4, <2>5, <2>6 DEF Settled
  <1> QED BY <1>7, <1>8

LEMMA RecvFollows ==
    ASSUME BInv, Pushes, Following, Recv
    PROVE  Following'
  <1> USE DEF BInv
  <1>1. /\ page = "live" /\ at < Len(channel) /\ BufferPush(channel[at + 1]) /\ at' = at + 1
        /\ UNCHANGED <<seq, order, channel, page, backlog, lost>>
    BY DEF Recv, storeVars
  <1>2. PICK m \in 0..Len(order), k \in 0..Len(order), n \in 0..Len(order), a \in 0..Len(channel) :
           Follows(m, k, n, a)
    BY <1>1 DEF Following
  <1>3. /\ seq \in Nat /\ last \in Nat /\ at \in Nat
        /\ at + 1 \in DOMAIN channel /\ DOMAIN channel = 1..Len(channel)
        /\ Len(order) \in Nat /\ DOMAIN order = 1..Len(order)
        /\ \A i \in DOMAIN order : order[i] \in 1..seq
        /\ \A p \in DOMAIN channel : channel[p] \in 1..seq
    <2>1. /\ seq \in Nat /\ Len(channel) \in Nat /\ last \in 0..seq /\ at \in 0..Len(channel)
          /\ DOMAIN channel = 1..Len(channel)
      BY Domains DEF TypeOK
    <2>2. /\ Len(order) \in Nat /\ DOMAIN order = 1..Len(order)
          /\ \A i \in DOMAIN order : order[i] \in 1..seq
          /\ \A p \in DOMAIN channel : channel[p] \in 1..seq
      BY Domains
    <2> QED BY <1>1, <2>1, <2>2
  <1>4. /\ m <= k /\ k = n /\ a <= at
        /\ Len(backlog) = n - k
        /\ \A i \in DOMAIN backlog : backlog[i] = order[k + i]
        /\ \A p \in 1..a : \E q \in 1..n : order[q] = channel[p]
    BY <1>1, <1>2 DEF Follows
  <1>5. PICK e \in 1..seq : e = channel[at + 1]
    BY <1>3
  <1>6. BufferPush(e)
    BY <1>1, <1>5
  <1>7. /\ e <= last' /\ Shown' \subseteq Shown \cup {e}
        /\ last' >= last /\ last' \in 0..seq
        /\ e <= last => lines' = lines
    BY <1>6, BufferPushEffect
  <1>8. ASSUME NEW q \in (m + 1)..k
        PROVE  /\ Settled(order[q])' /\ order'[q] <= last'
               /\ order[q] \in 1..seq /\ order[q] <= last
    <2>1. order[q] \in 1..seq
      BY <1>3, <1>4
    <2>2. Settled(order[q]) /\ order[q] <= last
      BY <1>2 DEF Follows
    <2>3. PICK x \in 1..seq : x = order[q]
      BY <2>1
    <2>4. Settled(x) /\ x <= last
      BY <2>2, <2>3
    <2>5. Settled(x)'
      BY <1>1, <1>6, <2>4, SettledStays
    <2>6. x <= last'
      BY <1>3, <1>7, <2>4
    <2> QED BY <1>1, <2>1, <2>2, <2>3, <2>5, <2>6 DEF Settled
  <1>9. ASSUME NEW p \in (a + 1)..(at + 1)
        PROVE  Settled(channel[p])' /\ (channel'[p] <= last' \/ channel'[p] \in lost')
    <2>1. CASE p = at + 1
      <3>1. Settled(e)'
        BY <1>1, <1>2, <1>3, <1>5, RecvSettles
      <3> QED BY <1>1, <1>5, <1>7, <2>1, <3>1 DEF Settled
    <2>2. CASE p # at + 1
      <3>1. p \in (a + 1)..at /\ p \in DOMAIN channel
        BY <1>3, <1>4, <2>2
      <3>2. Settled(channel[p]) /\ (channel[p] <= last \/ channel[p] \in lost)
        BY <1>2, <3>1 DEF Follows
      <3>3. PICK x \in 1..seq : x = channel[p]
        BY <1>3, <3>1
      <3>4. Settled(x) /\ (x <= last \/ x \in lost)
        BY <3>2, <3>3
      <3>5. Settled(x)' /\ (x <= last' \/ x \in lost')
        BY <1>1, <1>6, <3>4, SettledStays
      <3> QED BY <1>1, <3>3, <3>5 DEF Settled
    <2> QED BY <2>1, <2>2
  <1>10. ASSUME NEW i \in DOMAIN lines'
         PROVE  \/ \E q \in (m + 1)..k : lines'[i] = order'[q]
                \/ /\ \E p \in (a + 1)..(at + 1) : lines'[i] = channel'[p]
                   /\ \A q \in (m + 1)..k : order'[q] < lines'[i]
    <2>1. CASE lines'[i] \in Shown
      <3>1. PICK j \in DOMAIN lines : lines'[i] = lines[j]
        BY <2>1 DEF Shown
      <3>2. \/ \E q \in (m + 1)..k : lines[j] = order[q]
            \/ /\ \E p \in (a + 1)..at : lines[j] = channel[p]
               /\ \A q \in (m + 1)..k : order[q] < lines[j]
        BY <1>2 DEF Follows
      <3>3. (a + 1)..at \subseteq (a + 1)..(at + 1)
        BY <1>3
      <3> QED BY <1>1, <3>1, <3>2, <3>3
    <2>2. CASE lines'[i] \notin Shown
      <3>0. lines'[i] \in Shown'
        BY DEF Shown
      <3>1. lines'[i] = e
        BY <1>7, <2>2, <3>0
      <3>2. ~(e <= last)
        BY <1>7, <2>2 DEF Shown
      <3>3. \A q \in (m + 1)..k : order'[q] < e
        BY <1>1, <1>3, <1>8, <3>2
      <3>4. at + 1 \in (a + 1)..(at + 1)
        BY <1>3, <1>4
      <3> QED BY <1>1, <1>5, <3>1, <3>3, <3>4
    <2> QED BY <2>1, <2>2
  <1>11. a <= at' /\ page' # "replay"
    BY <1>1, <1>3, <1>4
  <1>12. Follows(m, k, n, a)'
    BY <1>1, <1>4, <1>8, <1>9, <1>10, <1>11 DEF Follows
  <1> QED BY <1>1, <1>12 DEF Following

\* What the receiver falls behind is accounted for as missed.
LEMMA LaggedFollows ==
    ASSUME BInv, Following, Lagged
    PROVE  Following'
  <1> USE DEF BInv
  <1>1. /\ page = "live" /\ at < Oldest
        /\ lost' = lost \cup {channel[i] : i \in (at + 1)..Oldest} /\ at' = Oldest
        /\ UNCHANGED <<seq, order, channel, page, backlog, last, lines>>
    BY DEF Lagged, storeVars
  <1>2. PICK m \in 0..Len(order), k \in 0..Len(order), n \in 0..Len(order), a \in 0..Len(channel) :
           Follows(m, k, n, a)
    BY <1>1 DEF Following
  <1>3. at \in Nat /\ Oldest \in Nat
    <2>1. Len(channel) \in Nat /\ at \in 0..Len(channel) /\ Depth \in Nat
      BY Domains DEF TypeOK
    <2> QED BY <2>1 DEF Oldest
  <1>4. /\ m <= k /\ k = n /\ a <= at
        /\ Len(backlog) = n - k
        /\ \A i \in DOMAIN backlog : backlog[i] = order[k + i]
        /\ \A p \in 1..a : \E q \in 1..n : order[q] = channel[p]
    BY <1>1, <1>2 DEF Follows
  <1>5. ASSUME NEW x, Settled(x)
        PROVE  Settled(x)'
    BY <1>1, <1>5 DEF Settled, Shown
  <1>6. ASSUME NEW q \in (m + 1)..k
        PROVE  Settled(order[q])' /\ order'[q] <= last'
    <2>1. Settled(order[q]) /\ order[q] <= last
      BY <1>2 DEF Follows
    <2>2. PICK x : x = order[q]
      OBVIOUS
    <2>3. Settled(x)'
      <3>1. Settled(x)
        BY <2>1, <2>2
      <3> QED BY <1>5, <3>1
    <2> QED BY <1>1, <2>1, <2>2, <2>3 DEF Settled
  <1>7. ASSUME NEW p \in (a + 1)..Oldest
        PROVE  Settled(channel[p])' /\ (channel'[p] <= last' \/ channel'[p] \in lost')
    <2>1. CASE p \in (at + 1)..Oldest
      <3>1. channel[p] \in lost'
        BY <1>1, <2>1
      <3> QED BY <1>1, <3>1 DEF Settled
    <2>2. CASE p \notin (at + 1)..Oldest
      <3>1. p \in (a + 1)..at
        BY <1>3, <1>4, <2>2
      <3>2. Settled(channel[p]) /\ (channel[p] <= last \/ channel[p] \in lost)
        BY <1>2, <3>1 DEF Follows
      <3>3. PICK x : x = channel[p]
        OBVIOUS
      <3>4. Settled(x)'
        <4>1. Settled(x)
          BY <3>2, <3>3
        <4> QED BY <1>5, <4>1
      <3> QED BY <1>1, <3>2, <3>3, <3>4 DEF Settled
    <2> QED BY <2>1, <2>2
  <1>8. ASSUME NEW i \in DOMAIN lines'
        PROVE  \/ \E q \in (m + 1)..k : lines'[i] = order'[q]
               \/ /\ \E p \in (a + 1)..Oldest : lines'[i] = channel'[p]
                  /\ \A q \in (m + 1)..k : order'[q] < lines'[i]
    <2>1. \/ \E q \in (m + 1)..k : lines[i] = order[q]
          \/ /\ \E p \in (a + 1)..at : lines[i] = channel[p]
             /\ \A q \in (m + 1)..k : order[q] < lines[i]
      BY <1>1, <1>2 DEF Follows
    <2>2. (a + 1)..at \subseteq (a + 1)..Oldest
      BY <1>1, <1>3
    <2> QED BY <1>1, <2>1, <2>2
  <1>9. a <= at' /\ page' # "replay"
    BY <1>1, <1>3, <1>4
  <1>10. Follows(m, k, n, a)'
    BY <1>1, <1>4, <1>6, <1>7, <1>8, <1>9 DEF Follows
  <1> QED BY <1>1, <1>10 DEF Following

\* A page that opens has passed nothing: its backlog is the ring, which holds
\* the end of what was stored, and all that was broadcast was stored.
LEMMA RecentFollows ==
    ASSUME BInv, Pushes, Following, Recent
    PROVE  Following'
  <1> USE DEF BInv
  <1>1. /\ page = "subscribed" /\ page' = "replay" /\ backlog' = ring
        /\ UNCHANGED <<seq, order, channel, at, last, lines, lost>>
    BY DEF Recent, storeVars
  <1>2. lines = <<>>
    BY <1>1 DEF Following
  <1>3. DOMAIN lines = {}
    BY <1>2, EmptySeq
  <1>4. /\ Len(order) \in Nat /\ DOMAIN order = 1..Len(order)
        /\ Len(ring) \in Nat /\ Len(ring) <= Len(order)
        /\ at \in Nat /\ at \in 0..Len(channel) /\ DOMAIN channel = 1..Len(channel)
    <2>1. /\ Len(order) \in Nat /\ DOMAIN order = 1..Len(order) /\ Len(ring) \in Nat
          /\ Len(channel) \in Nat /\ DOMAIN channel = 1..Len(channel)
      BY Domains
    <2>2. Len(ring) <= Len(order)
      BY DEF Pushes
    <2> QED BY <2>1, <2>2 DEF TypeOK
  <1>5. PICK m \in 0..Len(order), n \in 0..Len(order), a \in 0..Len(channel) :
           m = Len(order) - Len(ring) /\ n = Len(order) /\ a = at
    <2>1. Len(order) - Len(ring) \in 0..Len(order) /\ Len(order) \in 0..Len(order)
      BY <1>4
    <2> QED BY <1>4, <2>1
  <1>6. Len(ring) = n - m /\ m <= n /\ \A i \in DOMAIN ring : ring[i] = order[m + i]
    <2>1. \A i \in DOMAIN ring : ring[i] = order[(Len(order) - Len(ring)) + i]
      BY DEF Pushes
    <2> QED BY <1>4, <1>5, <2>1
  <1>7. \A p \in 1..a : \E q \in 1..n : order[q] = channel[p]
    <2>1. \A p \in DOMAIN channel : \E q \in DOMAIN order : order[q] = channel[p]
      BY DEF Pushes
    <2> QED BY <1>4, <1>5, <2>1
  <1>8. (\A q \in (m + 1)..m : FALSE) /\ \A p \in (a + 1)..at : FALSE
    BY <1>4, <1>5
  <1>9. Follows(m, m, n, a)'
    BY <1>1, <1>3, <1>5, <1>6, <1>7, <1>8 DEF Follows
  <1> QED BY <1>1, <1>9 DEF Following

\* The page's other steps.
LEMMA PageFollows ==
    ASSUME BInv, Pushes, Following,
           Subscribe \/ Recent \/ Replay \/ Follow \/ Recv \/ Lagged \/ Shut
    PROVE  Following'
  <1>1. CASE Subscribe
    BY <1>1 DEF Subscribe, Following
  <1>2. CASE Follow
    <2>1. /\ page = "replay" /\ page' = "live" /\ backlog = <<>>
          /\ UNCHANGED <<order, channel, at, backlog, last, lines, lost>>
      BY <1>2 DEF Follow, storeVars
    <2>2. PICK m \in 0..Len(order), k \in 0..Len(order), n \in 0..Len(order), a \in 0..Len(channel) :
             Follows(m, k, n, a)
      BY <2>1 DEF Following
    <2>3. k = n
      BY <2>1, <2>2, EmptySeq DEF Follows
    <2>4. Follows(m, k, n, a)'
      BY <2>1, <2>2, <2>3 DEF Follows, Settled, Shown
    <2> QED BY <2>1, <2>4 DEF Following
  <1>3. CASE Shut
    BY <1>3 DEF Shut, Following
  <1> QED BY <1>1, <1>2, <1>3, RecentFollows, ReplayFollows, RecvFollows, LaggedFollows

\* A page that received everything has accounted for every event.
LEMMA CaughtUpSettled ==
    ASSUME IInv PROVE SkipsOnlyReordered
  <1> USE DEF IInv, BInv
  <1> SUFFICES ASSUME CaughtUp, lines # <<>>, NEW e \in Skipped
               PROVE  Reordered(e, order) \/ Reordered(e, channel)
    BY DEF SkipsOnlyReordered
  <1>1. PICK m \in 0..Len(order), k \in 0..Len(order), n \in 0..Len(order), a \in 0..Len(channel) :
           Follows(m, k, n, a)
    BY DEF CaughtUp, Following
  <1>2. /\ seq \in Nat /\ Len(channel) \in Nat /\ DOMAIN channel = 1..Len(channel)
        /\ Len(order) \in Nat /\ DOMAIN order = 1..Len(order)
        /\ 1 \in DOMAIN lines /\ lines[1] \in 1..seq
        /\ at = Len(channel)
    <2>1. Len(lines) >= 1 /\ Len(lines) \in Nat /\ DOMAIN lines = 1..Len(lines)
      BY Domains
    <2>2. 1 \in DOMAIN lines
      BY <2>1
    <2>3. lines[1] \in 1..seq
      BY <2>2, Domains
    <2> QED BY <2>2, <2>3, Domains DEF CaughtUp
  <1>3. e \in 1..seq /\ e >= lines[1] /\ e \notin Shown /\ e \notin lost
    <2>1. e \in lines[1]..seq /\ e \notin Shown /\ e \notin lost
      BY DEF Skipped, Shown
    <2> QED BY <1>2, <2>1
  <1>4. e > lines[1]
    <2>1. lines[1] \in Shown
      BY <1>2 DEF Shown
    <2> QED BY <1>2, <1>3, <2>1
  <1>5. CASE Settled(e)
    BY <1>3, <1>5 DEF Settled
  <1>6. PICK p \in DOMAIN channel : channel[p] = e
    <2>1. e # 0 /\ \A l \in Logger : stamped[l] = 0 /\ stored[l] = 0
      BY <1>3 DEF CaughtUp
    <2>2. \/ \E l \in Logger : stamped[l] = e \/ stored[l] = e
          \/ \E p \in DOMAIN channel : channel[p] = e
      BY <1>3 DEF Pushes
    <2> QED BY <2>1, <2>2
  <1>7. CASE p > a
    <2>1. p \in (a + 1)..at
      BY <1>2, <1>7
    <2>2. Settled(channel[p])
      BY <1>1, <2>1 DEF Follows
    <2> QED BY <1>5, <1>6, <2>2
  <1>8. CASE ~(p > a)
    <2>1. p \in 1..a
      BY <1>2, <1>8
    <2>2. PICK q \in 1..n : order[q] = e
      BY <1>1, <1>6, <2>1 DEF Follows
    <2>3. k = n /\ q \in DOMAIN order
      BY <1>1, <1>2 DEF Follows, CaughtUp
    <2>4. CASE q >= m + 1
      <3>1. q \in (m + 1)..k
        BY <1>2, <2>3, <2>4
      <3>2. Settled(order[q])
        BY <1>1, <3>1 DEF Follows
      <3> QED BY <1>5, <2>2, <3>2
    <2>5. CASE ~(q >= m + 1)
      <3>1. \/ \E x \in (m + 1)..k : lines[1] = order[x]
            \/ \E x \in (a + 1)..at : lines[1] = channel[x]
        BY <1>1, <1>2 DEF Follows
      <3>2. ASSUME NEW x \in (m + 1)..k, lines[1] = order[x]
            PROVE  Reordered(e, order)
        <4>1. x \in DOMAIN order /\ q < x
          BY <1>2, <2>3, <2>5
        <4> QED BY <1>4, <2>2, <2>3, <3>2, <4>1 DEF Reordered
      <3>3. ASSUME NEW x \in (a + 1)..at, lines[1] = channel[x]
            PROVE  Reordered(e, channel)
        <4>1. x \in DOMAIN channel /\ p < x
          BY <1>2, <2>1
        <4> QED BY <1>4, <1>6, <3>3, <4>1 DEF Reordered
      <3> QED BY <3>1, <3>2, <3>3
    <2> QED BY <2>4, <2>5
  <1> QED BY <1>7, <1>8

-----------------------------------------------------------------------------
\* Subscribing before the replay leaves no gap: whatever the depth of the
\* channel and the capacities, a page that caught up lacks an event it was not
\* told it missed only if two pushes overlapped.
THEOREM SkipsOnlyReorderedHolds == Spec => []SkipsOnlyReordered
  <1>1. Init => IInv
    <2> SUFFICES ASSUME Init PROVE IInv
      OBVIOUS
    <2>1. BInv
      BY InitType
    <2>2. DOMAIN <<>> = {} /\ Len(<<>>) = 0
      BY EmptySeq
    <2>3. Pushes
      BY <2>2 DEF Init, Pushes
    <2>4. Following
      BY DEF Init, Following
    <2> QED BY <2>1, <2>3, <2>4 DEF IInv
  <1>2. IInv /\ [Next]_vars => IInv'
    <2> SUFFICES ASSUME IInv, [Next]_vars PROVE IInv'
      OBVIOUS
    <2>1. BInv /\ Pushes /\ Following
      BY DEF IInv
    <2>2. ASSUME NEW l \in Logger, Stamp(l) \/ Store(l) \/ Broadcast(l)
          PROVE  IInv'
      <3>1. BInv' /\ Pushes' /\ Following'
        BY <2>1, <2>2, StoreType, StorePushes, StoreFollows
      <3> QED BY <3>1 DEF IInv
    <2>3. CASE Subscribe \/ Recent \/ Replay \/ Follow \/ Recv \/ Lagged \/ Shut
      <3>1. BInv' /\ Following'
        BY <2>1, <2>3, PageType, PageFollows
      <3>2. UNCHANGED storeVars
        BY <2>3 DEF Subscribe, Recent, Replay, Follow, Recv, Lagged, Shut, storeVars
      <3>3. Pushes'
        BY <2>1, <3>2 DEF Pushes, storeVars
      <3> QED BY <3>1, <3>3 DEF IInv
    <2>4. CASE UNCHANGED vars
      <3>1. BInv'
        BY <2>1, <2>4 DEF vars, storeVars, pageVars, BInv, TypeOK, Buffer
      <3>2. Pushes'
        BY <2>1, <2>4 DEF vars, storeVars, Pushes
      <3>3. Following'
        BY <2>1, <2>4 DEF vars, storeVars, pageVars, Following, Follows, Settled, Shown
      <3> QED BY <3>1, <3>2, <3>3 DEF IInv
    <2> QED BY <2>2, <2>3, <2>4 DEF Next
  <1> QED BY <1>1, <1>2, CaughtUpSettled, PTL DEF Spec

=============================================================================
