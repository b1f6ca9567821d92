------------------------- MODULE UpstreamPoolProofs -------------------------
(***************************************************************************)
(* What UpstreamPool checks on small pools, proved for every pool: any     *)
(* number of sockets and connections, any watermark, any delays.           *)
(***************************************************************************)
EXTENDS UpstreamPool, FiniteSetTheorems, TLAPS

\* A socket is in the task's hands where the code has one in `stream`.
FreshDialed == pc \in {"dialed", "put"} => fresh \in Sock

\* The task goes on to dial only after it saw the pool short, and from then on
\* nobody but the task itself adds a socket.
RoomToDial == pc \in {"dial", "pause"} => Cardinality(idle) < MinIdle

\* Every unpaced dial is parked, under way, or has left for another reason; a
\* task that has ended leaves at most its last dial unaccounted for.
DialsAccounted == pc # "ended" => unpaced <= Cardinality(idle) + InFlight

\* Who holds an Arc: the task exactly inside its two upgraded steps, and every
\* connection that is not away.  When nobody does, Drop has run.
ArcsAccounted ==
    /\ Task \in holders <=> pc \in {"refresh", "put"}
    /\ \A c \in Conn : conn[c] # "away" => c \in holders
    /\ holders = {} /\ pc # "unborn" => aborted

\* A dial begun on a dropped pool is the task's last step but its own abort.
OrphanIsLast ==
    orphanDials = 0 \/ (orphanDials = 1 /\ holders = {} /\ pc \in {"dialing", "ended"})

TypeInv == TypeOK /\ FreshDialed

-----------------------------------------------------------------------------
\* Sets of sockets are finite, and their cardinalities behave.
LEMMA SockCardinality ==
    /\ \A S \in SUBSET Sock : IsFiniteSet(S) /\ Cardinality(S) \in Nat
    /\ \A S \in SUBSET Sock : \A T \in SUBSET S : Cardinality(T) <= Cardinality(S)
    /\ \A S \in SUBSET Sock : \A s \in Sock \ S : Cardinality(S \cup {s}) = Cardinality(S) + 1
    /\ Cardinality({}) = 0
<1>1. ASSUME NEW S \in SUBSET Sock
      PROVE  IsFiniteSet(S) /\ Cardinality(S) \in Nat
  BY FS_Subset, FS_CardinalityType, PoolAssumption
<1>2. ASSUME NEW S \in SUBSET Sock, NEW T \in SUBSET S
      PROVE  Cardinality(T) <= Cardinality(S)
  BY <1>1, FS_Subset
<1>3. ASSUME NEW S \in SUBSET Sock, NEW s \in Sock \ S
      PROVE  Cardinality(S \cup {s}) = Cardinality(S) + 1
  BY <1>1, FS_AddElement
<1>4. Cardinality({}) = 0
  BY FS_EmptySet
<1>5. QED
  BY <1>1, <1>2, <1>3, <1>4

\* What giving an Arc back may do to the pool: nothing gains a holder, and the
\* list keeps `parked` or is emptied with the pool.
LEMMA ReleaseEffect ==
    ASSUME NEW h, NEW parked, Release(h, parked)
    PROVE  /\ holders' = holders \ {h}
           /\ \/ holders' # {} /\ idle' = parked /\ aborted' = aborted
              \/ holders' = {} /\ idle' = {} /\ aborted' = (pc # "unborn")
           /\ ClosedWith(h, parked) = IF holders' = {} THEN Cardinality(parked) ELSE 0
BY DEF Release, ClosedWith

\* The same, as far as types go.
LEMMA ReleaseTypes ==
    ASSUME NEW h, NEW parked, Release(h, parked), aborted \in BOOLEAN
    PROVE  holders' \subseteq holders /\ idle' \subseteq parked /\ aborted' \in BOOLEAN
<1>1. aborted' \in BOOLEAN
  <2>1. CASE holders \subseteq {h}
    BY <2>1, Zenon DEF Release
  <2>2. CASE ~(holders \subseteq {h})
    BY <2>2, Zenon DEF Release
  <2>3. QED
    BY <2>1, <2>2
<1>2. holders' \subseteq holders /\ idle' \subseteq parked
  BY ReleaseEffect
<1>3. QED
  BY <1>1, <1>2

-----------------------------------------------------------------------------
\* Types: in particular Backoff's delay stays between FIRST and MAX.
LEMMA TypeStep == TypeInv /\ [Next]_vars => TypeInv'
<1> SUFFICES ASSUME TypeInv, [Next]_vars PROVE TypeInv'
  OBVIOUS
<1> USE DEF TypeInv, TypeOK, FreshDialed
<1>a. /\ Cardinality(idle) \in Nat
      /\ \A S \in SUBSET Sock : Cardinality(S) \in Nat
  BY SockCardinality
<1>b. \A h, parked : parked \subseteq Sock => ClosedWith(h, parked) \in Int
  BY <1>a DEF ClosedWith
<1>c. NextDelay \in FirstDelay..MaxDelay
  BY PoolAssumption DEF NextDelay
<1>d. Older \in [Sock -> 0..IdleTimeout]
  BY PoolAssumption DEF Older
<1>1. ASSUME NEW c \in Conn, Accept(c) PROVE TypeInv'
  BY <1>1 DEF Accept, taskVars, history, ConnState
<1>2. ASSUME NEW c \in Conn, Close(c) PROVE TypeInv'
  <2>1. holders' \subseteq holders /\ idle' \subseteq idle /\ aborted' \in BOOLEAN
    BY <1>2, ReleaseTypes DEF Close
  <2>2. QED
    BY <1>2, <1>b, <2>1 DEF Close, taskVars, ConnState
<1>3. ASSUME NEW c \in Conn, StartPrewarm(c) PROVE TypeInv'
  BY <1>3 DEF StartPrewarm, poolVars, history, ConnState, TaskState
<1>4. ASSUME NEW c \in Conn, TakeIdle(c) PROVE TypeInv'
  <2>1. idle' \subseteq idle /\ got' \in [Conn -> Sock \cup {NoSock}]
    BY <1>4 DEF TakeIdle, Below, Youngest
  <2>2. unpaced' \in Int
    BY <1>4, <1>a, <2>1 DEF TakeIdle
  <2>3. QED
    BY <1>4, <2>1, <2>2 DEF TakeIdle, taskVars, ConnState
<1>5. ASSUME NEW c \in Conn, Notify(c) PROVE TypeInv'
  BY <1>5 DEF Notify, poolVars, taskVars, history, ConnState
<1>6. ASSUME NEW c \in Conn, Finish(c) PROVE TypeInv'
  BY <1>6 DEF Finish, poolVars, taskVars, history, ConnState
<1>7. CASE Replace
  <2>1. holders' \subseteq holders /\ idle' \subseteq idle /\ aborted' \in BOOLEAN
    BY <1>7, ReleaseTypes DEF Replace
  <2>2. QED
    BY <1>7, <1>b, <2>1 DEF Replace, connVars, taskVars
<1>8. CASE Upgrade
  BY <1>8 DEF Upgrade, connVars, history, TaskState
<1>9. CASE Refresh
  <2> DEFINE young == {s \in idle : age[s] < IdleTimeout}
  <2>1. /\ idle' \subseteq Sock /\ holders' \subseteq holders /\ aborted' \in BOOLEAN
        /\ Cardinality(idle) - Cardinality(young) \in Int
        /\ ClosedWith(Task, young \ disturbed) \in Int
    BY <1>9, <1>a, <1>b, ReleaseTypes DEF Refresh
  <2>2. pc' \in {"full", "pause", "dial"} /\ next' \in FirstDelay..MaxDelay /\ unpaced' \in Int
    BY <1>9, <1>c, <2>1, PoolAssumption DEF Refresh
  <2>3. QED
    BY <1>9, <2>1, <2>2 DEF Refresh, connVars, TaskState, AwaitPoint
<1>10. CASE WakeUp
  BY <1>10 DEF WakeUp, poolVars, connVars, history, TaskState
<1>11. CASE PauseOver
  BY <1>11 DEF PauseOver, poolVars, connVars, history, TaskState
<1>12. CASE StartDial
  BY <1>12 DEF StartDial, poolVars, connVars, TaskState, AwaitPoint, CountDial, DialCountCap
<1>13. CASE RetryOver
  BY <1>13 DEF RetryOver, poolVars, connVars, history, TaskState
<1>14. CASE UpgradeDialed
  BY <1>14 DEF UpgradeDialed, connVars, history, TaskState
<1>15. CASE Put
  <2> DEFINE parked == IF Cardinality(idle) < MinIdle THEN idle \cup {fresh} ELSE idle
  <2>1. parked \subseteq Sock /\ ClosedWith(Task, parked) \in Int
    BY <1>15, <1>b DEF Put
  <2>2. age' \in [Sock -> 0..IdleTimeout]
    BY <1>15, PoolAssumption DEF Put
  <2>3. holders' \subseteq holders /\ idle' \subseteq parked /\ aborted' \in BOOLEAN
    BY <1>15, ReleaseTypes DEF Put
  <2>4. QED
    BY <1>15, <2>1, <2>2, <2>3 DEF Put, connVars, TaskState
<1>16. CASE Abort
  BY <1>16 DEF Abort, poolVars, connVars, history, TaskState
<1>17. CASE DialOk
  BY <1>17, <1>d DEF DialOk, Free, connVars, history, TaskState
<1>18. CASE DialErr
  BY <1>18, <1>c DEF DialErr, poolVars, connVars, TaskState, AwaitPoint
<1>19. ASSUME NEW s \in Sock, GatewayActs(s) PROVE TypeInv'
  BY <1>19 DEF GatewayActs, connVars, taskVars, history
<1>20. CASE Tick
  BY <1>20, <1>d DEF Tick, connVars, taskVars, history
<1>21. CASE UNCHANGED vars
  BY <1>21 DEF vars, poolVars, connVars, taskVars, history
<1>22. QED
  BY <1>1, <1>2, <1>3, <1>4, <1>5, <1>6, <1>7, <1>8, <1>9, <1>10, <1>11, <1>12, <1>13,
     <1>14, <1>15, <1>16, <1>17, <1>18, <1>19, <1>20, <1>21
     DEF Next, Client, TaskStep

LEMMA TypeInit == Init => TypeInv
<1> SUFFICES ASSUME Init PROVE TypeInv
  OBVIOUS
<1> USE DEF Init
<1>1. holders \subseteq Conn \cup {Handle, Task} /\ idle \subseteq Sock /\ disturbed \subseteq Sock
  OBVIOUS
<1>2. age \in [Sock -> 0..IdleTimeout] /\ next \in FirstDelay..MaxDelay
  BY PoolAssumption
<1>3. permit \in BOOLEAN /\ aborted \in BOOLEAN
  OBVIOUS
<1>4. /\ conn \in [Conn -> ConnState] /\ got \in [Conn -> Sock \cup {NoSock}]
      /\ pc \in TaskState /\ fresh \in Sock \cup {NoSock} /\ FreshDialed
  BY DEF ConnState, TaskState, FreshDialed
<1>5. unpaced \in Int /\ orphanDials \in 0..DialCountCap
  BY DEF DialCountCap
<1>6. QED
  BY <1>1, <1>2, <1>3, <1>4, <1>5 DEF TypeInv, TypeOK

\* The specification keeps its types.
THEOREM TypeCorrect == Spec => []TypeOK
<1>1. QED
  BY TypeInit, TypeStep, PTL DEF Spec, TypeInv

-----------------------------------------------------------------------------
WatermarkInv == Watermark /\ RoomToDial

\* How a step can change the list: only put adds, and only one socket.
LEMMA IdleStep ==
    ASSUME TypeInv, [Next]_vars, ~Put
    PROVE  idle' \subseteq idle /\ Cardinality(idle') <= Cardinality(idle)
<1>1. idle' \subseteq idle
  <2> USE DEF poolVars
  <2>1. ASSUME NEW c \in Conn, Client(c) PROVE idle' \subseteq idle
    BY <2>1, ReleaseEffect
       DEF Client, Accept, Close, StartPrewarm, TakeIdle, Below, Notify, Finish
  <2>2. CASE Replace
    BY <2>2, ReleaseEffect DEF Replace
  <2>3. CASE Refresh
    BY <2>3, ReleaseEffect DEF Refresh
  <2>4. CASE TaskStep /\ ~Refresh
    BY <2>4 DEF TaskStep, Upgrade, WakeUp, PauseOver, StartDial, RetryOver, UpgradeDialed, Abort
  <2>5. CASE DialOk \/ DialErr \/ Tick \/ \E s \in Sock : GatewayActs(s)
    BY <2>5 DEF DialOk, DialErr, Tick, GatewayActs
  <2>6. CASE UNCHANGED vars
    BY <2>6 DEF vars
  <2>7. QED
    BY <2>1, <2>2, <2>3, <2>4, <2>5, <2>6 DEF Next
<1>2. QED
  BY <1>1, SockCardinality DEF TypeInv, TypeOK

\* Where the task can go in one step.
LEMMA TaskMoves ==
    ASSUME [Next]_vars
    PROVE  \/ pc' = pc
           \/ pc = "unborn" /\ pc' = "top"
           \/ Upgrade \/ Refresh \/ WakeUp \/ PauseOver \/ StartDial \/ RetryOver
           \/ UpgradeDialed \/ Put \/ Abort \/ DialOk \/ DialErr
BY DEF Next, Client, TaskStep, Accept, Close, StartPrewarm, TakeIdle, Notify, Finish, Replace,
       GatewayActs, Tick, taskVars, vars

LEMMA WatermarkStep == TypeInv /\ WatermarkInv /\ [Next]_vars => WatermarkInv'
<1> SUFFICES ASSUME TypeInv, WatermarkInv, [Next]_vars PROVE WatermarkInv'
  OBVIOUS
<1> USE DEF WatermarkInv, Watermark, RoomToDial, InFlight
<1>a. Cardinality(idle) \in Nat /\ Cardinality(idle') \in Nat /\ MinIdle \in Nat
  BY TypeStep, SockCardinality, PoolAssumption DEF TypeInv, TypeOK
<1>1. CASE Put
  <2>1. fresh \in Sock /\ Cardinality(idle) + 1 <= MinIdle
    BY <1>1, <1>a DEF Put, TypeInv, FreshDialed
  <2>2. Cardinality(idle \cup {fresh}) <= Cardinality(idle) + 1
    <3>1. CASE fresh \in idle
      <4>1. idle \cup {fresh} = idle
        BY <3>1
      <4>2. QED
        BY <4>1, <1>a
    <3>2. CASE fresh \notin idle
      <4>1. Cardinality(idle \cup {fresh}) = Cardinality(idle) + 1
        BY <2>1, <3>2, SockCardinality DEF TypeInv, TypeOK
      <4>2. QED
        BY <4>1, <1>a
    <3>3. QED
      BY <3>1, <3>2
  <2>3. idle' = idle \cup {fresh} \/ idle' = {}
    BY <1>1, <1>a, <2>1, ReleaseEffect DEF Put
  <2>4. Cardinality(idle') <= MinIdle
    BY <1>a, <2>1, <2>2, <2>3, SockCardinality DEF TypeInv, TypeOK
  <2>5. QED
    BY <1>1, <1>a, <2>4 DEF Put
<1>2. CASE ~Put
  <2>1. Cardinality(idle') <= Cardinality(idle)
    BY <1>2, IdleStep
  <2>2. CASE Refresh
    <3> DEFINE kept == {s \in idle : age[s] < IdleTimeout} \ disturbed
    <3>1. idle' = kept \/ idle' = {}
      BY <2>2, ReleaseEffect DEF Refresh
    <3>2. pc' \in {"full", "pause", "dial"} /\ (pc' # "full" => Cardinality(kept) < MinIdle)
      <4>1. Cardinality(kept) \in Nat
        BY SockCardinality DEF TypeInv, TypeOK
      <4>2. QED
        BY <2>2, <4>1, <1>a DEF Refresh, IsFull
    <3>3. pc' # "full" => Cardinality(idle') < MinIdle
      <4>1. Cardinality({}) < MinIdle
        BY SockCardinality, PoolAssumption
      <4>2. QED
        BY <3>1, <3>2, <4>1
    <3>4. QED
      BY <2>1, <2>2, <3>2, <3>3, <1>a DEF Refresh
  <2>3. CASE pc' = pc \/ (pc = "unborn" /\ pc' = "top")
    BY <1>a, <2>1, <2>3
  <2>4. CASE Upgrade \/ WakeUp \/ PauseOver \/ RetryOver
    BY <1>a, <2>1, <2>4 DEF Upgrade, WakeUp, PauseOver, RetryOver
  <2>5. CASE StartDial
    BY <1>a, <2>1, <2>5 DEF StartDial
  <2>6. CASE UpgradeDialed \/ Abort \/ DialOk \/ DialErr
    BY <1>a, <2>1, <2>6 DEF UpgradeDialed, Abort, DialOk, DialErr
  <2>7. QED
    BY <1>2, <2>2, <2>3, <2>4, <2>5, <2>6, TaskMoves
<1>3. QED
  BY <1>1, <1>2

\* Watermark, for every pool: parked sockets and the dial under way never exceed
\* min_idle, whatever takes, gateway closes, expiry and replacements do.
THEOREM WatermarkHolds == Spec => []Watermark
<1>1. Init => WatermarkInv
  BY PoolAssumption, SockCardinality DEF Init, WatermarkInv, Watermark, RoomToDial, InFlight
<1>2. QED
  BY <1>1, TypeInit, TypeStep, WatermarkStep, PTL DEF Spec, WatermarkInv

-----------------------------------------------------------------------------
\* The three places a socket can be are kept apart by every step.
LEMMA SoleOwnerStep == TypeInv /\ SoleOwner /\ [Next]_vars => SoleOwner'
<1> SUFFICES ASSUME TypeInv, SoleOwner, [Next]_vars PROVE SoleOwner'
  OBVIOUS
<1> USE DEF SoleOwner, TypeInv, TypeOK
<1>1. ASSUME NEW c \in Conn, TakeIdle(c) PROVE SoleOwner'
  <2>1. fresh' = fresh /\ idle' \subseteq idle
    BY <1>1 DEF TakeIdle, taskVars, Below
  <2>2. CASE got' = [got EXCEPT ![c] = NoSock]
    BY <2>1, <2>2
  <2>3. ASSUME NEW s \in idle, got' = [got EXCEPT ![c] = s], s \notin idle' PROVE SoleOwner'
    BY <2>1, <2>3
  <2>4. QED
    BY <1>1, <2>2, <2>3 DEF TakeIdle, Youngest, Below
<1>2. ASSUME NEW c \in Conn, Close(c) \/ Finish(c) PROVE SoleOwner'
  <2>1. idle' \subseteq idle /\ fresh' = fresh /\ got' = [got EXCEPT ![c] = NoSock]
    BY <1>2, ReleaseEffect DEF Close, Finish, poolVars, taskVars
  <2>2. QED
    BY <2>1
<1>3. CASE DialOk
  BY <1>3 DEF DialOk, Free, connVars
<1>4. CASE Put
  <2>1. idle' \subseteq idle \cup {fresh} /\ fresh' = NoSock /\ got' = got
    BY <1>4, ReleaseEffect DEF Put, connVars
  <2>2. idle' \subseteq Sock
    BY TypeStep
  <2>3. QED
    BY <2>1, <2>2, PoolAssumption
<1>5. CASE UpgradeDialed
  BY <1>5, PoolAssumption DEF UpgradeDialed, connVars
<1>6. CASE Refresh \/ Replace
  <2>1. idle' \subseteq idle /\ fresh' = fresh /\ got' = got
    BY <1>6, ReleaseEffect DEF Refresh, Replace, connVars, taskVars
  <2>2. QED
    BY <2>1
<1>7. CASE UNCHANGED <<idle, fresh, got>>
  BY <1>7
<1>8. QED
  <2>1. ASSUME NEW c \in Conn, Accept(c) \/ StartPrewarm(c) \/ Notify(c)
        PROVE  UNCHANGED <<idle, fresh, got>>
    BY <2>1 DEF Accept, StartPrewarm, Notify, poolVars, taskVars
  <2>2. ASSUME \/ Upgrade \/ WakeUp \/ PauseOver \/ StartDial \/ RetryOver \/ Abort \/ DialErr
               \/ Tick \/ UNCHANGED vars
               \/ \E s \in Sock : GatewayActs(s)
        PROVE  UNCHANGED <<idle, fresh, got>>
    BY <2>2 DEF Upgrade, WakeUp, PauseOver, StartDial, RetryOver, Abort, DialErr, Tick, vars,
                GatewayActs, poolVars, connVars, taskVars
  <2>3. QED
    BY <1>1, <1>2, <1>3, <1>4, <1>5, <1>6, <1>7, <2>1, <2>2 DEF Next, Client, TaskStep

\* SoleOwner, for every pool: no socket is handed to two CONNECTs, and none that
\* a CONNECT was given is parked again.
THEOREM SoleOwnerHolds == Spec => []SoleOwner
<1>1. Init => SoleOwner
  BY DEF Init, SoleOwner
<1>2. QED
  BY <1>1, TypeInit, TypeStep, SoleOwnerStep, PTL DEF Spec

-----------------------------------------------------------------------------
LEMMA WakeupStep == TypeInv /\ NoLostWakeup /\ [Next]_vars => NoLostWakeup'
<1> SUFFICES ASSUME TypeInv, NoLostWakeup, [Next]_vars PROVE NoLostWakeup'
  OBVIOUS
<1> USE DEF NoLostWakeup
<1>1. ASSUME NEW c \in Conn, TakeIdle(c) PROVE NoLostWakeup'
  BY <1>1 DEF TakeIdle, TypeInv, TypeOK
<1>2. ASSUME NEW c \in Conn, Notify(c) PROVE NoLostWakeup'
  BY <1>2 DEF Notify
<1>3. ASSUME NEW c \in Conn, Close(c) PROVE NoLostWakeup'
  <2>1. pc' = pc /\ permit' = permit /\ (holders' # {} => idle' = idle /\ holders # {})
    BY <1>3, ReleaseEffect DEF Close, taskVars
  <2>2. \A d \in Conn : conn[d] = "popped" => conn'[d] = "popped"
    BY <1>3 DEF Close, TypeInv, TypeOK
  <2>3. QED
    BY <2>1, <2>2
<1>4. CASE Replace
  <2>1. pc' = pc /\ permit' = permit /\ (holders' # {} => idle' = idle /\ holders # {})
    BY <1>4, ReleaseEffect DEF Replace, taskVars
  <2>2. QED
    BY <1>4, <2>1 DEF Replace, connVars
<1>5. CASE Refresh
  <2> DEFINE kept == {s \in idle : age[s] < IdleTimeout} \ disturbed
  <2>1. holders' # {} => idle' = kept
    BY <1>5, ReleaseEffect DEF Refresh
  <2>2. pc' = "full" => ~(Cardinality(kept) < MinIdle)
    <3>1. Cardinality(kept) \in Nat
      BY SockCardinality DEF TypeInv, TypeOK
    <3>2. QED
      BY <1>5, <3>1, PoolAssumption DEF Refresh, IsFull
  <2>3. QED
    BY <2>1, <2>2
<1>6. ASSUME NEW c \in Conn, Accept(c) \/ StartPrewarm(c) \/ Finish(c) PROVE NoLostWakeup'
  <2>1. /\ pc' = "full" => pc = "full"
        /\ permit' = permit /\ idle' = idle
        /\ holders # {} \/ holders' = {}
    BY <1>6 DEF Accept, StartPrewarm, Finish, poolVars, taskVars
  <2>2. \A d \in Conn : conn[d] = "popped" => conn'[d] = "popped"
    BY <1>6 DEF Accept, StartPrewarm, Finish, TypeInv, TypeOK
  <2>3. QED
    BY <2>1, <2>2
<1>7. CASE TaskStep /\ ~Refresh
  BY <1>7 DEF TaskStep, Upgrade, WakeUp, PauseOver, StartDial, RetryOver, UpgradeDialed, Put, Abort
<1>8. CASE DialOk \/ DialErr
  BY <1>8 DEF DialOk, DialErr
<1>9. CASE Tick \/ (\E s \in Sock : GatewayActs(s)) \/ UNCHANGED vars
  BY <1>9 DEF Tick, GatewayActs, vars, poolVars, connVars, taskVars
<1>10. QED
  BY <1>1, <1>2, <1>3, <1>4, <1>5, <1>6, <1>7, <1>8, <1>9 DEF Next, Client

\* NoLostWakeup, for every pool and any number of concurrent takes.
THEOREM NoLostWakeupHolds == Spec => []NoLostWakeup
<1>1. Init => NoLostWakeup
  BY DEF Init, NoLostWakeup
<1>2. QED
  BY <1>1, TypeInit, TypeStep, WakeupStep, PTL DEF Spec

-----------------------------------------------------------------------------
\* NoGoodSocketClosed, for every pool.
THEOREM NoGoodSocketClosedHolds == Spec => NoGoodSocketClosed
<1> USE DEF Spared
<1>1. ASSUME TypeInv, [Next]_vars PROVE [Spared]_vars
  <2>1. ASSUME NEW c \in Conn, TakeIdle(c) PROVE Spared
    <3> USE DEF TypeInv, TypeOK
    <3> DEFINE usable == {s \in idle : Usable(s)}
    <3>1. CASE usable = {}
      BY <3>1
    <3>2. ASSUME NEW s \in Youngest(usable), got' = [got EXCEPT ![c] = s], idle' = Below(s)
          PROVE  Spared
      <4>1. ASSUME NEW t \in idle \ idle', Usable(t), t # s PROVE FALSE
        <5>1. s \in idle /\ age[s] <= age[t] /\ ~(age[t] >= age[s])
          BY <3>2, <4>1 DEF Youngest, Below
        <5>2. age[s] \in 0..IdleTimeout /\ age[t] \in 0..IdleTimeout
          BY <1>1, <4>1, <5>1
        <5>3. QED
          BY <5>1, <5>2, PoolAssumption
      <4>2. got'[c] = s
        BY <1>1, <3>2
      <4>3. QED
        BY <4>1, <4>2
    <3>3. QED
      BY <2>1, <3>1, <3>2 DEF TakeIdle
  <2>2. CASE Refresh
    <3>1. \/ idle' = {s \in idle : age[s] < IdleTimeout} \ disturbed
          \/ holders' = {}
      BY <2>2, ReleaseEffect DEF Refresh
    <3>2. QED
      BY <3>1 DEF Usable
  <2>3. CASE Put
    <3>1. idle \subseteq idle' \/ holders' = {}
      BY <2>3, ReleaseEffect DEF Put
    <3>2. QED
      BY <3>1
  <2>4. ASSUME NEW c \in Conn, Close(c) PROVE Spared
    BY <2>4, ReleaseEffect DEF Close
  <2>5. CASE Replace
    BY <2>5, ReleaseEffect DEF Replace
  <2>6. CASE idle' = idle
    BY <2>6
  <2>7. CASE UNCHANGED vars
    BY <2>7 DEF vars, poolVars
  <2>8. ASSUME NEW c \in Conn, Accept(c) \/ StartPrewarm(c) \/ Notify(c) \/ Finish(c)
       PROVE  idle' = idle
    BY <2>8 DEF Accept, StartPrewarm, Notify, Finish, poolVars
  <2>9. ASSUME \/ Upgrade \/ WakeUp \/ PauseOver \/ StartDial \/ RetryOver \/ UpgradeDialed
               \/ Abort \/ DialOk \/ DialErr \/ Tick
               \/ \E s \in Sock : GatewayActs(s)
        PROVE  idle' = idle
    BY <2>9 DEF Upgrade, WakeUp, PauseOver, StartDial, RetryOver, UpgradeDialed, Abort, DialOk,
                DialErr, Tick, GatewayActs, poolVars
  <2>10. QED
    BY <1>1, <2>1, <2>2, <2>3, <2>4, <2>5, <2>6, <2>7, <2>8, <2>9 DEF Next, Client, TaskStep
<1>2. QED
  BY <1>1, TypeInit, TypeStep, PTL DEF Spec, NoGoodSocketClosed

-----------------------------------------------------------------------------
PacedInv == DialsAccounted /\ PacedDials

\* The dials since the last pause stay accounted for; Watermark bounds them.
LEMMA PacedStep ==
    TypeInv /\ WatermarkInv /\ SoleOwner /\ PacedInv /\ [Next]_vars => PacedInv'
<1> SUFFICES ASSUME TypeInv, WatermarkInv, SoleOwner, PacedInv, [Next]_vars PROVE PacedInv'
  OBVIOUS
<1> USE DEF PacedInv, DialsAccounted, PacedDials, InFlight
<1> DEFINE Settled == pc' = "ended" \/ (pc # "ended" /\ InFlight' = InFlight)
<1>a. /\ Cardinality(idle) \in Nat /\ Cardinality(idle') \in Nat /\ MinIdle \in Nat
      /\ unpaced \in Int /\ unpaced' \in Int
      /\ Cardinality({}) = 0
  BY TypeStep, SockCardinality, PoolAssumption DEF TypeInv, TypeOK
<1>b. Cardinality(idle') + InFlight' <= MinIdle
  BY WatermarkStep DEF WatermarkInv, Watermark
<1>1. ASSUME NEW c \in Conn, TakeIdle(c) PROVE PacedInv'
  <2>1. Cardinality(idle') <= Cardinality(idle)
    <3>1. ~Put
      BY <1>1 DEF TakeIdle, Put, taskVars
    <3>2. QED
      BY <3>1, IdleStep
  <2>2. pc' = pc /\ unpaced' = unpaced - (Cardinality(idle) - Cardinality(idle'))
    BY <1>1 DEF TakeIdle, taskVars
  <2>3. QED
    BY <1>a, <2>1, <2>2
<1>2. ASSUME NEW h, Release(h, idle), unpaced' = unpaced - ClosedWith(h, idle), pc' = pc
      PROVE  PacedInv'
  <2>1. \/ idle' = idle /\ unpaced' = unpaced
        \/ idle' = {} /\ unpaced' = unpaced - Cardinality(idle)
    BY <1>2, <1>a, ReleaseEffect
  <2>2. QED
    BY <1>2, <1>a, <2>1
<1>3. CASE Refresh
  <2> DEFINE young == {s \in idle : age[s] < IdleTimeout}
             kept == young \ disturbed
  <2>1. Cardinality(young) \in Nat /\ Cardinality(kept) \in Nat
    BY SockCardinality DEF TypeInv, TypeOK
  <2>2. pc = "refresh" /\ pc' \in {"full", "pause", "dial"}
    BY <1>3 DEF Refresh
  <2>3. CASE unpaced' = 0
    BY <1>a, <2>2, <2>3
  <2>4. CASE /\ kept = young
             /\ unpaced' = unpaced - (Cardinality(idle) - Cardinality(young)) - ClosedWith(Task, kept)
    <3>1. \/ idle' = young /\ ClosedWith(Task, kept) = 0
          \/ idle' = {} /\ ClosedWith(Task, kept) = Cardinality(young)
      BY <1>3, <2>4, ReleaseEffect DEF Refresh
    <3>2. unpaced' <= Cardinality(idle')
      <4>1. unpaced <= Cardinality(idle)
        BY <1>a, <2>2
      <4>2. CASE idle' = young /\ ClosedWith(Task, kept) = 0
        BY <1>a, <2>1, <2>4, <4>1, <4>2
      <4>3. CASE idle' = {} /\ ClosedWith(Task, kept) = Cardinality(young)
        BY <1>a, <2>1, <2>4, <4>1, <4>3
      <4>4. QED
        BY <3>1, <4>2, <4>3
    <3>3. QED
      BY <1>a, <1>b, <2>2, <3>2
  <2>5. QED
    BY <1>3, <2>3, <2>4 DEF Refresh, ClosedByPeer
<1>4. CASE StartDial
  BY <1>4, <1>a, <1>b DEF StartDial, poolVars
<1>5. CASE Put
  <2> DEFINE parked == IF Cardinality(idle) < MinIdle THEN idle \cup {fresh} ELSE idle
  <2>1. pc = "put" /\ pc' = "top" /\ unpaced' = unpaced - ClosedWith(Task, parked)
    BY <1>5 DEF Put
  <2>2. \/ idle' = parked /\ ClosedWith(Task, parked) = 0
        \/ idle' = {} /\ ClosedWith(Task, parked) = Cardinality(parked)
    BY <1>5, ReleaseEffect DEF Put
  <2>3. parked = idle \cup {fresh} /\ Cardinality(parked) = Cardinality(idle) + 1
    <3>1. Cardinality(idle) < MinIdle
      BY <1>a, <2>1 DEF WatermarkInv, Watermark
    <3>2. fresh \in Sock \ idle
      BY <2>1 DEF SoleOwner, TypeInv, FreshDialed
    <3>3. QED
      BY <3>1, <3>2, SockCardinality DEF TypeInv, TypeOK
  <2>4. unpaced' <= Cardinality(idle')
    <3>1. unpaced <= Cardinality(idle) + 1
      BY <2>1
    <3>2. CASE idle' = parked /\ ClosedWith(Task, parked) = 0
      BY <1>a, <2>1, <2>3, <3>1, <3>2
    <3>3. CASE idle' = {} /\ ClosedWith(Task, parked) = Cardinality(parked)
      BY <1>a, <2>1, <2>3, <3>1, <3>3
    <3>4. QED
      BY <2>2, <3>2, <3>3
  <2>5. QED
    BY <1>a, <1>b, <2>1, <2>4
<1>6. CASE DialErr
  BY <1>6, <1>a DEF DialErr
<1>7. CASE unpaced' = unpaced /\ idle' = idle /\ Settled
  BY <1>7, <1>a, <1>b
<1>8. QED
  <2>1. ASSUME NEW c \in Conn, Accept(c) \/ StartPrewarm(c) \/ Notify(c) \/ Finish(c)
        PROVE  unpaced' = unpaced /\ idle' = idle /\ Settled
    BY <2>1 DEF Accept, StartPrewarm, Notify, Finish, poolVars, taskVars, history
  <2>2. ASSUME \/ Upgrade \/ WakeUp \/ PauseOver \/ RetryOver \/ UpgradeDialed
               \/ Abort \/ DialOk \/ Tick \/ UNCHANGED vars
               \/ \E s \in Sock : GatewayActs(s)
        PROVE  unpaced' = unpaced /\ idle' = idle /\ Settled
    BY <2>2 DEF Upgrade, WakeUp, PauseOver, RetryOver, UpgradeDialed, Abort, DialOk, Tick,
                vars, GatewayActs, poolVars, taskVars, history
  <2>3. CASE Replace \/ \E c \in Conn : Close(c)
    BY <1>2, <2>3 DEF Replace, Close, taskVars
  <2>4. QED
    BY <1>1, <1>3, <1>4, <1>5, <1>6, <1>7, <2>1, <2>2, <2>3 DEF Next, Client, TaskStep

\* PacedDials, for every pool: against a gateway that closes what it is given,
\* the task never dials more than min_idle times without a pause.
THEOREM PacedDialsHolds == Spec => []PacedDials
<1>1. Init => WatermarkInv /\ SoleOwner /\ PacedInv
  BY PoolAssumption, SockCardinality
     DEF Init, WatermarkInv, Watermark, RoomToDial, InFlight, SoleOwner, PacedInv,
         DialsAccounted, PacedDials
<1>2. QED
  BY <1>1, TypeInit, TypeStep, WatermarkStep, SoleOwnerStep, PacedStep, PTL DEF Spec, PacedInv

-----------------------------------------------------------------------------
OrphanInv == ArcsAccounted /\ OrphanIsLast

LEMMA OrphanStep == TypeInv /\ OrphanInv /\ [Next]_vars => OrphanInv'
<1> SUFFICES ASSUME TypeInv, OrphanInv, [Next]_vars PROVE OrphanInv'
  OBVIOUS
<1> USE PoolAssumption DEF OrphanInv, ArcsAccounted, OrphanIsLast, TypeInv, TypeOK
<1>1. ASSUME NEW c \in Conn, Accept(c) PROVE OrphanInv'
  BY <1>1 DEF Accept, taskVars, history
<1>2. ASSUME NEW c \in Conn, Close(c) PROVE OrphanInv'
  <2>1. /\ holders' = holders \ {c} /\ pc' = pc /\ orphanDials' = orphanDials
        /\ holders' = {} => aborted' = (pc # "unborn")
        /\ c \in holders
        /\ conn' = [conn EXCEPT ![c] = "away"]
    BY <1>2, ReleaseEffect DEF Close, taskVars
  <2>2. QED
    BY <2>1
<1>3. CASE Replace
  <2>1. /\ holders' = holders \ {Handle} /\ pc' = pc /\ orphanDials' = orphanDials
        /\ holders' = {} => aborted' = (pc # "unborn")
        /\ Handle \in holders /\ conn' = conn
    BY <1>3, ReleaseEffect DEF Replace, taskVars, connVars
  <2>2. QED
    BY <2>1
<1>4. ASSUME NEW c \in Conn, StartPrewarm(c) PROVE OrphanInv'
  BY <1>4 DEF StartPrewarm, poolVars, history
<1>5. ASSUME NEW c \in Conn, TakeIdle(c) \/ Notify(c) \/ Finish(c) PROVE OrphanInv'
  BY <1>5 DEF TakeIdle, Notify, Finish, poolVars, taskVars, history
<1>6. CASE Refresh \/ Put
  <2>1. /\ holders' = holders \ {Task} /\ pc \in {"refresh", "put"} /\ conn' = conn
        /\ pc' \in {"full", "pause", "dial", "top"} /\ orphanDials' = orphanDials
        /\ holders' = {} => aborted' = (pc # "unborn")
    BY <1>6, ReleaseEffect DEF Refresh, Put, connVars
  <2>2. QED
    BY <2>1
<1>7. CASE Upgrade \/ UpgradeDialed
  BY <1>7 DEF Upgrade, UpgradeDialed, connVars, history
<1>8. CASE StartDial
  BY <1>8 DEF StartDial, poolVars, connVars, Outside, CountDial, DialCountCap
<1>9. CASE WakeUp \/ PauseOver \/ RetryOver \/ DialOk \/ DialErr
  BY <1>9 DEF WakeUp, PauseOver, RetryOver, DialOk, DialErr, poolVars, connVars, history
<1>10. CASE Abort
  BY <1>10 DEF Abort, AwaitPoint, poolVars, connVars, history
<1>11. CASE Tick \/ (\E s \in Sock : GatewayActs(s)) \/ UNCHANGED vars
  BY <1>11 DEF Tick, GatewayActs, vars, poolVars, connVars, taskVars, history
<1>12. QED
  BY <1>1, <1>2, <1>3, <1>4, <1>5, <1>6, <1>7, <1>8, <1>9, <1>10, <1>11
     DEF Next, Client, TaskStep

\* FewOrphanDials, for every pool: once nobody outside the task holds the pool,
\* the task begins at most one more dial.
THEOREM FewOrphanDialsHolds == Spec => []FewOrphanDials
<1>1. Init => OrphanInv
  BY PoolAssumption DEF Init, OrphanInv, ArcsAccounted, OrphanIsLast
<1>2. OrphanInv => FewOrphanDials
  BY DEF OrphanInv, OrphanIsLast, FewOrphanDials
<1>3. QED
  BY <1>1, <1>2, TypeInit, TypeStep, OrphanStep, PTL DEF Spec

\* DialsAreBounded, for every pool: the backoff within its limits, no spare too
\* many, no tight redial loop, and at most one dial for a pool that only the task
\* could still hold.
THEOREM DialsAreBoundedHolds == Spec => []DialsAreBounded
<1>1. TypeOK /\ Watermark /\ PacedDials /\ FewOrphanDials => DialsAreBounded
  BY DEF DialsAreBounded
<1>2. QED
  BY <1>1, TypeCorrect, WatermarkHolds, PacedDialsHolds, FewOrphanDialsHolds, PTL

\* SocketsAreKept, for every pool: take, refresh, put and Drop hand every socket
\* to one owner at a time and close no good one.
THEOREM SocketsAreKeptHolds == Spec => SocketsAreKept
<1>1. SoleOwner' /\ [Spared]_vars => [SoleOwner' /\ Spared]_vars
  OBVIOUS
<1>2. QED
  BY <1>1, SoleOwnerHolds, NoGoodSocketClosedHolds, PTL DEF NoGoodSocketClosed, SocketsAreKept

-----------------------------------------------------------------------------

\* Whose hands are empty: only a dial leaves the task with a socket, and only a
\* take a connection.
EmptyHands ==
    /\ pc \notin {"dialed", "put"} => fresh = NoSock
    /\ fresh \notin disturbed
    /\ \A c \in Conn : conn[c] \in {"away", "ready", "taking"} => got[c] = NoSock

LEMMA EmptyHandsStep == TypeInv /\ SoleOwner /\ EmptyHands /\ [Next]_vars => EmptyHands'
<1> SUFFICES ASSUME TypeInv, SoleOwner, EmptyHands, [Next]_vars PROVE EmptyHands'
  OBVIOUS
<1> USE PoolAssumption DEF EmptyHands, TypeInv, TypeOK
<1>1. ASSUME NEW c \in Conn, Accept(c) \/ StartPrewarm(c) PROVE EmptyHands'
  BY <1>1 DEF Accept, StartPrewarm, poolVars, taskVars
<1>2. ASSUME NEW c \in Conn, Close(c) PROVE EmptyHands'
  BY <1>2 DEF Close, taskVars
<1>3. ASSUME NEW c \in Conn, TakeIdle(c) \/ Notify(c) \/ Finish(c) PROVE EmptyHands'
  BY <1>3 DEF TakeIdle, Notify, Finish, poolVars, taskVars
<1>4. CASE Replace \/ Refresh
  BY <1>4 DEF Replace, Refresh, connVars, taskVars
<1>5. CASE Upgrade \/ WakeUp \/ PauseOver \/ StartDial \/ DialErr \/ RetryOver \/ Abort
  BY <1>5 DEF Upgrade, WakeUp, PauseOver, StartDial, DialErr, RetryOver, Abort, AwaitPoint, poolVars,
              connVars
<1>6. CASE DialOk
  BY <1>6 DEF DialOk, Free, connVars
<1>7. CASE UpgradeDialed \/ Put
  BY <1>7 DEF UpgradeDialed, Put, connVars
<1>8. CASE Tick \/ UNCHANGED vars
  BY <1>8 DEF Tick, vars, poolVars, connVars, taskVars
<1>9. ASSUME NEW s \in Sock, GatewayActs(s) PROVE EmptyHands'
  BY <1>9 DEF GatewayActs, connVars, taskVars, SoleOwner
<1>10. QED
  BY <1>1, <1>2, <1>3, <1>4, <1>5, <1>6, <1>7, <1>8, <1>9 DEF Next, Client, TaskStep

\* What everybody relies on, together.
PoolInv == TypeInv /\ WatermarkInv /\ SoleOwner /\ OrphanInv /\ EmptyHands

LEMMA PoolInvariance == Spec => []PoolInv
<1>1. Init => PoolInv
  BY TypeInit, PoolAssumption, SockCardinality
     DEF Init, PoolInv, WatermarkInv, Watermark, RoomToDial, InFlight, SoleOwner, OrphanInv,
         ArcsAccounted, OrphanIsLast, EmptyHands
<1>2. PoolInv /\ [Next]_vars => PoolInv'
  BY TypeStep, WatermarkStep, SoleOwnerStep, OrphanStep, EmptyHandsStep DEF PoolInv
<1>3. QED
  BY <1>1, <1>2, PTL DEF Spec

\* The parked sockets that are no good.
Bad == {s \in idle : ~Usable(s)}

\* Nobody but the clock and the gateway makes a socket bad.
LEMMA BadStays ==
    ASSUME UNCHANGED <<age, disturbed>>, idle' \subseteq idle
    PROVE  Bad' = Bad \cap idle'
BY DEF Bad, Usable

\* They make none good.
LEMMA BadGrows ==
    ASSUME TypeInv, idle' = idle, age' \in {age, Older}, disturbed \cap idle \subseteq disturbed'
    PROVE  Bad \subseteq Bad' /\ Bad' \subseteq idle
BY PoolAssumption DEF Bad, Usable, Older, TypeInv, TypeOK

\* When h gives its Arc back, the shelf stays as it is or is closed.
LEMMA ReleaseOnShelf ==
    ASSUME PoolInv, NEW h, h \in holders, Release(h, idle), UNCHANGED <<age, disturbed, pc, fresh>>,
           \/ UNCHANGED got
           \/ \E c \in Conn : got' = [got EXCEPT ![c] = NoSock]
    PROVE  \/ UNCHANGED <<idle, Bad, (pc = "dialing"), fresh, (holders = {})>>
           \/ Shelf!CloseShelf
<1>1. CASE holders' = {}
  <2>1. idle' = {} /\ holders # {}
    BY <1>1, ReleaseEffect
  <2>2. Bad' = {}
    BY <2>1 DEF Bad
  <2>3. QED
    BY <1>1, <2>1, <2>2 DEF Shelf!CloseShelf, Shelf!Keep, Bad
<1>2. CASE holders' # {}
  <2>1. idle' = idle /\ holders # {}
    BY <1>2, ReleaseEffect
  <2>2. Bad' = Bad
    BY <2>1 DEF Bad, Usable
  <2>3. QED
    BY <1>2, <2>1, <2>2
<1>3. QED
  BY <1>1, <1>2

\* The shelf does not see this step.
Unseen == UNCHANGED <<idle, Bad, got, (pc = "dialing"), fresh, (holders = {})>>

\* Connections only take and give back.
LEMMA ClientOnShelf ==
    ASSUME PoolInv, NEW c \in Conn, Client(c)
    PROVE  Unseen \/ Shelf!ShelfNext
<1> USE DEF PoolInv, TypeInv, TypeOK
<1>1. CASE Accept(c) \/ StartPrewarm(c) \/ Notify(c)
  <2>1. UNCHANGED <<idle, age, disturbed, got, fresh, (pc = "dialing"), (holders = {})>>
    BY <1>1 DEF Accept, StartPrewarm, Notify, poolVars, taskVars
  <2>2. QED
    BY <2>1 DEF Unseen, Bad, Usable
<1>2. CASE Close(c)
  <2>1. /\ got' = [got EXCEPT ![c] = NoSock]
        /\ UNCHANGED <<age, disturbed, pc, fresh>>
        /\ Release(c, idle) /\ c \in holders
    BY <1>2 DEF Close, taskVars, OrphanInv, ArcsAccounted
  <2>2. CASE Shelf!CloseShelf
    BY <2>2 DEF Shelf!ShelfNext
  <2>3. CASE UNCHANGED <<idle, Bad, (pc = "dialing"), fresh, (holders = {})>>
    <3>1. CASE got[c] = NoSock
      BY <2>1, <2>3, <3>1 DEF Unseen
    <3>2. CASE got[c] # NoSock
      <4>1. Shelf!Use(c)
        BY <2>1, <2>3, <3>2 DEF Shelf!Use, Bad
      <4>2. QED
        BY <4>1 DEF Shelf!ShelfNext
    <3>3. QED
      BY <3>1, <3>2
  <2>4. QED
    BY <2>1, <2>2, <2>3, ReleaseOnShelf
<1>3. CASE Finish(c)
  <2>1. /\ got' = [got EXCEPT ![c] = NoSock]
        /\ UNCHANGED <<idle, age, disturbed, holders, pc, fresh>>
    BY <1>3 DEF Finish, poolVars, taskVars
  <2>2. UNCHANGED Bad
    BY <2>1 DEF Bad, Usable
  <2>3. CASE got[c] = NoSock
    BY <2>1, <2>2, <2>3 DEF Unseen
  <2>4. CASE got[c] # NoSock
    <3>1. Shelf!Use(c)
      BY <2>1, <2>2, <2>4 DEF Shelf!Use, Bad
    <3>2. QED
      BY <3>1 DEF Shelf!ShelfNext
  <2>5. QED
    BY <2>3, <2>4
<1>4. CASE TakeIdle(c)
  <2>1. got[c] = NoSock /\ UNCHANGED <<age, disturbed, holders, pc, fresh>>
    BY <1>4 DEF TakeIdle, taskVars, EmptyHands
  <2> DEFINE usable == {s \in idle : Usable(s)}
  <2>2. CASE usable = {} /\ idle' = {} /\ got' = [got EXCEPT ![c] = NoSock]
    <3>1. idle = Bad /\ Bad' = {} /\ got' = got
      BY <2>1, <2>2 DEF Bad
    <3>2. Shelf!Take(c)
      BY <2>1, <2>2, <3>1 DEF Shelf!Take, Shelf!Keep, Bad
    <3>3. QED
      BY <3>2 DEF Shelf!ShelfNext
  <2>3. ASSUME NEW s \in Youngest(usable), got' = [got EXCEPT ![c] = s], idle' = Below(s)
        PROVE  Shelf!ShelfNext
    <3> DEFINE worse == {t \in idle : ~(age[t] >= age[s])}
    <3>1. s \in idle \ Bad
      BY <2>3 DEF Youngest, Bad
    <3>2. worse \subseteq Bad
      BY <2>3, PoolAssumption DEF Youngest, Bad
    <3>3. idle' = idle \ (worse \cup {s}) /\ Bad' = Bad \cap idle'
      BY <2>1, <2>3, <3>1, BadStays DEF Below
    <3>4. Shelf!Take(c)
      BY <2>1, <2>3, <3>1, <3>2, <3>3 DEF Shelf!Take, Shelf!Keep, Bad
    <3>5. QED
      BY <3>4 DEF Shelf!ShelfNext
  <2>4. QED
    BY <1>4, <2>2, <2>3 DEF TakeIdle
<1>5. QED
  BY <1>1, <1>2, <1>3, <1>4 DEF Client

\* The task's own steps: it dials, parks and sweeps, or the shelf goes with it.
LEMMA TaskOnShelf ==
    ASSUME PoolInv, TaskStep \/ DialOk \/ DialErr
    PROVE  Unseen \/ Shelf!ShelfNext
<1> USE DEF PoolInv, TypeInv, TypeOK
<1>1. CASE Upgrade \/ WakeUp \/ PauseOver \/ RetryOver
  <2>1. UNCHANGED <<idle, age, disturbed, got, fresh, (pc = "dialing"), (holders = {})>>
    BY <1>1 DEF Upgrade, WakeUp, PauseOver, RetryOver, poolVars, connVars
  <2>2. QED
    BY <2>1 DEF Unseen, Bad, Usable
<1>2. CASE Refresh
  <2> DEFINE kept == {s \in idle : age[s] < IdleTimeout} \ disturbed
  <2>1. /\ kept = idle \ Bad /\ Release(Task, kept) /\ Task \in holders
        /\ UNCHANGED <<age, disturbed, got, fresh>>
        /\ pc # "dialing" /\ pc' # "dialing"
    BY <1>2 DEF Refresh, Bad, Usable, connVars, OrphanInv, ArcsAccounted
  <2>2. CASE holders' = {}
    <3>1. idle' = {} /\ Bad' = {}
      BY <2>1, <2>2, ReleaseEffect DEF Bad
    <3>2. Shelf!CloseShelf
      BY <2>1, <2>2, <3>1 DEF Shelf!CloseShelf, Shelf!Keep, Bad
    <3>3. QED
      BY <3>2 DEF Shelf!ShelfNext
  <2>3. CASE holders' # {}
    <3>1. idle' = idle \ Bad /\ holders # {}
      BY <2>1, <2>3, ReleaseEffect
    <3>2. Bad' = Bad \cap idle'
      BY <2>1, <3>1, BadStays
    <3>3. Shelf!Sweep
      BY <2>1, <2>3, <3>1, <3>2 DEF Shelf!Sweep, Shelf!Keep, Bad
    <3>4. QED
      BY <3>3 DEF Shelf!ShelfNext
  <2>4. QED
    BY <2>2, <2>3
<1>3. CASE StartDial
  <2>1. /\ pc = "dial" /\ pc' = "dialing" /\ fresh = NoSock
        /\ UNCHANGED <<idle, age, disturbed, got, fresh, holders>>
    BY <1>3 DEF StartDial, poolVars, connVars, EmptyHands
  <2>2. Cardinality(idle) < MinIdle
    BY <2>1 DEF WatermarkInv, RoomToDial
  <2>3. Bad' = Bad
    BY <2>1 DEF Bad, Usable
  <2>4. Shelf!Dial
    BY <2>1, <2>2, <2>3 DEF Shelf!Dial, Bad, Shelf!Cardinality, Cardinality
  <2>5. QED
    BY <2>4 DEF Shelf!ShelfNext
<1>4. CASE DialOk
  <2>1. /\ pc = "dialing" /\ pc' = "dialed" /\ fresh' \in Free /\ holders # {}
        /\ disturbed' = disturbed \cap idle /\ age' = Older
        /\ UNCHANGED <<idle, got, holders>>
    BY <1>4 DEF DialOk, connVars, OrphanInv, ArcsAccounted
  <2>2. Bad \subseteq Bad' /\ Bad' \subseteq idle
    BY <2>1, BadGrows
  <2>3. Shelf!Connect
    BY <2>1, <2>2 DEF Shelf!Connect, Shelf!InUse, Free, Bad
  <2>4. QED
    BY <2>3 DEF Shelf!ShelfNext
<1>5. CASE DialErr \/ Abort
  <2>1. /\ pc' # "dialing"
        /\ UNCHANGED <<idle, age, disturbed, got, fresh, holders>>
    BY <1>5 DEF DialErr, Abort, poolVars, connVars
  <2>2. Bad' = Bad
    BY <2>1 DEF Bad, Usable
  <2>3. CASE pc = "dialing"
    <3>1. Shelf!GiveUpDial
      BY <2>1, <2>2, <2>3 DEF Shelf!GiveUpDial, Bad
    <3>2. QED
      BY <3>1 DEF Shelf!ShelfNext
  <2>4. CASE pc # "dialing"
    BY <2>1, <2>2, <2>4 DEF Unseen
  <2>5. QED
    BY <2>3, <2>4
<1>6. CASE UpgradeDialed
  <2>1. /\ pc = "dialed" /\ pc' # "dialing" /\ fresh \in Sock
        /\ UNCHANGED <<idle, age, disturbed, got>>
        /\ \/ holders # {} /\ holders' # {} /\ fresh' = fresh
           \/ holders = {} /\ holders' = {} /\ fresh' = NoSock
    BY <1>6 DEF UpgradeDialed, connVars, FreshDialed
  <2>2. Bad' = Bad
    BY <2>1 DEF Bad, Usable
  <2>3. CASE fresh' = fresh /\ holders # {} /\ holders' # {}
    BY <2>1, <2>2, <2>3 DEF Unseen
  <2>4. CASE holders = {} /\ holders' = {} /\ fresh' = NoSock
    <3>1. Shelf!CloseDialed
      BY <2>1, <2>2, <2>4, PoolAssumption DEF Shelf!CloseDialed, Bad
    <3>2. QED
      BY <3>1 DEF Shelf!ShelfNext
  <2>5. QED
    BY <2>1, <2>3, <2>4
<1>7. CASE Put
  <2>1. /\ pc = "put" /\ pc' = "top" /\ fresh \in Sock /\ fresh' = NoSock
        /\ Task \in holders /\ fresh \notin idle /\ fresh \notin disturbed
        /\ UNCHANGED <<disturbed, got>>
    BY <1>7 DEF Put, connVars, FreshDialed, OrphanInv, ArcsAccounted, SoleOwner, EmptyHands
  <2>2. Cardinality(idle) < MinIdle
    <3>1. Cardinality(idle) \in Nat
      BY SockCardinality
    <3>2. QED
      BY <2>1, <3>1, PoolAssumption DEF WatermarkInv, Watermark, InFlight
  <2>3. Release(Task, idle \cup {fresh}) /\ age' = [age EXCEPT ![fresh] = 0]
    BY <1>7, <2>2 DEF Put
  <2>4. CASE holders' = {}
    <3>1. idle' = {} /\ Bad' = {}
      BY <2>3, <2>4, ReleaseEffect DEF Bad
    <3>2. Shelf!CloseShelf
      BY <2>1, <2>4, <3>1 DEF Shelf!CloseShelf, Shelf!Keep, Bad
    <3>3. QED
      BY <3>2 DEF Shelf!ShelfNext
  <2>5. CASE holders' # {}
    <3>1. idle' = idle \cup {fresh} /\ holders # {}
      BY <2>1, <2>3, <2>5, ReleaseEffect
    <3>2. Bad' = Bad
      <4>1. age'[fresh] = 0 /\ \A s \in idle : age'[s] = age[s]
        BY <2>1, <2>3
      <4>2. \A s \in idle \cup {fresh} : Usable(s)' <=> (s = fresh \/ Usable(s))
        BY <2>1, <4>1, PoolAssumption DEF Usable
      <4>3. QED
        BY <2>1, <3>1, <4>2 DEF Bad
    <3>3. Shelf!Park
      BY <2>1, <2>5, <3>1, <3>2, PoolAssumption DEF Shelf!Park, Bad
    <3>4. QED
      BY <3>3 DEF Shelf!ShelfNext
  <2>6. QED
    BY <2>4, <2>5
<1>8. QED
  BY <1>1, <1>2, <1>3, <1>4, <1>5, <1>6, <1>7 DEF TaskStep

\* ImplementsShelf, for every pool: the task, the takes and Drop do to the pool
\* what a shelf of spare sockets does, and nothing else.
THEOREM ShelfRefinement == Spec => ImplementsShelf
<1>1. Init => Shelf!ShelfInit
  BY DEF Init, Shelf!ShelfInit
<1>2. PoolInv /\ [Next]_vars => [Shelf!ShelfNext]_Shelf!shelfVars
  <2> SUFFICES ASSUME PoolInv, [Next]_vars PROVE Unseen \/ Shelf!ShelfNext
    BY DEF Unseen, Bad, Shelf!shelfVars
  <2>1. CASE Replace
    <3>1. /\ UNCHANGED <<age, disturbed, got, pc, fresh>>
          /\ Release(Handle, idle) /\ Handle \in holders
      BY <2>1 DEF Replace, connVars, taskVars
    <3>2. CASE Shelf!CloseShelf
      BY <3>2 DEF Shelf!ShelfNext
    <3>3. CASE UNCHANGED <<idle, Bad, (pc = "dialing"), fresh, (holders = {})>>
      BY <3>1, <3>3 DEF Unseen
    <3>4. QED
      BY <3>1, <3>2, <3>3, ReleaseOnShelf
  <2>2. CASE Tick \/ \E s \in Sock : GatewayActs(s)
    <3>1. /\ UNCHANGED <<idle, got, pc, fresh, holders>>
          /\ age' \in {age, Older} /\ disturbed \subseteq disturbed'
      BY <2>2 DEF Tick, GatewayActs, connVars, taskVars
    <3>2. Bad \subseteq Bad' /\ Bad' \subseteq idle
      BY <3>1, BadGrows DEF PoolInv
    <3>3. Shelf!GoBad
      BY <3>1, <3>2 DEF Shelf!GoBad, Bad
    <3>4. QED
      BY <3>3 DEF Shelf!ShelfNext
  <2>3. CASE UNCHANGED vars
    BY <2>3 DEF vars, poolVars, connVars, taskVars, Unseen, Bad, Usable
  <2>4. QED
    BY <2>1, <2>2, <2>3, ClientOnShelf, TaskOnShelf DEF Next
<1>3. QED
  BY <1>1, <1>2, PoolInvariance, PTL DEF Spec, ImplementsShelf, Shelf!ShelfSpec

-----------------------------------------------------------------------------
\* When nobody holds the pool, Drop has emptied the list.
Dropped == holders = {} => idle = {}

LEMMA DroppedStep == PoolInv /\ Dropped /\ [Next]_vars => Dropped'
<1> SUFFICES ASSUME PoolInv, Dropped, [Next]_vars, holders' = {} PROVE idle' = {}
  BY DEF Dropped
<1>1. ASSUME NEW c \in Conn, Client(c) PROVE idle' = {}
  <2>1. CASE Close(c)
    BY <2>1, ReleaseEffect DEF Close
  <2>2. CASE ~Close(c)
    <3>1. idle' \subseteq idle /\ holders = {}
      BY <1>1, <2>2 DEF Client, Accept, StartPrewarm, TakeIdle, Notify, Finish, poolVars, Below
    <3>2. QED
      BY <3>1 DEF Dropped
  <2>3. QED
    BY <2>1, <2>2
<1>2. CASE Replace \/ Refresh \/ Put
  BY <1>2, ReleaseEffect DEF Replace, Refresh, Put
<1>3. CASE UNCHANGED <<holders, idle>>
  BY <1>3 DEF Dropped
<1>4. CASE Upgrade \/ UpgradeDialed
  BY <1>4 DEF Upgrade, UpgradeDialed, Dropped
<1>5. ASSUME \/ WakeUp \/ PauseOver \/ StartDial \/ RetryOver \/ Abort \/ DialOk \/ DialErr
             \/ Tick \/ UNCHANGED vars
             \/ \E s \in Sock : GatewayActs(s)
      PROVE  UNCHANGED <<holders, idle>>
  BY <1>5 DEF WakeUp, PauseOver, StartDial, RetryOver, Abort, DialOk, DialErr, Tick, vars,
              GatewayActs, poolVars
<1>6. QED
  BY <1>1, <1>2, <1>3, <1>4, <1>5 DEF Next, TaskStep

\* Where the task can go on by itself: everywhere but before its birth, after
\* its end, and in a dial that nobody has aborted.
TaskCanGo == pc \notin {"unborn", "ended"} /\ (pc = "dialing" => aborted)

\* The fairness of the task's own steps, with their guards written out.
TaskGoesOn == []<>~TaskCanGo \/ []<><<TaskStep>>_vars

\* How far the task is from its end once nobody outside holds the pool.
ThreeLeft == Outside = {} /\ pc \in {"refresh", "put"}
TwoLeft == Outside = {} /\ pc = "dial"
OneLeft == Outside = {} /\ pc \in {"top", "full", "pause", "retry", "dialing", "dialed"}
Stopped == /\ pc \in {"unborn", "ended"}
           /\ holders = {} /\ idle = {} /\ fresh = NoSock

\* A pool that nobody outside holds is in one of these states.
LEMMA Stages ==
    PoolInv /\ Dropped /\ Outside = {} => ThreeLeft \/ TwoLeft \/ OneLeft \/ Stopped
BY PoolAssumption
   DEF PoolInv, TypeInv, TypeOK, TaskState, AwaitPoint, OrphanInv, ArcsAccounted, EmptyHands,
       Dropped, Outside, ThreeLeft, TwoLeft, OneLeft, Stopped

\* Nobody comes back to it, and no step but the task's own changes what the
\* task is doing: a dial cannot end any more.
LEMMA OnlyTheTask ==
    ASSUME PoolInv, [Next]_vars, Outside = {}
    PROVE  Outside' = {} /\ (TaskStep \/ pc' = pc)
<1> USE DEF PoolInv, TypeInv, TypeOK
<1>1. /\ Handle \notin holders
      /\ \A c \in Conn : c \notin holders /\ conn[c] = "away"
      /\ pc = "dialing" => aborted
  BY PoolAssumption DEF Outside, OrphanInv, ArcsAccounted
<1>2. holders' \subseteq holders \cup {Task}
  <2>1. ~\E c \in Conn : Client(c)
    BY <1>1 DEF Client, Accept, Close, StartPrewarm, TakeIdle, Notify, Finish
  <2>2. CASE TaskStep
    BY <2>2, ReleaseEffect
       DEF TaskStep, Upgrade, Refresh, WakeUp, PauseOver, StartDial, RetryOver, UpgradeDialed,
           Put, Abort, poolVars
  <2>3. CASE Replace
    BY <2>3, <1>1 DEF Replace
  <2>4. CASE DialOk \/ DialErr \/ Tick \/ UNCHANGED vars \/ \E s \in Sock : GatewayActs(s)
    BY <2>4 DEF DialOk, DialErr, Tick, vars, GatewayActs, poolVars
  <2>5. QED
    BY <2>1, <2>2, <2>3, <2>4 DEF Next
<1>3. TaskStep \/ pc' = pc
  BY <1>1 DEF Next, Client, Accept, Close, StartPrewarm, TakeIdle, Notify, Finish, Replace,
              DialOk, DialErr, Tick, GatewayActs, vars, taskVars
<1>4. QED
  BY <1>2, <1>3 DEF Outside

\* Each of the task's steps brings it closer to its end.
LEMMA Closer ==
    ASSUME PoolInv, Outside = {}, Outside' = {}, TaskStep
    PROVE  /\ ThreeLeft => TwoLeft' \/ OneLeft'
           /\ TwoLeft => OneLeft'
           /\ OneLeft => (pc = "ended")'
<1>1. pc \notin {"refresh", "put"} => holders = {} /\ (pc # "unborn" => aborted)
  BY DEF PoolInv, OrphanInv, ArcsAccounted, Outside
<1>2. CASE pc \in {"refresh", "put"}
  BY <1>2
     DEF ThreeLeft, TwoLeft, OneLeft, TaskStep, Upgrade, Refresh, WakeUp, PauseOver, StartDial,
         RetryOver, UpgradeDialed, Put, Abort, AwaitPoint
<1>3. CASE pc = "dial"
  BY <1>3
     DEF ThreeLeft, TwoLeft, OneLeft, TaskStep, Upgrade, Refresh, WakeUp, PauseOver, StartDial,
         RetryOver, UpgradeDialed, Put, Abort, AwaitPoint
<1>4. CASE pc \in {"top", "full", "pause", "retry", "dialing", "dialed"}
  <2>1. holders = {} /\ aborted
    BY <1>1, <1>4
  <2>2. pc' = "ended"
    BY <1>4, <2>1
       DEF TaskStep, Upgrade, Refresh, WakeUp, PauseOver, StartDial, RetryOver, UpgradeDialed,
           Put, Abort
  <2>3. QED
    BY <1>4, <2>2 DEF ThreeLeft, TwoLeft, OneLeft
<1>5. CASE pc \in {"unborn", "ended"}
  BY <1>5 DEF ThreeLeft, TwoLeft, OneLeft
<1>6. QED
  BY <1>2, <1>3, <1>4, <1>5 DEF PoolInv, TypeInv, TypeOK, TaskState, AwaitPoint

\* PoolStops, for every pool.
THEOREM PoolStopsHolds == Spec /\ TaskGoesOn => PoolStops
<1>1. Init => Dropped
  BY PoolAssumption DEF Init, Dropped
<1>2. PoolInv /\ Dropped /\ [Next]_vars => Dropped'
  BY DroppedStep
<1>3. PoolInv /\ Dropped /\ Outside = {} => ThreeLeft \/ TwoLeft \/ OneLeft \/ Stopped
  BY Stages
<1>4. PoolInv /\ [Next]_vars /\ Outside = {}
        => /\ (Outside = {})'
           /\ ThreeLeft => ThreeLeft' \/ TwoLeft' \/ OneLeft'
           /\ TwoLeft => TwoLeft' \/ OneLeft'
           /\ OneLeft => OneLeft' \/ (pc = "ended")'
  BY OnlyTheTask, Closer DEF ThreeLeft, TwoLeft, OneLeft
<1>5. PoolInv /\ Outside = {} /\ <<TaskStep>>_vars /\ (Outside = {})'
        => /\ ThreeLeft => TwoLeft' \/ OneLeft'
           /\ TwoLeft => OneLeft'
           /\ OneLeft => (pc = "ended")'
  BY Closer
<1>6. /\ PoolInv /\ (ThreeLeft \/ TwoLeft \/ OneLeft) => TaskCanGo /\ Outside = {}
      /\ Outside = {} /\ pc = "ended" => ~ThreeLeft /\ ~TwoLeft /\ ~OneLeft
  BY DEF ThreeLeft, TwoLeft, OneLeft, TaskCanGo, PoolInv, OrphanInv, ArcsAccounted, Outside
<1>7. QED
  BY <1>1, <1>2, <1>3, <1>4, <1>5, <1>6, PoolInvariance, PTL
     DEF Spec, PoolStops, TaskGoesOn, Stopped
=============================================================================
