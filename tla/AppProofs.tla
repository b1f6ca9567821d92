----------------------------- MODULE AppProofs -----------------------------
(***************************************************************************)
(* Proofs about the app (apps/zicade): its live routing and its process.   *)
(*                                                                         *)
(* RoutingControl: RoutingFollowsGate is inductive, however many windows   *)
(* apply at once.  ShownConfigIsRunning holds while applies do not         *)
(* overlap; it needs where the copies of the config stand in each phase of *)
(* an apply (`Copies`).  FollowsNetwork: the monitor thread goes round to  *)
(* an evaluation, which decides for the network the machine is on.         *)
(*                                                                         *)
(* TrayMode: CloseDrains needs where a Close can be between its choice and *)
(* the end of the tray's thread (`CloseIsOnItsWay`).  WindowComes needs    *)
(* that a wanted window is always in the main thread's way                 *)
(* (`WantedIsSeen`).  The end of the process needs that who waits for the  *)
(* runtime has stopped it, and that a Quit comes last (`EndIsAhead`).      *)
(***************************************************************************)
EXTENDS RoutingControl, TrayMode, SequenceTheorems, TLAPS

\* The live routing and the status as the gate's state g calls for them.
Follows(g) ==
    /\ routing = IF g.last = "off" \/ failedBuild THEN Direct ELSE Built(g.config)
    /\ onCorp = IF g.enabled THEN g.last ELSE None

GateState == [enabled : BOOLEAN, config : Config, last : Corp \cup {None}]

\* What the gate's operations write has its type.
GateTypes ==
    /\ gate \in GateState
    /\ routing \in Config \cup {Direct}
    /\ onCorp \in Corp \cup {None}
    /\ failures \in 0..MaxBuildFailures
    /\ failedBuild \in BOOLEAN
    /\ blind \in BOOLEAN

\* No two applies overlap.
NoOverlap ==
    \A v, w \in Window : apply[v].pc # "idle" /\ apply[w].pc # "idle" => v = w

\* Where the copies of the config stand while an apply goes through its steps:
\* the file is the first to change, then the gate, the label and `config`.
Copies ==
    /\ ~up => Quiet
    /\ up =>
        /\ (\A w \in Window : apply[w].pc \notin {"label", "commit"}) => config = gate.config
        /\ (\A w \in Window : apply[w].pc # "label") => label = gate.config.mode
        /\ (\A w \in Window : apply[w].pc \in {"idle", "merged"}) => file \in {config, Torn}
        /\ \A w \in Window :
              /\ apply[w].pc = "writing" => file = Torn
              /\ apply[w].pc \in {"hook", "label", "commit"} => file = apply[w].cfg
              /\ apply[w].pc \in {"label", "commit"} => gate.config = apply[w].cfg

-----------------------------------------------------------------------------
\* The default config is one, and the keep-password rule yields one.
LEMMA DefaultIsConfig ==
    DefaultConfig \in Config /\ Idle \in [pc : ApplyState, edit : Config, cfg : Config]
  BY DEF DefaultConfig, Config, Mode, Idle, ApplyState

LEMMA KeepSecretsType ==
    ASSUME NEW edit \in Config, NEW saved \in Config
    PROVE  KeepSecrets(edit, saved) \in Config
  BY DEF KeepSecrets, Config

LEMMA BuiltType ==
    ASSUME NEW cfg \in Config
    PROVE  Built(cfg) \in Config \cup {Direct}
  BY DEF Built

\* A rebuild leaves the routing of the config, or Direct after a failure.
LEMMA RebuildResult ==
    ASSUME NEW cfg \in Config, failures \in 0..MaxBuildFailures, Rebuild(cfg)
    PROVE  /\ failures' \in 0..MaxBuildFailures
           /\ failedBuild' \in BOOLEAN
           /\ routing' = IF failedBuild' THEN Direct ELSE Built(cfg)
           /\ routing' \in Config \cup {Direct}
  <1>1. Built(cfg) \in Config \cup {Direct}
    BY BuiltType
  <1>2. routing' = IF failedBuild' THEN Direct ELSE Built(cfg)
    BY DEF Rebuild
  <1>3. failures' \in 0..MaxBuildFailures
    BY ControlAssumption DEF Rebuild
  <1>4. failedBuild' \in BOOLEAN
    BY DEF Rebuild
  <1> QED BY <1>1, <1>2, <1>3, <1>4

\* A detection is a place and whether it was blind, and places are not None.
LEMMA DetectType ==
    ASSUME network \in Corp, NEW d \in Detect
    PROVE  d[1] \in Corp /\ d[1] # None /\ d[2] \in BOOLEAN
  <1>1. CASE d = <<network, FALSE>>
    BY <1>1, ControlAssumption DEF Corp
  <1>2. CASE d = <<"off", TRUE>>
    BY <1>2, ControlAssumption DEF Corp
  <1> QED BY <1>1, <1>2 DEF Detect

\* Acting on a decision leaves everything as the new gate state calls for it.
LEMMA ApplyCorpFollows ==
    ASSUME NEW g \in GateState, g.enabled, NEW corp \in Corp, blind' \in BOOLEAN,
           failures \in 0..MaxBuildFailures, ApplyCorp(g, corp)
    PROVE  GateTypes' /\ Follows(gate)' /\ gate'.config = g.config
  <1>1. gate' \in GateState /\ gate'.last = corp /\ gate'.config = g.config /\ gate'.enabled
    BY DEF ApplyCorp, GateState
  <1>2. g.config \in Config
    BY DEF GateState
  <1>3. CASE corp = "on"
    <2>1. Rebuild(g.config)
      BY <1>3 DEF ApplyCorp
    <2> QED BY <1>1, <1>2, <1>3, <2>1, RebuildResult DEF ApplyCorp, GateTypes, Follows, Corp
  <1>4. CASE corp = "off"
    BY <1>1, <1>2, <1>4 DEF ApplyCorp, GateTypes, Follows, Corp
  <1> QED BY <1>3, <1>4 DEF Corp

\* An evaluation of a gate state that is followed, or that has decided nothing
\* yet, leaves one that is followed, with the same config.
LEMMA EvaluateGateFollows ==
    ASSUME NEW g \in GateState, GateTypes, network \in Corp,
           Follows(g) \/ (g.enabled /\ g.last = None), EvaluateGate(g)
    PROVE  GateTypes' /\ Follows(gate)' /\ gate'.config = g.config
  <1>1. CASE gate' = g /\ blind' \in BOOLEAN /\ UNCHANGED <<routing, onCorp, failures, failedBuild>>
                       /\ ~(g.enabled /\ g.last = None)
    BY <1>1 DEF GateTypes, Follows
  <1>2. CASE /\ g.enabled
             /\ \E d \in Detect : blind' = d[2] /\ ApplyCorp(g, d[1])
    <2>1. PICK d \in Detect : blind' = d[2] /\ ApplyCorp(g, d[1])
      BY <1>2
    <2>2. d[1] \in Corp /\ d[2] \in BOOLEAN
      BY DetectType
    <2> QED BY <1>2, <2>1, <2>2, ApplyCorpFollows DEF GateTypes
  <1>3. \A d \in Detect : d[1] # None /\ d[2] \in BOOLEAN
    BY DetectType
  <1> QED BY <1>1, <1>2, <1>3 DEF EvaluateGate, GateTypes

-----------------------------------------------------------------------------
\* The gate's variables have their types.
LEMMA TypeOKSplits ==
    TypeOK <=> /\ GateTypes
               /\ up \in BOOLEAN
               /\ network \in Corp
               /\ file \in Config \cup {Torn}
               /\ config \in Config
               /\ label \in Mode
               /\ monitor \in {"off", "evaluate", "arm", "wait"}
               /\ signaled \in BOOLEAN
               /\ apply \in [Window -> [pc : ApplyState, edit : Config, cfg : Config]]
  BY DEF TypeOK, GateTypes, GateState

\* A reconfiguration leaves a gate that has the new config and is followed.
LEMMA ReconfigureFollows ==
    ASSUME NEW cfg \in Config, GateTypes, network \in Corp, Reconfigure(cfg)
    PROVE  GateTypes' /\ Follows(gate)' /\ gate'.config = cfg
  <1>1. /\ Adopt(cfg) \in GateState
        /\ Adopt(cfg).enabled = cfg.gate /\ Adopt(cfg).config = cfg /\ Adopt(cfg).last = None
    BY DEF Adopt, GateTypes, GateState, Config
  <1>2. CASE cfg.gate /\ EvaluateGate(Adopt(cfg))
    BY <1>1, <1>2, EvaluateGateFollows
  <1>3. CASE ~cfg.gate /\ gate' = Adopt(cfg) /\ onCorp' = None /\ blind' = FALSE /\ Rebuild(cfg)
    <2>1. /\ failures' \in 0..MaxBuildFailures
          /\ failedBuild' \in BOOLEAN
          /\ routing' = IF failedBuild' THEN Direct ELSE Built(cfg)
          /\ routing' \in Config \cup {Direct}
      BY <1>3, RebuildResult DEF GateTypes
    <2> QED BY <1>1, <1>3, <2>1, ControlAssumption DEF GateTypes, Follows
  <1> QED BY <1>2, <1>3 DEF Reconfigure

\* A program that starts is followed from its first moment.
LEMMA StartUpFollows ==
    ASSUME TypeOK, StartUp
    PROVE  GateTypes' /\ Follows(gate)' /\ gate'.config = file /\ file \in Config
  <1>1. file \in Config /\ GateTypes /\ network \in Corp
    BY TypeOKSplits DEF StartUp
  <1>2. /\ GateFor(file) \in GateState
        /\ GateFor(file).enabled = file.gate /\ GateFor(file).config = file
        /\ GateFor(file).last = None
    BY <1>1 DEF GateFor, GateState, Config
  <1>3. CASE /\ file.gate
             /\ \E d \in Detect : blind' = d[2] /\ ApplyCorp(GateFor(file), d[1])
    <2>1. PICK d \in Detect : blind' = d[2] /\ ApplyCorp(GateFor(file), d[1])
      BY <1>3
    <2>2. d[1] \in Corp /\ d[2] \in BOOLEAN
      BY <1>1, DetectType
    <2> QED BY <1>1, <1>2, <1>3, <2>1, <2>2, ApplyCorpFollows DEF GateTypes
  <1>4. CASE /\ ~file.gate
             /\ gate' = GateFor(file)
             /\ routing' = Built(file)
             /\ onCorp' = None
             /\ failedBuild' = FALSE
             /\ blind' = FALSE
             /\ UNCHANGED failures
    <2>1. Built(file) \in Config \cup {Direct}
      BY <1>1, BuiltType
    <2> QED BY <1>1, <1>2, <1>4, <2>1, ControlAssumption DEF GateTypes, Follows
  <1> QED BY <1>1, <1>3, <1>4 DEF StartUp

-----------------------------------------------------------------------------
IInv == TypeOK /\ (up => Follows(gate))

\* Nothing runs at first.
LEMMA InitInv == Init => IInv
  <1> SUFFICES ASSUME Init PROVE IInv
    OBVIOUS
  <1>1. GateFor(DefaultConfig) \in GateState
    BY DefaultIsConfig DEF GateFor, GateState, DefaultConfig
  <1>2. GateTypes
    <2>1. failures \in 0..MaxBuildFailures
      BY ControlAssumption DEF Init
    <2> QED BY <1>1, <2>1 DEF Init, GateTypes
  <1>3. apply \in [Window -> [pc : ApplyState, edit : Config, cfg : Config]]
    BY DefaultIsConfig DEF Init
  <1>4. label \in Mode
    BY DEF Init, DefaultConfig, Mode
  <1> QED BY <1>2, <1>3, <1>4, DefaultIsConfig, TypeOKSplits DEF Init, IInv

\* Every step keeps the routing, the status and the gate's state together.
LEMMA NextInv == IInv /\ [Next]_vars => IInv'
  <1> SUFFICES ASSUME IInv, [Next]_vars PROVE IInv'
    OBVIOUS
  <1> USE DEF IInv
  <1>1. TypeOK /\ GateTypes
    BY TypeOKSplits
  <1>2. ASSUME NEW w \in Window, Submit(w) PROVE IInv'
    <2>1. PICK edit \in Edit :
             apply' = [apply EXCEPT ![w] = [pc |-> "merged", edit |-> edit,
                                            cfg |-> KeepSecrets(edit, config)]]
      BY <1>2 DEF Submit
    <2>2. edit \in Config /\ KeepSecrets(edit, config) \in Config
      BY <1>1, KeepSecretsType DEF Edit, TypeOK
    <2>3. apply' \in [Window -> [pc : ApplyState, edit : Config, cfg : Config]]
      BY <1>1, <2>1, <2>2 DEF TypeOK, ApplyState
    <2> QED BY <1>1, <1>2, <2>3 DEF Submit, gateVars, TypeOK, Follows
  <1>3. ASSUME NEW w \in Window, Reject(w) \/ SaveErr(w) PROVE IInv'
    BY <1>1, <1>3, DefaultIsConfig DEF Reject, SaveErr, gateVars, TypeOK, Follows
  <1>4. ASSUME NEW w \in Window, SaveBegin(w) PROVE IInv'
    BY <1>1, <1>4 DEF SaveBegin, gateVars, TypeOK, Follows, ApplyState
  <1>5. ASSUME NEW w \in Window, SaveOk(w) PROVE IInv'
    BY <1>1, <1>5 DEF SaveOk, gateVars, TypeOK, Follows, ApplyState
  <1>6. ASSUME NEW w \in Window, Hook(w) PROVE IInv'
    <2>1. apply[w].cfg \in Config
      BY <1>1 DEF TypeOK
    <2>2. GateTypes' /\ Follows(gate)'
      BY <1>1, <1>6, <2>1, ReconfigureFollows DEF Hook, TypeOK
    <2>3. apply' \in [Window -> [pc : ApplyState, edit : Config, cfg : Config]]
      BY <1>1, <1>6 DEF Hook, TypeOK, ApplyState
    <2> QED BY <1>1, <1>6, <2>2, <2>3 DEF Hook, TypeOK, GateTypes, GateState
  <1>7. ASSUME NEW w \in Window, SetLabel(w) PROVE IInv'
    BY <1>1, <1>7 DEF SetLabel, gateVars, TypeOK, Follows, ApplyState, Config
  <1>8. ASSUME NEW w \in Window, Commit(w) PROVE IInv'
    BY <1>1, <1>8, DefaultIsConfig DEF Commit, gateVars, TypeOK, Follows
  <1>9. CASE Evaluate
    <2>1. GateTypes' /\ Follows(gate)'
      BY <1>1, <1>9, EvaluateGateFollows DEF Evaluate, GateTypes, TypeOK
    <2> QED BY <1>1, <1>9, <2>1 DEF Evaluate, TypeOK, GateTypes, GateState
  <1>10. CASE Arm
    BY <1>10 DEF Arm, gateVars, TypeOK, Follows
  <1>11. CASE Wake
    BY <1>11 DEF Wake, gateVars, TypeOK, Follows
  <1>12. CASE NetworkChange
    BY <1>1, <1>12 DEF NetworkChange, gateVars, TypeOK, Follows
  <1>13. CASE Stop
    <2>1. GateFor(DefaultConfig) \in GateState
      BY DefaultIsConfig DEF GateFor, GateState, DefaultConfig
    <2>2. GateTypes'
      BY <1>1, <1>13, <2>1 DEF Stop, GateTypes
    <2>3. apply' \in [Window -> [pc : ApplyState, edit : Config, cfg : Config]]
      BY <1>13, DefaultIsConfig DEF Stop
    <2>4. label' \in Mode /\ config' \in Config
      BY <1>13, DefaultIsConfig DEF Stop, DefaultConfig, Mode
    <2> QED BY <1>1, <1>13, <2>2, <2>3, <2>4 DEF Stop, TypeOK, GateTypes, GateState
  <1>14. CASE StartUp
    <2>1. GateTypes' /\ Follows(gate)' /\ file \in Config
      BY <1>1, <1>14, StartUpFollows
    <2> QED BY <1>1, <1>14, <2>1 DEF StartUp, TypeOK, GateTypes, GateState, Config
  <1>15. CASE UNCHANGED vars
    BY <1>1, <1>15 DEF vars, gateVars, TypeOK, Follows
  <1> QED
    BY <1>2, <1>3, <1>4, <1>5, <1>6, <1>7, <1>8, <1>9, <1>10, <1>11, <1>12, <1>13, <1>14,
       <1>15 DEF Next, ApplyStep, MonitorStep

\* The live routing and the status follow the gate's state, whichever of start,
\* reconfigure and evaluate set them last, and whoever applies meanwhile.
THEOREM RoutingFollowsGateHolds == Spec => []RoutingFollowsGate
  <1>1. IInv => RoutingFollowsGate
    BY DEF IInv, Follows, RoutingFollowsGate
  <1> QED BY <1>1, InitInv, NextInv, PTL DEF Spec

-----------------------------------------------------------------------------
\* Applies that do not overlap move the copies in the order Copies says.
LEMMA CopiesNext ==
    ASSUME NoOverlap, TypeOK, Copies, [Next]_vars
    PROVE  Copies'
  <1> USE DEF Copies, Quiet
  <1>1. ASSUME NEW w \in Window, Submit(w) PROVE Copies'
    BY <1>1 DEF Submit, TypeOK, gateVars
  <1>2. ASSUME NEW w \in Window, Reject(w) \/ SaveErr(w) PROVE Copies'
    BY <1>2 DEF Reject, SaveErr, TypeOK, Idle, gateVars, NoOverlap
  <1>3. ASSUME NEW w \in Window, SaveBegin(w) PROVE Copies'
    BY <1>3 DEF SaveBegin, TypeOK, gateVars, NoOverlap
  <1>4. ASSUME NEW w \in Window, SaveOk(w) PROVE Copies'
    BY <1>4 DEF SaveOk, TypeOK, gateVars, NoOverlap
  <1>5. ASSUME NEW w \in Window, Hook(w) PROVE Copies'
    <2>1. gate'.config = apply[w].cfg
      BY <1>5, ReconfigureFollows, TypeOKSplits DEF Hook, TypeOK
    <2> QED BY <1>5, <2>1 DEF Hook, TypeOK, NoOverlap
  <1>6. ASSUME NEW w \in Window, SetLabel(w) PROVE Copies'
    BY <1>6 DEF SetLabel, TypeOK, gateVars, NoOverlap
  <1>7. ASSUME NEW w \in Window, Commit(w) PROVE Copies'
    BY <1>7 DEF Commit, TypeOK, Idle, gateVars, NoOverlap
  <1>8. CASE Evaluate
    <2>1. gate'.config = gate.config
      BY <1>8 DEF Evaluate, EvaluateGate, ApplyCorp, TypeOK
    <2> QED BY <1>8, <2>1 DEF Evaluate
  <1>9. CASE Arm \/ Wake \/ NetworkChange
    BY <1>9 DEF Arm, Wake, NetworkChange, gateVars
  <1>10. CASE Stop
    BY <1>10 DEF Stop, Idle
  <1>11. CASE StartUp
    <2>1. gate'.config = file
      BY <1>11, StartUpFollows
    <2> QED BY <1>11, <2>1 DEF StartUp
  <1>12. CASE UNCHANGED vars
    BY <1>12 DEF vars, gateVars
  <1> QED
    BY <1>1, <1>2, <1>3, <1>4, <1>5, <1>6, <1>7, <1>8, <1>9, <1>10, <1>11, <1>12
    DEF Next, ApplyStep, MonitorStep

\* As long as no two applies overlap, the page, the status, the gate and the file
\* hold the same config whenever none is under way, through failed writes, stops
\* and restarts.  (Two overlapping applies break it: see the README.)
THEOREM ShownConfigIsRunningHolds == Spec /\ []NoOverlap => []ShownConfigIsRunning
  <1>1. Init => Copies
    BY DEF Init, Copies, Quiet, Idle
  <1>2. NoOverlap /\ TypeOK /\ Copies /\ [Next]_vars => Copies'
    BY CopiesNext
  <1>3. TypeOK /\ Copies => ShownConfigIsRunning
    BY DEF Copies, Quiet, ShownConfigIsRunning
  <1>4. IInv => TypeOK
    BY DEF IInv
  <1> QED BY <1>1, <1>2, <1>3, <1>4, InitInv, NextInv, PTL DEF Spec

\* One window alone never overlaps with itself: the run's instance.
COROLLARY OneWindowAgrees ==
    ASSUME \A v, w \in Window : v = w
    PROVE  Spec => []ShownConfigIsRunning
  <1>1. NoOverlap
    BY DEF NoOverlap
  <1> QED BY <1>1, ShownConfigIsRunningHolds, PTL

-----------------------------------------------------------------------------
\* Where the monitor thread can go on by itself: its wait is bounded.
MonitorRuns == up /\ monitor \in {"evaluate", "arm", "wait"}

\* The fairness of the monitor thread, with its guard written out.
MonitorGoesOn == []<>~MonitorRuns \/ []<><<MonitorStep>>_vars

\* The program runs with its monitor.
Monitored == up => monitor # "off"

LEMMA MonitoredStep == Monitored /\ [Next]_vars => Monitored'
  BY DEF Monitored, Next, Submit, ApplyStep, Reject, SaveBegin, SaveOk, SaveErr, Hook, SetLabel,
         Commit, MonitorStep, Evaluate, Arm, Wake, NetworkChange, Stop, StartUp, vars

\* The monitor thread goes round, evaluating once each time; nothing but the
\* end of the program stops it.
LEMMA MonitorGoesRound ==
    ASSUME [Next]_vars, up, up'
    PROVE  \/ monitor' = monitor /\ ~MonitorStep
           \/ MonitorStep /\ monitor = "arm" /\ monitor' = "wait"
           \/ MonitorStep /\ monitor = "wait" /\ monitor' = "evaluate"
           \/ Evaluate
  <1>1. CASE MonitorStep
    BY <1>1 DEF MonitorStep, Arm, Wake
  <1>2. CASE ~MonitorStep
    BY <1>2 DEF Next, Submit, ApplyStep, Reject, SaveBegin, SaveOk, SaveErr, Hook, SetLabel,
                Commit, NetworkChange, Stop, StartUp, vars
  <1> QED BY <1>1, <1>2

\* An evaluation by an enabled gate decides for the network the machine is on,
\* unless it could not see it.
LEMMA EvaluateDecides ==
    ASSUME IInv, Evaluate, gate.enabled
    PROVE  gate'.last = network \/ (blind' /\ gate'.last = "off")
  <1>1. PICK d \in Detect : /\ blind' = d[2]
                            /\ gate'.last = d[1]
    BY DEF Evaluate, EvaluateGate, ApplyCorp, IInv, TypeOK
  <1>2. CASE d = <<network, FALSE>>
    BY <1>1, <1>2
  <1>3. CASE d = <<"off", TRUE>>
    <2>1. blind' = TRUE /\ gate'.last = "off"
      BY <1>1, <1>3
    <2> QED BY <2>1
  <1> QED BY <1>2, <1>3 DEF Detect

\* What FollowsNetwork says must not last, off the corporate network and on it.
LeftBehind == up /\ gate.enabled /\ network = "off" /\ routing # Direct
KeptOut ==
    /\ up /\ gate.enabled /\ network = "on"
    /\ ~(blind \/ failedBuild) /\ routing # Built(gate.config)

\* After an evaluation neither is the case.
LEMMA EvaluateCatchesUp ==
    ASSUME IInv, IInv', Evaluate
    PROVE  ~LeftBehind' /\ ~KeptOut'
  <1>1. up' /\ network' = network
    BY DEF Evaluate
  <1>2. CASE gate.enabled
    <2>1. gate'.last = network \/ (blind' /\ gate'.last = "off")
      BY <1>2, EvaluateDecides
    <2>2. routing' = IF gate'.last = "off" \/ failedBuild' THEN Direct ELSE Built(gate'.config)
      BY <1>1 DEF IInv, Follows
    <2> QED BY <1>1, <2>1, <2>2 DEF LeftBehind, KeptOut
  <1>3. CASE ~gate.enabled
    BY <1>3 DEF Evaluate, EvaluateGate, LeftBehind, KeptOut
  <1> QED BY <1>2, <1>3

\* Where the monitor thread is when it has fallen behind.
Evaluating == monitor = "evaluate"
Arming == monitor = "arm"
Waiting == monitor = "wait"

\* As long as one of them lasts, the monitor thread comes closer to the evaluation
\* that ends it, and nobody takes it back.
LEMMA ComesToEvaluate ==
    ASSUME IInv, IInv', [Next]_vars, (LeftBehind /\ LeftBehind') \/ (KeptOut /\ KeptOut')
    PROVE  /\ Arming => Arming' \/ Waiting'
           /\ Waiting => Waiting' \/ Evaluating'
           /\ Evaluating => Evaluating'
           /\ MonitorStep => (Arming => Waiting') /\ (Waiting => Evaluating') /\ ~Evaluating
  <1>1. up /\ up'
    BY DEF LeftBehind, KeptOut
  <1>2. ~Evaluate
    BY EvaluateCatchesUp
  <1> QED BY <1>1, <1>2, MonitorGoesRound DEF MonitorStep, Arm, Wake, Arming, Waiting, Evaluating

\* FollowsNetwork, however many windows apply meanwhile and whatever the machine's
\* network does: a change that nobody was registered for is caught by the poll.
THEOREM FollowsNetworkHolds == Spec /\ MonitorGoesOn => FollowsNetwork
  <1>1. Init => IInv /\ Monitored
    BY InitInv DEF Init, Monitored
  <1>2. IInv /\ Monitored /\ [Next]_vars => IInv' /\ Monitored'
    BY NextInv, MonitoredStep
  <1>3. IInv /\ IInv' /\ [Next]_vars /\ ((LeftBehind /\ LeftBehind') \/ (KeptOut /\ KeptOut'))
          => /\ Arming => Arming' \/ Waiting'
             /\ Waiting => Waiting' \/ Evaluating'
             /\ Evaluating => Evaluating'
    BY ComesToEvaluate
  <1>4. IInv /\ IInv' /\ <<MonitorStep>>_vars
             /\ ((LeftBehind /\ LeftBehind') \/ (KeptOut /\ KeptOut'))
          => (Arming => Waiting') /\ (Waiting => Evaluating') /\ ~Evaluating
    BY ComesToEvaluate DEF Next
  <1>5. IInv /\ Monitored /\ (LeftBehind \/ KeptOut)
          => MonitorRuns /\ (Arming \/ Waiting \/ Evaluating)
    BY DEF IInv, TypeOK, Monitored, MonitorRuns, LeftBehind, KeptOut, Arming, Waiting, Evaluating
  <1>6. /\ Evaluating => ~Arming /\ ~Waiting
        /\ Waiting => ~Arming
    BY DEF Arming, Waiting, Evaluating
  <1>7. Spec /\ MonitorGoesOn => []<>~LeftBehind /\ []<>~KeptOut
    BY <1>1, <1>2, <1>3, <1>4, <1>5, <1>6, PTL DEF Spec, MonitorGoesOn
  <1>8. IInv /\ ~LeftBehind => ~up \/ ~gate.enabled \/ network = "on" \/ routing = Direct
    BY DEF LeftBehind, IInv, TypeOK, Corp
  <1>9. IInv /\ ~KeptOut
          => \/ ~up \/ ~gate.enabled \/ network = "off" \/ blind \/ failedBuild
             \/ routing = Built(gate.config)
    BY DEF KeptOut, IInv, TypeOK, Corp
  <1>10. Spec => []IInv
    BY InitInv, NextInv, PTL DEF Spec
  <1> QED BY <1>7, <1>8, <1>9, <1>10, PTL DEF FollowsNetwork

-----------------------------------------------------------------------------
(***************************************************************************)
(* The process around the routing (TrayMode, whose names are all its own). *)
(***************************************************************************)

\* Once Close was chosen it is about to be taken up, or the tray waits for the
\* runtime's thread, or that thread has ended.
CloseIsOnItsWay ==
    closed =>
        \/ tray = "take" /\ selected = "close"
        \/ tray = "join"
        \/ tray \in {"quit", "ended"} /\ runtime = "ended"

\* The tray comes after the runtime, and Close from the tray.
Launching ==
    main \in {"launch", "load", "recv", "spawn"} => tray = Unset /\ ~closed

\* Each thread is where the code can be.
Threads ==
    /\ main \in {"launch", "load", "recv", "spawn", "wait", "open", "ui", "return",
                 "console", "exited"}
    /\ runtime \in {Unset, "start", "run", "serving", "draining", "ended"}
    /\ tray \in {Unset, "create", "pump", "menu", "take", "join", "failed", "quit", "ended"}

TrayInv == Threads /\ Launching /\ CloseIsOnItsWay

\* The process starts without a tray.
LEMMA TrayStarts == ProcessInit => TrayInv
  BY DEF ProcessInit, Unset, TrayInv, Threads, Launching, CloseIsOnItsWay

\* The main thread starts the tray before anybody can choose Close.
LEMMA MainThreadStep == TrayInv /\ MainStep => TrayInv'
  <1> SUFFICES ASSUME TrayInv, MainStep PROVE TrayInv'
    OBVIOUS
  <1> USE DEF TrayInv, Threads, Launching, CloseIsOnItsWay, Unset, threadVars, trayVars
  <1>1. CASE ReceiveControl
    BY <1>1 DEF ReceiveControl
  <1>2. ASSUME NEW ok \in BOOLEAN, SpawnTray(ok) PROVE TrayInv'
    BY <1>2 DEF SpawnTray
  <1>3. ASSUME NEW ok \in BOOLEAN, OpenFirst(ok) PROVE TrayInv'
    BY <1>3 DEF OpenFirst
  <1>4. ASSUME NEW ok \in BOOLEAN, FollowTray(ok) PROVE TrayInv'
    BY <1>4 DEF FollowTray
  <1>5. CASE Wait
    BY <1>5 DEF Wait, WaitForShow
  <1>6. CASE Return
    BY <1>6 DEF Return
  <1> QED BY <1>1, <1>2, <1>3, <1>4, <1>5, <1>6 DEF MainStep

\* The runtime's thread ends once.
LEMMA RuntimeThreadStep == TrayInv /\ RuntimeStep => TrayInv'
  <1> SUFFICES ASSUME TrayInv, RuntimeStep PROVE TrayInv'
    OBVIOUS
  <1> USE DEF TrayInv, Threads, Launching, CloseIsOnItsWay, Unset
  <1>1. ASSUME NEW result \in {"ok", "err", Unset}, Start(result) PROVE TrayInv'
    BY <1>1 DEF Start, trayVars
  <1>2. ASSUME NEW ok \in BOOLEAN, RunApp(ok) PROVE TrayInv'
    BY <1>2 DEF RunApp, trayVars
  <1>3. CASE Drain \/ Drained
    BY <1>3 DEF Drain, Drained, trayVars
  <1> QED BY <1>1, <1>2, <1>3 DEF RuntimeStep

\* The tray's thread takes Close up, waits for the runtime's, and ends.
LEMMA TrayThreadStep == TrayInv /\ TrayStep => TrayInv'
  <1> SUFFICES ASSUME TrayInv, TrayStep PROVE TrayInv'
    OBVIOUS
  <1> USE DEF TrayInv, Threads, Launching, CloseIsOnItsWay, Unset, threadVars
  <1>1. ASSUME NEW ok \in BOOLEAN, CreateIcon(ok) PROVE TrayInv'
    BY <1>1 DEF CreateIcon
  <1>2. CASE OnEvent
    <2>1. CASE selected = "open"
      BY <1>2, <2>1 DEF OnEvent
    <2>2. CASE selected = "close"
      BY <1>2, <2>2 DEF OnEvent, AfterClose
    <2>3. CASE selected \notin {"open", "close"}
      BY <1>2, <2>3 DEF OnEvent
    <2> QED BY <2>1, <2>2, <2>3
  <1>3. CASE Join
    BY <1>3 DEF Join
  <1>4. CASE PumpEnds(FALSE)
    BY <1>4 DEF PumpEnds
  <1>5. CASE TrayFails \/ TrayEnds
    BY <1>5 DEF TrayFails, TrayEnds
  <1> QED BY <1>1, <1>2, <1>3, <1>4, <1>5 DEF TrayStep

\* Nothing the user or Windows does takes a Close back.
LEMMA TrayEnvironment == TrayInv /\ Environment => TrayInv'
  <1> SUFFICES ASSUME TrayInv, Environment PROVE TrayInv'
    OBVIOUS
  <1> USE DEF TrayInv, Threads, Launching, CloseIsOnItsWay, Unset, threadVars
  <1>1. ASSUME NEW count \in ConsoleCount, Launch(count) PROVE TrayInv'
    <2>1. main = "launch" /\ main' \in {"load", "console", "exited"}
      BY <1>1 DEF Launch
    <2> QED BY <1>1, <2>1 DEF Launch, trayVars
  <1>2. CASE Fail \/ SpawnRuntime
    BY <1>2 DEF Fail, SpawnRuntime, trayVars
  <1>3. CASE CloseWindow
    BY <1>3 DEF CloseWindow, trayVars
  <1>4. CASE LeftClick
    BY <1>4 DEF LeftClick
  <1>5. CASE RightClick
    BY <1>5 DEF RightClick
  <1>6. CASE Destroyed \/ PumpEnds(TRUE)
    BY <1>6 DEF Destroyed, PumpEnds
  <1>7. ASSUME NEW cmd \in Item \cup {Unset}, MenuEnds(cmd) PROVE TrayInv'
    BY <1>7 DEF MenuEnds, Selected
  <1> QED BY <1>1, <1>2, <1>3, <1>4, <1>5, <1>6, <1>7 DEF Environment

\* Together: no step of any thread takes a Close back.
LEMMA TrayInvStep == TrayInv /\ [ProcessNext]_processVars => TrayInv'
  <1>1. TrayInv /\ UNCHANGED processVars => TrayInv'
    BY DEF TrayInv, Threads, Launching, CloseIsOnItsWay, processVars, threadVars, trayVars
  <1> QED BY <1>1, MainThreadStep, RuntimeThreadStep, TrayThreadStep, TrayEnvironment
      DEF ProcessNext

\* Close stops the proxy and waits for it, however often the icon is clicked
\* and whoever ends the process.
THEOREM CloseDrainsHolds == ProcessSpec => []CloseDrains
  <1>1. TrayInv => CloseDrains
    BY DEF TrayInv, Threads, CloseIsOnItsWay, CloseDrains
  <1> QED BY <1>1, TrayInvStep, TrayStarts, PTL DEF ProcessSpec

-----------------------------------------------------------------------------
\* Only tray mode has a tray, and whoever wants the window is in the main
\* thread's way: the window is about to be opened, or a command is waiting.
WantedIsSeen ==
    /\ commands \in Seq({"show", "quit"})
    /\ main = "console" => tray = Unset
    /\ main \in {"launch", "load", "recv"} => ~wanted
    /\ wanted => \/ main \in {"open", "return", "exited"}
                 \/ main = "spawn" /\ show
                 \/ main \in {"wait", "ui"} /\ commands # <<>>

LEMMA WantedIsSeenStep ==
    TrayInv /\ WantedIsSeen /\ [ProcessNext]_processVars => WantedIsSeen'
  <1> SUFFICES ASSUME TrayInv, WantedIsSeen, [ProcessNext]_processVars PROVE WantedIsSeen'
    OBVIOUS
  <1> USE DEF TrayInv, Threads, Launching, WantedIsSeen, Unset
  <1>1. CASE ReceiveControl
    BY <1>1 DEF ReceiveControl, ShowWindow, trayVars
  <1>2. ASSUME NEW ok \in BOOLEAN, SpawnTray(ok) PROVE WantedIsSeen'
    BY <1>2 DEF SpawnTray
  <1>3. ASSUME NEW ok \in BOOLEAN, OpenFirst(ok) PROVE WantedIsSeen'
    BY <1>3 DEF OpenFirst, ShowMain, trayVars
  <1>4. ASSUME NEW ok \in BOOLEAN, FollowTray(ok) PROVE WantedIsSeen'
    BY <1>4 DEF FollowTray, ShowMain, trayVars
  <1>5. CASE Wait
    BY <1>5 DEF Wait, WaitForShow, trayVars
  <1>6. CASE Return
    BY <1>6 DEF Return, trayVars
  <1>7. CASE OnEvent
    <2>1. main \notin {"launch", "load", "recv", "spawn", "console"} /\ main' = main
      BY <1>7 DEF OnEvent
    <2>2. /\ commands' \in {commands, Append(commands, "show")}
          /\ wanted' = wanted \/ commands' = Append(commands, "show")
      BY <1>7 DEF OnEvent
    <2>3. commands' \in Seq({"show", "quit"})
      BY <2>2
    <2>4. commands' = Append(commands, "show") => commands' # <<>>
      OBVIOUS
    <2> QED BY <1>7, <2>1, <2>2, <2>3, <2>4 DEF OnEvent
  <1>8. CASE TrayEnds
    <2>1. main \notin {"launch", "load", "recv", "spawn", "console"} /\ main' = main
      BY <1>8 DEF TrayEnds
    <2>2. commands' = Append(commands, "quit") /\ wanted' = wanted
      BY <1>8 DEF TrayEnds, SendQuit
    <2>3. commands' \in Seq({"show", "quit"}) /\ commands' # <<>>
      BY <2>2
    <2> QED BY <2>1, <2>2, <2>3
  <1>9. CASE RuntimeStep
    BY <1>9 DEF RuntimeStep, Start, RunApp, Drain, Drained, trayVars
  <1>10. CASE \/ \E ok \in BOOLEAN : CreateIcon(ok)
              \/ Join \/ TrayFails
              \/ \E f \in BOOLEAN : PumpEnds(f)
    BY <1>10 DEF CreateIcon, Join, PumpEnds, TrayFails
  <1>11. ASSUME NEW count \in ConsoleCount, Launch(count) PROVE WantedIsSeen'
    <2>1. main = "launch" /\ main' \in {"load", "console", "exited"}
      BY <1>11 DEF Launch
    <2> QED BY <1>11, <2>1 DEF Launch, trayVars
  <1>12. CASE Fail \/ SpawnRuntime \/ CloseWindow
    BY <1>12 DEF Fail, SpawnRuntime, CloseWindow, trayVars
  <1>13. CASE LeftClick \/ RightClick \/ Destroyed \/ \E cmd \in Item \cup {Unset} : MenuEnds(cmd)
    BY <1>13 DEF LeftClick, RightClick, Destroyed, MenuEnds
  <1>14. CASE UNCHANGED processVars
    BY <1>14 DEF processVars, trayVars
  <1> QED
    BY <1>1, <1>2, <1>3, <1>4, <1>5, <1>6, <1>7, <1>8, <1>9, <1>10, <1>11, <1>12, <1>13, <1>14
       DEF ProcessNext, MainStep, TrayStep, Environment

\* Where the main thread can go on by itself: something was received, or it
\* waits for nothing.
MainCanGo ==
    \/ main \in {"spawn", "open", "return"}
    \/ main = "recv" /\ (started # Unset \/ runtime = "ended")
    \/ main \in {"wait", "ui"} /\ commands # <<>>

\* The fairness of the main thread, with its guards written out.
MainGoesOn == []<>~MainCanGo \/ []<><<MainStep>>_processVars

\* How far a wanted window is from being opened.
NotYetOpen == wanted /\ main \in {"spawn", "wait"}
Opening == wanted /\ main \in {"open", "ui"}
Returning == wanted /\ main = "return"
Settled == ~wanted \/ main = "exited"

\* Whatever the other threads and the user do, a wanted window comes no further
\* away, and each step of the main thread brings it closer.
LEMMA WindowComesCloser ==
    ASSUME TrayInv, WantedIsSeen, [ProcessNext]_processVars
    PROVE  /\ NotYetOpen => NotYetOpen' \/ Opening' \/ Returning' \/ Settled'
           /\ Opening => Opening' \/ Returning' \/ Settled'
           /\ Returning => Returning' \/ Settled'
           /\ MainStep => /\ NotYetOpen => ~NotYetOpen'
                          /\ Opening => Returning' \/ Settled'
                          /\ Returning => Settled'
  <1> USE DEF NotYetOpen, Opening, Returning, Settled
  <1>1. CASE MainStep
    <2>1. CASE main \in {"spawn", "wait"}
      BY <1>1, <2>1 DEF MainStep, ReceiveControl, SpawnTray, OpenFirst, FollowTray, Wait,
                        WaitForShow, Return, WantedIsSeen
    <2>2. CASE main \in {"open", "ui"}
      BY <1>1, <2>2 DEF MainStep, ReceiveControl, SpawnTray, OpenFirst, FollowTray, Wait, Return,
                        ShowMain
    <2>3. CASE main = "return"
      BY <1>1, <2>3 DEF MainStep, ReceiveControl, SpawnTray, OpenFirst, FollowTray, Wait, Return
    <2> QED BY <2>1, <2>2, <2>3
  <1>2. CASE ~MainStep /\ main \in {"spawn", "wait", "open", "ui", "return"}
    <2>1. main' = main
      BY <1>2 DEF ProcessNext, RuntimeStep, Start, RunApp, Drain, Drained, TrayStep, CreateIcon,
                  OnEvent, Join, PumpEnds, TrayFails, TrayEnds, Environment, Launch, Fail,
                  SpawnRuntime, CloseWindow, LeftClick, RightClick, Destroyed, MenuEnds,
                  processVars
    <2> QED BY <1>2, <2>1
  <1> QED BY <1>1, <1>2

\* WindowComes, however often the icon is clicked: an Open that comes before the
\* UI loop has started and a failed start in the background included.
THEOREM WindowComesHolds == ProcessSpec /\ MainGoesOn => WindowComes
  <1>1. ProcessInit => TrayInv /\ WantedIsSeen
    BY TrayStarts DEF ProcessInit, WantedIsSeen, Unset
  <1>2. TrayInv /\ WantedIsSeen /\ [ProcessNext]_processVars => TrayInv' /\ WantedIsSeen'
    BY WantedIsSeenStep, TrayInvStep
  <1>3. TrayInv /\ WantedIsSeen /\ wanted => NotYetOpen \/ Opening \/ Returning \/ Settled
    BY DEF TrayInv, Threads, WantedIsSeen, NotYetOpen, Opening, Returning, Settled
  <1>4. TrayInv /\ WantedIsSeen /\ (NotYetOpen \/ Opening \/ Returning) => MainCanGo
    BY DEF WantedIsSeen, NotYetOpen, Opening, Returning, MainCanGo
  <1>5. /\ TrayInv /\ WantedIsSeen /\ [ProcessNext]_processVars
             => /\ NotYetOpen => NotYetOpen' \/ Opening' \/ Returning' \/ Settled'
                /\ Opening => Opening' \/ Returning' \/ Settled'
                /\ Returning => Returning' \/ Settled'
        /\ TrayInv /\ WantedIsSeen /\ <<MainStep>>_processVars
             => /\ NotYetOpen => Opening' \/ Returning' \/ Settled'
                /\ Opening => Returning' \/ Settled'
                /\ Returning => Settled'
    BY WindowComesCloser DEF ProcessNext
  <1>6. (Settled => ~wanted \/ main = "exited") /\ (wanted => wanted)
    BY DEF Settled
  <1>7. Opening \/ Returning => ~NotYetOpen
    BY DEF NotYetOpen, Opening, Returning
  <1> QED BY <1>1, <1>2, <1>3, <1>4, <1>5, <1>6, <1>7, PTL
       DEF ProcessSpec, MainGoesOn, WindowComes, Settled

-----------------------------------------------------------------------------
\* Where the runtime's and the tray's threads can go on by themselves.
RuntimeCanGo ==
    Running /\ (runtime \in {"start", "run", "draining"} \/ (runtime = "serving" /\ stop))
TrayCanGo ==
    /\ Running
    /\ \/ tray \in {"create", "take", "failed", "quit"}
       \/ tray = "join" /\ runtime = "ended"
       \/ tray = "pump" /\ wmQuit

\* The fairness of the two threads, with their guards written out.
RuntimeGoesOn == []<>~RuntimeCanGo \/ []<><<RuntimeStep>>_processVars
TrayGoesOn == []<>~TrayCanGo \/ []<><<TrayStep>>_processVars

\* Who waits for the runtime has stopped it, and the last command is Quit.
EndIsAhead ==
    /\ tray # Unset => runtime # Unset /\ main # "console"
    /\ main \in {"recv", "spawn"} => runtime # Unset
    /\ tray = "join" => stop
    /\ tray = "ended" => \/ main \in {"return", "exited"}
                         \/ \E k \in DOMAIN commands : commands[k] = "quit"

\* A Quit behind the first command stays when that one is taken.
LEMMA QuitStaysAhead ==
    ASSUME NEW s \in Seq({"show", "quit"}), NEW k \in DOMAIN s, s[k] = "quit", Head(s) = "show"
    PROVE  \E j \in DOMAIN Tail(s) : Tail(s)[j] = "quit"
  <1>1. s # <<>> /\ Len(s) \in Nat /\ DOMAIN s = 1..Len(s)
    BY LenProperties
  <1>2. /\ Head(s) = s[1] /\ Tail(s) \in Seq({"show", "quit"})
        /\ Len(Tail(s)) = Len(s) - 1
        /\ \A i \in 1..Len(Tail(s)) : Tail(s)[i] = s[i + 1]
    BY <1>1, HeadTailProperties
  <1>3. k # 1 /\ k - 1 \in 1..Len(Tail(s)) /\ DOMAIN Tail(s) = 1..Len(Tail(s))
    BY <1>1, <1>2, LenProperties
  <1>4. Tail(s)[k - 1] = "quit"
    BY <1>1, <1>2, <1>3
  <1> QED BY <1>3, <1>4

LEMMA EndIsAheadStep ==
    TrayInv /\ WantedIsSeen /\ EndIsAhead /\ [ProcessNext]_processVars => EndIsAhead'
  <1> SUFFICES ASSUME TrayInv, WantedIsSeen, EndIsAhead, [ProcessNext]_processVars
               PROVE  EndIsAhead'
    OBVIOUS
  <1> USE DEF TrayInv, Threads, Launching, EndIsAhead, Unset
  <1>1. CASE ReceiveControl
    BY <1>1 DEF ReceiveControl, threadVars, trayVars
  <1>2. ASSUME NEW ok \in BOOLEAN, SpawnTray(ok) PROVE EndIsAhead'
    BY <1>2 DEF SpawnTray, threadVars
  <1>3. ASSUME NEW ok \in BOOLEAN, OpenFirst(ok) PROVE EndIsAhead'
    BY <1>3 DEF OpenFirst, threadVars, trayVars
  <1>4. ASSUME NEW ok \in BOOLEAN, FollowTray(ok) PROVE EndIsAhead'
    <2>1. Head(commands) # "show" => main' \in {"return", "exited"}
      BY <1>4 DEF FollowTray
    <2>2. Head(commands) = "show" /\ (\E k \in DOMAIN commands : commands[k] = "quit")
            => \E k \in DOMAIN commands' : commands'[k] = "quit"
      BY <1>4, QuitStaysAhead DEF FollowTray, WantedIsSeen
    <2> QED BY <1>4, <2>1, <2>2 DEF FollowTray, threadVars, trayVars
  <1>5. CASE Wait
    <2>1. Head(commands) # "show" => main' = "return"
      BY <1>5 DEF Wait, WaitForShow
    <2>2. Head(commands) = "show" /\ (\E k \in DOMAIN commands : commands[k] = "quit")
            => \E k \in DOMAIN commands' : commands'[k] = "quit"
      BY <1>5, QuitStaysAhead DEF Wait, WantedIsSeen
    <2> QED BY <1>5, <2>1, <2>2 DEF Wait, WaitForShow, threadVars, trayVars
  <1>6. CASE Return
    BY <1>6 DEF Return, threadVars, trayVars
  <1>7. CASE OnEvent
    BY <1>7 DEF OnEvent, threadVars, AfterClose
  <1>8. CASE TrayEnds
    <2>1. commands' = Append(commands, "quit") /\ commands \in Seq({"show", "quit"})
      BY <1>8 DEF TrayEnds, SendQuit, WantedIsSeen
    <2>2. Len(commands) + 1 \in DOMAIN commands' /\ commands'[Len(commands) + 1] = "quit"
      BY <2>1
    <2> QED BY <1>8, <2>2 DEF TrayEnds, threadVars
  <1>9. CASE RuntimeStep
    BY <1>9 DEF RuntimeStep, Start, RunApp, Drain, Drained, trayVars
  <1>10. CASE \/ \E ok \in BOOLEAN : CreateIcon(ok)
              \/ Join \/ TrayFails
              \/ \E f \in BOOLEAN : PumpEnds(f)
    BY <1>10 DEF CreateIcon, Join, PumpEnds, TrayFails, threadVars
  <1>11. ASSUME NEW count \in ConsoleCount, Launch(count) PROVE EndIsAhead'
    <2>1. main = "launch" /\ main' \in {"load", "console", "exited"}
      BY <1>11 DEF Launch
    <2> QED BY <1>11, <2>1 DEF Launch, trayVars, threadVars
  <1>12. CASE Fail \/ SpawnRuntime \/ CloseWindow
    BY <1>12 DEF Fail, SpawnRuntime, CloseWindow, trayVars, threadVars
  <1>13. CASE LeftClick \/ RightClick \/ Destroyed \/ \E cmd \in Item \cup {Unset} : MenuEnds(cmd)
    BY <1>13 DEF LeftClick, RightClick, Destroyed, MenuEnds, threadVars
  <1>14. CASE UNCHANGED processVars
    BY <1>14 DEF processVars, trayVars, threadVars
  <1> QED
    BY <1>1, <1>2, <1>3, <1>4, <1>5, <1>6, <1>7, <1>8, <1>9, <1>10, <1>11, <1>12, <1>13, <1>14
       DEF ProcessNext, MainStep, TrayStep, Environment

\* How far a Close is from the end of the tray's thread.
Chosen == closed /\ tray = "take"
Joining(at) == tray = "join" /\ runtime = at
Failed == tray = "failed"
Quitting == tray = "quit"
TrayOver == tray = "ended" \/ main = "exited"

\* Whatever the user and the other threads do, a Close comes no further away.
LEMMA CloseStays ==
    ASSUME TrayInv, EndIsAhead, [ProcessNext]_processVars, ~TrayOver'
    PROVE  /\ Chosen => \/ Chosen'
                        \/ \E at \in {"start", "run", "serving", "draining", "ended"} : Joining(at)'
           /\ Joining("start") => Joining("start")' \/ Joining("run")' \/ Joining("ended")'
           /\ Joining("run") => Joining("run")' \/ Joining("serving")' \/ Joining("ended")'
           /\ Joining("serving") => Joining("serving")' \/ Joining("draining")'
           /\ Joining("draining") => Joining("draining")' \/ Joining("ended")'
           /\ Joining("ended") => Joining("ended")' \/ Quitting'
           /\ Failed => Failed' \/ Quitting'
           /\ Quitting => Quitting'
  <1> USE DEF TrayOver, Chosen, Joining, Failed, Quitting, TrayInv, Threads, Launching,
              CloseIsOnItsWay, EndIsAhead, Unset
  <1>1. CASE MainStep
    BY <1>1 DEF MainStep, ReceiveControl, SpawnTray, OpenFirst, FollowTray, Wait, Return, trayVars,
                threadVars
  <1>2. CASE RuntimeStep
    BY <1>2 DEF RuntimeStep, Start, RunApp, Drain, Drained, trayVars
  <1>3. CASE TrayStep
    BY <1>3 DEF TrayStep, CreateIcon, OnEvent, AfterClose, Join, PumpEnds, TrayFails, TrayEnds,
                threadVars
  <1>4. CASE Environment \/ UNCHANGED processVars
    BY <1>4 DEF Environment, Launch, Fail, SpawnRuntime, CloseWindow, LeftClick, RightClick,
                Destroyed, PumpEnds, MenuEnds, processVars, trayVars, threadVars
  <1> QED BY <1>1, <1>2, <1>3, <1>4 DEF ProcessNext

\* Each step of the thread whose turn it is brings the Close closer.
LEMMA CloseComesCloser ==
    ASSUME TrayInv, EndIsAhead, ~TrayOver'
    PROVE  /\ RuntimeStep => /\ Joining("start") => Joining("run")' \/ Joining("ended")'
                             /\ Joining("run") => Joining("serving")' \/ Joining("ended")'
                             /\ Joining("serving") => Joining("draining")'
                             /\ Joining("draining") => Joining("ended")'
           /\ TrayStep => /\ Chosen => ~Chosen'
                          /\ Joining("ended") => Quitting'
                          /\ Failed => Quitting'
                          /\ ~Quitting
  <1> USE DEF TrayOver, Chosen, Joining, Failed, Quitting, TrayInv, Threads, CloseIsOnItsWay, Unset
  <1>1. CASE RuntimeStep
    BY <1>1 DEF RuntimeStep, Start, RunApp, Drain, Drained, trayVars, TrayStep, CreateIcon,
                OnEvent, AfterClose, Join, PumpEnds, TrayFails, TrayEnds, threadVars
  <1>2. CASE TrayStep
    BY <1>2 DEF RuntimeStep, Start, RunApp, Drain, Drained, TrayStep, CreateIcon, OnEvent,
                AfterClose, Join, PumpEnds, TrayFails, TrayEnds, threadVars
  <1> QED BY <1>1, <1>2

\* Close, a failed tray and a destroyed tray window take the tray's thread to its
\* end, through the runtime's: the thread drains before the tray says Quit.
THEOREM TrayComesToItsEnd ==
    ProcessSpec /\ RuntimeGoesOn /\ TrayGoesOn
      => ((closed \/ tray \in {"failed", "quit", "ended"}) ~> tray = "ended" \/ main = "exited")
  <1> DEFINE Inv == TrayInv /\ WantedIsSeen /\ EndIsAhead
             S1 == Joining("start")
             S2 == Joining("run")
             S3 == Joining("serving")
             S4 == Joining("draining")
             S5 == Joining("ended")
  <1>1. ProcessInit => Inv
    BY TrayStarts DEF ProcessInit, WantedIsSeen, EndIsAhead, Unset
  <1>2. Inv /\ [ProcessNext]_processVars => Inv'
    BY TrayInvStep, WantedIsSeenStep, EndIsAheadStep
  <1>3. Inv /\ (closed \/ tray \in {"failed", "quit", "ended"})
          => TrayOver \/ Chosen \/ S1 \/ S2 \/ S3 \/ S4 \/ S5 \/ Failed \/ Quitting
    BY DEF TrayInv, Threads, CloseIsOnItsWay, EndIsAhead, TrayOver, Chosen, Joining, Failed,
           Quitting, Unset
  <1>4. Inv /\ [ProcessNext]_processVars /\ ~TrayOver'
          => /\ Chosen => Chosen' \/ S1' \/ S2' \/ S3' \/ S4' \/ S5'
             /\ S1 => S1' \/ S2' \/ S5'
             /\ S2 => S2' \/ S3' \/ S5'
             /\ S3 => S3' \/ S4'
             /\ S4 => S4' \/ S5'
             /\ S5 => S5' \/ Quitting'
             /\ Failed => Failed' \/ Quitting'
             /\ Quitting => Quitting'
    BY CloseStays
  <1>5. /\ Inv /\ <<RuntimeStep>>_processVars /\ ~TrayOver'
             => (S1 => S2' \/ S5') /\ (S2 => S3' \/ S5') /\ (S3 => S4') /\ (S4 => S5')
        /\ Inv /\ <<TrayStep>>_processVars /\ ~TrayOver'
             => (Chosen => ~Chosen') /\ (S5 => Quitting') /\ (Failed => Quitting') /\ ~Quitting
    BY CloseComesCloser
  <1>6. Inv /\ ~TrayOver
          => /\ S1 \/ S2 \/ S3 \/ S4 => RuntimeCanGo
             /\ Chosen \/ S5 \/ Failed \/ Quitting => TrayCanGo
    BY DEF EndIsAhead, TrayOver, Running, Chosen, Joining, Failed, Quitting, RuntimeCanGo, TrayCanGo
  <1>7. /\ Chosen => ~(S1 \/ S2 \/ S3 \/ S4 \/ S5)
        /\ S1 => ~(S2 \/ S3 \/ S4 \/ S5)
        /\ S2 => ~(S3 \/ S4 \/ S5)
        /\ S3 => ~(S4 \/ S5)
        /\ S4 => ~S5
        /\ S5 \/ Failed => ~Quitting
    BY DEF Chosen, Joining, Failed, Quitting
  <1>8. TrayOver => tray = "ended" \/ main = "exited"
    BY DEF TrayOver
  <1> HIDE DEF Inv, S1, S2, S3, S4, S5
  <1> QED
    BY <1>1, <1>2, <1>3, <1>4, <1>5, <1>6, <1>7, <1>8, PTL
       DEF ProcessSpec, RuntimeGoesOn, TrayGoesOn

\* Steps the main thread may still take once the tray is gone: a command each,
\* and one more to open the window or to return.
MainLeft == 2 * Len(commands) + (IF main \in {"open", "return"} THEN 1 ELSE 0)

\* From there the main thread's own steps end the process, one by one: it can always
\* go on, every step leaves fewer, and nobody gives it more to do.
THEOREM QuitIsReached ==
    ProcessSpec
      => /\ [](tray = "ended" => main = "exited" \/ MainCanGo)
         /\ [][tray = "ended" => /\ tray' = "ended"
                                 /\ IF MainStep THEN MainLeft' < MainLeft
                                    ELSE MainLeft' = MainLeft]_processVars
  <1> DEFINE Inv == TrayInv /\ WantedIsSeen /\ EndIsAhead
  <1>1. ProcessInit => Inv
    BY TrayStarts DEF ProcessInit, WantedIsSeen, EndIsAhead, Unset
  <1>2. Inv /\ [ProcessNext]_processVars => Inv'
    BY TrayInvStep, WantedIsSeenStep, EndIsAheadStep
  <1>3. Inv /\ tray = "ended" => main = "exited" \/ MainCanGo
    <2> SUFFICES ASSUME Inv, tray = "ended", main \notin {"exited", "return"} PROVE MainCanGo
      BY DEF MainCanGo
    <2>1. main \in {"wait", "open", "ui"}
      BY DEF TrayInv, Threads, Launching, EndIsAhead, Unset
    <2>2. commands # <<>>
      BY DEF EndIsAhead
    <2> QED BY <2>1, <2>2 DEF MainCanGo
  <1>4. ASSUME Inv, [ProcessNext]_processVars, tray = "ended"
        PROVE  tray' = "ended" /\ IF MainStep THEN MainLeft' < MainLeft ELSE MainLeft' = MainLeft
    <2>1. Len(commands) \in Nat
      BY <1>4 DEF WantedIsSeen
    <2>2. commands # <<>> => Len(Tail(commands)) = Len(commands) - 1 /\ Len(commands) > 0
      BY <1>4, HeadTailProperties, EmptySeq DEF WantedIsSeen
    <2>3. main \in {"wait", "open", "ui", "return", "exited"}
      BY <1>4 DEF TrayInv, Threads, Launching, EndIsAhead, Unset
    <2>4. CASE MainStep
      <3>1. tray' = "ended"
        BY <1>4, <2>3, <2>4 DEF MainStep, ReceiveControl, SpawnTray, OpenFirst, FollowTray, Wait,
                                Return, trayVars
      <3>2. \/ commands' = Tail(commands) /\ commands # <<>> /\ main \in {"wait", "ui"}
            \/ commands' = commands /\ main = "open" /\ main' = "ui"
            \/ commands' = commands /\ main = "return" /\ main' = "exited"
        BY <2>3, <2>4 DEF MainStep, ReceiveControl, SpawnTray, OpenFirst, FollowTray, Wait, Return
      <3> QED BY <2>1, <2>2, <2>4, <3>1, <3>2 DEF MainLeft
    <2>5. CASE ~MainStep
      <3>1. tray' = "ended" /\ main' = main /\ commands' = commands
        BY <1>4, <2>3, <2>5
           DEF ProcessNext, RuntimeStep, Start, RunApp, Drain, Drained, TrayStep, CreateIcon,
               OnEvent, Join, PumpEnds, TrayFails, TrayEnds, Environment, Launch, Fail,
               SpawnRuntime, CloseWindow, LeftClick, RightClick, Destroyed, MenuEnds,
               processVars, trayVars
      <3> QED BY <2>5, <3>1 DEF MainLeft
    <2> QED BY <2>4, <2>5
  <1>5. Inv /\ [ProcessNext]_processVars
          => [tray = "ended" => /\ tray' = "ended"
                                /\ IF MainStep THEN MainLeft' < MainLeft
                                   ELSE MainLeft' = MainLeft]_processVars
    BY <1>4
  <1> HIDE DEF Inv
  <1> QED BY <1>1, <1>2, <1>3, <1>5, PTL DEF ProcessSpec
=============================================================================
