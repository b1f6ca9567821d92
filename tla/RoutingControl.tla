--------------------------- MODULE RoutingControl ---------------------------
(***************************************************************************)
(* How the live routing is decided: Control::apply (zicade-control) run by *)
(* the settings windows, the corporate-network gate it reconfigures        *)
(* (apps/zicade/src/netmon/gate.rs) with its monitor thread, the config    *)
(* file, and the program starting from that file (App::start) and being    *)
(* stopped at any moment.                                                  *)
(*                                                                         *)
(* apply takes its locks one after the other, so two windows' applies      *)
(* interleave step by step; evaluate and reconfigure each hold the gate's  *)
(* lock from beginning to end and are one step.  A built routing is the    *)
(* config it was built from.                                               *)
(***************************************************************************)
EXTENDS Naturals

CONSTANTS
    Window,            \* windows (views) that may have an apply running
    User,              \* Basic user names
    Password,          \* passwords
    None,              \* no user name, no password, no state
    Torn,              \* the config file, truncated and not (fully) written
    Direct,            \* Routing::Direct
    MaxBuildFailures   \* bound: routing rebuilds that fail, over the whole run

ASSUME ControlAssumption ==
    /\ None \notin User \cup Password \cup {"on", "off"}
    /\ {Torn, Direct} \cap [mode : {"direct", "pac"}, gate : BOOLEAN, user : User \cup {None},
                           password : Password \cup {None}] = {}
    /\ MaxBuildFailures \in Nat

Mode == {"direct", "pac"}

\* The part of a Config that matters here: the routing mode, whether the
\* corp-network gate is enabled, and the credential of the routing section.
Config == [mode : Mode, gate : BOOLEAN, user : User \cup {None},
           password : Password \cup {None}]

\* What the settings form can produce: only the chosen mode's sections, so no
\* gate and no credential with "direct"; a password only together with a user.
WellFormed(cfg) ==
    /\ cfg.mode = "direct" => ~cfg.gate /\ cfg.user = None
    /\ cfg.user = None => cfg.password = None

Edit == {cfg \in Config : WellFormed(cfg)}

DefaultConfig == [mode |-> "direct", gate |-> FALSE, user |-> None, password |-> None]

Corp == {"on", "off"}

VARIABLES
    up,          \* the program runs
    network,     \* the network the machine is on: corporate or not
    file,        \* the config file
    config,      \* Control::config
    label,       \* StatusSnapshot::routing_mode
    onCorp,      \* the on-corp cell shown in the status
    gate,        \* GateInner: enabled, config, last
    routing,     \* the RoutingHandle
    monitor,     \* where the monitor thread is
    signaled,    \* an address change arrived since it registered for one
    apply,       \* each window's apply: where it is, the edit, the config so far
    failures,    \* failed rebuilds so far
    failedBuild, \* history: the live routing is Direct because a rebuild failed
    blind        \* history: the gate's last detection could not see the network

gateVars == <<gate, routing, onCorp, failures, failedBuild, blind>>
vars == <<up, network, file, config, label, gateVars, monitor, signaled, apply>>

Idle == [pc |-> "idle", edit |-> DefaultConfig, cfg |-> DefaultConfig]
ApplyState == {"idle", "merged", "writing", "hook", "label", "commit"}

-----------------------------------------------------------------------------
\* build_routing of a config, when it succeeds.
Built(cfg) == IF cfg.mode = "direct" THEN Direct ELSE cfg

\* The `rebuild` closure: build_routing, or Direct if that fails.
Rebuild(cfg) ==
    \/ /\ routing' = Built(cfg)
       /\ failedBuild' = FALSE
       /\ UNCHANGED failures
    \/ /\ cfg.mode # "direct" /\ failures < MaxBuildFailures
       /\ routing' = Direct
       /\ failedBuild' = TRUE
       /\ failures' = failures + 1

\* active_dns_suffixes against the configured suffixes: the network the machine
\* is on, or nothing at all when the enumeration fails, which matches nothing.
Detect == {<<network, FALSE>>, <<"off", TRUE>>}

\* GateInner::apply, then `last`.
ApplyCorp(g, corp) ==
    /\ gate' = [g EXCEPT !.last = corp]
    /\ onCorp' = corp
    /\ IF corp = "on"
       THEN Rebuild(g.config)
       ELSE routing' = Direct /\ failedBuild' = FALSE /\ UNCHANGED failures

\* GateInner::evaluate on the gate state g.
EvaluateGate(g) ==
    \/ /\ ~g.enabled
       /\ gate' = g
       /\ UNCHANGED <<routing, onCorp, failures, failedBuild, blind>>
    \/ /\ g.enabled
       /\ \E d \in Detect :
             /\ blind' = d[2]
             /\ \/ /\ g.last = d[1]
                   /\ gate' = g
                   /\ UNCHANGED <<routing, onCorp, failures, failedBuild>>
                \/ /\ g.last # d[1]
                   /\ ApplyCorp(g, d[1])

\* GateInner::new: the gate state that has decided nothing yet.
GateFor(cfg) == [enabled |-> cfg.gate, config |-> cfg, last |-> None]

\* Mutant: the decision taken under the old config is kept.
AdoptKeepsLast(cfg) == [enabled |-> cfg.gate, config |-> cfg, last |-> gate.last]

\* The gate state once reconfigure has installed cfg: any decision is forgotten.
Adopt(cfg) == [gate EXCEPT !.enabled = cfg.gate, !.config = cfg, !.last = None]

\* GateInner::reconfigure: evaluate afresh, or apply the plain routing.
Reconfigure(cfg) ==
    \/ /\ cfg.gate
       /\ EvaluateGate(Adopt(cfg))
    \/ /\ ~cfg.gate
       /\ gate' = Adopt(cfg)
       /\ onCorp' = None
       /\ blind' = FALSE
       /\ Rebuild(cfg)

-----------------------------------------------------------------------------
(***************************************************************************)
(* Control::apply, one step per lock it takes or file operation.           *)
(***************************************************************************)

\* keep_secrets_from: a blank password for the same user keeps the saved one.
KeepSecrets(edit, saved) ==
    IF edit.password = None /\ edit.user # None /\ edit.user = saved.user
    THEN [edit EXCEPT !.password = saved.password]
    ELSE edit

\* The form is submitted: clone the current config, fill in its passwords.
Submit(w) ==
    /\ up /\ apply[w].pc = "idle"
    /\ \E edit \in Edit :
          apply' = [apply EXCEPT ![w] =
              [pc |-> "merged", edit |-> edit, cfg |-> KeepSecrets(edit, config)]]
    /\ UNCHANGED <<up, network, file, config, label, gateVars, monitor, signaled>>

\* validate fails, or save_file cannot open the file: nothing has changed.
Reject(w) ==
    /\ up /\ apply[w].pc = "merged"
    /\ apply' = [apply EXCEPT ![w] = Idle]
    /\ UNCHANGED <<up, network, file, config, label, gateVars, monitor, signaled>>

\* std::fs::write opens the file and truncates it.
SaveBegin(w) ==
    /\ up /\ apply[w].pc = "merged"
    /\ file' = Torn
    /\ apply' = [apply EXCEPT ![w].pc = "writing"]
    /\ UNCHANGED <<up, network, config, label, gateVars, monitor, signaled>>

\* The write completes.
SaveOk(w) ==
    /\ up /\ apply[w].pc = "writing"
    /\ file' = apply[w].cfg
    /\ apply' = [apply EXCEPT ![w].pc = "hook"]
    /\ UNCHANGED <<up, network, config, label, gateVars, monitor, signaled>>

\* The write fails (disk full): apply returns the error.
SaveErr(w) ==
    /\ up /\ apply[w].pc = "writing"
    /\ apply' = [apply EXCEPT ![w] = Idle]
    /\ UNCHANGED <<up, network, file, config, label, gateVars, monitor, signaled>>

\* The apply hook: the gate adopts the new config.
Hook(w) ==
    /\ up /\ apply[w].pc = "hook"
    /\ Reconfigure(apply[w].cfg)
    /\ apply' = [apply EXCEPT ![w].pc = "label"]
    /\ UNCHANGED <<up, network, file, config, label, monitor, signaled>>

\* The status follows the edit.
SetLabel(w) ==
    /\ up /\ apply[w].pc = "label"
    /\ label' = apply[w].cfg.mode
    /\ apply' = [apply EXCEPT ![w].pc = "commit"]
    /\ UNCHANGED <<up, network, file, config, gateVars, monitor, signaled>>

\* Mutant: the form's config is stored, not the one with the kept passwords.
CommitEdit(w) ==
    /\ up /\ apply[w].pc = "commit"
    /\ config' = apply[w].edit
    /\ apply' = [apply EXCEPT ![w] = Idle]
    /\ UNCHANGED <<up, network, file, label, gateVars, monitor, signaled>>

\* The config becomes the current one.
Commit(w) ==
    /\ up /\ apply[w].pc = "commit"
    /\ config' = apply[w].cfg
    /\ apply' = [apply EXCEPT ![w] = Idle]
    /\ UNCHANGED <<up, network, file, label, gateVars, monitor, signaled>>

-----------------------------------------------------------------------------
(***************************************************************************)
(* The monitor thread and the network.                                     *)
(***************************************************************************)

\* evaluate under the gate's lock.
Evaluate ==
    /\ up /\ monitor = "evaluate"
    /\ EvaluateGate(gate)
    /\ monitor' = "arm"
    /\ UNCHANGED <<up, network, file, config, label, signaled, apply>>

\* NotifyAddrChange: changes count from here on.
Arm ==
    /\ up /\ monitor = "arm"
    /\ monitor' = "wait"
    /\ signaled' = FALSE
    /\ UNCHANGED <<up, network, file, config, label, gateVars, apply>>

\* Mutant: only an address change wakes the monitor.
WakeOnSignal ==
    /\ up /\ monitor = "wait" /\ signaled
    /\ monitor' = "evaluate"
    /\ UNCHANGED <<up, network, file, config, label, gateVars, signaled, apply>>

\* The wait ends with an address change or after the poll interval.
Wake ==
    /\ up /\ monitor = "wait"
    /\ monitor' = "evaluate"
    /\ UNCHANGED <<up, network, file, config, label, gateVars, signaled, apply>>

\* The machine joins or leaves the corporate network.
NetworkChange ==
    /\ network' \in Corp \ {network}
    /\ signaled' = (signaled \/ monitor = "wait")
    /\ UNCHANGED <<up, file, config, label, gateVars, monitor, apply>>

-----------------------------------------------------------------------------
(***************************************************************************)
(* The program's life.                                                     *)
(***************************************************************************)

\* Exit or crash, at any moment: only the file survives.
Stop ==
    /\ up
    /\ up' = FALSE
    /\ apply' = [w \in Window |-> Idle]
    /\ monitor' = "off"
    /\ config' = DefaultConfig
    /\ label' = DefaultConfig.mode
    /\ gate' = GateFor(DefaultConfig)
    /\ routing' = Direct
    /\ onCorp' = None
    /\ signaled' = FALSE /\ failedBuild' = FALSE /\ blind' = FALSE
    /\ UNCHANGED <<network, file, failures>>

\* load_or_create_config and App::start: a torn file does not parse and nothing
\* starts.  An enabled gate starts from Direct and decides before serving;
\* without one the routing must build.
StartUp ==
    /\ ~up
    /\ file # Torn
    /\ up' = TRUE
    /\ config' = file
    /\ label' = file.mode
    /\ monitor' = "evaluate"
    /\ \/ /\ file.gate
          /\ \E d \in Detect : blind' = d[2] /\ ApplyCorp(GateFor(file), d[1])
       \/ /\ ~file.gate
          /\ gate' = GateFor(file)
          /\ routing' = Built(file)
          /\ onCorp' = None
          /\ failedBuild' = FALSE
          /\ blind' = FALSE
          /\ UNCHANGED failures
    /\ UNCHANGED <<network, file, signaled, apply>>

-----------------------------------------------------------------------------
\* Before the first start, which writes the default config.
Init ==
    /\ up = FALSE
    /\ network \in Corp
    /\ file = DefaultConfig
    /\ config = DefaultConfig
    /\ label = DefaultConfig.mode
    /\ onCorp = None
    /\ gate = GateFor(DefaultConfig)
    /\ routing = Direct
    /\ monitor = "off"
    /\ signaled = FALSE
    /\ apply = [w \in Window |-> Idle]
    /\ failures = 0
    /\ failedBuild = FALSE
    /\ blind = FALSE

ApplyStep(w) ==
    SaveBegin(w) \/ SaveOk(w) \/ SaveErr(w) \/ Reject(w) \/ Hook(w) \/ SetLabel(w) \/ Commit(w)

MonitorStep == Evaluate \/ Arm \/ Wake

Next ==
    \/ \E w \in Window : Submit(w) \/ ApplyStep(w)
    \/ MonitorStep
    \/ NetworkChange
    \/ Stop
    \/ StartUp

Spec == Init /\ [][Next]_vars

\* The monitor thread keeps running (its wait is bounded by the poll interval)
\* and an apply that has begun goes on.  Users, networks and crashes are free.
Fairness ==
    /\ WF_vars(MonitorStep)
    /\ \A w \in Window : WF_vars(ApplyStep(w))

FairSpec == Spec /\ Fairness

-----------------------------------------------------------------------------
Quiet == \A w \in Window : apply[w].pc = "idle"

\* Every variable keeps its type.
TypeOK ==
    /\ up \in BOOLEAN
    /\ network \in Corp
    /\ file \in Config \cup {Torn}
    /\ config \in Config
    /\ label \in Mode
    /\ onCorp \in Corp \cup {None}
    /\ gate \in [enabled : BOOLEAN, config : Config, last : Corp \cup {None}]
    /\ routing \in Config \cup {Direct}
    /\ monitor \in {"off", "evaluate", "arm", "wait"}
    /\ signaled \in BOOLEAN
    /\ apply \in [Window -> [pc : ApplyState, edit : Config, cfg : Config]]
    /\ failures \in 0..MaxBuildFailures
    /\ failedBuild \in BOOLEAN
    /\ blind \in BOOLEAN

\* The live routing is the one the gate's state calls for, whichever of start,
\* reconfigure and evaluate set it last: Direct off the corporate network, else
\* built from the gate's config (or Direct after a failed rebuild).  The status
\* shows the decision the gate acted on, and none while it is off.  (And every
\* variable has its type.)
RoutingFollowsGate ==
    /\ TypeOK
    /\ up => /\ routing = IF gate.last = "off" \/ failedBuild THEN Direct ELSE Built(gate.config)
             /\ onCorp = IF gate.enabled THEN gate.last ELSE None

\* With no apply under way all copies of the config agree: the settings page
\* shows "the config the proxy is running with" (views/config/mod.rs 57), the
\* status its mode, and a restart brings it back, for the file holds it too,
\* unless a failed write destroyed the file.
ShownConfigIsRunning ==
    up /\ Quiet => /\ config = gate.config /\ label = gate.config.mode
                   /\ file \in {config, Torn}

\* Leaving the corporate network takes the proxy to Direct, and joining it takes
\* it to the configured routing (unless the rebuild or the detection failed), if
\* the machine stays there: a change that nobody was registered for is caught by
\* the poll.
FollowsNetwork ==
    /\ (up /\ gate.enabled /\ network = "off")
         ~> (~up \/ ~gate.enabled \/ network = "on" \/ routing = Direct)
    /\ (up /\ gate.enabled /\ network = "on")
         ~> (~up \/ ~gate.enabled \/ network = "off" \/ blind \/ failedBuild
               \/ routing = Built(gate.config))

\* What control.rs 171 says of apply: nothing changes unless every step before
\* the hook succeeds, so a failed apply leaves the file as it was.
FailedApplyChangesNothing ==
    [][\A w \in Window :
          up' /\ apply[w].pc \in {"merged", "writing"} /\ apply'[w].pc = "idle"
             => file' # Torn]_vars
=============================================================================
