------------------------------ MODULE TrayMode ------------------------------
(***************************************************************************)
(* The life of the process: how it is launched (apps/zicade/src/main.rs,   *)
(* cli.rs) and, in tray mode (tray.rs), its three threads: the runtime     *)
(* that serves the proxy, the tray icon with its message pump              *)
(* (zicade-win/src/tray/win.rs), and the main thread with the UI loop      *)
(* (zicade-ui/src/shell.rs).                                               *)
(*                                                                         *)
(* When the process has exited no thread takes another step, so what the   *)
(* threads were doing then can be read off the final state.  Serving and   *)
(* draining are ProxyServer's subject; here they take time and end.        *)
(***************************************************************************)
EXTENDS Naturals, Sequences

CONSTANT MaxClicks   \* bound: clicks on the tray icon

ASSUME TrayAssumption == MaxClicks \in Nat

VARIABLES
    command,   \* the parsed command line
    show,      \* show_window
    main,      \* where the main thread is
    runtime,   \* where the thread zicade-runtime is
    started,   \* the channel on which it reports
    control,   \* what the main thread received on it
    stop,      \* the shutdown flag
    tray,      \* where the thread zicade-tray is
    selected,  \* PumpState::selected
    wmQuit,    \* WM_QUIT is in the tray thread's queue
    commands,  \* the channel of UiCommands
    window,    \* the window is open
    clicks,    \* clicks so far
    wanted,    \* history: someone wants the window and has not got it yet
    closed     \* history: the user has chosen Close

threadVars == <<runtime, started>>
trayVars == <<tray, selected, wmQuit, clicks>>
processVars == <<command, show, main, threadVars, control, stop, trayVars, commands,
                 window, wanted, closed>>

Item == {"open", "close"}      \* OPEN_ID and CLOSE_ID
Unset == "none"

\* What the command line can ask for (parse_args).
Command == {"default", "run", "background", "help", "unknown"}

\* How many processes share the console, as far as it matters.
ConsoleCount == 0..2

Running == main # "exited"

-----------------------------------------------------------------------------
(***************************************************************************)
(* Launching.                                                              *)
(***************************************************************************)

\* launch_mode: only a double click or --background runs in the tray.
LaunchMode(count, cmd) ==
    CASE cmd = "background" -> "background"
      [] cmd = "default" /\ count = 1 -> "tray"
      [] OTHER -> "console"

\* main and run_default.  Console mode serves on this very thread until
\* Ctrl-C, help and unknown commands print and end.
Launch(count) ==
    /\ main = "launch"
    /\ LET mode == LaunchMode(count, command) IN
       /\ main' = CASE mode # "console" -> "load"
                    [] mode = "console" /\ command \in {"default", "run"} -> "console"
                    [] OTHER -> "exited"
       /\ show' = (mode = "tray")
    /\ UNCHANGED <<command, threadVars, control, stop, trayVars, commands, window, wanted, closed>>

\* run_tray_mode fails before there is anything to show it in: no config
\* path, a config that does not load, or no thread for the runtime.
Fail ==
    /\ main = "load"
    /\ main' = "exited"
    /\ UNCHANGED <<command, show, threadVars, control, stop, trayVars, commands, window, wanted, closed>>

SpawnRuntime ==
    /\ main = "load"
    /\ main' = "recv"
    /\ runtime' = "start"
    /\ UNCHANGED <<command, show, started, control, stop, trayVars, commands, window, wanted, closed>>

\* Mutant: a background start stays hidden even if it failed.
HiddenFailure(result) == show

\* A start that failed is shown in the window.
ShowWindow(result) == show \/ result = "err"

\* started_rx.recv: a runtime that stopped without a word has failed, too.
ReceiveControl ==
    /\ main = "recv"
    /\ \/ started # Unset
       \/ runtime = "ended"
    /\ LET result == IF started = Unset THEN "err" ELSE started IN
       /\ control' = result
       /\ show' = ShowWindow(result)
       /\ wanted' = (show \/ result = "err")
    /\ main' = "spawn"
    /\ UNCHANGED <<command, threadVars, stop, trayVars, commands, window, closed>>

\* The tray's thread is spawned, or cannot be: then everything stops.
SpawnTray(ok) ==
    /\ main = "spawn"
    /\ IF ok
       THEN /\ tray' = "create"
            /\ main' = IF show THEN "open" ELSE "wait"
            /\ UNCHANGED stop
       ELSE /\ stop' = TRUE
            /\ main' = "exited"
            /\ UNCHANGED tray
    /\ UNCHANGED <<command, show, threadVars, control, selected, wmQuit, clicks, commands,
                   window, wanted, closed>>

-----------------------------------------------------------------------------
(***************************************************************************)
(* The main thread: shell::run.                                            *)
(***************************************************************************)

\* wait_for_show: the first command decides whether the UI starts at all.
WaitForShow(cmd) == IF cmd = "show" THEN "open" ELSE "return"

Wait ==
    /\ main = "wait" /\ commands # <<>>
    /\ main' = WaitForShow(Head(commands))
    /\ commands' = Tail(commands)
    /\ UNCHANGED <<command, show, threadVars, control, stop, trayVars, window, wanted, closed>>

\* MainWindow::show: an open window is brought forward, a closed one is opened
\* anew; opening it may fail, which is only logged.
ShowMain(ok) ==
    /\ window' = (window \/ ok)
    /\ wanted' = FALSE

\* The UI loop starts by showing the window.
OpenFirst(ok) ==
    /\ main = "open"
    /\ main' = "ui"
    /\ ShowMain(ok)
    /\ UNCHANGED <<command, show, threadVars, control, stop, trayVars, commands, closed>>

\* follow_tray carries out a command.  After Quit the UI toolkit may return to
\* run_tray_mode or end the process itself.
FollowTray(ok) ==
    /\ main = "ui" /\ commands # <<>>
    /\ commands' = Tail(commands)
    /\ IF Head(commands) = "show"
       THEN /\ ShowMain(ok)
            /\ UNCHANGED main
       ELSE /\ main' = IF ok THEN "return" ELSE "exited"
            /\ UNCHANGED <<window, wanted>>
    /\ UNCHANGED <<command, show, threadVars, control, stop, trayVars, closed>>

\* The user closes the window; the app goes on (QuitMode::Explicit).
CloseWindow ==
    /\ main = "ui" /\ window
    /\ window' = FALSE
    /\ UNCHANGED <<command, show, main, threadVars, control, stop, trayVars, commands, wanted, closed>>

\* run_tray_mode returns, and the process ends with it.
Return ==
    /\ main = "return"
    /\ stop' = TRUE
    /\ main' = "exited"
    /\ UNCHANGED <<command, show, threadVars, control, trayVars, commands, window, wanted, closed>>

-----------------------------------------------------------------------------
(***************************************************************************)
(* The runtime thread: serve_on_runtime and App::run.                      *)
(***************************************************************************)

\* The runtime and App::start come up, fail with a reason, or panic.
Start(result) ==
    /\ Running /\ runtime = "start"
    /\ started' = result
    /\ runtime' = IF result = "ok" THEN "run" ELSE "ended"
    /\ UNCHANGED <<command, show, main, control, stop, trayVars, commands, window, wanted, closed>>

\* App::run: without a thread for the network monitor it gives up at once.
RunApp(ok) ==
    /\ Running /\ runtime = "run"
    /\ runtime' = IF ok THEN "serving" ELSE "ended"
    /\ UNCHANGED <<command, show, main, started, control, stop, trayVars, commands, window, wanted, closed>>

\* The flag is seen; the accept loop ends and the connections are drained.
Drain ==
    /\ Running /\ runtime = "serving" /\ stop
    /\ runtime' = "draining"
    /\ UNCHANGED <<command, show, main, started, control, stop, trayVars, commands, window, wanted, closed>>

Drained ==
    /\ Running /\ runtime = "draining"
    /\ runtime' = "ended"
    /\ UNCHANGED <<command, show, main, started, control, stop, trayVars, commands, window, wanted, closed>>

-----------------------------------------------------------------------------
(***************************************************************************)
(* The tray thread: run_tray and pump_tray.                                *)
(***************************************************************************)

\* create_window and add_icon; without them there is no tray.
CreateIcon(ok) ==
    /\ Running /\ tray = "create"
    /\ tray' = IF ok THEN "pump" ELSE "failed"
    /\ UNCHANGED <<command, show, main, threadVars, control, stop, selected, wmQuit, clicks,
                   commands, window, wanted, closed>>

\* A left click, alone or while the menu is open, selects the first item
\* (wndproc, select_default_item).  Alone it is taken up at once.
LeftClick ==
    /\ Running /\ tray \in {"pump", "menu"} /\ clicks < MaxClicks
    /\ selected' = "open"
    /\ tray' = IF tray = "pump" THEN "take" ELSE tray
    /\ clicks' = clicks + 1
    /\ UNCHANGED <<command, show, main, threadVars, control, stop, wmQuit, commands,
                   window, wanted, closed>>

\* A right click opens the menu, whose own message loop runs until it is done.
RightClick ==
    /\ Running /\ tray = "pump" /\ clicks < MaxClicks
    /\ tray' = "menu"
    /\ clicks' = clicks + 1
    /\ UNCHANGED <<command, show, main, threadVars, control, stop, selected, wmQuit, commands,
                   window, wanted, closed>>

\* What show_menu leaves selected: a dismissed menu changes nothing.
Selected(cmd) == IF cmd = Unset THEN selected ELSE cmd

\* TrackPopupMenu returns the chosen item, or none.
MenuEnds(cmd) ==
    /\ Running /\ tray = "menu"
    /\ selected' = Selected(cmd)
    /\ closed' = (closed \/ cmd = "close")
    /\ tray' = "take"
    /\ UNCHANGED <<command, show, main, threadVars, control, stop, wmQuit, clicks, commands,
                   window, wanted>>

\* Mutant: Close does not wait for the proxy.
CloseAtOnce == "quit"

\* Close waits for the runtime's thread before it ends the pump.
AfterClose == "join"

\* take_selected and on_event.
OnEvent ==
    /\ Running /\ tray = "take"
    /\ selected' = Unset
    /\ CASE selected = "open" ->
              /\ commands' = Append(commands, "show")
              /\ wanted' = TRUE
              /\ tray' = "pump"
              /\ UNCHANGED stop
         [] selected = "close" ->
              /\ stop' = TRUE
              /\ tray' = AfterClose
              /\ UNCHANGED <<commands, wanted>>
         [] OTHER ->
              /\ tray' = "pump"
              /\ UNCHANGED <<commands, wanted, stop>>
    /\ UNCHANGED <<command, show, main, threadVars, control, wmQuit, clicks, window, closed>>

\* server.join returns.
Join ==
    /\ Running /\ tray = "join" /\ runtime = "ended"
    /\ tray' = "quit"
    /\ UNCHANGED <<command, show, main, threadVars, control, stop, selected, wmQuit, clicks,
                   commands, window, wanted, closed>>

\* Somebody destroys the hidden window, and wndproc posts WM_QUIT.
Destroyed ==
    /\ Running /\ tray \in {"pump", "menu", "take"} /\ ~wmQuit
    /\ wmQuit' = TRUE
    /\ UNCHANGED <<command, show, main, threadVars, control, stop, tray, selected, clicks,
                   commands, window, wanted, closed>>

\* GetMessageW fails, or returns WM_QUIT: the pump ends without Close.
PumpEnds(failed) ==
    /\ Running /\ tray = "pump"
    /\ failed \/ wmQuit
    /\ tray' = IF failed THEN "failed" ELSE "quit"
    /\ UNCHANGED <<command, show, main, threadVars, control, stop, selected, wmQuit, clicks,
                   commands, window, wanted, closed>>

\* pump_tray after the pump: a failure stops the proxy, without waiting.
TrayFails ==
    /\ Running /\ tray = "failed"
    /\ stop' = TRUE
    /\ tray' = "quit"
    /\ UNCHANGED <<command, show, main, threadVars, control, selected, wmQuit, clicks,
                   commands, window, wanted, closed>>

\* Mutant: only Close tells the UI.
QuitUnlessFailed == IF closed THEN Append(commands, "quit") ELSE commands

\* The last thing sent is Quit.
SendQuit == Append(commands, "quit")

TrayEnds ==
    /\ Running /\ tray = "quit"
    /\ commands' = SendQuit
    /\ tray' = "ended"
    /\ UNCHANGED <<command, show, main, threadVars, control, stop, selected, wmQuit, clicks,
                   window, wanted, closed>>

-----------------------------------------------------------------------------
ProcessInit ==
    /\ command \in Command
    /\ show = FALSE
    /\ main = "launch"
    /\ runtime = Unset /\ started = Unset /\ control = Unset
    /\ stop = FALSE
    /\ tray = Unset /\ selected = Unset /\ wmQuit = FALSE /\ clicks = 0
    /\ commands = <<>>
    /\ window = FALSE /\ wanted = FALSE /\ closed = FALSE

MainStep ==
    \/ ReceiveControl
    \/ \E ok \in BOOLEAN : SpawnTray(ok) \/ OpenFirst(ok) \/ FollowTray(ok)
    \/ Wait \/ Return

RuntimeStep ==
    \/ \E result \in {"ok", "err", Unset} : Start(result)
    \/ \E ok \in BOOLEAN : RunApp(ok)
    \/ Drain \/ Drained

TrayStep ==
    \/ \E ok \in BOOLEAN : CreateIcon(ok)
    \/ OnEvent \/ Join \/ PumpEnds(FALSE) \/ TrayFails \/ TrayEnds

\* The user, and Windows.
Environment ==
    \/ \E count \in ConsoleCount : Launch(count)
    \/ Fail \/ SpawnRuntime
    \/ CloseWindow \/ LeftClick \/ RightClick \/ Destroyed \/ PumpEnds(TRUE)
    \/ \E cmd \in Item \cup {Unset} : MenuEnds(cmd)

ProcessNext == MainStep \/ RuntimeStep \/ TrayStep \/ Environment

ProcessSpec == ProcessInit /\ [][ProcessNext]_processVars

\* Each thread goes on when it can; a drain ends (ProxyServer's ShutdownEnds).
\* Nothing is assumed of the user.
ProcessFairSpec ==
    /\ ProcessSpec
    /\ WF_processVars(MainStep)
    /\ WF_processVars(RuntimeStep)
    /\ WF_processVars(TrayStep)

-----------------------------------------------------------------------------
\* Close stops the proxy and waits for it: when the process ends after Close
\* was handled, the runtime's thread has ended before, even if the UI toolkit
\* ends the process on its own (pump_tray's comment).  The threads' states
\* themselves stay within those the code has.
CloseDrains ==
    /\ main \in {"launch", "load", "recv", "spawn", "wait", "open", "ui", "return",
                 "console", "exited"}
    /\ runtime \in {Unset, "start", "run", "serving", "draining", "ended"}
    /\ tray \in {Unset, "create", "pump", "menu", "take", "join", "failed", "quit", "ended"}
    /\ closed /\ main = "exited" /\ tray = "ended" => runtime = "ended"

\* The process never stays behind without its icon: Close, a failed tray and a
\* destroyed tray window all end it, whatever the UI was doing: waiting for
\* its first command, opening the window or showing it.
ProcessEnds ==
    (closed \/ tray \in {"failed", "quit", "ended"}) ~> main = "exited"

\* Whoever wants the window gets it, or the process ends: a start that failed
\* in the background, and every Open, also one that arrives before the UI loop
\* has started ("the user sees why instead of a tray icon that does nothing").
WindowComes == wanted ~> (~wanted \/ main = "exited")
=============================================================================
