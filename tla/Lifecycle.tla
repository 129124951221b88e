------------------------------ MODULE Lifecycle ------------------------------
(***************************************************************************)
(* Starting, stopping and restarting.  Three processes live and die on     *)
(* their own: FancyBot.bat, which runs the bot again until it finds the    *)
(* file stop_bot; the bot (bin/fancybot, StartStop.pm, Events.pm), which   *)
(* starts a server, clicks it through its screens (GUI/Multiplayer.pm,     *)
(* GUI/HostSetup.pm, GUI/Lobby.pm) and watches it; and the server, found   *)
(* by its window.  A server outlives the bot that started it.              *)
(***************************************************************************)
EXTENDS Integers, FiniteSets

CONSTANTS Servers,     \* server processes that may run at a time
          Nobody,      \* no server
          MaxCrashes,  \* bound on server crashes
          MaxFaults,   \* bound on bot crashes, INTs, slow and failing server starts
          MaxOrders    \* bound on -settings, -restart and -shutdown

ASSUME LifecycleAssumption ==
  /\ IsFiniteSet(Servers) /\ Nobody \notin Servers
  /\ {MaxCrashes, MaxFaults, MaxOrders} \subseteq Nat

VARIABLES
  bat,       \* FancyBot.bat: about to run the bot, waiting for it, or ended
  stopBot,   \* the file stop_bot exists
  bot,       \* the bot process: where it is, or "none"
  made,      \* $process: the server it created, if any
  proc,      \* server_proc: the same, once the server's window was found
  hwnd,      \* main_hwnd: the server whose window was found
  pushed,    \* the button of this screen was found and pushed before
  config,    \* a server setting: as on disk, or changed by -settings
  stage,     \* each server: not running, without window, or its screen
  shown,     \* the setting each server was hosted with
  spent      \* how much of each bound is used up

botVars == <<bot, made, proc, hwnd, pushed, config>>
vars == <<bat, stopBot, botVars, stage, shown, spent>>

Bounds == [crashes |-> MaxCrashes, faults |-> MaxFaults, orders |-> MaxOrders]
Spend(what) == spent[what] < Bounds[what] /\ spent' = [spent EXCEPT ![what] = @ + 1]

\* is_server_alive, find_main_hwnd: any window with the server's title will do.
Screens == {"menu", "setup", "lobby"}
Windows == {s \in Servers : stage[s] \in Screens}

Exit    == bot' = "none" /\ UNCHANGED <<made, proc, hwnd, pushed, config>>
Goto(l) == bot' = l /\ UNCHANGED <<made, proc, hwnd, pushed, config>>
Killed(s) == [x \in Servers |-> IF x = s THEN "none" ELSE stage[x]]

----------------------------------------------------------------------------
\* FancyBot.bat.

\* :RUN, a new bot process.
BatRuns ==
  /\ bat = "run"
  /\ bat' = "wait"
  /\ bot' = "check" /\ made' = Nobody /\ proc' = Nobody /\ hwnd' = Nobody
  /\ pushed' = FALSE /\ config' = "disk"
  /\ UNCHANGED <<stopBot, stage, shown, spent>>

\* :CRASH unless the bot left stop_bot.
BatSeesExit ==
  /\ bat = "wait" /\ bot = "none"
  /\ bat' = IF stopBot THEN "ended" ELSE "run"
  /\ stopBot' = FALSE
  /\ UNCHANGED <<botVars, stage, shown, spent>>

----------------------------------------------------------------------------
\* start_server.

\* Mutant: a server that is running is not looked for.
CheckAlive_Never ==
  /\ bot = "check"
  /\ Goto("create")
  /\ UNCHANGED <<bat, stopBot, stage, shown, spent>>

\* "Server already running."
CheckAlive ==
  /\ bot = "check"
  /\ IF Windows # {} THEN Exit ELSE Goto("create")
  /\ UNCHANGED <<bat, stopBot, stage, shown, spent>>

CreateServer(s) ==
  /\ bot = "create" /\ stage[s] = "none"
  /\ stage' = [stage EXCEPT ![s] = "starting"]
  /\ made' = s
  /\ bot' = "load"
  /\ UNCHANGED <<bat, stopBot, proc, hwnd, pushed, config, shown, spent>>

CreateFails ==
  /\ bot = "create"
  /\ Spend("faults") /\ Exit
  /\ UNCHANGED <<bat, stopBot, stage, shown>>

\* Mutant: server_proc is not set.
FindWindow_NoProc(w) ==
  /\ bot = "load" /\ w \in Windows
  /\ hwnd' = w
  /\ bot' = "open"
  /\ UNCHANGED <<bat, stopBot, made, proc, pushed, config, stage, shown, spent>>

\* After ServerTimeout a window is there.
FindWindow(w) ==
  /\ bot = "load" /\ w \in Windows
  /\ hwnd' = w /\ proc' = made
  /\ bot' = "open"
  /\ UNCHANGED <<bat, stopBot, made, pushed, config, stage, shown, spent>>

\* Or none is: fatal, and Logger exits.  The server is not killed.
FindNone ==
  /\ bot = "load" /\ Windows = {}
  /\ stage[made] = "starting" => spent["faults"] < MaxFaults
  /\ spent' = IF stage[made] = "starting" THEN [spent EXCEPT !["faults"] = @ + 1] ELSE spent
  /\ Exit
  /\ UNCHANGED <<bat, stopBot, stage, shown>>

\* A control of the screen at hand; create_control dies when the window is gone.
Dead == stage[hwnd] \notin Screens

\* start_screen sets the connection.
OpenScreen ==
  /\ bot = "open"
  /\ IF Dead THEN Exit
             ELSE bot' = "next" /\ pushed' = FALSE /\ UNCHANGED <<made, proc, hwnd, config>>
  /\ UNCHANGED <<bat, stopBot, stage, shown, spent>>

\* The loops of next and host: done when the control of a later screen exists;
\* die in looking up the button the first time; push it, which goes to the
\* first server window, and sleep.
PushUntil(from, to, done) ==
  \/ /\ ~Dead /\ stage[hwnd] \notin from
     /\ Goto(done)
     /\ UNCHANGED stage
  \/ /\ Dead /\ ~pushed
     /\ Exit
     /\ UNCHANGED stage
  \/ /\ IF Dead THEN pushed ELSE stage[hwnd] \in from
     /\ pushed' = TRUE
     /\ \E w \in (IF Dead THEN Windows \cup {Nobody} ELSE {hwnd}) :
          stage' = [s \in Servers |-> IF s = w /\ stage[s] \in from THEN to ELSE stage[s]]
     /\ UNCHANGED <<bot, made, proc, hwnd, config>>

NextScreen ==
  /\ bot = "next"
  /\ PushUntil({"menu"}, "setup", "setup")
  /\ UNCHANGED <<bat, stopBot, shown, spent>>

\* HostSetup.update_gui enters the settings; a new screen has no controls yet.
SetupGui ==
  /\ bot = "setup"
  /\ IF Dead
       THEN Exit /\ UNCHANGED shown
       ELSE /\ shown' = [shown EXCEPT ![hwnd] = config]
            /\ bot' = "host" /\ pushed' = FALSE
            /\ UNCHANGED <<made, proc, hwnd, config>>
  /\ UNCHANGED <<bat, stopBot, stage, spent>>

Host ==
  /\ bot = "host"
  /\ PushUntil({"menu", "setup"}, "lobby", "loop")
  /\ UNCHANGED <<bat, stopBot, shown, spent>>

----------------------------------------------------------------------------
\* watch_loop and the commands that stop and restart.

\* Mutant: the loop goes on without a server.
LoopEnds_Never ==
  /\ bot = "loop" /\ Windows = {}
  /\ UNCHANGED vars

\* The server is gone: the loop ends, and the process with it.
LoopEnds ==
  /\ bot = "loop" /\ Windows = {}
  /\ Exit
  /\ UNCHANGED <<bat, stopBot, stage, shown, spent>>

\* A command reaches the bot through the lobby it watches.
InLobby == bot = "loop" /\ stage[hwnd] = "lobby"

\* -settings: the configuration in memory.
Settings ==
  /\ InLobby /\ Spend("orders")
  /\ config' = "changed"
  /\ UNCHANGED <<bat, stopBot, bot, made, proc, hwnd, pushed, stage, shown>>

\* -restart: kill_server, then start_server in the same process, which dies: the
\* window may still be there, Logger's files cannot be opened twice, and the
\* bot's own user cannot be connected twice.  Where it dies decides whether the
\* error is caught in the main loop or ends the process.
Restart ==
  /\ InLobby /\ Spend("orders")
  /\ stage' = Killed(proc)
  /\ Goto("loop") \/ (Windows \subseteq {proc} /\ Exit)
  /\ UNCHANGED <<bat, stopBot, shown>>

\* Mutant: shutdown leaves the server alone.
StopServer_Leaves == stage' = stage

\* shutdown: kill_server ...
StopServer == stage' = Killed(proc)

\* ... on -shutdown ...
Shutdown ==
  /\ InLobby /\ Spend("orders")
  /\ StopServer
  /\ Goto("stop")
  /\ UNCHANGED <<bat, stopBot, shown>>

\* ... or on INT, once there is a server_proc ...
Interrupt ==
  /\ bot # "none" /\ proc # Nobody
  /\ Spend("faults")
  /\ StopServer
  /\ Goto("stop")
  /\ UNCHANGED <<bat, stopBot, shown>>

\* Mutant: the handler leaves stop_bot before there is a server to stop as well.
InterruptEarly_Stops ==
  /\ bot # "none" /\ proc = Nobody
  /\ Spend("faults")
  /\ stopBot' = TRUE
  /\ Exit
  /\ UNCHANGED <<bat, stage, shown>>

\* (before that the handler only exits, and the bot is run again)
InterruptEarly ==
  /\ bot # "none" /\ proc = Nobody
  /\ Spend("faults")
  /\ Exit
  /\ UNCHANGED <<bat, stopBot, stage, shown>>

\* ... and the file that keeps FancyBot.bat from going round.
WriteStop ==
  /\ bot = "stop"
  /\ stopBot' = TRUE
  /\ Exit
  /\ UNCHANGED <<bat, stage, shown, spent>>

Bot == \/ CheckAlive \/ (\E s \in Servers : CreateServer(s)) \/ (\E w \in Servers : FindWindow(w))
       \/ (FindNone /\ stage[made] = "none")
       \/ OpenScreen \/ NextScreen \/ SetupGui \/ Host
       \/ LoopEnds \/ WriteStop

----------------------------------------------------------------------------
\* What the bot has no hand in (external).

BotCrashes ==
  /\ bot # "none"
  /\ Spend("faults") /\ Exit
  /\ UNCHANGED <<bat, stopBot, stage, shown>>

ServerUp(s) ==
  /\ stage[s] = "starting"
  /\ stage' = [stage EXCEPT ![s] = "menu"]
  /\ UNCHANGED <<bat, stopBot, botVars, shown, spent>>

ServerCrashes(s) ==
  /\ stage[s] # "none"
  /\ Spend("crashes")
  /\ stage' = Killed(s)
  /\ UNCHANGED <<bat, stopBot, botVars, shown>>

Init ==
  /\ bat = "run" /\ stopBot = FALSE
  /\ bot = "none" /\ made = Nobody /\ proc = Nobody /\ hwnd = Nobody
  /\ pushed = FALSE /\ config = "disk"
  /\ stage = [s \in Servers |-> "none"] /\ shown = [s \in Servers |-> "disk"]
  /\ spent = [crashes |-> 0, faults |-> 0, orders |-> 0]

Next ==
  \/ BatRuns \/ BatSeesExit
  \/ Bot \/ FindNone \/ CreateFails
  \/ Settings \/ Restart \/ Shutdown \/ Interrupt \/ InterruptEarly
  \/ BotCrashes \/ \E s \in Servers : ServerUp(s) \/ ServerCrashes(s)

Spec == Init /\ [][Next]_vars

\* The processes run, and a server that was started shows its window in the end.
Fairness ==
  /\ WF_vars(BatRuns) /\ WF_vars(BatSeesExit) /\ WF_vars(Bot)
  /\ \A s \in Servers : WF_vars(ServerUp(s))
FairSpec == Spec /\ Fairness

----------------------------------------------------------------------------
TypeOK ==
  /\ bat \in {"run", "wait", "ended"} /\ stopBot \in BOOLEAN
  /\ bot \in {"none", "check", "create", "load", "open", "next", "setup", "host",
              "loop", "stop"}
  /\ {made, proc, hwnd} \subseteq Servers \cup {Nobody}
  /\ bot = "load" => made \in Servers
  /\ bot \in {"open", "next", "setup", "host", "loop", "stop"} => {made, proc, hwnd} \subseteq Servers
  /\ pushed \in BOOLEAN /\ config \in {"disk", "changed"}
  /\ stage \in [Servers -> {"none", "starting"} \cup Screens]
  /\ shown \in [Servers -> {"disk", "changed"}]
  /\ spent \in [DOMAIN Bounds -> Nat]

\* The bot watches a server in its lobby.
Hosting == InLobby

\* The loops of next and host over a window that is gone.
Spinning == bot \in {"next", "host"} /\ pushed /\ Dead

\* A server no bot process owns keeps every new one from starting.
Blocked == \E s \in Windows : s # proc

\* The bot takes another server's window for the one it watches.
Fooled == bot = "loop" /\ Dead /\ Windows # {}

\* When crashes and orders stop, things settle: the bot watches its lobby or was
\* shut down, or else one of three states is reached that nothing leads out of, a
\* screen loop over a dead window or a second server mistaken for the bot's own,
\* at the start or later (watch_loop, next, host, the loop of FancyBot.bat).
Settles == <>[](bat = "ended" \/ Hosting \/ Spinning \/ Blocked \/ Fooled)

\* What FancyBot.xml says of Restart, at the 0 it is set to: the monitor restarts
\* crashed servers.
CrashedServersRestart == []<>(bat = "ended" \/ Hosting)
=============================================================================
