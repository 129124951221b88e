-------------------------- MODULE Lifecycle_proofs --------------------------
(***************************************************************************)
(* Batch file, bot and servers for any number of servers, crashes, faults  *)
(* and orders: what their three ways of looking at each other (a window, a *)
(* process handle, a file) guarantee together.                             *)
(***************************************************************************)
EXTENDS MCLifecycle, FiniteSetTheorems, TLAPS

Live == {s \in Servers : stage[s] # "none"}
Watching == {"open", "next", "setup", "host", "loop"}

\* Who owns what: the batch file waits while a bot runs, a bot has no server_proc
\* before it found a window.
Owner ==
  /\ bot # "none" => bat = "wait"
  /\ bot \in {"check", "create", "load"} => proc = Nobody
  /\ bat = "ended" => bot = "none"

\* Whoever is about to stop was asked to, and only he leaves stop_bot.
Asked ==
  /\ bot = "stop" \/ stopBot \/ bat = "ended" => asked
  /\ stopBot => bot = "none" /\ bat = "wait"

\* While no bot has left a loading server behind: a loading server is the one its
\* bot waits for; none lives while one is created or after one was killed to stop;
\* and the one the bot created is the one it watches and would kill.
Orderly ==
  /\ \A s \in Servers : stage[s] = "starting" => bot = "load" /\ s = made
  /\ bot \in {"create", "stop"} \/ stopBot \/ bat = "ended" => Live = {}
  /\ bot \in {"load"} \cup Watching => Live \subseteq {made}
  /\ bot \in Watching => proc = made /\ hwnd = made
  /\ \A s, t \in Live : s = t

\* The invariant the steps preserve.
IInv == TypeOK /\ Owner /\ Asked /\ (~early => Orderly)

mcVars == <<vars, asked, early, promised>>

\* The invariant holds before the batch file runs.
LEMMA InitIInv == MCInit => IInv
<1> SUFFICES ASSUME MCInit PROVE IInv
  OBVIOUS
<1> USE DEF MCInit, Init
<1>1. spent \in [DOMAIN Bounds -> Nat]
  BY DEF Bounds
<1>2. TypeOK
  BY <1>1 DEF TypeOK, Screens
<1>3. Owner /\ Asked
  BY DEF Owner, Asked
<1>4. Orderly
  BY DEF Orderly, Live, Watching
<1> QED BY <1>2, <1>3, <1>4 DEF IInv

----------------------------------------------------------------------------
\* Types.

\* The bounds stay numbers.
LEMMA SpendKeeps ==
  ASSUME TypeOK, NEW what \in {"crashes", "faults", "orders"}, Spend(what)
  PROVE  spent' \in [DOMAIN Bounds -> Nat]
  BY DEF TypeOK, Spend, Bounds

\* Servers with one of them killed are servers.
LEMMA KilledType ==
  ASSUME TypeOK, NEW s
  PROVE  Killed(s) \in [Servers -> {"none", "starting"} \cup Screens]
  BY DEF TypeOK, Killed

\* A push moves a server from one screen to another, or does nothing.
LEMMA PushMoves ==
  ASSUME TypeOK, NEW from \in SUBSET Screens, NEW to \in Screens, NEW done,
         PushUntil(from, to, done)
  PROVE  /\ stage' \in [Servers -> {"none", "starting"} \cup Screens]
         /\ \A s \in Servers : stage'[s] = stage[s] \/ (stage[s] \in Screens /\ stage'[s] \in Screens)
         /\ bot' \in {bot, done, "none"}
         /\ pushed' \in BOOLEAN
         /\ UNCHANGED <<made, proc, hwnd, config>>
<1> USE DEF TypeOK
<1>1. CASE UNCHANGED stage
  BY <1>1 DEF PushUntil, Goto, Exit
<1>2. ASSUME NEW w, stage' = [s \in Servers |-> IF s = w /\ stage[s] \in from THEN to ELSE stage[s]]
      PROVE  /\ stage' \in [Servers -> {"none", "starting"} \cup Screens]
             /\ \A s \in Servers : stage'[s] = stage[s]
                                     \/ (stage[s] \in Screens /\ stage'[s] \in Screens)
  BY <1>2
<1>3. bot' \in {bot, done, "none"} /\ pushed' \in BOOLEAN /\ UNCHANGED <<made, proc, hwnd, config>>
  BY DEF PushUntil, Goto, Exit
<1> QED BY <1>1, <1>2, <1>3 DEF PushUntil

\* Every step of batch file, bot and servers keeps the types, and who runs when.
LEMMA TypeStep == TypeOK /\ Owner /\ [Next]_vars => TypeOK' /\ Owner'
<1> SUFFICES ASSUME TypeOK, Owner, [Next]_vars PROVE TypeOK' /\ Owner'
  OBVIOUS
<1> USE DEF TypeOK, Owner
<1>1. CASE BatRuns
  BY <1>1 DEF BatRuns, Bounds
<1>2. CASE BatSeesExit
  BY <1>2 DEF BatSeesExit, botVars, Bounds
<1>3. CASE CheckAlive
  BY <1>3 DEF CheckAlive, Exit, Goto, Bounds
<1>4. ASSUME NEW s \in Servers, CreateServer(s) PROVE TypeOK' /\ Owner'
  BY <1>4 DEF CreateServer, Bounds
<1>5. ASSUME NEW w \in Servers, FindWindow(w) PROVE TypeOK' /\ Owner'
  BY <1>5 DEF FindWindow, Bounds
<1>6. CASE FindNone
  <2>1. spent' \in [DOMAIN Bounds -> Nat]
    BY <1>6 DEF FindNone, Bounds
  <2> QED BY <1>6, <2>1 DEF FindNone, Exit, Bounds
<1>7. CASE CreateFails
  <2>1. spent' \in [DOMAIN Bounds -> Nat]
    BY <1>7, SpendKeeps DEF CreateFails
  <2> QED BY <1>7, <2>1 DEF CreateFails, Exit, Bounds
<1>8. CASE OpenScreen
  BY <1>8 DEF OpenScreen, Exit, Bounds
<1>9. CASE NextScreen
  <2>1. PushUntil({"menu"}, "setup", "setup") /\ {"menu"} \in SUBSET Screens /\ "setup" \in Screens
    BY <1>9 DEF NextScreen, Screens
  <2> QED BY <1>9, <2>1, PushMoves DEF NextScreen, Bounds
<1>10. CASE SetupGui
  BY <1>10 DEF SetupGui, Exit, Bounds
<1>11. CASE Host
  <2>1. /\ PushUntil({"menu", "setup"}, "lobby", "loop")
        /\ {"menu", "setup"} \in SUBSET Screens /\ "lobby" \in Screens
    BY <1>11 DEF Host, Screens
  <2> QED BY <1>11, <2>1, PushMoves DEF Host, Bounds
<1>12. CASE LoopEnds
  BY <1>12 DEF LoopEnds, Exit, Bounds
<1>13. CASE WriteStop
  BY <1>13 DEF WriteStop, Exit, Bounds
<1>14. CASE Settings
  <2>1. spent' \in [DOMAIN Bounds -> Nat]
    BY <1>14, SpendKeeps DEF Settings
  <2> QED BY <1>14, <2>1 DEF Settings, InLobby, Bounds
<1>15. CASE Restart
  <2>1. spent' \in [DOMAIN Bounds -> Nat]
    BY <1>15, SpendKeeps DEF Restart
  <2> QED BY <1>15, <2>1, KilledType DEF Restart, InLobby, Goto, Exit, Bounds
<1>16. CASE Shutdown
  <2>1. spent' \in [DOMAIN Bounds -> Nat]
    BY <1>16, SpendKeeps DEF Shutdown
  <2> QED BY <1>16, <2>1, KilledType DEF Shutdown, StopServer, InLobby, Goto, Bounds
<1>17. CASE Interrupt
  <2>1. spent' \in [DOMAIN Bounds -> Nat]
    BY <1>17, SpendKeeps DEF Interrupt
  <2>2. {made, proc, hwnd} \subseteq Servers
    BY <1>17 DEF Interrupt
  <2> QED BY <1>17, <2>1, <2>2, KilledType DEF Interrupt, StopServer, Goto, Bounds
<1>18. CASE InterruptEarly
  <2>1. spent' \in [DOMAIN Bounds -> Nat]
    BY <1>18, SpendKeeps DEF InterruptEarly
  <2> QED BY <1>18, <2>1 DEF InterruptEarly, Exit, Bounds
<1>19. CASE BotCrashes
  <2>1. spent' \in [DOMAIN Bounds -> Nat]
    BY <1>19, SpendKeeps DEF BotCrashes
  <2> QED BY <1>19, <2>1 DEF BotCrashes, Exit, Bounds
<1>20. ASSUME NEW s \in Servers, ServerUp(s) PROVE TypeOK' /\ Owner'
  BY <1>20 DEF ServerUp, botVars, Bounds, Screens
<1>21. ASSUME NEW s \in Servers, ServerCrashes(s) PROVE TypeOK' /\ Owner'
  <2>1. spent' \in [DOMAIN Bounds -> Nat]
    BY <1>21, SpendKeeps DEF ServerCrashes
  <2> QED BY <1>21, <2>1, KilledType DEF ServerCrashes, botVars, Bounds
<1>22. CASE UNCHANGED vars
  BY <1>22 DEF vars, botVars, Bounds
<1> QED BY <1>1, <1>2, <1>3, <1>4, <1>5, <1>6, <1>7, <1>8, <1>9, <1>10, <1>11, <1>12, <1>13,
           <1>14, <1>15, <1>16, <1>17, <1>18, <1>19, <1>20, <1>21, <1>22 DEF Next, Bot

----------------------------------------------------------------------------
\* Who asked.  Only -shutdown and INT lead to "stop", and only from there the file
\* is written.
LEMMA StopIsAsked ==
  ASSUME Owner, Asked, [Next]_vars
  PROVE  /\ bot' = "stop" => bot = "stop" \/ Shutdown \/ Interrupt
         /\ stopBot' => stopBot \/ bot = "stop"
         /\ bat' = "ended" => bat = "ended" \/ stopBot
         /\ stopBot' => bot' = "none" /\ bat' = "wait"
<1> USE DEF Owner, Asked, Exit, Goto
<1>1. CASE Bot
  BY <1>1 DEF Bot, CheckAlive, CreateServer, FindWindow, FindNone, OpenScreen, NextScreen,
         SetupGui, Host, PushUntil, LoopEnds, WriteStop
<1>2. CASE ~Bot /\ Next
  BY <1>2 DEF Next, BatRuns, BatSeesExit, FindNone, CreateFails, Settings, Restart, InLobby,
         Shutdown, Interrupt, InterruptEarly, BotCrashes, ServerUp, ServerCrashes, botVars
<1>3. CASE UNCHANGED vars
  BY <1>3 DEF vars, botVars
<1> QED BY <1>1, <1>2, <1>3

\* A stop file comes from somebody who asked for a stop.
LEMMA AskedStep == Owner /\ Asked /\ [MCNext]_mcVars => Asked'
<1> SUFFICES ASSUME Owner, Asked, [MCNext]_mcVars PROVE Asked'
  OBVIOUS
<1>1. [Next]_vars
  BY DEF MCNext, mcVars
<1>2. asked \/ bot' = "stop" => asked'
  <2>1. CASE MCNext
    BY <2>1, Zenon DEF MCNext
  <2>2. CASE UNCHANGED mcVars
    BY <2>2 DEF mcVars, vars, botVars, Asked
  <2> QED BY <2>1, <2>2
<1> QED BY <1>1, <1>2, StopIsAsked DEF Asked

----------------------------------------------------------------------------
\* How many servers.

\* Servers that only end or move from screen to screen stay orderly.
LEMMA FewerStayOrderly ==
  ASSUME TypeOK, Orderly, UNCHANGED <<bot, made, proc, hwnd>>,
         stopBot' \/ bat' = "ended" => stopBot \/ bat = "ended",
         \A s \in Servers : \/ stage'[s] \in {stage[s], "none"}
                            \/ stage[s] # "none" /\ stage'[s] \in Screens
  PROVE  Orderly'
  BY DEF Orderly, Live, Watching, Screens

\* So they do when the bot goes on to where less is asked of it.
LEMMA MovesOn ==
  ASSUME TypeOK, Orderly, UNCHANGED <<made, proc, hwnd>>, bot \in Watching, bot' \in Watching,
         UNCHANGED <<stopBot, bat>>,
         \A s \in Servers : stage'[s] = stage[s] \/ (stage[s] \in Screens /\ stage'[s] \in Screens)
  PROVE  Orderly'
  BY DEF Orderly, Live, Watching, Screens

\* A bot that ends leaves at most its server, and that shows its window.
LEMMA ExitOrderly ==
  ASSUME TypeOK, Owner, Orderly, bot # "none", bot' = "none", UNCHANGED <<bat, made, proc, hwnd>>,
         stopBot' => stopBot \/ bot = "stop",
         \A s \in Servers : stage'[s] \in {stage[s], "none"} /\ stage'[s] # "starting"
  PROVE  Orderly'
  BY DEF Orderly, Owner, Live, Watching

\* While no bot leaves a loading server behind, every step keeps the order.
LEMMA OrderlyStep ==
  ASSUME TypeOK, Owner, Asked, Orderly, [Next]_vars,
         bot' = "none" => \A s \in Servers : stage'[s] # "starting"
  PROVE  Orderly'
<1> USE DEF TypeOK
<1>1. CASE BatRuns
  BY <1>1 DEF BatRuns, Owner, Asked, Orderly, Live, Watching
<1>2. CASE BatSeesExit
  BY <1>2 DEF BatSeesExit, botVars, Orderly, Live, Watching
<1>3. CASE CheckAlive
  <2>1. CASE Windows # {}
    BY <1>3, <2>1, ExitOrderly DEF CheckAlive, Exit
  <2>2. CASE Windows = {}
    <3>1. Live = {}
      BY <1>3, <2>2 DEF CheckAlive, Windows, Live, Orderly
    <3> QED BY <1>3, <2>2, <3>1 DEF CheckAlive, Goto, Orderly, Live, Watching
  <2> QED BY <2>1, <2>2
<1>4. ASSUME NEW s \in Servers, CreateServer(s) PROVE Orderly'
  <2>1. Live' = {s} /\ bot' = "load" /\ made' = s
    BY <1>4 DEF CreateServer, Orderly, Live
  <2>2. ~stopBot' /\ bat' # "ended"
    BY <1>4 DEF CreateServer, Owner, Asked
  <2> QED BY <1>4, <2>1, <2>2 DEF Orderly, Live, Watching
<1>5. ASSUME NEW w \in Servers, FindWindow(w) PROVE Orderly'
  <2>1. w = made /\ stage[made] # "starting"
    BY <1>5 DEF FindWindow, Windows, Screens, Orderly, Live
  <2>2. bot' = "open" /\ proc' = made' /\ hwnd' = made' /\ made' = made /\ Live' = Live
    BY <1>5, <2>1 DEF FindWindow, Live
  <2> QED BY <1>5, <2>1, <2>2 DEF FindWindow, Orderly, Live, Watching
<1>6. CASE FindNone \/ CreateFails
  BY <1>6, ExitOrderly DEF FindNone, CreateFails, Exit
<1>7. CASE OpenScreen
  <2>1. CASE Dead
    BY <1>7, <2>1, ExitOrderly DEF OpenScreen, Exit
  <2>2. CASE ~Dead
    BY <1>7, <2>2, MovesOn DEF OpenScreen, Watching
  <2> QED BY <2>1, <2>2
<1>8. ASSUME NEW from \in SUBSET Screens, NEW to \in Screens, NEW done \in Watching,
             bot \in Watching, PushUntil(from, to, done), UNCHANGED <<bat, stopBot>>
      PROVE  Orderly'
  <2>1. CASE bot' = "none"
    <3>1. UNCHANGED stage
      BY <1>8, <2>1 DEF PushUntil, Watching, Exit, Goto
    <3> QED BY <1>8, <2>1, <3>1, PushMoves, ExitOrderly DEF Watching
  <2>2. CASE bot' # "none"
    BY <1>8, <2>2, PushMoves, MovesOn
  <2> QED BY <2>1, <2>2
<1>9. CASE NextScreen
  <2>1. {"menu"} \in SUBSET Screens /\ "setup" \in Screens /\ "setup" \in Watching /\ bot \in Watching
    BY <1>9 DEF NextScreen, Screens, Watching
  <2> QED BY <1>8, <1>9, <2>1 DEF NextScreen
<1>10. CASE Host
  <2>1. {"menu", "setup"} \in SUBSET Screens /\ "lobby" \in Screens /\ "loop" \in Watching
          /\ bot \in Watching
    BY <1>10 DEF Host, Screens, Watching
  <2> QED BY <1>8, <1>10, <2>1 DEF Host
<1>11. CASE SetupGui
  <2>1. CASE Dead
    BY <1>11, <2>1, ExitOrderly DEF SetupGui, Exit
  <2>2. CASE ~Dead
    BY <1>11, <2>2, MovesOn DEF SetupGui, Watching
  <2> QED BY <2>1, <2>2
<1>12. CASE LoopEnds \/ InterruptEarly \/ BotCrashes
  BY <1>12, ExitOrderly DEF LoopEnds, InterruptEarly, BotCrashes, Exit
<1>13. CASE WriteStop
  BY <1>13 DEF WriteStop, Exit, Orderly, Live, Watching
<1>14. CASE Settings
  BY <1>14, MovesOn DEF Settings, InLobby, Watching
<1>15. CASE Restart
  <2>1. \A s \in Servers : stage'[s] \in {stage[s], "none"}
    BY <1>15 DEF Restart, Killed
  <2>2. CASE Goto("loop")
    BY <1>15, <2>1, <2>2, FewerStayOrderly DEF Restart, InLobby, Goto
  <2>3. CASE Exit
    BY <1>15, <2>1, <2>3, ExitOrderly DEF Restart, InLobby, Exit
  <2> QED BY <1>15, <2>2, <2>3 DEF Restart
<1>16. CASE Shutdown \/ Interrupt
  <2>1. Live \subseteq {proc} /\ proc \in Servers
    BY <1>16 DEF Shutdown, Interrupt, InLobby, Orderly, Owner, Watching
  <2>2. Live' = {}
    BY <1>16, <2>1 DEF Shutdown, Interrupt, StopServer, Killed, Live
  <2>3. bot' = "stop"
    BY <1>16 DEF Shutdown, Interrupt, Goto
  <2> QED BY <2>2, <2>3 DEF Orderly, Live, Watching
<1>17. ASSUME NEW s \in Servers, ServerUp(s) PROVE Orderly'
  BY <1>17, FewerStayOrderly DEF ServerUp, botVars, Screens
<1>18. ASSUME NEW s \in Servers, ServerCrashes(s) PROVE Orderly'
  BY <1>18, FewerStayOrderly DEF ServerCrashes, Killed, botVars
<1>19. CASE UNCHANGED vars
  BY <1>19, FewerStayOrderly DEF vars, botVars
<1> QED BY <1>1, <1>2, <1>3, <1>4, <1>5, <1>6, <1>7, <1>9, <1>10, <1>11, <1>12, <1>13, <1>14,
           <1>15, <1>16, <1>17, <1>18, <1>19 DEF Next, Bot

\* Every step keeps all of the invariant.
LEMMA NextIInv == IInv /\ [MCNext]_mcVars => IInv'
<1> SUFFICES ASSUME IInv, [MCNext]_mcVars PROVE IInv'
  OBVIOUS
<1>1. [Next]_vars
  BY DEF MCNext, mcVars
<1>2. TypeOK' /\ Owner' /\ Asked'
  BY <1>1, TypeStep, AskedStep DEF IInv
<1>3. ASSUME ~early' PROVE Orderly'
  <2>1. CASE MCNext
    <3>1. ~early /\ (bot' = "none" => \A s \in Servers : stage'[s] # "starting")
      BY <1>3, <2>1, Zenon DEF MCNext
    <3> QED BY <1>1, <3>1, OrderlyStep DEF IInv
  <2>2. CASE UNCHANGED mcVars
    <3>1. ~early /\ UNCHANGED vars
      BY <1>3, <2>2, Zenon DEF mcVars
    <3> QED BY <3>1, FewerStayOrderly DEF IInv, vars, botVars
  <2> QED BY <2>1, <2>2
<1> QED BY <1>2, <1>3 DEF IInv

\* So it holds at any time.
LEMMA IInvHolds == MCSpec => []IInv
  BY InitIInv, NextIInv, PTL DEF MCSpec, mcVars

----------------------------------------------------------------------------
\* The variables of the three processes keep their types; a bot past loading has
\* its server, its window and its server_proc.
THEOREM LifecycleTypeCorrect == MCSpec => []TypeOK
  BY IInvHolds, PTL DEF IInv

\* The batch file ends only after -shutdown, or INT to a bot with a server_proc.
THEOREM OnlyAskedStops == MCSpec => []StopsOnlyWhenAsked
<1>1. IInv => StopsOnlyWhenAsked
  BY DEF IInv, Asked, StopsOnlyWhenAsked
<1> QED BY <1>1, IInvHolds, PTL

\* However many servers could run, one does, unless a bot left one loading.
THEOREM OneServerAtATime == MCSpec => []OneServer
<1>1. IInv => OneServer
  <2> SUFFICES ASSUME IInv, ~early PROVE Cardinality(Live) <= 1
    BY DEF OneServer, Live
  <2>1. \A s, t \in Live : s = t
    BY DEF IInv, Orderly
  <2>2. CASE Live = {}
    BY <2>2, FS_EmptySet
  <2>3. CASE Live # {}
    <3>1. PICK s \in Live : TRUE
      BY <2>3
    <3>2. Live = {s}
      BY <2>1, <3>1
    <3>3. Cardinality(Live) = 1
      BY <3>2, FS_Singleton, Zenon
    <3> QED BY <3>3
  <2> QED BY <2>2, <2>3
<1> QED BY <1>1, IInvHolds, PTL

\* What a shutdown leaves running, when no bot left a server loading: nothing.
THEOREM ShutdownEndsClean == MCSpec => []EndsClean
<1>1. IInv => EndsClean
  BY DEF IInv, Orderly, Live, EndsClean
<1> QED BY <1>1, IInvHolds, PTL
=============================================================================
