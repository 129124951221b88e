------------------------------ MODULE Dispatch ------------------------------
(***************************************************************************)
(* The second half of the main loop (Events.pm do_events): compare the     *)
(* state of the game with what it was, tell the game cycle, fetch the new  *)
(* chat lines and handle them one by one.  One eval surrounds it all:      *)
(* whatever dies in a listener ends the round, and the lines of the round  *)
(* that were not reached are gone.  Only the body of a command has an eval *)
(* of its own (Plugins/Commands.pm).                                       *)
(*                                                                         *)
(* Beside the loop, the server starts and ends games, and players connect  *)
(* and type.                                                               *)
(***************************************************************************)
EXTENDS GameCycle

CONSTANTS Users,     \* player names
          Admins,    \* those listed in conf/Security.xml
          Paranoia,  \* whether administrators must -login
          Lines,     \* what may appear in the chat
          MaxLines, MaxGames, MaxFaults  \* bounds on the environment

\* The attributes of conf/Commands.xml the dispatcher looks at, and whether there
\* is a module to load: one command for each way a command can go.
Config ==
  "launch" :> [admin |-> TRUE,  inGame |-> FALSE, inLobby |-> TRUE,  loads |-> TRUE]  @@
  "stop"   :> [admin |-> TRUE,  inGame |-> TRUE,  inLobby |-> FALSE, loads |-> TRUE]  @@
  "next"   :> [admin |-> TRUE,  inGame |-> FALSE, inLobby |-> TRUE,  loads |-> TRUE]  @@
  "type"   :> [admin |-> TRUE,  inGame |-> FALSE, inLobby |-> TRUE,  loads |-> TRUE]  @@
  "drop"   :> [admin |-> TRUE,  inGame |-> FALSE, inLobby |-> TRUE,  loads |-> FALSE] @@
  "login"  :> [admin |-> FALSE, inGame |-> TRUE,  inLobby |-> TRUE,  loads |-> TRUE]
Commands == DOMAIN Config
Words    == Commands \cup {"connected", "joined", "chat", "unknown"}

ASSUME DispatchAssumption ==
  /\ Admins \subseteq Users /\ Paranoia \in BOOLEAN
  /\ Lines \subseteq [who : Users, word : Words]
  /\ {MaxLines, MaxGames, MaxFaults} \subseteq Nat

VARIABLES
  game,     \* the server shows a game (in_game)
  was,      \* was_in_game
  here,     \* players whose connection the server announced
  chat,     \* lines in the chat window past last_chatter
  batch,    \* lines new_chatter returned that are not handled yet
  said,     \* how many lines there were
  users,    \* names with a user record
  trusted,  \* users with is_authorized
  pc, why,  \* where do_events is, and what configure_game runs for
  spent     \* games started and faults so far

chatVars == <<chat, said, here>>
vars == <<cycleVars, game, was, chatVars, batch, users, trusted, pc, why, spent>>

Bounds == [games |-> MaxGames, faults |-> MaxFaults]
Spend(what) == spent[what] < Bounds[what] /\ spent' = [spent EXCEPT ![what] = @ + 1]

----------------------------------------------------------------------------
\* The server and the players (external).

GameStarts ==
  /\ ~game /\ game' = TRUE
  /\ Spend("games")
  /\ UNCHANGED <<cycleVars, was, chatVars, batch, users, trusted, pc, why>>

GameEnds ==
  /\ game /\ game' = FALSE
  /\ UNCHANGED <<cycleVars, was, chatVars, batch, users, trusted, pc, why, spent>>

\* A line appears.  Nobody types before his connection is announced.
Appears(line) ==
  /\ said < MaxLines /\ said' = said + 1
  /\ line.word = "connected" \/ line.who \in here
  /\ here' = here \cup {line.who}
  /\ chat' = Append(chat, [who |-> line.who, word |-> line.word, id |-> said + 1])
  /\ UNCHANGED <<cycleVars, game, was, batch, users, trusted, pc, why, spent>>

----------------------------------------------------------------------------
\* do_events before the chat.

\* Mutant: the flag is set before the listeners are told.
LookStop_FlagFirst ==
  /\ pc = "look" /\ was /\ ~game
  /\ pc' = "config" /\ why' = "stop" /\ Start /\ was' = FALSE
  /\ UNCHANGED <<game, chatVars, batch, users, trusted, spent>>

\* The game is over: game_stop, which GameCycle listens to.
LookStop ==
  /\ pc = "look" /\ was /\ ~game
  /\ pc' = "config" /\ why' = "stop" /\ Start
  /\ UNCHANGED <<game, was, chatVars, batch, users, trusted, spent>>

\* A game began, or nothing changed.
Look ==
  /\ pc = "look" /\ (was => game)
  /\ was' = game /\ pc' = "fetch"
  /\ UNCHANGED <<cycleVars, game, chatVars, batch, users, trusted, why, spent>>

ConfigSelects ==
  /\ pc = "config" /\ Select
  /\ UNCHANGED <<game, was, chatVars, batch, users, trusted, pc, why, spent>>

\* Mutant: nothing catches what dies under game_stop.
ConfigFails_Uncaught ==
  /\ pc = "config" /\ Fails
  /\ Spend("faults")
  /\ pc' = IF why = "stop" THEN "ended" ELSE "lines"
  /\ UNCHANGED <<game, was, chatVars, batch, users, trusted, why>>

\* Under game_stop the round dies before the flag is set; under -next the command's
\* eval takes it and the next line is handled.
ConfigFails ==
  /\ pc = "config" /\ Fails
  /\ Spend("faults")
  /\ pc' = IF why = "stop" THEN "look" ELSE "lines"
  /\ UNCHANGED <<game, was, chatVars, batch, users, trusted, why>>

\* was_in_game takes the value read before configure_game slept.
ConfigDone ==
  /\ pc = "config" /\ Advance
  /\ IF why = "stop" THEN was' = FALSE /\ pc' = "fetch" ELSE pc' = "lines" /\ UNCHANGED was
  /\ UNCHANGED <<game, chatVars, batch, users, trusted, why, spent>>

----------------------------------------------------------------------------
\* do_events over the new lines.

Fetch ==
  /\ pc = "fetch"
  /\ batch' = chat /\ chat' = <<>> /\ pc' = "lines"
  /\ UNCHANGED <<cycleVars, game, was, said, here, users, trusted, why, spent>>

\* Mutant: what was not reached stays new.
Round_Retries == batch' = <<>> /\ chat' = batch \o chat /\ pc' = "look" /\ UNCHANGED <<said, here>>

\* Something died: the round is over, and so are its lines.
RoundDies == batch' = <<>> /\ pc' = "look" /\ UNCHANGED chatVars
LineDone  == batch' = Tail(batch) /\ pc' = "lines" /\ UNCHANGED chatVars
Line(word) == pc = "lines" /\ batch # <<>> /\ Head(batch).word \in word
Who == Head(batch).who

\* player_connect: connect_user makes a record, and dies on a name that has one.
HearConnected ==
  /\ Line({"connected"})
  /\ IF Who \in users THEN RoundDies /\ UNCHANGED users
                      ELSE LineDone /\ users' = users \cup {Who}
  /\ UNCHANGED <<cycleVars, game, was, trusted, why, spent>>

\* "<name> has joined" counts in the record there should be.
HearJoined ==
  /\ Line({"joined"})
  /\ IF Who \in users THEN LineDone ELSE RoundDies
  /\ UNCHANGED <<cycleVars, game, was, users, trusted, why, spent>>

\* Talk, and commands that are not configured.
HearOther ==
  /\ Line({"chat", "unknown"}) /\ LineDone
  /\ UNCHANGED <<cycleVars, game, was, users, trusted, why, spent>>

GateOpen(word) == IF game THEN Config[word].inGame ELSE Config[word].inLobby
Allowed(u, word) ==
  Config[word].admin => u \in Admins /\ (Paranoia => u \in trusted)

\* Refused because of the game; else denied, or configured but not there.  A user
\* without a record dies between the gate and the permission.
Refuse ==
  /\ Line(Commands)
  /\ LET word == Head(batch).word IN
       \/ ~GateOpen(word) /\ LineDone
       \/ GateOpen(word) /\ Who \notin users /\ RoundDies
       \/ /\ GateOpen(word) /\ Who \in users
          /\ ~Allowed(Who, word) \/ ~Config[word].loads
          /\ LineDone
  /\ UNCHANGED <<cycleVars, game, was, users, trusted, why, spent>>

Accept ==
  /\ Line(Commands)
  /\ Who \in users /\ GateOpen(Head(batch).word)
  /\ Allowed(Who, Head(batch).word) /\ Config[Head(batch).word].loads
  /\ pc' = "execute"
  /\ UNCHANGED <<cycleVars, game, was, chatVars, batch, users, trusted, why, spent>>

Executing(word) == pc = "execute" /\ Head(batch).word = word

\* LAUNCH and STOP are pushed; the server follows at once or later.
Launch ==
  /\ Executing("launch") /\ LineDone
  /\ \/ game' = TRUE /\ (IF game THEN UNCHANGED spent ELSE Spend("games"))
     \/ UNCHANGED <<game, spent>>
  /\ UNCHANGED <<cycleVars, was, users, trusted, why>>

Stop ==
  /\ Executing("stop") /\ LineDone
  /\ game' \in {game, FALSE}
  /\ UNCHANGED <<cycleVars, was, users, trusted, why, spent>>

\* -next raises game_next, which configures the lobby as a stop does.
NextGame ==
  /\ Executing("next")
  /\ pc' = "config" /\ why' = "next" /\ Start
  /\ batch' = Tail(batch)
  /\ UNCHANGED <<game, was, chatVars, users, trusted, spent>>

\* -type, for every command that sets one setting: the control takes the value.
SetType ==
  /\ Executing("type") /\ LineDone
  /\ lobby' = With("type", ByHand)
  /\ UNCHANGED <<cyclePos, step, game, was, users, trusted, why, spent>>

\* -login with a token of the web shell (external) that is the user's and fresh.
Login ==
  /\ Executing("login") /\ LineDone
  /\ trusted' \in {trusted, trusted \cup {Who}}
  /\ UNCHANGED <<cycleVars, game, was, users, why, spent>>

\* The lines are handled, the loop sleeps and starts over.
Sleep ==
  /\ pc = "lines" /\ batch = <<>>
  /\ pc' = "look"
  /\ UNCHANGED <<cycleVars, game, was, chatVars, batch, users, trusted, why, spent>>

Bot ==
  \/ LookStop \/ Look \/ ConfigSelects \/ ConfigDone \/ Fetch
  \/ HearConnected \/ HearJoined \/ HearOther \/ Refuse \/ Accept
  \/ Launch \/ Stop \/ NextGame \/ SetType \/ Login \/ Sleep

----------------------------------------------------------------------------
Init ==
  /\ CycleInit
  /\ game = FALSE /\ was = FALSE
  /\ here = {} /\ chat = <<>> /\ batch = <<>> /\ said = 0
  /\ users = {} /\ trusted = {}
  /\ pc = "look" /\ why = "stop"
  /\ spent = [games |-> 0, faults |-> 0]

Next ==
  \/ GameStarts \/ GameEnds \/ \E line \in Lines : Appears(line)
  \/ ConfigFails \/ Bot

Spec == Init /\ [][Next]_vars

\* The loop goes on: a round that dies is caught, and the server stays up.
FairSpec == Spec /\ WF_vars(Bot)

----------------------------------------------------------------------------
ChatLine == [who : Users, word : Words, id : 1..MaxLines]

TypeOK ==
  /\ CycleTypeOK
  /\ game \in BOOLEAN /\ was \in BOOLEAN
  /\ users \subseteq Users /\ trusted \subseteq Users /\ here \subseteq Users
  /\ chat \in Seq(ChatLine) /\ batch \in Seq(ChatLine)
  /\ said \in 0..MaxLines
  /\ pc \in {"look", "config", "fetch", "lines", "execute"}
  /\ why \in {"stop", "next"}
  /\ spent \in [DOMAIN Bounds -> Nat]
=============================================================================
