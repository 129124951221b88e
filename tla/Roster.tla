------------------------------- MODULE Roster -------------------------------
(***************************************************************************)
(* How the bot learns who sits in the lobby, and how it acts on it.        *)
(*                                                                         *)
(* Three parties share the lobby's player list.  The players join and      *)
(* leave.  The watcher thread (GUI/Watcher.pm) reads the list box row by   *)
(* row, writes what it read to tmp/player_info.$hwnd and then stamps       *)
(* $last_update.  The bot's main loop (Events.pm watch_loop) compares the  *)
(* stamp with its own, reads and unlinks the file, refreshes its user      *)
(* records, and lets Autobot and KickBan serve one kind of pending order.  *)
(*                                                                         *)
(* The clock only matters through comparisons of equal seconds, so the     *)
(* three times  seen <= stamp <= now  are kept as the two facts            *)
(* seen = stamp and stamp = now.                                           *)
(***************************************************************************)
EXTENDS Integers, SequencesExt

CONSTANTS Players,    \* names that may appear in the player list
          Robots,     \* those the server plays itself: their row shows (BL:n)
          OddCBills,  \* those whose C-bills figure ends in a non-zero digit
          KickNames, TeamNames, MechNames,  \* the names that orders give
          Budgets  \* bounds: joins, leaves, orders, and faults (list reads and
                   \* writes that fail, torn files met), together in one run

Kinds == {"joins", "leaves", "orders", "faults"}

ASSUME RosterAssumption ==
  /\ Robots \subseteq Players
  /\ OddCBills \subseteq Players
  /\ KickNames \cup TeamNames \cup MechNames \subseteq Players
  /\ Budgets \subseteq [Kinds -> Nat]

VARIABLES
  lobby,        \* the list box: the names in it, top row first (external)
  chat,         \* "<name> has connected" lines the bot has not fetched
  wpc, part,    \* watcher: where it is, and the names read so far
  rows,         \* watcher: the list as far as its other columns were read
  file,         \* tmp/player_info.$hwnd
  seenIsStamp,  \* bot's last_update = Watcher's $last_update
  stampIsNow,   \* Watcher's $last_update = time
  bpc,          \* main loop: where it is
  json,         \* %json: the last list the bot read from the file
  users,        \* the bot's user records, by name
  kicks, teams, mechs,  \* pending_kicks, pending_{team,mech}_assignments
  served,       \* loop index of Autobot's foreach over mechs
  batch,        \* chat lines being processed by do_events
  click,        \* what the bot's last step pressed in the lobby window
  left          \* what is left of the bounds of this run

lobbyVars   == <<lobby, chat>>
watcherVars == <<wpc, part, rows>>
orderVars   == <<kicks, teams, mechs, served>>
botVars     == <<bpc, json, users, kicks, teams, mechs, served, batch, click>>
vars == <<lobby, chat, wpc, part, rows, file, seenIsStamp, stampIsNow, botVars, left>>

----------------------------------------------------------------------------
NoClick == [what |-> "none", row |-> -1]
Spend(what) == left[what] > 0 /\ left' = [left EXCEPT ![what] = @ - 1]

\* Mutant: the bot flag is only there when it is set.
NewUser_NoFlag == [pos |-> -1, conn |-> FALSE]

\* FancyBot::User->new as connect_user calls it for a name from the chat.
NewUser == [pos |-> -1, conn |-> FALSE, bot |-> FALSE]
Known   == DOMAIN users
Names(list) == {list[i].name : i \in DOMAIN list}

\* %players of parse_player_list: the last row with a name wins; rows count from 0.
RowOf(list, p) == Max({i \in DOMAIN list : list[i].name = p}) - 1

----------------------------------------------------------------------------
\* The players.

\* A player enters the lobby; the server announces it in the chat.
Join(p) ==
  /\ ~Contains(lobby, p)
  /\ Spend("joins")
  /\ lobby' = Append(lobby, p)
  /\ chat' = Append(chat, p)
  /\ UNCHANGED <<watcherVars, file, seenIsStamp, stampIsNow, botVars>>

\* A player leaves; the rows below move up.
Leave(p) ==
  /\ Spend("leaves")
  /\ \E i \in DOMAIN lobby : lobby[i] = p /\ lobby' = RemoveAt(lobby, i)
  /\ UNCHANGED <<chat, watcherVars, file, seenIsStamp, stampIsNow, botVars>>

\* A second passes.
Tick ==
  /\ stampIsNow
  /\ stampIsNow' = FALSE
  /\ UNCHANGED <<lobbyVars, watcherVars, file, seenIsStamp, botVars, left>>

----------------------------------------------------------------------------
\* The watcher thread.

Restart == wpc' = "names" /\ part' = <<>> /\ rows' = <<>>

\* GetListContents fetches cell after cell, column by column: first the names, ...
ScanName ==
  /\ wpc = "names"
  /\ IF Len(part) < Len(lobby)
       THEN part' = Append(part, lobby[Len(part) + 1]) /\ UNCHANGED wpc
       ELSE wpc' = "bills" /\ UNCHANGED part
  /\ UNCHANGED <<lobbyVars, rows, file, seenIsStamp, stampIsNow, botVars, left>>

\* ... then tonnage and C-bills.  A name whose row is gone by now has blank cells
\* there, and parse_player_list will return nothing; otherwise the name is paired
\* with the figures its row has now.
ScanBills ==
  /\ wpc = "bills"
  /\ IF Len(part) <= Len(lobby)
       THEN /\ rows' = [i \in DOMAIN part |-> [name |-> part[i], team |-> FALSE, bot |-> lobby[i] \in OddCBills]]
            /\ wpc' = "teams" /\ part' = <<>>
       ELSE Restart
  /\ UNCHANGED <<lobbyVars, file, seenIsStamp, stampIsNow, botVars, left>>

\* The team column comes last, and a blank team is taken like any other.
ScanTeams ==
  /\ wpc = "teams" /\ wpc' = "write"
  /\ rows' = [i \in DOMAIN rows |->
                IF i <= Len(lobby)
                  THEN [rows[i] EXCEPT !.team = TRUE, !.bot = @ \/ lobby[i] \in Robots]
                  ELSE rows[i]]
  /\ UNCHANGED <<lobbyVars, part, file, seenIsStamp, stampIsNow, botVars, left>>

\* GetListContents dies inside the eval: the list is empty, which parses.
ScanFails ==
  /\ wpc \in {"names", "bills", "teams"}
  /\ Spend("faults")
  /\ wpc' = "write" /\ part' = <<>> /\ rows' = <<>>
  /\ UNCHANGED <<lobbyVars, file, seenIsStamp, stampIsNow, botVars>>

\* write_file truncates the file before it fills it.
WriteOpens ==
  /\ wpc = "write"
  /\ file' = [state |-> "torn", list |-> <<>>]
  /\ wpc' = "fill"
  /\ UNCHANGED <<lobbyVars, part, rows, seenIsStamp, stampIsNow, botVars, left>>

WriteFills ==
  /\ wpc = "fill"
  /\ file' = [state |-> "whole", list |-> rows]
  /\ wpc' = "stamp"
  /\ UNCHANGED <<lobbyVars, part, rows, seenIsStamp, stampIsNow, botVars, left>>

\* write_file dies: a warning, no stamp, and the loop goes round.
WriteFails ==
  /\ wpc = "write"
  /\ Spend("faults")
  /\ Restart
  /\ UNCHANGED <<lobbyVars, file, seenIsStamp, stampIsNow, botVars>>

\* $last_update = time: within one second the stamp keeps its value.
Stamp ==
  /\ wpc = "stamp"
  /\ stampIsNow' = TRUE
  /\ seenIsStamp' = (seenIsStamp /\ stampIsNow)
  /\ Restart
  /\ UNCHANGED <<lobbyVars, file, botVars, left>>

Watcher == ScanName \/ ScanBills \/ ScanTeams \/ WriteOpens \/ WriteFills \/ Stamp

----------------------------------------------------------------------------
\* The main loop: update_player_info.

\* Nothing new since the last update.
NothingNew ==
  /\ bpc = "update" /\ seenIsStamp
  /\ bpc' = "poll" /\ click' = NoClick
  /\ UNCHANGED <<lobbyVars, watcherVars, file, seenIsStamp, stampIsNow, json, users,
                 orderVars, batch, left>>

\* from_json dies on a half-written file, and leaves it there.
ReadTorn ==
  /\ bpc = "update" /\ ~seenIsStamp /\ file.state = "torn"
  /\ Spend("faults")
  /\ bpc' = "poll" /\ click' = NoClick
  /\ UNCHANGED <<lobbyVars, watcherVars, file, seenIsStamp, stampIsNow, json, users,
                 orderVars, batch>>

\* player_info: the file if there is one, else what was cached from it.
ReadInfo ==
  /\ bpc = "update"
  /\ ~seenIsStamp /\ file.state # "torn"
  /\ IF file.state = "whole" THEN json' = file.list /\ bpc' = "unlink"
                             ELSE bpc' = "apply" /\ UNCHANGED json
  /\ click' = NoClick
  /\ UNCHANGED <<lobbyVars, watcherVars, file, seenIsStamp, stampIsNow, users,
                 orderVars, batch, left>>

\* unlink fails on a file the watcher has open, and takes a newer one unread.
UnlinkInfo ==
  /\ bpc = "unlink"
  /\ file' = IF file.state = "torn" THEN file ELSE [state |-> "absent", list |-> <<>>]
  /\ bpc' = "apply"
  /\ UNCHANGED <<lobbyVars, watcherVars, seenIsStamp, stampIsNow, json, users,
                 orderVars, batch, click, left>>

\* What a list says of a user who is on it.
RecordIn(info, p) ==
  [pos |-> RowOf(info, p), conn |-> TRUE, bot |-> info[RowOf(info, p) + 1].bot]

\* Mutant: only the listed users are touched.
Refreshed_NoDisconnect(info) ==
  [p \in Known |-> IF p \in Names(info) THEN RecordIn(info, p) ELSE users[p]]

\* Mutant: once a bot, always a bot.
Refreshed_KeepsFlag(info) ==
  [p \in Known |->
     IF p \in Names(info)
       THEN [RecordIn(info, p) EXCEPT !.bot = @ \/ users[p].bot]
       ELSE [users[p] EXCEPT !.conn = FALSE]]

\* The user records after the list `info': listed users get their row, the
\* others are marked disconnected and keep theirs; unknown names are skipped.
Refreshed(info) ==
  [p \in Known |->
     IF p \in Names(info) THEN RecordIn(info, p) ELSE [users[p] EXCEPT !.conn = FALSE]]

\* The users whose team the list leaves blank, which User does not take for an Int.
Teamless(info) == {p \in Known \cap Names(info) : ~info[RowOf(info, p) + 1].team}

\* Mutant: Autobot cancels the event even when it had nothing to assign.
NextListener_AlwaysCancels ==
  IF teams # <<>> THEN "teams" ELSE IF mechs # <<>> THEN "mechs" ELSE "poll"

\* player_info_updated goes to Autobot (teams before mechs), and to KickBan only
\* when Autobot left the list alone.
NextListener ==
  IF teams # <<>> THEN "teams" ELSE IF mechs # <<>> THEN "mechs" ELSE "kick"

\* Refresh the records, adopt the stamp the watcher has by now, and raise the event.
ApplyInfo ==
  /\ bpc = "apply" /\ Teamless(json) = {}
  /\ users' = Refreshed(json)
  /\ seenIsStamp' = TRUE
  /\ bpc' = NextListener
  /\ served' = 0
  /\ UNCHANGED <<lobbyVars, watcherVars, file, stampIsNow, json, kicks, teams, mechs,
                 batch, click, left>>

\* What a refresh that dies leaves: `done' were refreshed, p up to his team.
Broken(p, done) ==
  [q \in Known |->
     CASE q \in done -> RecordIn(json, q)
       [] q = p     -> [RecordIn(json, q) EXCEPT !.conn = users[q].conn]
       [] OTHER     -> users[q]]

\* Whom it may have come to before, as it takes the users in any order.
Reached == SUBSET ((Known \cap Names(json)) \ Teamless(json))

\* Mutant: the stamp is adopted before the records are refreshed.
ApplyDies_Adopts ==
  /\ bpc = "apply"
  /\ \E p \in Teamless(json) : \E done \in Reached : users' = Broken(p, done)
  /\ seenIsStamp' = TRUE
  /\ bpc' = "poll"
  /\ UNCHANGED <<lobbyVars, watcherVars, file, stampIsNow, json, orderVars, batch, click, left>>

\* A user without a team ends the update, after his row and his bot flag are set:
\* those it has not come to, those who are gone, the stamp and the event have to
\* wait for the next round.
ApplyDies ==
  /\ bpc = "apply"
  /\ \E p \in Teamless(json) : \E done \in Reached : users' = Broken(p, done)
  /\ bpc' = "poll"
  /\ UNCHANGED <<lobbyVars, watcherVars, file, seenIsStamp, stampIsNow, json, orderVars,
                 batch, click, left>>

\* Mutant: presses the button of the position, as is done for mechs.
ServeTeam_FromZero ==
  /\ bpc = "teams"
  /\ LET p  == Head(teams)
         ok == p \in Known /\ users[p].pos > 0
     IN /\ click' = IF ok THEN [what |-> "team", who |-> p, row |-> users[p].pos - 1] ELSE NoClick
        /\ bpc' = IF ok /\ Len(teams) > 1 THEN "teams" ELSE "poll"
  /\ teams' = Tail(teams)
  /\ UNCHANGED <<lobbyVars, watcherVars, file, seenIsStamp, stampIsNow, json, users,
                 kicks, mechs, served, batch, left>>

\* Autobot, teams first: every pending one, and the event is cancelled.  An
\* unknown user or a row without a button dies and ends the update.
ServeTeam ==
  /\ bpc = "teams"
  /\ LET p  == Head(teams)
         ok == p \in Known /\ users[p].pos + 1 > 0
     IN /\ click' = IF ok THEN [what |-> "team", who |-> p, row |-> users[p].pos] ELSE NoClick
        /\ bpc' = IF ok /\ Len(teams) > 1 THEN "teams" ELSE "poll"
  /\ teams' = Tail(teams)
  /\ UNCHANGED <<lobbyVars, watcherVars, file, seenIsStamp, stampIsNow, json, users,
                 kicks, mechs, served, batch, left>>

\* Autobot, mechs: a foreach over the list it shifts from, so its index meets
\* the shrinking length half way.  Button NN belongs to row NN - 1.
ServeMech ==
  /\ bpc = "mechs"
  /\ LET p  == Head(mechs)
         ok == p \in Known /\ users[p].pos > 0
     IN /\ click' = IF ok THEN [what |-> "mech", who |-> p, row |-> users[p].pos - 1]
                          ELSE NoClick
        /\ IF ok /\ served + 1 < Len(mechs) - 1
             THEN bpc' = "mechs" /\ served' = served + 1
             ELSE bpc' = "poll" /\ served' = 0
  /\ mechs' = Tail(mechs)
  /\ UNCHANGED <<lobbyVars, watcherVars, file, seenIsStamp, stampIsNow, json, users,
                 kicks, teams, batch, left>>

NothingToServe ==
  /\ bpc = "kick" /\ kicks = <<>>
  /\ bpc' = "poll"
  /\ UNCHANGED <<lobbyVars, watcherVars, file, seenIsStamp, stampIsNow, json, users,
                 orderVars, batch, click, left>>

\* Mutant: positions taken for row numbers from 1, as the buttons are.
Downs_FromOne(p) == users[p].pos

\* DOWN is sent position + 1 times, which reaches that row from above the list.
Downs(p) == users[p].pos + 1

\* The list box under DOWN x n, ENTER (external): the row reached goes.  Without
\* a DOWN none is reached; past its end the last one or none.
AfterDowns(n) ==
  IF n <= 0 THEN {lobby}
  ELSE IF n <= Len(lobby) THEN {RemoveAt(lobby, n)}
  ELSE {lobby} \cup (IF lobby = <<>> THEN {} ELSE {Front(lobby)})

\* kick_a_player: one pending kick; a bot's record is deleted with it.  An
\* unknown name dies after the shift.
KickPlayer ==
  /\ bpc = "kick" /\ kicks # <<>>
  /\ LET p == Head(kicks) IN
       IF p \in Known
         THEN /\ lobby' \in AfterDowns(Downs(p))
              /\ click' = [what |-> "kick", who |-> p, row |-> users[p].pos]
              /\ users' = IF users[p].bot THEN Restrict(users, Known \ {p}) ELSE users
         ELSE UNCHANGED <<lobby, click, users>>
  /\ kicks' = Tail(kicks)
  /\ bpc' = "poll"
  /\ UNCHANGED <<chat, watcherVars, file, seenIsStamp, stampIsNow, json, teams, mechs,
                 served, batch, left>>

----------------------------------------------------------------------------
\* The main loop: do_events.

\* new_chatter: the batch of lines since the last call.
PollChat ==
  /\ bpc = "poll"
  /\ batch' = chat /\ chat' = <<>>
  /\ bpc' = "events" /\ click' = NoClick
  /\ UNCHANGED <<lobby, watcherVars, file, seenIsStamp, stampIsNow, json, users,
                 orderVars, left>>

\* player_connect: a new name gets a record and is connected.  For a known one
\* connect_user calls a method User does not have: do_events dies, and the rest
\* of the batch with it.
HearConnect ==
  /\ bpc = "events" /\ batch # <<>>
  /\ LET p == Head(batch) IN
       IF p \in Known
         THEN batch' = <<>> /\ bpc' = "update" /\ UNCHANGED users
         ELSE /\ users' = [q \in Known \cup {p} |->
                            IF q = p THEN [NewUser EXCEPT !.conn = TRUE] ELSE users[q]]
              /\ batch' = Tail(batch) /\ UNCHANGED bpc
  /\ UNCHANGED <<lobbyVars, watcherVars, file, seenIsStamp, stampIsNow, json,
                 orderVars, click, left>>

\* -kick: refused for a user who is neither a bot nor connected.
OrderKick(p) ==
  /\ bpc = "events" /\ p \in Known
  /\ users[p].bot \/ users[p].conn
  /\ Spend("orders")
  /\ kicks' = Append(kicks, p)
  /\ UNCHANGED <<lobbyVars, watcherVars, file, seenIsStamp, stampIsNow, bpc, json, users,
                 teams, mechs, served, batch, click>>

\* -bot-assign-team and -bot-assign-mech: any name is queued.
OrderTeam(p) ==
  /\ bpc = "events"
  /\ Spend("orders")
  /\ teams' = Append(teams, p)
  /\ UNCHANGED <<lobbyVars, watcherVars, file, seenIsStamp, stampIsNow, bpc, json, users,
                 kicks, mechs, served, batch, click>>

OrderMech(p) ==
  /\ bpc = "events"
  /\ Spend("orders")
  /\ mechs' = Append(mechs, p)
  /\ UNCHANGED <<lobbyVars, watcherVars, file, seenIsStamp, stampIsNow, bpc, json, users,
                 kicks, teams, served, batch, click>>

\* The batch is done, the loop sleeps and starts over.
Sleep ==
  /\ bpc = "events" /\ batch = <<>>
  /\ bpc' = "update"
  /\ UNCHANGED <<lobbyVars, watcherVars, file, seenIsStamp, stampIsNow, json, users,
                 orderVars, batch, click, left>>

Bot == \/ NothingNew \/ ReadInfo \/ UnlinkInfo \/ ApplyInfo \/ ApplyDies
       \/ ServeTeam \/ ServeMech \/ NothingToServe \/ KickPlayer
       \/ PollChat \/ HearConnect \/ Sleep

----------------------------------------------------------------------------
Init ==
  /\ lobby = <<>> /\ chat = <<>>
  /\ wpc = "names" /\ part = <<>> /\ rows = <<>>
  /\ file = [state |-> "absent", list |-> <<>>]
  /\ seenIsStamp = TRUE /\ stampIsNow = FALSE
  /\ bpc = "update" /\ json = <<>> /\ users = [p \in {} |-> NewUser]
  /\ kicks = <<>> /\ teams = <<>> /\ mechs = <<>> /\ served = 0
  /\ batch = <<>> /\ click = NoClick
  /\ left \in Budgets

Next ==
  \/ \E p \in Players : Join(p) \/ Leave(p)
  \/ \E p \in KickNames : OrderKick(p)
  \/ \E p \in TeamNames : OrderTeam(p)
  \/ \E p \in MechNames : OrderMech(p)
  \/ Tick
  \/ Watcher \/ ScanFails \/ WriteFails \/ ReadTorn
  \/ Bot

Spec == Init /\ [][Next]_vars

\* Both threads keep running and time passes.  What may go wrong, a failing list
\* read or write or a file met half written, goes wrong only so often:
\* after that the bot reads the file in one of the gaps between two writes.
Fairness == WF_vars(Watcher) /\ WF_vars(Bot) /\ WF_vars(Tick) /\ SF_vars(ReadInfo)
FairSpec == Spec /\ Fairness

----------------------------------------------------------------------------
Position == Nat \cup {-1}
User == [pos : Position, conn : BOOLEAN, bot : BOOLEAN]
Row  == [name : Players, team : BOOLEAN, bot : BOOLEAN]

TypeOK ==
  /\ lobby \in Seq(Players) /\ IsInjective(lobby)
  /\ chat \in Seq(Players) /\ batch \in Seq(Players) /\ part \in Seq(Players)
  /\ kicks \in Seq(Players) /\ teams \in Seq(Players) /\ mechs \in Seq(Players)
  /\ wpc \in {"names", "bills", "teams", "write", "fill", "stamp"}
  /\ rows \in Seq(Row) /\ json \in Seq(Row)
  /\ file \in [state : {"absent", "torn", "whole"}, list : Seq(Row)]
  /\ seenIsStamp \in BOOLEAN /\ stampIsNow \in BOOLEAN
  /\ bpc \in {"update", "unlink", "apply", "teams", "mechs", "kick", "poll", "events"}
  /\ Known \subseteq Players /\ users \in [Known -> User]
  /\ served \in Nat
  /\ click = NoClick \/ click \in [what : {"kick", "team", "mech"}, who : Players, row : Position]
  /\ left \in [Kinds -> Nat]

\* Where the records are due to show one list and nothing of another: while the bot
\* has adopted the watcher's stamp, while it serves orders, and outside an update
\* whenever the last list read has no blank team.
Settled ==
  \/ seenIsStamp
  \/ bpc \in {"teams", "mechs", "kick"}
  \/ bpc \notin {"unlink", "apply"} /\ \A i \in DOMAIN json : json[i].team

\* Two users the bot takes for connected then never share a row, however the list
\* changed while it was read, whoever joined, left or was kicked, and however many
\* updates died half way before (update_player_info, connect_user, delete_user).
DistinctRows ==
  Settled => \A p, q \in Known : p # q /\ users[p].conn /\ users[q].conn /\ users[p].pos >= 0
                                => users[p].pos # users[q].pos

\* ... and the records are those of the last list read: its users are connected,
\* and who is connected and has a row has the one, and the bot flag, of the list.
\* What a dying update, a failed read, a torn file or a lost batch of chat left
\* undone has been made up for (player_info, update_player_info).
RecordsFollowList ==
  Settled => \A p \in Known :
    /\ p \in Names(json) => users[p].conn
    /\ users[p].conn /\ users[p].pos >= 0 =>
         /\ p \in Names(json) /\ users[p].pos = RowOf(json, p)
         /\ users[p].bot = json[users[p].pos + 1].bot

\* When the list the bot last read is the lobby as it is, a kick of a connected
\* user removes that user and nobody else (prepare_player_kick, kick_player).
InSync == [i \in DOMAIN json |-> json[i].name] = lobby
KickHitsWhenInSync ==
  [][\A p \in Known : KickPlayer /\ p = Head(kicks) /\ InSync /\ users[p].conn
       => \E i \in DOMAIN lobby : lobby[i] = p /\ lobby' = RemoveAt(lobby, i)]_vars

\* In the same case the team button pressed is the one on that user's row: rows
\* count from 0 and the buttons from 1 (select_team_for, which waits in a queue).
TeamsHitWhenInSync ==
  [][ServeTeam /\ InSync /\ click' # NoClick /\ users[click'.who].conn
       => click'.row + 1 \in DOMAIN lobby /\ lobby[click'.row + 1] = click'.who]_vars

\* Once the players come to rest, so does the bot's picture of them: who is in
\* the lobby, on which row, and whose row says bot (watcher loop, last_update
\* re-read after the file, file unlinked after the read).
PictureIsRight ==
  \A p \in Known :
    IF Contains(lobby, p)
      THEN users[p] = [pos |-> SelectInSeq(lobby, LAMBDA q : q = p) - 1, conn |-> TRUE,
                    bot |-> p \in Robots \cup OddCBills]
      ELSE ~users[p].conn
Converges == <>[]PictureIsRight

\* Every order is carried out or dropped in the end: assignments take every
\* update they want and half of the mechs wait for the next one, but the kicks
\* behind them are reached (Autobot and KickBan listeners).
OrdersServed == []<>(kicks = <<>> /\ teams = <<>> /\ mechs = <<>>)

\* What Commands.xml says of -kick: it kicks the specified player.  Stated for
\* the easiest case, a list that is up to date.
KickHitsNamedPlayer ==
  [][\A p \in Known : KickPlayer /\ p = Head(kicks) /\ InSync
       => Range(lobby) \ Range(lobby') \subseteq {p}]_vars

\* What kick_player says of the records: the user is removed if it is a bot.
OnlyBotsForgotten == [][Known \ DOMAIN users' \subseteq Robots]_vars
=============================================================================
