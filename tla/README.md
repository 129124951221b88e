# FancyBot in TLA+

FancyBot (`src/bin/fancybot`, `src/lib/FancyBot/**`) is a Perl program that runs a
MechWarrior 4 dedicated server through its Windows GUI: it starts the server, clicks
it into the lobby, reads the list of players and the chat from its controls, and
answers commands typed in the chat. This directory models the parts of it that keep
state, checks them with TLC, and proves the results that hold for every size with
TLAPS. `src/bin/perl` (a bundled interpreter), `src/helper` and `src/root` are not
part of the program proper.

## 1. Inventory

| Part | State | Operations | Correct when |
|---|---|---|---|
| Watcher thread, `GUI/Watcher.pm` | `$last_update`, the file `tmp/player_info.$hwnd` | reads the list box, parses it, writes the file, stamps the time, for ever | what it writes pairs each name with its own row |
| User records, `UserHandling.pm`, `User.pm` | `users`, `last_update` | `update_player_info`, `connect_user`, `delete_user` | the records follow the lobby; only bots are forgotten |
| Orders, `GUI/Lobby/KickBan.pm`, `GUI/Lobby/Bots.pm`, `BotHandling.pm`, plugins Autobot and KickBan | three queues | `-kick`, `-bot-assign-team`, `-bot-assign-mech` fill them, `player_info_updated` serves them | an order reaches the player it names, and does so in the end |
| Score keeper, `Plugins/Stats.pm` | counters of every record | one per chat line, `game_start`, `game_stop` | the counters say what happened |
| Votes, `Plugins/Vote.pm`, `Commands/{Vote,Yes,No}.pm` | the stash of one vote | `-vote`, `-yes`, `-no`, the pulse | one voice each, one execution, no vote without an end |
| Start and stop, `StartStop.pm`, `bin/fancybot`, `FancyBot.bat`, `GUI/{Multiplayer,HostSetup}.pm`, `Commands/{Restart,Shutdown,Settings}.pm` | processes, window handles, `stop_bot`, the configuration in memory | start, three screens, watch loop, restart, shutdown, INT | one server at a time, started again after a crash, gone after a shutdown |
| Event bus and loop, `Events.pm` | `listeners`, `was_in_game`, `keep_running` | `raise_event` in order until a listener returns false, `watch_loop`, `do_events` | an event that fails costs no other |
| Dispatch, `Commands.pm`, `Plugins/Commands.pm` | command objects | aliases, parsing, gates, permissions, `eval` around the command | the command typed is the one run, by who may |
| Game cycle, `Plugins/GameCycle.pm` | `CyclePosition` | `game_stop`, `game_next` | every game of the cycle in turn |
| Lobby settings, `GUI/Lobby/{Settings,Types,Maps}.pm`, `GUI/Controls/{MapBox,TrickyCheckBox,TrickyComboBox}.pm` | map cache; the controls of the server's window | `-lock`, `-frags`, `-waves`, `-type`, `-map`, `-list-maps` and the rest | controls that belong together agree; maps fit the type; no Tangle in a team battle |
| Chat output, `GUI/Controls/ChatBox.pm` | the server's edit box | cuts a text into pieces and enters each | it ends, and every piece is said once |
| Login, `Commands/Login.pm`, `User::is_allowed_to` | `is_authorized`, token files | | who may do what |
| Logger, Annotator, Eliza, Comstar, web shell | none that another part reads | | |

How they meet: one process, one main loop (`watch_loop`) that each round refreshes the
records, raises `pulse`, compares the game's state, and handles the new chat lines, all
of it through `raise_event`. Beside it run the watcher thread, which shares the file and
the time stamp with the loop, and the server and its players, which share the lobby.
Around it runs the batch file, which starts the bot again unless it finds `stop_bot`.

What is hard here: the watcher against the loop against the players; queued orders that
name a player but act on a row; handlers that die in the middle; three kinds of process
that end on their own; a clock of whole seconds; controls that are read at once but
changed through an input queue the server works off later. `PROJECT.json` lists each hazard with
its line and the properties about it.

## 2. Modules

| Module | Models | Notes |
|---|---|---|
| `Roster` | watcher, user records, orders | the core; one action per step another party can get in between of |
| `MCRoster` | | what may happen in one run |
| `Roster_proofs` | | theorems on `Roster` |
| `Stats`, `MCStats` | score keeper; its history | `MCStats` adds the log of what happened |
| `Stats_proofs` | | theorems on `Stats` and `MCStats` |
| `Ballot` | what a vote promises | abstract specification |
| `Vote`, `MCVote` | votes; times a motion ran | `Vote` implements `Ballot` |
| `Vote_proofs` | | theorems on `Vote` and `MCVote`, the refinement among them |
| `Lifecycle`, `MCLifecycle` | batch file, bot, servers; what was asked and promised | |
| `Lifecycle_proofs` | | theorems on `MCLifecycle` |
| `GameCycle` | `configure_game` | extended by `Dispatch`, which calls it |
| `Dispatch`, `MCDispatch` | `do_events` and the commands; how often a line was taken up | one eval around a whole round |
| `Dispatch_proofs` | | theorems on `Dispatch`, `GameCycle` and `MCDispatch` |
| `Lobby`, `MCLobby` | settings made in the lobby window; what was asked, and who did not wait | |
| `Lobby_proofs` | | theorems on both |
| `ChatBox`, `MCChatBox` | what the bot says; what was cut, put in the box and said | |
| `ChatBox_proofs` | | theorems on both |
| `Arguments`, `MCArguments` | how a command's arguments are split; what a player meant | |
| `Arguments_proofs` | | theorems on both |

An MC module adds history variables and bounds to a specification and changes none of
its actions. `*.cfg` gives the constants their values.

### Roster

`lobby` is the server's list box; `wpc`, `part`, `rows` the thread between two
statements; `file` the file, torn while `write_file` is between truncating and filling
it; `bpc` the statement of the main loop; `json` Perl's `%json`; `users` the records with
the three fields the orders depend on. Times are only ever compared for equality, so
`last_update`, `$last_update` and `time` are kept as two truth values, which makes the
state space finite without a bound on time.

The list box is read column by column: the names first (`ScanName`), then tonnage and
C-bills (`ScanBills`), the team with its (BL:n) last (`ScanTeams`). Three phases stand for
164 messages, which is enough for the three things a moving list does: a name gets the
figures of another row; a row gone by `ScanBills` makes the list unreadable, as
`parse_player_list` checks these two columns; a row gone by `ScanTeams` gives a blank team,
which it does not check. `User` takes no blank for an Int, so `update_player_info` dies of
such a list (`ApplyDies`): that user has a new row and bot flag and no more, some users have
been refreshed and others not, nobody was disconnected, and stamp and event are left for the
next round. The users come in the order of a Perl hash, so any of them may have been first.
In between two connected users may share a row. `Settled` says where that must be over.

Abstracted: mech, tonnage and the number of a team. The server's answer to DOWN and ENTER in
the kick dialog (`AfterDowns`) is external; from past the end of the list it may remove the
last row or none. `KickNames`, `TeamNames` and `MechNames` bound whom orders are given for,
`Budgets` how many joins, leaves, orders and faults one run has; `left` is what is left.

### Stats

`rec` has thirteen counters of `User.pm`; a name without a record has the counters a new
record would get. A chat line about an unknown name dies before it changes anything, which
is why the actions ask for the record. Who is connected or a bot is set elsewhere
(`RosterUpdate`). Team kills are unreachable in the code (`if ( !1 )`).

### Vote

A motion is the text after `-vote`; it may begin with `vote` again, so it is kept as the
number of those and the command they come down to. `left` counts the seconds to
`start_time + VotingTime`. A carried command is executed under the bot's name, which is a
super administrator in the shipped `Security.xml`, so the gate (`Allowed`) is all that can
refuse it; `-vote`, `-yes` and `-no` pass the gate everywhere. What the other commands do
is not part of this module. The pulse is one step, as it is in the single-threaded loop.

### Lifecycle

Server processes have a stage each, from no window to the lobby; the bot owns one
(`proc`) and looks at one window (`hwnd`), which need not be the same. A control found
once is cached, so the two screen loops die on a dead window before their first push and
not after it (`pushed`). `-restart` kills the server and runs `start_server` in the same
process; that dies, in one of three places, and whichever it is no server is started by
this process. `shutdown` is two steps, the kill and the file, as a crash may fall between.

### GameCycle and Dispatch

`GameCycle` is `configure_game`: `step` is the setting it is at, `lobby` says of each
setting whether an entry of the cycle, chance or a command set it last. The key read for
the visibility is misspelt (`Visbility`, GameCycle.pm:39), so `conf/GameCycle.xml` has no
say in it; `Source` keeps that. The values an entry names are taken to exist, but for the
map, which may not be offered. `Dispatch` is the round of `do_events` around it: `was` is
`was_in_game`, read early and set late; `chat` the lines of the window that are new,
`batch` the ones being handled. A round that dies (`RoundDies`) starts over, without its
lines. Of the commands there is one for each way through the dispatcher: admin or not, in
game, in the lobby or both, with a module or none, with and without an effect on what the
model keeps. A setting changed by any command is `SetType`. The second `weather` of
`Commands.xml` stands in a comment, so no command is configured twice.

### Lobby

A control is read at once. A click on a check box is posted (`clicks`), and what is typed
for a combo box goes through the keyboard (`keys`); the server takes both later
(`TakeClick`, `TakeType`, `TakeMap`, `TakeWaves`, external). What the bot enables or writes
into a text box is there at once. A command that looks at maps is a walk in several steps
(`pc`), since `maps` evaluates the map shown, then the box's contents, then the game type,
and the server may change each in between; `select_random_map` goes through it twice. A
search is kept by the maps whose name contains it (`Finds`) or begins with it (`Begins`).
The key of the cache is the text of the map box, as `maps` passes it (`get_list` calls it
`$type`). `clicks` and `keys` are bounded by `MaxCommands` only.

`MCLobby` remembers what each box was last asked for, and who did not wait: `overtaken`
(a box set while a click was on its way to it), `hurried` (a map asked for while a type
was on its way), `mixed` (maps whose list was filed then). The properties except exactly
those: `-lock on` and `-lock off` in one batch of lines leave the server locked, and
`-frags on` and `-frags off` a checked box whose limit cannot be edited.

### ChatBox

A text is a sequence of characters and is cut character by character, since the hazards
are in `rindex` and the two `substr`: -1 for a separator that is not there, one too many
or too few, and the text "0", which Perl takes for false. `_send_value` presses ENTER until
the box reads empty; an ENTER waits in `keys` until the server takes it, or another window
gets it (`PressLost`). `Length` is 90 in the code.

### Arguments

The loop of `parse_command`, on sequences of characters, since its hazards are in what each
rule takes off: a quoted text with its quotes and the space before it (`TakeQuoted`), a word
with the space behind it (`TakeWord`), or all there is (`TakeRest`). Of the commands
`-bot-assign-mech` and `-bot-assign-team` read the result. `ReadAsMeant` compares it with
`Understood`, the list a player meant, typed with single spaces and with quotes where needed.
The two differ in the last argument only: a bare one keeps the space behind a quoted one
before it (`-bot-assign-team 'Bot A' 1` asks for team " 1"), and a "0" is dropped unless such
a space precedes it. `Delimited` is `extract_delimited` of the bundled Text::Balanced
without the backslashes that would escape a quote. What a player means is made of `Bare`
arguments (no space in them, no quote in front) and `Inside` ones (no quote of their own
kind), of any length and in lists of up to `MaxArgs`.

## 3. Runs

| Run | Checks | Bounds, and why they are enough |
|---|---|---|
| `roster` | `DistinctRows`, `RecordsFollowList`, `KickHitsWhenInSync`, `TeamsHitWhenInSync`, `Converges`, `OrdersServed` | two players, and of joins, leaves, faults and orders one of these budgets: (2,1,1,0), (2,1,0,1), (2,0,1,1), (1,1,1,1), (2,0,0,3). Rows shift under each phase of a scan, an update dies half way, an order outlives its player, a name comes back; with three orders a queue of two mechs waits for a second update with a kick behind it. All together would be too many states. The safety properties are theorems for every budget |
| `stats` | `StatsCoherent`, `StreaksMatchHistory`, `KillsAreDeaths`, `OverallNeverShrinks` | two players and the bot, five kills, match starts or deletions, two other lines: a record of two beaten, a streak cut by death, start and deletion |
| `vote` | `OneVoice`, `RunsOnce`, `ImplementsBallot`, `EveryVoteEnds` | three players and the bot, two seconds, one nested vote; no other bound. 70 percent, since the 20 of `Vote.xml` round down to no ballot at all below five players |
| `lifecycle` | `StopsOnlyWhenAsked`, `OneServer`, `EndsClean`, `Settles` | three servers at a time, two server crashes, two bot faults, two orders: a late server beside a new one, a crash in every phase |
| `dispatch` | `NoLineTwice`, `NoEntrySkipped`, `CatchesUp`, `ChatIsFetched` | an administrator and a player, four lines of eleven kinds, a cycle of two games, two games started, one failure: a line that dies before and behind a command, `-next` during and after a stop, a configuration that dies and is tried again, a wrap |
| `chat` | `Conserved`, `OnceInOrder`, `Ends` | every text of up to five characters of four, cut at length two by a separator of one or two: zero to three pieces, every place a separator can be at around the cut; two ENTERs under way, one lost |
| `arguments` | `ReadAsMeant`, `LettersKept`, `Ends` | every text of up to five characters out of a letter, 0, a space and both quotes: unclosed, crossed and doubled quotes, blanks at both ends; and all lists of up to four out of seven arguments: every change between bare and quoted |
| `lobby` | `SwitchesFollow`, `LimitsFollow`, `CacheFits`, `TangleStaysOut` | two types that share a map, three maps, a search that is part of two names, four commands: two clicks under way to one box, a type typed before, during and after a walk, a cached list met again under the other type |

Each run also checks its module's `TypeOK`. Deadlock is checked, except in `lifecycle`,
where an ended batch file and a bot that waits for ever are real ends, in `lobby`,
which rests when nobody types another command, and in `arguments`, whose loop ends.

Fairness. Both threads of the bot run, the loop sleeps one second a round, and time
passes: weak fairness on the steps of each. `SF(ReadInfo)`: the watcher rewrites the file
all the time, and the loop's read must fall in one of the gaps sometime. In `Dispatch` `WF(Bot)`
says that the loop goes on, which the eval around each round is there for. `WF(Next)` in
`Arguments` says no more than that a loop of one thread runs. In `ChatBox`
`WF(Bot)` and `WF(Enter)`: the bot goes on, and the server works its input off. Faults are
bounded, never forbidden. `Lobby` states no fairness: its properties hold however far the
server is behind. A server that was started shows its window in the end (`WF` on
`ServerUp`); the program itself gives it eight seconds, and exits if they are too few.

Runs that find a violation, each with its line in `PROJECT.json` under `findings`:
`roster_kick` (a kick acts on a row whose player left), `roster_bots_forgotten` (a human
taken for a bot by a stale `$1`),
`lifecycle_restart` (a restart loses the settings it was asked for), `lifecycle_crash` (the
bot pushes HOST at a dead server for ever).

Met while reading the code; modelled as it is, no run of its own:

- The branch of `connect_user` for a name that has a record calls the method `bot`, which
  `User.pm` does not have (UserHandling.pm:143). The second "has connected" line of a player
  dies, the eval of `watch_loop` takes it, and every line read in the same round is gone,
  other players' commands among them (`HearConnected`, `RoundDies`).
- `select_mech_for` presses `btnSelectMech<position>` (Bots.pm:294); positions count from 0
  and buttons from 1, so the mech one row up is changed (`ServeMech`). `select_team_for`
  adds one, which `TeamsHitWhenInSync` is about.
- A text without a space in its first 91 characters is sent for ever, without its last
  character (ChatBox.pm:21); `Ends` and `Conserved` ask for texts that can be cut.
- `-map pro` finds one map and types `pro`, not the map's name (Maps.pm:41). The comments
  there say that Tangle is stripped from team battles, but only texts that begin with
  `tangle` and lists of names are: `-map t` is neither. Where one map is left once Tangle is
  stripped (Rectangle, in the run), it types `t` and brings the box to Tangle. `TangleStaysOut` is about whole names of
  maps the box offers, where the comments are right for all who wait for the type.
- A player who leaves while the last column is read has a blank team, and the update dies of
  it (UserHandling.pm:193) behind his row and his bot flag: his record shows one list, others
  an older one, until the watcher has written the next (`ApplyDies`).
- The cache is filed under the map shown, not the type (Maps.pm:14): a map that two types
  share brings back the list of whichever was read first. `CacheFits` asks for no more than
  that it is the list of one type.
- A bare `-lock` passes an empty string, which unlocks; Commands.xml:448 says the default
  is on.
- `-bots` calls `set_checkbox_value`, which does not exist; `tcbHeatManagement` and
  `txtBotLevel` are no known controls; no code reads `AdminSessionTimeout`.

## 4. Proofs

All theorems are checked by tlapm 1.4.5 with Z3, Zenon and LS4, for every value of the
constants that satisfies the module's named assumption.

`Roster_proofs`: `RosterTypeCorrect`, `RowsAreDistinct`, `RecordsFollow`, `KickHits`. The
invariant adds to type and `RecordsFollowList` that the loop only serves orders it has
(`Serving`), that a connected user has a row while it does (`Applied`), since the chat, which
connects users without one, is read after the orders, and that the stamp is not adopted while
a list is read and applied (`Behind`). The last is why an update that died is made up for:
it left the stamp alone (`BehindStep`) and a list with a blank team in `json`, so nothing is
settled after it (`DyingUnsettles`) until an update comes to its end. `WhoTouchesRecords`
reduces the 27 actions to the six that change records or list. `RowsAreDistinct` follows from
`RecordsFollow`'s invariant: two rows of one list are two. `RowOfHits` says that the
last row with a name carries that name; it rests on `GreatestIndex`, a minimum of a
well-founded order, since induction over the list is out of reach. `KickHits` then follows
the position from the list to the list box: the row the kick reaches holds the user's name.
`TeamsHit` does the same for the button of a team.

`Stats_proofs`: `StatsTypeCorrect`, `StatsStayCoherent`, `OverallsNeverShrink`. The
invariant is `TypeOK /\ StatsCoherent`; it is inductive because each bound of a streak is
stated against the match count as well as the record. One lemma per counter update
(`CreditCoherent`, `DebitCoherent`, `NewMatchCoherent`) says that it keeps a coherent record
coherent; the step lemma only has to say which records an action touches.
`EveryKillIsADeath` proves `KillsAreDeaths`, which sums over all names (a finite set) and over
a log of any length. A sum is a fold over a choice, so its value is first pinned down
(`SumIs`: the one value that any order of adding up gives, by the smallest counterexample,
`LeastSubset`); then what one more entry (`SumLonger`) or another number in one place
(`SumChange`) does to it, and each action changes both sides alike (`Counted`). A deleted
record keeps its balance because what it held is counted as lost.
`StreaksAreHistory` proves `StreaksMatchHistory` of `MCStats` for any names and bounds.
Its invariant `HInv` says of every record that counter and maximum follow the log
(`Follows`): the streak is the run at the log's end (`Streak`, the size of a set of places)
and the longest one is reached, and never exceeded, since the record was made. What one
more entry does to a run is `StreakStep`, what it does to a counter with its maximum
`FollowsStep`; keeping the maximum in the invariant spares the proof that one exists
(`MaxIs`).

`Vote_proofs`: `VoteTypeCorrect`, `NobodyCountsTwice`, `VoteImplementsBallot`. The
invariant is `TypeOK /\ OneVoice`. Under it the lists of the stash are exactly Ballot's
sets of voters (`Counted`), and a turnout too small for the humans present is too small for
all voters (`TooFew`), so each action is a step of `Ballot` or none. `MotionRunsOnce` is
about the history in `MCVote`: while a vote is open its command has not run (`NotYet`).

`Dispatch_proofs`: `DispatchTypeCorrect` and `CycleSkipsNothing`. A step of `Advance` does
not know what the six before it did, so the invariant adds `Progress`: while
`configure_game` runs, the settings it has passed show the entry it runs for. It is
inductive because the other writer of settings, a command, is in the same thread (`step` is
0 outside `configure_game`), which `Between` says. `LinesAreTakenOnce` rests on the order of
lines: the window is newer than the batch and both ascend (`Ordered`), so what is still to
come was never taken up (`Untaken`). `LineSteps` reduces the loop to five kinds of step.

`Lifecycle_proofs`: `LifecycleTypeCorrect`, `OnlyAskedStops`, `OneServerAtATime`,
`ShutdownEndsClean`. None of the three properties is inductive. `Owner` says who runs when,
`Asked` where `stop_bot` can come from. `Orderly`, which holds as long as no bot process
ended over a loading server (`early`), says why a look at the windows is then as good as a
look at the processes: a loading server is the one its bot waits for, so a bot that sees no
window sees no server, the window it finds is its own server's, and the handle it kills is
all there is. TLC checked the whole invariant on the bounds of `lifecycle` first.

`Lobby_proofs`: `LobbyTypeCorrect`, `SwitchesFollowCommands`, `LimitsFollowSwitches`,
`CacheIsOfOneType`, `NoTangleInTeamBattle`. The switches rest on `OneClick` (a box nobody
overtook has at most one click on its way, and that one is right) and `Edits` (what is
enabled says what was asked). Tangle rests on `Patient`: without haste no type is on its
way while a walk runs, or in front of a typed map, so the type a map was tested against is
the one it meets and Tangle's name is not typed; and the assumption says that no other map's
name is the beginning of Tangle's. The cache rests on `Filing`: between the two reads of a walk nobody who waited can
have changed the type.

`ChatBox_proofs`: `TypeCorrect`, `TextIsConserved`, `PiecesOnceInOrder`. One lemma says
what `rindex` returns in a text that can be cut (`LastPlace`, `rindexType`), two what the
cut keeps (`CutKeeps`, `StillBreakable`): the rest of such a text can be cut again, so
`Conserved` is inductive. `Quiet` says that outside `_send_value` the box is empty or holds
"0", so a late ENTER has nothing to say.

`Arguments_proofs`: `TypeCorrect`, `EveryRoundTakes`. The second is `Shrinks`: with the
length of the text as variant, the loop ends for texts of any length, which `Ends` shows for
short ones. `LettersStay` is `LettersKept`, for any text of any characters: `Letters` is a
homomorphism (`LettersCat`), empty on blanks and quotes (`NoLetters`), so each rule only
moves letters from the text left to the arguments (`LettersMove`). The prover has no
schema of induction; `Induction` has it for sets of numbers instead, and each lemma about
texts of any length puts the lengths it holds for into such a set.

`ListsAreReadAsMeant` is `ReadAsMeant`, for arguments of any length and lists of any bound.
Its invariant `RInv` says of every list that may have been typed that some of its arguments
were taken, each as meant, and the others are left as typed (`Taking`), with a space in front
if one taken was quoted (`Lead`), or that all is done (`Done`). Why a round then takes
just the next argument: a text has one place at most that is between quotes behind nothing
but spaces (`OneQuoted`), none if a bare word is in front (`NoneQuoted`), and then one first
word at most (`OneWord`). So only one rule can act (`QuotedTaken`, `WordTaken`), in whatever
order the model tries them. `LeftIsFalse` finds the one case in which the loop ends early: a
bare "0", the last argument, with none quoted before it. It is there that `Understood`
drops an argument. TLC checked `RInv` on lists of up to three arguments first.

Every safety invariant and every action property that a passing run checks is a theorem.
Only model-checked: liveness (`Converges`, `OrdersServed`, `EveryVoteEnds`, `Settles`,
`CatchesUp`, `ChatIsFetched`, `Ends`), which is out of this prover's reach.

## 5. Plan

Written in this order: `Roster` (the behaviour with most parties), `Stats`, `Vote` with
`Ballot`, `Lifecycle`, `GameCycle` with `Dispatch`, `Lobby`, `ChatBox`, `Arguments`. To come:

1. In `Dispatch`: super administrators, aliases, the shortcut to `-settings`.
2. The rounding of times, tonnages and C-bills as operators against a reference definition.
3. A composition of `Dispatch` with `Lobby`, where `-next` and a player's command set the
   same controls.

Not modelled: the texts of Annotator, Eliza and Comstar, the web shell (a separate
process), the messages the controls exchange with Windows, and `add_pbot`, which dies on
an unknown control before it adds anything.
