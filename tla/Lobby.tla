-------------------------------- MODULE Lobby --------------------------------
(***************************************************************************)
(* Settings made in the lobby window (GUI/Lobby/Settings.pm, Maps.pm and   *)
(* Types.pm over GUI/Controls/*.pm).                                       *)
(*                                                                         *)
(* What the bot reads of a control, and what it enables or writes into a   *)
(* text box, is there at once.  A click on a check box is posted, and what *)
(* is typed for a combo box goes through the keyboard: the server takes    *)
(* both later, and the bot, which handles a batch of commands without a    *)
(* pause, may have looked at a control in between.                         *)
(***************************************************************************)
EXTENDS Integers, Sequences, FiniteSets

CONSTANTS
  Types, TeamBattle,  \* game types
  Maps,               \* names of maps
  Offers,             \* the maps the box offers with each type
  Searches,           \* what is typed after -map: names and parts of names
  Finds,              \* the maps whose name contains a search ...
  Begins,             \* ... or begins with it
  Tangles,            \* names and searches that begin with "tangle"
  MaxCommands         \* bound on the commands

None == "none"  \* no search: all maps

ASSUME LobbyAssumption ==
  /\ TeamBattle \in Types
  /\ Maps \subseteq Searches /\ Tangles \subseteq Searches /\ None \notin Searches
  /\ Offers \in [Types -> SUBSET Maps]
  /\ \A t \in Types : Offers[t] \ Tangles # {} /\ IsFiniteSet(Offers[t])
  /\ Finds \in [Searches -> SUBSET Maps] /\ Begins \in [Searches -> SUBSET Maps]
  /\ \A m \in Maps : m \in Begins[m]
  /\ \A m \in Maps \ Tangles : Begins[m] \cap Tangles = {}  \* none is called "t"
  /\ MaxCommands \in Nat

Switches == {"lock", "frags", "waves"}  \* tcbLockServer, tcbFragLimit, tcbNumberOfWaves
Limits   == {"frags", "waves"}          \* txtFragLimit, tcmbNumberOfWaves

VARIABLES
  pc, goal,      \* the statement a walk through the maps is at, and what it is for
  search, key,   \* $search of maps; $type of get_list, which is a map
  maps,          \* @maps
  cache,         \* map_cache; {} for what was not read yet
  type, map,     \* the texts of the two boxes
  checked,       \* the check boxes
  enabled,       \* the limits that can be edited
  limit,         \* the limits: "1", or a number "n" that a command named
  clicks,        \* clicks posted to the check boxes
  keys,          \* what was typed for the combo boxes
  commands       \* how many there were

botVars    == <<pc, goal, search, key, maps, cache>>
mapVars    == <<type, map>>
switchVars == <<checked, enabled, limit, clicks>>
vars == <<botVars, mapVars, switchVars, keys, commands>>

Command == pc = "idle" /\ commands < MaxCommands /\ commands' = commands + 1

Typed(what, value) == [what |-> what, value |-> value]

----------------------------------------------------------------------------
\* Check boxes and limits.

\* Mutant: clicks whatever the box shows.
SetCheck_Always(c, on) == clicks' = [clicks EXCEPT ![c] = @ + 1]

\* TrickyCheckBox::set_value clicks only a box that shows the other value.
SetCheck(c, on) ==
  clicks' = IF checked[c] = on THEN clicks ELSE [clicks EXCEPT ![c] = @ + 1]

\* -lock and -unlock.
SelectLock(on) ==
  /\ Command /\ SetCheck("lock", on)
  /\ UNCHANGED <<botVars, mapVars, checked, enabled, limit, keys>>

\* Mutant: a number does not enable the box.
SelectFragLimit_KeepsDisabled(v) ==
  /\ Command /\ SetCheck("frags", v # "off")
  /\ enabled' = IF v = "n" THEN enabled ELSE [enabled EXCEPT !.frags = v # "off"]
  /\ limit' = CASE v = "off" -> [limit EXCEPT !.frags = "1"]
                [] v = "on"  -> limit
                [] v = "n"   -> [limit EXCEPT !.frags = "n"]
  /\ UNCHANGED <<botVars, mapVars, checked, keys>>

\* -frags off, on or a number.
SelectFragLimit(v) ==
  /\ Command /\ SetCheck("frags", v # "off")
  /\ enabled' = [enabled EXCEPT !.frags = v # "off"]
  /\ limit' = CASE v = "off" -> [limit EXCEPT !.frags = "1"]
                [] v = "on"  -> limit
                [] v = "n"   -> [limit EXCEPT !.frags = "n"]
  /\ UNCHANGED <<botVars, mapVars, checked, keys>>

\* -waves off, on or a number, which is typed.
SelectWaves(v) ==
  /\ Command /\ SetCheck("waves", v # "off")
  /\ enabled' = [enabled EXCEPT !.waves = v # "off"]
  /\ keys' = IF v = "n" THEN Append(keys, Typed("waves", "n")) ELSE keys
  /\ UNCHANGED <<botVars, mapVars, checked, limit>>

----------------------------------------------------------------------------
\* Game type and map.

\* Mutant: the abbreviation is typed.
SelectGameType_Short(t) ==
  /\ Command
  /\ keys' = Append(keys, Typed("type", "tb"))
  /\ UNCHANGED <<botVars, mapVars, switchVars>>

\* -type
SelectGameType(t) ==
  /\ Command
  /\ keys' = Append(keys, Typed("type", t))
  /\ UNCHANGED <<botVars, mapVars, switchVars>>

\* maps() begins: to "select" one, to "pick" any, or to "list" the names.
Walk(g, s) ==
  /\ pc' = "map" /\ goal' = g /\ search' = s
  /\ UNCHANGED <<key, maps, cache>>

Rest ==
  /\ pc' = "idle" /\ goal' = None /\ search' = None /\ key' = None /\ maps' = {}
  /\ UNCHANGED cache

\* Mutant: the game type is not looked at.
SelectMap_Any(s) == Walk("select", s)

\* The first statement of select_map: Tangle is not for a team battle.
SelectMap(s) == IF s \in Tangles /\ type = TeamBattle THEN Rest ELSE Walk("select", s)

\* -map, an entry of the game cycle with "*" for a map, and -list-maps.
MapCommand(s) == Command /\ SelectMap(s) /\ UNCHANGED <<mapVars, switchVars, keys>>
RandomMap     == Command /\ Walk("pick", None) /\ UNCHANGED <<mapVars, switchVars, keys>>
ListMaps(s)   == Command /\ Walk("list", s) /\ UNCHANGED <<mapVars, switchVars, keys>>

\* $self->map is evaluated first.
LookMap ==
  /\ pc = "map" /\ pc' = "list"
  /\ key' = map
  /\ UNCHANGED <<goal, search, maps, cache, mapVars, switchVars, keys, commands>>

\* Mutant: the box is read each time, and its maps added to those filed already.
LookList_Adds ==
  /\ pc = "list" /\ pc' = "strip"
  /\ cache' = [cache EXCEPT ![key] = @ \cup Offers[type]]
  /\ maps' = cache'[key] \cap (IF search = None THEN Maps ELSE Finds[search])
  /\ UNCHANGED <<goal, search, key, mapVars, switchVars, keys, commands>>

\* get_list: the box is read once for each map it can show.
LookList ==
  /\ pc = "list" /\ pc' = "strip"
  /\ cache' = IF cache[key] = {} THEN [cache EXCEPT ![key] = Offers[type]] ELSE cache
  /\ maps' = cache'[key] \cap (IF search = None THEN Maps ELSE Finds[search])
  /\ UNCHANGED <<goal, search, key, mapVars, switchVars, keys, commands>>

\* maps() asks for the type once more.
Stripped == IF type = TeamBattle THEN maps \ Tangles ELSE maps

\* More than one are too many, unless the search is the name of one of them.
Unique(candidates) ==
  Cardinality(IF Cardinality(candidates) > 1 THEN candidates \cap {search} ELSE candidates) = 1

\* select_map types what was searched for, not what was found.
TypesMap ==
  /\ pc = "strip" /\ goal = "select"
  /\ keys' = IF Unique(Stripped) THEN Append(keys, Typed("map", search)) ELSE keys
  /\ Rest
  /\ UNCHANGED <<mapVars, switchVars, commands>>

Lists ==
  /\ pc = "strip" /\ goal = "list"
  /\ Rest
  /\ UNCHANGED <<mapVars, switchVars, keys, commands>>

Strips ==
  /\ pc = "strip" /\ goal = "pick"
  /\ pc' = "pick" /\ maps' = Stripped
  /\ UNCHANGED <<goal, search, key, cache, mapVars, switchVars, keys, commands>>

Picks ==
  /\ pc = "pick"
  /\ \E m \in maps : SelectMap(m)
  /\ UNCHANGED <<mapVars, switchVars, keys, commands>>

----------------------------------------------------------------------------
\* The server works off what was posted and typed (external).

TakeClick(c) ==
  /\ clicks[c] > 0
  /\ clicks' = [clicks EXCEPT ![c] = @ - 1]
  /\ checked' = [checked EXCEPT ![c] = ~@]
  /\ UNCHANGED <<botVars, mapVars, enabled, limit, keys, commands>>

Takes(what) == keys # <<>> /\ Head(keys).what = what /\ keys' = Tail(keys)

\* Another type may bring other maps.
TakeType ==
  /\ Takes("type")
  /\ type' = Head(keys).value /\ map' \in Offers[type']
  /\ UNCHANGED <<botVars, switchVars, commands>>

\* The box goes to a map that begins with what was typed.
TakeMap ==
  /\ Takes("map")
  /\ LET hits == Begins[Head(keys).value] \cap Offers[type]
     IN IF hits = {} THEN map' \in Offers[type] ELSE map' \in hits
  /\ UNCHANGED <<type, botVars, switchVars, commands>>

TakeWaves ==
  /\ Takes("waves")
  /\ limit' = IF enabled.waves THEN [limit EXCEPT !.waves = Head(keys).value] ELSE limit
  /\ UNCHANGED <<botVars, mapVars, checked, enabled, clicks, commands>>

----------------------------------------------------------------------------
Bot == LookMap \/ LookList \/ TypesMap \/ Lists \/ Strips \/ Picks
Server == (\E c \in Switches : TakeClick(c)) \/ TakeType \/ TakeMap \/ TakeWaves

Init ==
  /\ pc = "idle" /\ goal = None /\ search = None /\ key = None /\ maps = {}
  /\ cache = [m \in Maps |-> {}]
  /\ type \in Types /\ map \in Offers[type]
  /\ checked = [c \in Switches |-> FALSE] /\ enabled = [c \in Limits |-> FALSE]
  /\ limit = [c \in Limits |-> "1"] /\ clicks = [c \in Switches |-> 0]
  /\ keys = <<>> /\ commands = 0

\* A command that turns switch c on or off.
Switch(c, on) ==
  \/ c = "lock" /\ SelectLock(on)
  \/ \E v \in {"off", "on", "n"} :
       /\ on = (v # "off")
       /\ \/ c = "frags" /\ SelectFragLimit(v)
          \/ c = "waves" /\ SelectWaves(v)

MapsOrType ==
  \/ \E t \in Types : SelectGameType(t)
  \/ \E s \in Searches : MapCommand(s)
  \/ \E s \in Searches \cup {None} : ListMaps(s)
  \/ RandomMap
  \/ Bot

Next == (\E c \in Switches, on \in BOOLEAN : Switch(c, on)) \/ MapsOrType \/ Server

Spec == Init /\ [][Next]_vars

Key == [what : {"type"}, value : Types] \cup [what : {"map"}, value : Searches]
       \cup [what : {"waves"}, value : {"n"}]

TypeOK ==
  /\ pc \in {"idle", "map", "list", "strip", "pick"}
  /\ goal \in {None, "select", "pick", "list"} /\ search \in Searches \cup {None}
  /\ goal = "select" => search # None
  /\ key \in Maps \cup {None} /\ maps \subseteq Maps
  /\ cache \in [Maps -> SUBSET Maps]
  /\ type \in Types /\ map \in Offers[type]
  /\ checked \in [Switches -> BOOLEAN] /\ enabled \in [Limits -> BOOLEAN]
  /\ limit \in [Limits -> {"1", "n"}] /\ clicks \in [Switches -> Nat]
  /\ keys \in Seq(Key) /\ commands \in 0..MaxCommands
=============================================================================
