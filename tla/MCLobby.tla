------------------------------- MODULE MCLobby -------------------------------
(***************************************************************************)
(* Lobby with a history: what each check box was last asked for, and which *)
(* commands were too fast for the server.                                  *)
(***************************************************************************)
EXTENDS Lobby, TLC

VARIABLES
  asked,      \* the value a check box was last set to
  overtaken,  \* whether a click was on its way to it then
  hurried,    \* a map was asked for, and a type on its way, since keys last were empty
  mixed       \* maps whose list was filed while a type was on its way

history == <<asked, overtaken, hurried, mixed>>

MCTypes    == {"battle", "team battle"}
MCMaps     == {"alpine", "tangle", "rectangle"}
MCOffers   == "battle" :> {"alpine", "tangle"} @@ "team battle" :> {"tangle", "rectangle"}
MCSearches == MCMaps \cup {"t"}
MCFinds    == [s \in MCSearches |-> IF s \in {"t", "tangle"} THEN {"tangle", "rectangle"} ELSE {s}]
MCBegins   == [s \in MCSearches |-> IF s = "t" THEN {"tangle"} ELSE {s}]

TypeUnderway == \E i \in DOMAIN keys : keys[i].what = "type"

Walks == pc' = "map"
Files == pc = "map" /\ pc' = "list" /\ cache[map] = {}

MCInit ==
  /\ Init
  /\ asked = checked /\ overtaken = [c \in Switches |-> FALSE]
  /\ hurried = FALSE /\ mixed = {}

MCNext ==
  /\ \/ \E c \in Switches, on \in BOOLEAN :
          /\ Switch(c, on)
          /\ asked' = [asked EXCEPT ![c] = on]
          /\ overtaken' = [overtaken EXCEPT ![c] = clicks[c] > 0]
     \/ (MapsOrType \/ Server) /\ UNCHANGED <<asked, overtaken>>
  /\ hurried' = \/ Walks /\ TypeUnderway
                \/ hurried /\ (keys' # <<>> \/ pc' # "idle")
  /\ mixed' = IF Files /\ TypeUnderway THEN mixed \cup {map} ELSE mixed

MCSpec == MCInit /\ [][MCNext]_<<vars, history>>

----------------------------------------------------------------------------
\* A check box that was left alone while a click was on its way to it will show
\* what it was last asked for (TrickyCheckBox::set_value, which compares first).
SwitchesFollow ==
  \A c \in Switches : ~overtaken[c] => (asked[c] <=> (checked[c] <=> clicks[c] % 2 = 0))

\* Once its clicks are taken, a limit can be edited when its box is checked and only
\* then, and a frag limit that is off is 1: two ways to the server agree, but for a
\* box asked again while a click was on its way (-frags on and off in one batch).
LimitsFollow ==
  \A c \in Limits : ~overtaken[c] /\ clicks[c] = 0 =>
    /\ enabled[c] = checked[c]
    /\ c = "frags" /\ ~checked[c] => limit[c] = "1"

\* Nobody who waits for a game type to show and then names a map it offers, whole,
\* gets Tangle into a team battle: the comments of Maps.pm say that it is stripped.
\* Only what is typed is looked at, so a part of the name (-map t) still brings it,
\* and so may a name out of a list that was filed with another type.
TangleStaysOut ==
  [][TakeMap /\ type = TeamBattle /\ map' \in Tangles
       => hurried \/ Head(keys).value \notin Offers[type]]_<<vars, history>>

\* What is filed for a map, and never read again, is the list of a type that offers
\* that map, unless a type was on its way at that time (get_list).
CacheFits ==
  \A m \in Maps \ mixed :
    cache[m] # {} => \E t \in Types : m \in Offers[t] /\ cache[m] = Offers[t]
=============================================================================
