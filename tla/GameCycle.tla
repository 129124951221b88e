------------------------------ MODULE GameCycle ------------------------------
(***************************************************************************)
(* configure_game (Plugins/GameCycle.pm): when a game stops, or on -next,  *)
(* the six settings of the cycle's entry are selected in the lobby, one by *)
(* one with a second's sleep between them, and the cycle moves on.         *)
(*                                                                         *)
(* A setting is abstracted to where its value came from: an entry of the   *)
(* cycle, a choice among all values there are, or a player's command.      *)
(***************************************************************************)
EXTENDS Integers, SequencesExt

CONSTANT Games  \* how many <Game> entries conf/GameCycle.xml has

ASSUME GamesAssumption == Games \in Nat \ {0}

VARIABLES
  cyclePos,  \* CyclePosition
  lobby,     \* the settings shown in the lobby window
  step       \* the select_random_* call configure_game is at; 0 outside it

cycleVars == <<cyclePos, lobby, step>>

----------------------------------------------------------------------------
Steps    == <<"type", "map", "visibility", "daytime", "stock", "radar">>
Settings == Range(Steps)
Entries  == 0..(Games - 1)
AnyValue == -1  \* any of the values there are
ByHand   == -2  \* set by a command

\* The hash key read for visibility is misspelt, so it is undefined, for "*".
Source(k) == IF Steps[k] = "visibility" THEN AnyValue ELSE cyclePos

\* A new game type brings maps of its own into the map box (external).
With(s, v) == IF s = "type" THEN [lobby EXCEPT !.type = v, !.map = AnyValue]
                            ELSE [lobby EXCEPT ![s] = v]

CycleInit == cyclePos = 0 /\ lobby = [s \in Settings |-> AnyValue] /\ step = 0

Start == step' = 1 /\ UNCHANGED <<cyclePos, lobby>>

\* One select_random_*.  A map that is not offered is not selected.
Select ==
  /\ step \in DOMAIN Steps
  /\ \/ lobby' = With(Steps[step], Source(step))
     \/ Steps[step] = "map" /\ UNCHANGED lobby
  /\ step' = step + 1
  /\ UNCHANGED cyclePos

\* Mutant: the position moves whether or not the settings could be made.
Fails_MovesOn ==
  /\ step \in DOMAIN Steps /\ Steps[step] = "map"
  /\ step' = 0 /\ cyclePos' = (cyclePos + 1) % Games
  /\ UNCHANGED lobby

\* MapBox->get_list dies when the box has no map yet.
Fails ==
  /\ step \in DOMAIN Steps /\ Steps[step] = "map"
  /\ step' = 0
  /\ UNCHANGED <<cyclePos, lobby>>

\* Mutant: it goes back to 0 one entry too late.
Advance_WrapsLate ==
  /\ step = Len(Steps) + 1
  /\ step' = 0
  /\ cyclePos' = IF cyclePos + 1 > Games THEN 0 ELSE cyclePos + 1
  /\ UNCHANGED lobby

\* CyclePosition++, and back to 0 past the last entry.
Advance ==
  /\ step = Len(Steps) + 1
  /\ step' = 0
  /\ cyclePos' = IF cyclePos + 1 >= Games THEN 0 ELSE cyclePos + 1
  /\ UNCHANGED lobby

CycleTypeOK ==
  /\ cyclePos \in Entries
  /\ lobby \in [Settings -> Entries \cup {AnyValue, ByHand}]
  /\ step \in 0..(Len(Steps) + 1)

\* The cycle moves on only past an entry the lobby shows, whatever failed or was
\* set by hand before: no entry is skipped because its configuration died half
\* way (configure_game increments last).  The map may be missing from the box,
\* and the visibility is never the entry's.
EntryShown == \A s \in Settings \ {"map", "visibility"} : lobby[s] = cyclePos
NoEntrySkipped ==
  [][cyclePos' # cyclePos => EntryShown /\ cyclePos' = (cyclePos + 1) % Games]_cycleVars
=============================================================================
