-------------------------------- MODULE Stats --------------------------------
(***************************************************************************)
(* The score keeper (Plugins/Stats.pm): what the server's chat lines and   *)
(* the game events do to the counters of the user records (User.pm).       *)
(*                                                                         *)
(* The records themselves come and go elsewhere: update_player_info says   *)
(* who is connected and who is a bot, kick_player deletes a bot's record.  *)
(* The events raised for Annotator, which answers in the chat, are left    *)
(* out.                                                                    *)
(***************************************************************************)
EXTENDS Integers

CONSTANTS Names,    \* names that appear in the chat lines
          BotName   \* the bot's own name on the server

ASSUME StatsAssumption == BotName \in Names

VARIABLES
  known,      \* names with a user record
  conn,       \* is_connected
  bots,       \* is_bot
  rec,        \* the counters of each record; those of a new record if none
  ingame      \* was_in_game: which of game_start and game_stop is due

vars == <<known, conn, bots, rec, ingame>>

Counter == {"kills", "killsMatch", "killStreak", "longestKill",
            "deaths", "deathsMatch", "deathStreak", "longestDeath",
            "suicides", "suicidesMatch", "joins", "joinsMatch", "connects"}
NewRec == [c \in Counter |-> 0]

----------------------------------------------------------------------------
\* What one line does to one record.

\* Mutant: a kill does not end the killer's death streak.
Credit_KeepsDeathStreak(r) ==
  LET streak == r["killStreak"] + 1 IN
  [r EXCEPT !["kills"] = @ + 1, !["killsMatch"] = @ + 1, !["killStreak"] = streak,
            !["longestKill"] = IF streak > @ THEN streak ELSE @]

\* Mutant: the record compares with the streak before the kill.
Credit_RecordLate(r) ==
  LET streak == r["killStreak"] IN
  [r EXCEPT !["kills"] = @ + 1, !["killsMatch"] = @ + 1, !["killStreak"] = @ + 1,
            !["deathStreak"] = 0,
            !["longestKill"] = IF streak > @ THEN streak ELSE @]

\* The killer's side of "<p> Destroyed <v>".
Credit(r) ==
  LET streak == r["killStreak"] + 1 IN
  [r EXCEPT !["kills"] = @ + 1, !["killsMatch"] = @ + 1, !["killStreak"] = streak,
            !["deathStreak"] = 0,
            !["longestKill"] = IF streak > @ THEN streak ELSE @]

\* The victim's side.
Debit(r) ==
  LET streak == r["deathStreak"] + 1 IN
  [r EXCEPT !["deaths"] = @ + 1, !["deathsMatch"] = @ + 1, !["deathStreak"] = streak,
            !["killStreak"] = 0,
            !["longestDeath"] = IF streak > @ THEN streak ELSE @]

\* Mutant: the match counters are reset, the records with them.
NewMatch_ResetsRecord(r) ==
  [r EXCEPT !["killsMatch"] = 0, !["killStreak"] = 0, !["deathsMatch"] = 0,
            !["deathStreak"] = 0, !["joinsMatch"] = 0, !["suicidesMatch"] = 0,
            !["longestKill"] = 0]

\* Mutant: the match counters are deleted instead.
NewMatch_Deletes(r) ==
  [c \in Counter \ {"killsMatch", "deathsMatch", "joinsMatch", "suicidesMatch"} |-> r[c]]

\* game_start, for one connected user.
NewMatch(r) ==
  [r EXCEPT !["killsMatch"] = 0, !["killStreak"] = 0, !["deathsMatch"] = 0,
            !["deathStreak"] = 0, !["joinsMatch"] = 0, !["suicidesMatch"] = 0]

----------------------------------------------------------------------------
\* Chat lines without a speaker, by their text.  A line about a name without a
\* record dies in the handler before it changes anything, so each action asks
\* for the record.

\* "<p> has connected": connect_user makes the record; with a record already
\* there it dies.
HasConnected(p) ==
  /\ p \notin known
  /\ known' = known \cup {p} /\ conn' = conn \cup {p}
  /\ rec' = [rec EXCEPT ![p] = [NewRec EXCEPT !["connects"] = 1]]
  /\ UNCHANGED <<bots, ingame>>

\* "<p> has left": counted like a connection; is_connected is left alone, and
\* nothing happens on player_left.
HasLeft(p) ==
  /\ p \in known
  /\ rec' = [rec EXCEPT ![p]["connects"] = @ + 1]
  /\ UNCHANGED <<known, conn, bots, ingame>>

\* "<p> has joined", unless it is the bot itself.
HasJoined(p) ==
  /\ p \in known \ {BotName}
  /\ rec' = [rec EXCEPT ![p]["joins"] = @ + 1, ![p]["joinsMatch"] = @ + 1]
  /\ UNCHANGED <<known, conn, bots, ingame>>

\* "<p> Committed Suicide": neither a death nor the end of a streak.
CommittedSuicide(p) ==
  /\ p \in known
  /\ rec' = [rec EXCEPT ![p]["suicides"] = @ + 1, ![p]["suicidesMatch"] = @ + 1]
  /\ UNCHANGED <<known, conn, bots, ingame>>

\* "<k> Destroyed <v>" about two users.
Destroyed(k, v) ==
  /\ k \in known /\ v \in known /\ k # v
  /\ rec' = [rec EXCEPT ![k] = Credit(@), ![v] = Debit(@)]
  /\ UNCHANGED <<known, conn, bots, ingame>>

\* Mutant: the killer is credited before the victim is looked up.
DestroyedOther_Credits ==
  /\ \E k \in known : rec' = [rec EXCEPT ![k] = Credit(@)]
  /\ UNCHANGED <<known, conn, bots, ingame>>

\* "<k> Destroyed <something>" that has no record: a turret, a tank, a building
\* or a name the bot has not met.  Nobody's counters change, and no plugin
\* listens to the events raised.
DestroyedOther == UNCHANGED vars

----------------------------------------------------------------------------
\* The game events, and the other plugins' effects on the records.

\* game_start: the match counters of the users connected now.
GameStart ==
  /\ ~ingame /\ ingame' = TRUE
  /\ rec' = [p \in Names |-> IF p \in conn THEN NewMatch(rec[p]) ELSE rec[p]]
  /\ UNCHANGED <<known, conn, bots>>

\* game_stop: the bots are taken for gone.
GameStop ==
  /\ ingame /\ ingame' = FALSE
  /\ conn' = conn \ bots
  /\ UNCHANGED <<known, bots, rec>>

\* update_player_info: any set of the known names may be connected, or bots.
RosterUpdate(c, b) ==
  /\ c \subseteq known /\ b \subseteq known
  /\ conn' = c /\ bots' = b
  /\ UNCHANGED <<known, rec, ingame>>

\* kick_player of what the bot takes for a bot: delete_user.
Forget(p) ==
  /\ p \in known \cap bots
  /\ known' = known \ {p} /\ conn' = conn \ {p} /\ bots' = bots \ {p}
  /\ rec' = [rec EXCEPT ![p] = NewRec]
  /\ UNCHANGED ingame

----------------------------------------------------------------------------
\* connect_user(BotName) in start_server makes the first record.
Init ==
  /\ known = {BotName} /\ conn = {} /\ bots = {}
  /\ rec = [p \in Names |-> NewRec]
  /\ ingame = FALSE

Line(p) == HasConnected(p) \/ HasLeft(p) \/ HasJoined(p) \/ CommittedSuicide(p)

Next ==
  \/ \E p \in Names : Line(p) \/ Forget(p)
  \/ \E k, v \in Names : Destroyed(k, v)
  \/ DestroyedOther \/ GameStart \/ GameStop
  \/ \E c, b \in SUBSET Names : RosterUpdate(c, b)

Spec == Init /\ [][Next]_vars

----------------------------------------------------------------------------
TypeOK ==
  /\ known \subseteq Names /\ conn \subseteq known /\ bots \subseteq known
  /\ rec \in [Names -> [Counter -> Nat]]
  /\ ingame \in BOOLEAN

\* How the counters of one record hang together: a current streak is part of
\* this match and no longer than the record, a record no longer than all there
\* was, and nobody is on a kill streak and on a death streak at once.
KillsCohere(r) ==
  /\ r["killStreak"] <= r["killsMatch"] /\ r["killsMatch"] <= r["kills"]
  /\ r["killStreak"] <= r["longestKill"] /\ r["longestKill"] <= r["kills"]
DeathsCohere(r) ==
  /\ r["deathStreak"] <= r["deathsMatch"] /\ r["deathsMatch"] <= r["deaths"]
  /\ r["deathStreak"] <= r["longestDeath"] /\ r["longestDeath"] <= r["deaths"]
OneStreak(r) == r["killStreak"] = 0 \/ r["deathStreak"] = 0
Coherent(r) == KillsCohere(r) /\ DeathsCohere(r) /\ OneStreak(r)

\* Every record stays coherent whatever lines arrive, in whatever order, across
\* matches, disconnections and deleted records (chatter, game_start, delete_user).
StatsCoherent == \A p \in Names : Coherent(rec[p])

\* A record is a record: while a user keeps the user record, no chat line and no
\* new match takes an overall count or a longest streak back.
Overall == {"kills", "longestKill", "deaths", "longestDeath", "suicides", "joins", "connects"}
OverallNeverShrinks ==
  [][\A p \in known \cap known' : \A c \in Overall : rec[p][c] <= rec'[p][c]]_vars
=============================================================================
