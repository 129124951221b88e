------------------------------- MODULE MCStats -------------------------------
(***************************************************************************)
(* Stats with the history of what happened, so that the counters, which    *)
(* the code keeps line by line, can be compared with what they are meant   *)
(* to say of that history.                                                 *)
(***************************************************************************)
EXTENDS Stats, Sequences, FiniteSetsExt, Functions, TLC

CONSTANTS MaxLog,    \* bound on the kills, match starts and the one deletion
          MaxLines   \* bound on the connects, joins and suicides counted in all

\* In any run of the bot only so many names appear: their counters can be added up.
ASSUME MCStatsAssumption == IsFiniteSet(Names)

VARIABLE log
mcvars == <<vars, log>>

Others == FoldSet(LAMBDA p, acc : acc + rec[p]["connects"] + rec[p]["joins"]
                                      + rec[p]["suicides"], 0, Names)
Players == Permutations(Names \ {BotName})

Logged(entry) == Len(log) < MaxLog /\ log' = Append(log, entry)

Score(r) == [c \in {"kills", "deaths"} |-> r[c]]

MCInit == Init /\ log = <<>>

MCNext ==
  \/ \E k, v \in Names \ {BotName} : Destroyed(k, v) /\ Logged([what |-> "kill", by |-> k, of |-> v])
  \/ GameStart /\ Logged([what |-> "start", conn |-> conn])
  \/ \E p \in Names : /\ Forget(p)
                      /\ \A i \in DOMAIN log : log[i].what # "forget"
                      /\ Logged([what |-> "forget", who |-> p, rec |-> Score(rec[p])])
  \/ \E p \in Names : Others < MaxLines /\ Line(p) /\ UNCHANGED log
  \/ (DestroyedOther \/ GameStop) /\ UNCHANGED log
  \/ \E p \in known \ {BotName} :
       /\ RosterUpdate(conn \cup {p}, bots) \/ RosterUpdate(conn \ {p}, bots \cup {p})
       /\ UNCHANGED log

MCSpec == MCInit /\ [][MCNext]_mcvars

----------------------------------------------------------------------------
\* The entries after which p's kills, or deaths, in a row are counted anew.
Anew(p, e) == \/ e.what = "start" /\ p \in e.conn
              \/ e.what = "forget" /\ p = e.who
IsKill(e, p)  == e.what = "kill" /\ e.by = p
IsDeath(e, p) == e.what = "kill" /\ e.of = p

\* p's kills, or deaths, in a row at the end of the first n entries.
KillRun(p, n) ==
  Cardinality({i \in 1..n : IsKill(log[i], p)
                 /\ \A j \in i..n : ~IsDeath(log[j], p) /\ ~Anew(p, log[j])})
DeathRun(p, n) ==
  Cardinality({i \in 1..n : IsDeath(log[i], p)
                 /\ \A j \in i..n : ~IsKill(log[j], p) /\ ~Anew(p, log[j])})
Forgotten(p) == Max({0} \cup {i \in 1..Len(log) : log[i].what = "forget" /\ log[i].who = p})

\* The streaks a user has, and the longest ever, are those of the history: the
\* code's increments, resets and comparisons compute the longest run of kills
\* (deaths) without a death (kill), a match start or a new record in between.
StreaksMatchHistory ==
  \A p \in Names :
    LET span == Forgotten(p)..Len(log) IN
    /\ rec[p]["killStreak"]   = KillRun(p, Len(log))
    /\ rec[p]["deathStreak"]  = DeathRun(p, Len(log))
    /\ rec[p]["longestKill"]  = Max({KillRun(p, n) : n \in span})
    /\ rec[p]["longestDeath"] = Max({DeathRun(p, n) : n \in span})

\* Every kill counted for one user is a death counted for another, records that
\* were deleted included: a line about a name without a record counts for nobody.
Held(c)  == [p \in Names |-> rec[p][c]]
Lost(c)  == [i \in DOMAIN log |-> IF log[i].what = "forget" THEN log[i].rec[c] ELSE 0]
Total(c) == SumFunction(Held(c)) + SumFunction(Lost(c))
KillsAreDeaths == Total("kills") = Total("deaths")
=============================================================================
