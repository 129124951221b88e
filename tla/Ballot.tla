------------------------------- MODULE Ballot -------------------------------
(***************************************************************************)
(* What a vote promises, whatever the clock and the player list do: one    *)
(* motion at a time, one voice per name, the last word counts, a carried   *)
(* motion had no majority against it, and one that is lost had, or too few *)
(* of those who might have voted did.                                      *)
(***************************************************************************)
EXTENDS Integers, FiniteSets

CONSTANTS Voters,   \* names that can speak
          Bot,      \* the name carried motions are executed under
          Turnout   \* the share of the voters that must vote, in percent

VARIABLES open,     \* a motion is being voted on
          word,     \* what each voter said of it last
          verdict   \* how the last vote ended

Said(w)  == {v \in Voters : word[v] = w}
Silent   == [v \in Voters |-> "none"]
Opened(p) == open' = TRUE /\ word' = [Silent EXCEPT ![p] = "yes"]

Init == open = FALSE /\ word = Silent /\ verdict = "none"

\* A voter moves, and is for it.
Propose(p) == ~open /\ Opened(p) /\ UNCHANGED verdict

\* A voter speaks, for the first time or again.
Say(p, w) == open /\ word' = [word EXCEPT ![p] = w] /\ UNCHANGED <<open, verdict>>

\* Carried; what is then executed may be a motion of the bot's.
Carry ==
  /\ open
  /\ Cardinality(Said("yes")) >= Cardinality(Said("no"))
  /\ verdict' = "carried"
  /\ \/ open' = FALSE /\ word' = Silent
     \/ Opened(Bot)

Lose ==
  /\ open
  /\ \/ Cardinality(Said("yes")) < Cardinality(Said("no"))
     \/ 100 * (Cardinality(Said("yes")) + Cardinality(Said("no")))
          < Turnout * Cardinality(Voters)
  /\ verdict' = "lost"
  /\ open' = FALSE /\ word' = Silent

Next == \/ \E p \in Voters : Propose(p) \/ Say(p, "yes") \/ Say(p, "no")
        \/ Carry \/ Lose

Spec == Init /\ [][Next]_<<open, word, verdict>>
=============================================================================
