-------------------------------- MODULE Vote --------------------------------
(***************************************************************************)
(* Votes: -vote, -yes and -no (Commands/Vote.pm, Yes.pm, No.pm) and the    *)
(* pulse listener that closes the vote and executes a carried motion under *)
(* the bot's own name (Plugins/Vote.pm, Plugins/Commands.pm).              *)
(*                                                                         *)
(* A motion is the text after -vote.  It may be a vote itself: it is kept  *)
(* as how many times "vote" is said before the command it comes down to.   *)
(* start_time + VotingTime > time is kept as the seconds left.             *)
(***************************************************************************)
EXTENDS Integers, FiniteSets

CONSTANTS Voters,           \* names with a user record, the bot's own included
          Bot,              \* BotName
          Commands,         \* commands other than vote, yes and no
          InGame, InLobby,  \* the commands that may run there; unknown ones never do
          VotingTime,       \* seconds
          Turnout,          \* MinimumTurnout in percent
          MaxNest           \* bound: "vote vote ... vote <command>"

ASSUME VoteAssumption ==
  /\ IsFiniteSet(Voters) /\ Bot \in Voters
  /\ InGame \cup InLobby \subseteq Commands
  /\ "none" \notin Commands
  /\ {VotingTime, Turnout, MaxNest} \subseteq Nat

VARIABLES
  ingame,   \* whether the server plays a game (external)
  humans,   \* connected_humans, as update_player_info keeps them
  open,     \* plugin_stash->{vote}{in_progress}
  motion,   \* command
  left,     \* seconds until start_time + VotingTime
  yes, no,  \* result
  outcome,  \* how the last vote ended
  ran       \* the command the last close executed, or "none"

voteVars == <<open, motion, left, yes, no, outcome, ran>>
vars == <<ingame, humans, voteVars>>

Motion   == [nest : 0..MaxNest, cmd : Commands \cup {"yes", "no"}]
NoMotion == [nest |-> 0, cmd |-> "none"]

\* The gate in front of every command: is it known, and may it run now?
Allowed(cmd) == cmd \in (IF ingame THEN InGame ELSE InLobby)

----------------------------------------------------------------------------
\* Commands.

\* What -vote leaves in the stash: a new vote, its initiator in favour.
Started(p, m) ==
  /\ open' = TRUE
  /\ motion' = m
  /\ left' = VotingTime
  /\ yes' = {p} /\ no' = {}

\* Mutant: the ballots of the vote before are kept.
Propose_KeepsBallots(p, m) ==
  /\ ~open
  /\ open' = TRUE /\ motion' = m /\ left' = VotingTime
  /\ yes' = yes \cup {p} /\ no' = no \ {p}
  /\ UNCHANGED <<ingame, humans, outcome, ran>>

\* -vote; refused while a vote is in progress.
Propose(p, m) ==
  /\ ~open
  /\ Started(p, m)
  /\ UNCHANGED <<ingame, humans, outcome, ran>>

\* Mutant: the name stays in the other list.
SayYes_KeepsNo(p) ==
  /\ outcome # "none" \/ open
  /\ yes' = yes \cup {p}
  /\ UNCHANGED <<ingame, humans, open, motion, left, no, outcome, ran>>

\* -yes and -no count in the last vote started, closed or not; before the first
\* one there is nothing they are kept in.
SayYes(p) ==
  /\ outcome # "none" \/ open
  /\ yes' = yes \cup {p} /\ no' = no \ {p}
  /\ UNCHANGED <<ingame, humans, open, motion, left, outcome, ran>>

SayNo(p) ==
  /\ outcome # "none" \/ open
  /\ no' = no \cup {p} /\ yes' = yes \ {p}
  /\ UNCHANGED <<ingame, humans, open, motion, left, outcome, ran>>

----------------------------------------------------------------------------
\* The pulse.

\* int( MinimumTurnout * players )
MinVotes == (Turnout * Cardinality(humans)) \div 100

\* Mutant: the turnout test is the wrong way round.
Verdict_TurnoutReversed ==
  LET y == Cardinality(yes)  n == Cardinality(no) IN
  IF y + n > MinVotes THEN "few" ELSE IF y < n THEN "minority" ELSE "carried"

Verdict ==
  LET y == Cardinality(yes)  n == Cardinality(no) IN
  IF y + n < MinVotes THEN "few" ELSE IF y < n THEN "minority" ELSE "carried"

\* Mutant: a lone player waits for the time as well.
Due_Both == open /\ left = 0 /\ Cardinality(humans) <= 1

\* Time is up, or there is nobody else to wait for.
Due == open /\ (left = 0 \/ Cardinality(humans) <= 1)

Fail ==
  /\ Due /\ Verdict # "carried"
  /\ open' = FALSE
  /\ outcome' = Verdict /\ ran' = "none"
  /\ UNCHANGED <<ingame, humans, motion, left, yes, no>>

\* A carried motion that is a vote: the next one opens in the same pulse, with
\* the bot in favour.
CarryVote ==
  /\ Due /\ Verdict = "carried" /\ motion.nest > 0
  /\ Started(Bot, [motion EXCEPT !.nest = @ - 1])
  /\ outcome' = "carried" /\ ran' = "none"
  /\ UNCHANGED <<ingame, humans>>

\* A carried -yes or -no: the bot speaks, in the vote just closed.
CarryWord ==
  /\ Due /\ Verdict = "carried" /\ motion.nest = 0 /\ motion.cmd \notin Commands
  /\ open' = FALSE
  /\ IF motion.cmd = "yes" THEN yes' = yes \cup {Bot} /\ no' = no \ {Bot}
                           ELSE no' = no \cup {Bot} /\ yes' = yes \ {Bot}
  /\ outcome' = "carried" /\ ran' = "none"
  /\ UNCHANGED <<ingame, humans, motion, left>>

\* Mutant: in_progress stays set.
CarryCommand_StaysOpen ==
  /\ Due /\ Verdict = "carried" /\ motion.nest = 0 /\ motion.cmd \in Commands
  /\ outcome' = "carried"
  /\ ran' = IF Allowed(motion.cmd) THEN motion.cmd ELSE "none"
  /\ UNCHANGED <<ingame, humans, open, motion, left, yes, no>>

\* Any other carried command: executed if the gate lets it, dropped if not.
CarryCommand ==
  /\ Due /\ Verdict = "carried" /\ motion.nest = 0 /\ motion.cmd \in Commands
  /\ open' = FALSE
  /\ outcome' = "carried"
  /\ ran' = IF Allowed(motion.cmd) THEN motion.cmd ELSE "none"
  /\ UNCHANGED <<ingame, humans, motion, left, yes, no>>

Pulse == Fail \/ CarryVote \/ CarryWord \/ CarryCommand

----------------------------------------------------------------------------
\* Around the votes.

\* Mutant: the clock is not compared with the end of the vote.
Tick_PastZero ==
  /\ left' = left - 1
  /\ UNCHANGED <<ingame, humans, open, motion, yes, no, outcome, ran>>

Tick ==
  /\ left > 0
  /\ left' = left - 1
  /\ UNCHANGED <<ingame, humans, open, motion, yes, no, outcome, ran>>

\* A player is found connected, or no longer.
HumansChange(p) ==
  /\ humans' = IF p \in humans THEN humans \ {p} ELSE humans \cup {p}
  /\ UNCHANGED <<ingame, voteVars>>

GameStartsOrStops ==
  /\ ingame' = ~ingame
  /\ UNCHANGED <<humans, voteVars>>

Init ==
  /\ ingame = FALSE /\ humans = {}
  /\ open = FALSE /\ motion = NoMotion /\ left = 0
  /\ yes = {} /\ no = {}
  /\ outcome = "none" /\ ran = "none"

Next ==
  \/ \E p \in Voters, m \in Motion : Propose(p, m)
  \/ \E p \in Voters : SayYes(p) \/ SayNo(p)
  \/ Pulse \/ Tick
  \/ \E p \in Voters \ {Bot} : HumansChange(p)
  \/ GameStartsOrStops

Spec == Init /\ [][Next]_vars

\* The main loop raises a pulse in every round, and time passes.
FairSpec == Spec /\ WF_vars(Pulse) /\ WF_vars(Tick)

----------------------------------------------------------------------------
TypeOK ==
  /\ ingame \in BOOLEAN /\ open \in BOOLEAN
  /\ humans \subseteq Voters \ {Bot}
  /\ motion \in Motion \cup {NoMotion} /\ (open => motion \in Motion)
  /\ left \in 0..VotingTime
  /\ yes \subseteq Voters /\ no \subseteq Voters
  /\ outcome \in {"none", "few", "minority", "carried"}
  /\ ran \in Commands \cup {"none"}

\* Nobody is counted on both sides, however often a name changes its mind, in
\* and after the vote (Yes.pm and No.pm delete from the other list first).
OneVoice == yes \cap no = {}

\* The ballot the stash and the pulse implement.
B == INSTANCE Ballot WITH
       word <- [v \in Voters |-> IF ~open THEN "none" ELSE IF v \in yes THEN "yes"
                                 ELSE IF v \in no THEN "no" ELSE "none"],
       verdict <- IF outcome \in {"few", "minority"} THEN "lost" ELSE outcome

\* Commands and pulse implement a ballot: the last word of every name is what
\* counts, nothing said after the close or in the vote before does, a majority
\* against is never overruled, and a vote fails for no other reason.
ImplementsBallot == B!Spec

\* Every vote comes to an end, also when carried motions open the next one and
\* players come and go around the single-human shortcut (pulse, lines 31 to 35).
EveryVoteEnds == []<>~open
=============================================================================
