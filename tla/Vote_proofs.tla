---------------------------- MODULE Vote_proofs ----------------------------
(***************************************************************************)
(* The vote for any number of voters, any times, any turnout: its types,   *)
(* one voice per name, and that it implements Ballot.                      *)
(***************************************************************************)
EXTENDS MCVote, FiniteSetTheorems, TLAPS

\* The invariant the steps preserve.
IInv == TypeOK /\ OneVoice

\* The invariant holds before the first vote.
LEMMA InitIInv == Init => IInv
<1> SUFFICES ASSUME Init PROVE IInv
  OBVIOUS
<1>1. left \in 0..VotingTime
  BY VoteAssumption DEF Init
<1>2. yes \cap no = {} /\ humans \subseteq Voters \ {Bot}
  BY DEF Init
<1>3. QED
  BY <1>1, <1>2 DEF Init, IInv, TypeOK, OneVoice

\* A vote just started is well formed.
LEMMA StartedOK ==
  ASSUME NEW p \in Voters, NEW m \in Motion, Started(p, m)
  PROVE  /\ open' \in BOOLEAN /\ motion' \in Motion /\ left' \in 0..VotingTime
         /\ yes' \subseteq Voters /\ no' \subseteq Voters /\ yes' \cap no' = {}
  BY VoteAssumption DEF Started

\* A motion that is a vote comes down to a motion.
LEMMA InnerMotion ==
  ASSUME NEW m \in Motion, m.nest > 0
  PROVE  [m EXCEPT !.nest = @ - 1] \in Motion
  BY VoteAssumption DEF Motion

\* A count ends in one of three ways.
LEMMA VerdictType == Verdict \in {"few", "minority", "carried"}
  BY DEF Verdict

\* Every step of a vote preserves the invariant.
LEMMA NextIInv == IInv /\ [Next]_vars => IInv'
<1> SUFFICES ASSUME IInv, [Next]_vars PROVE IInv'
  OBVIOUS
<1> USE DEF IInv, TypeOK, OneVoice
<1>1. ASSUME NEW p \in Voters, NEW m \in Motion, Propose(p, m) PROVE IInv'
  BY <1>1, StartedOK DEF Propose
<1>2. ASSUME NEW p \in Voters, SayYes(p) PROVE IInv'
  BY <1>2 DEF SayYes
<1>3. ASSUME NEW p \in Voters, SayNo(p) PROVE IInv'
  BY <1>3 DEF SayNo
<1>4. CASE Fail
  BY <1>4, VerdictType DEF Fail
<1>5. CASE CarryVote
  <2>1. motion \in Motion
    BY <1>5 DEF CarryVote, Due
  <2>2. [motion EXCEPT !.nest = @ - 1] \in Motion
    BY <1>5, <2>1, InnerMotion DEF CarryVote
  <2>3. QED
    BY <1>5, <2>2, StartedOK, VoteAssumption DEF CarryVote
<1>6. CASE CarryWord
  BY <1>6, VoteAssumption DEF CarryWord
<1>7. CASE CarryCommand
  BY <1>7 DEF CarryCommand
<1>8. CASE Tick
  BY <1>8, VoteAssumption DEF Tick
<1>9. ASSUME NEW p \in Voters \ {Bot}, HumansChange(p) PROVE IInv'
  BY <1>9 DEF HumansChange, voteVars
<1>10. CASE GameStartsOrStops
  BY <1>10 DEF GameStartsOrStops, voteVars
<1>11. CASE UNCHANGED vars
  BY <1>11 DEF vars, voteVars
<1>12. QED
  BY <1>1, <1>2, <1>3, <1>4, <1>5, <1>6, <1>7, <1>8, <1>9, <1>10, <1>11
  DEF Next, Pulse

\* The variables of Vote.pm and of the vote stash keep their types.
THEOREM VoteTypeCorrect == Spec => []TypeOK
<1>1. IInv => TypeOK
  BY DEF IInv
<1>2. QED
  BY InitIInv, NextIInv, <1>1, PTL DEF Spec

\* Nobody is counted on both sides (Yes.pm, No.pm).
THEOREM NobodyCountsTwice == Spec => []OneVoice
<1>1. IInv => OneVoice
  BY DEF IInv
<1>2. QED
  BY InitIInv, NextIInv, <1>1, PTL DEF Spec

----------------------------------------------------------------------------
\* The refinement.

\* Ballot's word of each voter, and its verdict.
Word == [v \in Voters |-> IF ~open THEN "none" ELSE IF v \in yes THEN "yes"
                          ELSE IF v \in no THEN "no" ELSE "none"]
Ended == IF outcome \in {"few", "minority"} THEN "lost" ELSE outcome

\* Ballot counts as this module does.
LEMMA SameCardinality == ASSUME NEW S PROVE B!Cardinality(S) = Cardinality(S)
  BY DEF B!Cardinality, Cardinality

\* While a vote is open, Ballot counts the ballots of the stash.
LEMMA Counted ==
  ASSUME IInv, open
  PROVE  /\ B!Said("yes") = yes
         /\ B!Said("no") = no
  BY DEF IInv, TypeOK, OneVoice, B!Said

\* The lists of the stash are finite and no longer than the list of voters.
LEMMA Counts ==
  ASSUME IInv
  PROVE  /\ Cardinality(yes) \in Nat /\ Cardinality(no) \in Nat
         /\ Cardinality(humans) \in Nat /\ Cardinality(Voters) \in Nat
         /\ Cardinality(humans) <= Cardinality(Voters)
<1>1. yes \subseteq Voters /\ no \subseteq Voters /\ humans \subseteq Voters
  BY DEF IInv, TypeOK
<1>2. IsFiniteSet(yes) /\ IsFiniteSet(no) /\ IsFiniteSet(humans)
  BY <1>1, VoteAssumption, FS_Subset
<1>3. QED
  BY <1>1, <1>2, VoteAssumption, FS_Subset, FS_CardinalityType

\* Too few ballots for the humans present are too few for all the voters.
LEMMA TooFew ==
  ASSUME NEW y \in Nat, NEW n \in Nat, NEW h \in Nat, NEW v \in Nat, h <= v,
         y + n < (Turnout * h) \div 100
  PROVE  100 * (y + n) < Turnout * v
<1>1. Turnout \in Nat
  BY VoteAssumption
<1>2. Turnout * h \in Nat /\ Turnout * v \in Nat /\ Turnout * h <= Turnout * v
  BY <1>1
<1> DEFINE t == Turnout * h
<1>3. 100 * (t \div 100) <= t
  <2>1. t \in Nat
    BY <1>2
  <2> HIDE DEF t
  <2>2. QED
    BY <2>1
<1>4. 100 * (y + n) < 100 * (t \div 100) /\ t \div 100 \in Int
  <2>1. t \in Nat
    BY <1>2
  <2>2. y + n < t \div 100
    OBVIOUS
  <2> HIDE DEF t
  <2>3. QED
    BY <2>1, <2>2
<1>5. QED
  BY <1>2, <1>3, <1>4

\* -vote is Ballot's Propose.
LEMMA ProposeRefines ==
  ASSUME IInv, NEW p \in Voters, NEW m \in Motion, Propose(p, m)
  PROVE  B!Propose(p)
  BY DEF Propose, Started, B!Propose, B!Opened, B!Silent

\* -yes and -no are Ballot's Say, or change nothing when the vote is closed.
LEMMA SayRefines ==
  ASSUME IInv, NEW p \in Voters, SayYes(p) \/ SayNo(p)
  PROVE  \/ B!Say(p, "yes") \/ B!Say(p, "no")
         \/ Word' = Word /\ open' = open /\ Ended' = Ended
<1>1. CASE ~open
  BY <1>1 DEF SayYes, SayNo, Word, Ended
<1>2. CASE open /\ SayYes(p)
  BY <1>2 DEF SayYes, B!Say, IInv, TypeOK, OneVoice
<1>3. CASE open /\ SayNo(p)
  BY <1>3 DEF SayNo, B!Say, IInv, TypeOK, OneVoice
<1>4. QED
  BY <1>1, <1>2, <1>3 DEF IInv, TypeOK

\* A close is Ballot's Carry or Lose.
LEMMA PulseRefines ==
  ASSUME IInv, Pulse
  PROVE  B!Carry \/ B!Lose
<1>1. open
  BY DEF Pulse, Fail, CarryVote, CarryWord, CarryCommand, Due
<1>2. B!Said("yes") = yes /\ B!Said("no") = no
  BY <1>1, Counted
<1>3. /\ B!Cardinality(B!Said("yes")) = Cardinality(yes)
      /\ B!Cardinality(B!Said("no")) = Cardinality(no)
      /\ B!Cardinality(Voters) = Cardinality(Voters)
  BY <1>2, SameCardinality
<1>4. CASE Fail /\ Verdict = "few"
  <2>1. Cardinality(yes) + Cardinality(no) < (Turnout * Cardinality(humans)) \div 100
    BY <1>4 DEF Verdict, MinVotes
  <2>2. 100 * (Cardinality(yes) + Cardinality(no)) < Turnout * Cardinality(Voters)
    BY <2>1, Counts, TooFew
  <2>3. QED
    BY <1>1, <1>3, <1>4, <2>2 DEF Fail, B!Lose, B!Silent
<1>5. CASE Fail /\ Verdict = "minority"
  <2>1. Cardinality(yes) < Cardinality(no)
    BY <1>5 DEF Verdict
  <2>2. QED
    BY <1>1, <1>3, <1>5, <2>1 DEF Fail, B!Lose, B!Silent
<1>6. CASE Verdict = "carried" /\ (CarryVote \/ CarryWord \/ CarryCommand)
  <2>1. Cardinality(yes) >= Cardinality(no)
    BY <1>6, Counts DEF Verdict
  <2>2. CASE CarryVote
    BY <1>1, <1>3, <2>1, <2>2 DEF CarryVote, Started, B!Carry, B!Opened, B!Silent
  <2>3. CASE CarryWord
    BY <1>1, <1>3, <2>1, <2>3 DEF CarryWord, B!Carry, B!Silent
  <2>4. CASE CarryCommand
    BY <1>1, <1>3, <2>1, <2>4 DEF CarryCommand, B!Carry, B!Silent
  <2>5. QED
    BY <1>6, <2>2, <2>3, <2>4
<1>7. QED
  BY <1>4, <1>5, <1>6, VerdictType DEF Pulse, Fail, CarryVote, CarryWord, CarryCommand

\* At first no ballot is open.
LEMMA InitRefines == Init => B!Init
  BY DEF Init, B!Init, B!Silent

\* Every step of the vote is a step of the ballot, or none.
LEMMA NextRefines ==
  ASSUME IInv, [Next]_vars
  PROVE  [B!Next]_<<open, Word, Ended>>
<1>1. ASSUME NEW p \in Voters, NEW m \in Motion, Propose(p, m) PROVE B!Next
  BY <1>1, ProposeRefines DEF B!Next
<1>2. ASSUME NEW p \in Voters, SayYes(p) \/ SayNo(p)
      PROVE  B!Next \/ UNCHANGED <<open, Word, Ended>>
  BY <1>2, SayRefines DEF B!Next
<1>3. CASE Pulse
  BY <1>3, PulseRefines DEF B!Next
<1>4. CASE Tick
  BY <1>4 DEF Tick, Word, Ended
<1>5. ASSUME NEW p \in Voters \ {Bot}, HumansChange(p) PROVE UNCHANGED <<open, Word, Ended>>
  BY <1>5 DEF HumansChange, voteVars, Word, Ended
<1>6. CASE GameStartsOrStops
  BY <1>6 DEF GameStartsOrStops, voteVars, Word, Ended
<1>7. CASE UNCHANGED vars
  BY <1>7 DEF vars, voteVars, Word, Ended
<1>8. QED
  BY <1>1, <1>2, <1>3, <1>4, <1>5, <1>6, <1>7 DEF Next

\* Commands and pulse implement the ballot, whatever the turnout, the time and
\* the players present.
THEOREM VoteImplementsBallot == Spec => ImplementsBallot
<1>1. IInv /\ [Next]_vars => [B!Next]_<<open, Word, Ended>>
  BY NextRefines
<1>2. QED
  BY InitIInv, NextIInv, InitRefines, <1>1, PTL
  DEF Spec, ImplementsBallot, B!Spec, Word, Ended

----------------------------------------------------------------------------
\* How often a motion runs.  While a vote is open its motion has not run: the
\* close clears in_progress in the same pulse, and only an open vote is closed.
NotYet == times \in 0..1 /\ (open => times = 0)

\* Until a vote ends, its command has not run for it.
LEMMA NotYetKept == TypeOK /\ NotYet /\ [MCNext]_<<vars, times>> => NotYet'
<1> SUFFICES ASSUME TypeOK, NotYet, [MCNext]_<<vars, times>> PROVE NotYet'
  OBVIOUS
<1>1. CASE UNCHANGED <<vars, times>>
  BY <1>1 DEF vars, voteVars, NotYet
<1>2. CASE MCNext /\ StartedNow
  BY <1>2 DEF MCNext, NotYet
<1>3. CASE MCNext /\ ~StartedNow /\ Pulse
  <2>1. open /\ ~open'
    BY <1>3 DEF Pulse, StartedNow, Fail, CarryWord, CarryCommand, Due
  <2>2. times = 0 /\ times' \in 0..1
    BY <1>3, <2>1 DEF MCNext, NotYet
  <2> QED BY <2>1, <2>2 DEF NotYet
<1>4. CASE MCNext /\ ~StartedNow /\ ~Pulse
  <2>1. times' = times
    BY <1>4 DEF MCNext
  <2>2. open' => open
    BY <1>4 DEF StartedNow, TypeOK
  <2> QED BY <2>1, <2>2 DEF NotYet
<1> QED BY <1>1, <1>2, <1>3, <1>4

\* RunsOnce: no vote runs its motion twice, whatever is said after the close.
THEOREM MotionRunsOnce == MCSpec => []RunsOnce
<1>1. MCInit => TypeOK /\ OneVoice /\ NotYet
  BY InitIInv DEF MCInit, IInv, Init, NotYet
<1>2. TypeOK /\ OneVoice /\ NotYet /\ [MCNext]_<<vars, times>> => (TypeOK /\ OneVoice /\ NotYet)'
  <2>1. [MCNext]_<<vars, times>> => [Next]_vars
    BY DEF MCNext
  <2> QED BY <2>1, NextIInv, NotYetKept DEF IInv
<1>3. NotYet => RunsOnce
  BY DEF NotYet, RunsOnce
<1> QED BY <1>1, <1>2, <1>3, PTL DEF MCSpec
=============================================================================
