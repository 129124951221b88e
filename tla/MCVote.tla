------------------------------- MODULE MCVote -------------------------------
(***************************************************************************)
(* Vote with a history: how many commands the vote started last has run.   *)
(***************************************************************************)
EXTENDS Vote

VARIABLE times   \* commands run since a vote was started last, counted to 2

StartedNow == CarryVote \/ (~open /\ open')

MCInit == Init /\ times = 0
MCNext == /\ Next
          /\ times' = IF StartedNow THEN 0
                      ELSE IF Pulse /\ ran' # "none" /\ times < 2 THEN times + 1
                      ELSE times
MCSpec == /\ MCInit /\ [][MCNext]_<<vars, times>>
          /\ WF_vars(Pulse) /\ WF_vars(Tick)

\* One vote runs its command once: it cannot be closed twice, nor run again by
\* what is said after the close (in_progress cleared before process_command).
RunsOnce == times <= 1
=============================================================================
