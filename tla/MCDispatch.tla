----------------------------- MODULE MCDispatch -----------------------------
(***************************************************************************)
(* Dispatch with a history: how often each line was taken up, and whether  *)
(* the end of a game was noticed and no lobby configured for it yet.       *)
(***************************************************************************)
EXTENDS Dispatch

VARIABLES taken, owed

Say(who, words) == {[who |-> who, word |-> w] : w \in words}
MCLines == Say("adm", {"connected", "launch", "stop", "next", "type", "drop", "login"})
           \cup Say("ply", {"connected", "joined", "chat", "unknown", "stop"})

TakesUp == pc = "lines" /\ batch # <<>> /\ <<pc', batch'>> # <<pc, batch>>

MCInit == Init /\ taken = [i \in 1..MaxLines |-> 0] /\ owed = FALSE
MCNext ==
  /\ Next
  /\ taken' = IF TakesUp THEN [taken EXCEPT ![Head(batch).id] = @ + 1] ELSE taken
  /\ owed' = CASE pc = "look" /\ pc' = "config" -> TRUE
               [] pc = "look" /\ pc' = "fetch" /\ game -> FALSE
               [] pc = "config" /\ why = "stop" /\ pc' = "fetch" -> FALSE
               [] OTHER -> owed
MCSpec == MCInit /\ [][MCNext]_<<vars, taken, owed>>
MCFairSpec == MCSpec /\ WF_vars(Bot)

\* No line is handled twice, not even when handling it ended the round: new_chatter
\* moves last_chatter before the lines are looked at.
NoLineTwice == \A i \in DOMAIN taken : taken[i] <= 1

\* Once the games rest, so does the bot's idea of them, and the lobby has been
\* configured for the game whose end it noticed last, however often configure_game
\* died on the way (the flag is set after the listeners were told).
CatchesUp == <>[](was = game /\ ~owed)

\* Every line is fetched in the end: rounds that die, in game_stop or over a line,
\* do not keep the loop from the chat (watch_loop).
ChatIsFetched == []<>(chat = <<>> /\ batch = <<>>)
=============================================================================
