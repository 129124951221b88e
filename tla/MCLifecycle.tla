----------------------------- MODULE MCLifecycle -----------------------------
(***************************************************************************)
(* Lifecycle with a history: whether a stop was asked for, whether a bot   *)
(* process ended before the server it had created showed its window, and   *)
(* whether a restart was ordered after a setting was changed.              *)
(***************************************************************************)
EXTENDS Lifecycle

VARIABLES asked, early, promised

MCInit == Init /\ asked = FALSE /\ early = FALSE /\ promised = FALSE
MCNext ==
  /\ Next
  /\ asked' = (asked \/ bot' = "stop")
  /\ early' = (early \/ (bot' = "none" /\ \E s \in Servers : stage'[s] = "starting"))
  /\ promised' = (promised \/ (Restart /\ config = "changed"))
MCSpec == MCInit /\ [][MCNext]_<<vars, asked, early, promised>>
MCFairSpec == MCSpec /\ Fairness

\* The batch file gives up only when somebody asked for it, by -shutdown or by INT
\* to a bot that had its server: no crash, failed start or restart ends it.
StopsOnlyWhenAsked == stopBot \/ bat = "ended" => asked

\* Unless a bot process ended while its server was still loading, there is never
\* more than one server, through any crashes, restarts and orphans (start_server
\* looks for a window, not for a process).
OneServer == ~early => Cardinality({s \in Servers : stage[s] # "none"}) <= 1

\* And then a shutdown leaves none behind: the server_proc it kills is the server
\* the bot was watching.
EndsClean == bat = "ended" /\ ~early => \A s \in Servers : stage[s] = "none"

\* What the help of -restart says: it takes the changed settings into account.
RestartTakesSettings == promised /\ Hosting => shown[hwnd] = "changed"
=============================================================================
