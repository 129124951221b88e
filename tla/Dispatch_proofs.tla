-------------------------- MODULE Dispatch_proofs --------------------------
(***************************************************************************)
(* The loop for any players, any chat, any cycle of games: its types, and  *)
(* that the cycle skips no game.                                           *)
(***************************************************************************)
EXTENDS MCDispatch, TLAPS

\* configure_game runs in the loop's thread, between two of its steps.
Between ==
  /\ pc = "config" <=> step # 0
  /\ pc = "execute" => batch # <<>>

\* The settings configure_game has passed show the entry it runs for.
Progress ==
  \A k \in DOMAIN Steps :
    k < step /\ Steps[k] \notin {"map", "visibility"} => lobby[Steps[k]] = cyclePos

\* The invariant the steps preserve.
IInv == TypeOK /\ Between /\ Progress

----------------------------------------------------------------------------
\* configure_game makes six settings.
LEMMA SixSteps == Len(Steps) = 6 /\ DOMAIN Steps = 1..6
  BY DEF Steps

\* The settings it makes.
LEMMA SettingsAre ==
  Settings = {"type", "map", "visibility", "daytime", "stock", "radar"}
  BY DEF Settings, Steps, Range

\* Whatever a step takes a value from, the lobby stays a lobby.
LEMMA WithType ==
  ASSUME CycleTypeOK, NEW s \in Settings, NEW v \in Entries \cup {AnyValue, ByHand}
  PROVE  With(s, v) \in [Settings -> Entries \cup {AnyValue, ByHand}]
  BY SettingsAre DEF CycleTypeOK, With

\* Every step has a setting, and a source for its value.
LEMMA SourceType ==
  ASSUME CycleTypeOK, NEW k \in DOMAIN Steps
  PROVE  Steps[k] \in Settings /\ Source(k) \in Entries \cup {AnyValue, ByHand}
  BY SettingsAre, SixSteps DEF CycleTypeOK, Source, Steps

\* The cycle has a first entry.
LEMMA FirstEntry == 0 \in Entries
  BY GamesAssumption DEF Entries

\* The invariant holds at first.
LEMMA InitIInv == Init => IInv
<1> SUFFICES ASSUME Init PROVE IInv
  OBVIOUS
<1> USE DEF Init, CycleInit
<1>1. CycleTypeOK
  BY FirstEntry, SixSteps DEF CycleTypeOK
<1>2. spent \in [DOMAIN Bounds -> Nat]
  BY DEF Bounds
<1>3. said \in 0..MaxLines
  BY DispatchAssumption
<1>4. TypeOK
  <2>1. chat \in Seq(ChatLine) /\ batch \in Seq(ChatLine)
    OBVIOUS
  <2>2. game \in BOOLEAN /\ was \in BOOLEAN /\ pc = "look" /\ why = "stop"
    OBVIOUS
  <2> QED BY <1>1, <1>2, <1>3, <2>1, <2>2, Zenon DEF TypeOK
<1>5. Between
  BY DEF Between
<1>6. Progress
  BY SixSteps DEF Progress
<1> QED BY <1>4, <1>5, <1>6 DEF IInv

----------------------------------------------------------------------------
\* The operations of GameCycle keep the lobby, the position and the progress.
LEMMA StartKeeps == CycleTypeOK /\ Start => CycleTypeOK' /\ Progress' /\ step' = 1
  BY SixSteps DEF CycleTypeOK, Start, Progress

\* A step of configure_game leaves behind it the entry's settings.
LEMMA SelectKeeps ==
  ASSUME CycleTypeOK, Progress, Select
  PROVE  CycleTypeOK' /\ Progress' /\ step' # 0
<1> USE DEF Select
<1>1. step \in DOMAIN Steps /\ step \in 1..6 /\ step' = step + 1 /\ cyclePos' = cyclePos
  BY SixSteps
<1>2. lobby' \in [Settings -> Entries \cup {AnyValue, ByHand}]
  BY <1>1, WithType, SourceType DEF CycleTypeOK
<1>3. CycleTypeOK' /\ step' # 0
  BY <1>1, <1>2, SixSteps DEF CycleTypeOK
<1>4. ASSUME NEW k \in DOMAIN Steps, k < step', Steps[k] \notin {"map", "visibility"}
      PROVE  lobby'[Steps[k]] = cyclePos
  <2>1. CASE k = step
    <3>1. lobby' = With(Steps[k], cyclePos)
      BY <2>1, <1>4 DEF Source
    <3> QED BY <3>1, <1>4, SixSteps, SettingsAre, SourceType DEF With, CycleTypeOK
  <2>2. CASE k < step
    <3>1. lobby[Steps[k]] = cyclePos
      BY <2>2, <1>4 DEF Progress
    <3>2. Steps[k] # Steps[step] /\ Steps[step] # "type" /\ Steps[k] \in Settings
      BY <2>2, <1>1, <1>4, SixSteps, SettingsAre DEF Steps
    <3>3. lobby'[Steps[k]] = lobby[Steps[k]]
      BY <3>2 DEF With, CycleTypeOK
    <3> QED BY <3>1, <3>3
  <2> QED BY <2>1, <2>2, <1>1, <1>4, SixSteps
<1> QED BY <1>1, <1>3, <1>4 DEF Progress

\* One that dies starts over from the first setting ...
LEMMA FailsKeeps == CycleTypeOK /\ Fails => CycleTypeOK' /\ Progress' /\ step' = 0
  BY SixSteps DEF CycleTypeOK, Fails, Progress

\* ... and so does the game after, at the next entry.
LEMMA AdvanceKeeps == CycleTypeOK /\ Advance => CycleTypeOK' /\ Progress' /\ step' = 0
<1> SUFFICES ASSUME CycleTypeOK, Advance PROVE CycleTypeOK' /\ Progress' /\ step' = 0
  OBVIOUS
<1>1. cyclePos' \in Entries
  BY GamesAssumption DEF Advance, CycleTypeOK, Entries
<1> QED BY <1>1, SixSteps DEF Advance, CycleTypeOK, Progress

\* Lines come and go one at a time, or all at once.
LEMMA LinesKeep ==
  ASSUME TypeOK, RoundDies \/ (batch # <<>> /\ LineDone)
  PROVE  /\ chat' \in Seq(ChatLine) /\ batch' \in Seq(ChatLine)
         /\ said' \in 0..MaxLines /\ here' \subseteq Users
         /\ pc' \in {"look", "lines"}
<1>1. /\ chat \in Seq(ChatLine) /\ batch \in Seq(ChatLine)
      /\ said \in 0..MaxLines /\ here \subseteq Users
  BY DEF TypeOK
<1>2. batch # <<>> => Tail(batch) \in Seq(ChatLine)
  BY <1>1
<1>3. <<>> \in Seq(ChatLine)
  OBVIOUS
<1>4. CASE RoundDies
  BY <1>1, <1>3, <1>4 DEF RoundDies, chatVars
<1>5. CASE batch # <<>> /\ LineDone
  BY <1>1, <1>2, <1>5 DEF LineDone, chatVars
<1> QED BY <1>4, <1>5

\* Who typed the line that is handled.
LEMMA WhoIsUser ==
  ASSUME TypeOK, batch # <<>>
  PROVE  Who \in Users
<1>1. Head(batch) \in ChatLine
  <2>1. batch \in Seq(ChatLine)
    BY DEF TypeOK
  <2> QED BY <2>1
<1>2. \A l \in ChatLine : l.who \in Users
  BY DEF ChatLine
<1> QED BY <1>1, <1>2 DEF Who

\* The bounds stay numbers.
LEMMA SpendKeeps ==
  ASSUME TypeOK, NEW what \in {"games", "faults"}, Spend(what)
  PROVE  spent' \in [DOMAIN Bounds -> Nat]
  BY DEF TypeOK, Spend, Bounds

\* Every step of the server, the players and the loop preserves the invariant.
LEMMA NextIInv == IInv /\ [Next]_vars => IInv'
<1> SUFFICES ASSUME IInv, [Next]_vars PROVE IInv'
  OBVIOUS
<1>t. TypeOK /\ CycleTypeOK /\ Between /\ Progress
  BY DEF IInv, TypeOK
<1>same. ASSUME UNCHANGED cycleVars PROVE CycleTypeOK' /\ Progress' /\ step' = step
  BY <1>t, <1>same DEF cycleVars, CycleTypeOK, Progress
<1>1. CASE GameStarts
  <2>1. spent' \in [DOMAIN Bounds -> Nat]
    BY <1>1, <1>t, SpendKeeps DEF GameStarts
  <2> QED BY <1>1, <1>t, <1>same, <2>1 DEF GameStarts, IInv, TypeOK, Between, chatVars
<1>2. CASE GameEnds
  BY <1>2, <1>t, <1>same DEF GameEnds, IInv, TypeOK, Between, chatVars
<1>3. ASSUME NEW line \in Lines, Appears(line) PROVE IInv'
  <2>1. line.who \in Users /\ line.word \in Words
    BY DispatchAssumption
  <2>2. said' \in 0..MaxLines /\ said + 1 \in 1..MaxLines
    BY <1>3, <1>t, DispatchAssumption DEF Appears, TypeOK
  <2>3. [who |-> line.who, word |-> line.word, id |-> said + 1] \in ChatLine
    BY <2>1, <2>2 DEF ChatLine
  <2>4. chat' \in Seq(ChatLine) /\ here' \subseteq Users
    BY <1>3, <1>t, <2>1, <2>3 DEF Appears, TypeOK
  <2> QED BY <1>3, <1>t, <1>same, <2>2, <2>4 DEF Appears, IInv, TypeOK, Between
<1>4. CASE LookStop
  BY <1>4, <1>t, StartKeeps DEF LookStop, IInv, TypeOK, Between, chatVars
<1>5. CASE Look
  BY <1>5, <1>t, <1>same DEF Look, IInv, TypeOK, Between, chatVars
<1>6. CASE ConfigSelects
  BY <1>6, <1>t, SelectKeeps DEF ConfigSelects, IInv, TypeOK, Between, chatVars
<1>7. CASE ConfigFails
  <2>1. spent' \in [DOMAIN Bounds -> Nat]
    BY <1>7, <1>t, SpendKeeps DEF ConfigFails
  <2> QED BY <1>7, <1>t, <2>1, FailsKeeps DEF ConfigFails, IInv, TypeOK, Between, chatVars
<1>8. CASE ConfigDone
  BY <1>8, <1>t, AdvanceKeeps DEF ConfigDone, IInv, TypeOK, Between, chatVars
<1>9. CASE Fetch
  BY <1>9, <1>t, <1>same DEF Fetch, IInv, TypeOK, Between
<1>10. CASE HearConnected
  <2>1. batch # <<>> /\ Who \in Users
    BY <1>10, <1>t, WhoIsUser DEF HearConnected, Line
  <2> QED BY <1>10, <1>t, <1>same, <2>1, LinesKeep DEF HearConnected, Line, IInv, TypeOK, Between
<1>11. CASE HearJoined
  BY <1>11, <1>t, <1>same, LinesKeep DEF HearJoined, Line, IInv, TypeOK, Between
<1>12. CASE HearOther
  BY <1>12, <1>t, <1>same, LinesKeep DEF HearOther, Line, IInv, TypeOK, Between
<1>13. CASE Refuse
  <2>1. RoundDies \/ (batch # <<>> /\ LineDone)
    BY <1>13 DEF Refuse, Line
  <2> QED BY <1>13, <1>t, <1>same, <2>1, LinesKeep DEF Refuse, Line, IInv, TypeOK, Between
<1>14. CASE Accept
  BY <1>14, <1>t, <1>same DEF Accept, Line, IInv, TypeOK, Between, chatVars
<1>15. CASE Launch
  <2>1. batch # <<>>
    BY <1>15, <1>t DEF Launch, Executing, Between
  <2>2. spent' \in [DOMAIN Bounds -> Nat] /\ game' \in BOOLEAN
    BY <1>15, <1>t, SpendKeeps DEF Launch, TypeOK
  <2> QED BY <1>15, <1>t, <1>same, <2>1, <2>2, LinesKeep DEF Launch, Executing, IInv, TypeOK, Between
<1>16. CASE Stop
  <2>1. batch # <<>>
    BY <1>16, <1>t DEF Stop, Executing, Between
  <2> QED BY <1>16, <1>t, <1>same, <2>1, LinesKeep DEF Stop, Executing, IInv, TypeOK, Between
<1>17. CASE NextGame
  <2>1. batch' \in Seq(ChatLine)
    BY <1>17, <1>t DEF NextGame, Executing, Between, TypeOK
  <2> QED BY <1>17, <1>t, <2>1, StartKeeps DEF NextGame, IInv, TypeOK, Between, chatVars
<1>18. CASE SetType
  <2>1. batch # <<>> /\ step = 0 /\ step' = 0
    BY <1>18, <1>t DEF SetType, Executing, Between
  <2>2. CycleTypeOK' /\ Progress'
    BY <1>18, <1>t, <2>1, WithType, SettingsAre, SixSteps DEF SetType, CycleTypeOK, Progress
  <2> QED BY <1>18, <1>t, <2>1, <2>2, LinesKeep DEF SetType, Executing, IInv, TypeOK, Between
<1>19. CASE Login
  <2>1. batch # <<>> /\ Who \in Users
    BY <1>19, <1>t, WhoIsUser DEF Login, Executing, Between
  <2> QED BY <1>19, <1>t, <1>same, <2>1, LinesKeep DEF Login, Executing, IInv, TypeOK, Between
<1>20. CASE Sleep
  BY <1>20, <1>t, <1>same DEF Sleep, IInv, TypeOK, Between, chatVars
<1>21. CASE UNCHANGED vars
  BY <1>21, <1>t, <1>same DEF vars, IInv, TypeOK, Between, chatVars
<1> QED BY <1>1, <1>2, <1>3, <1>4, <1>5, <1>6, <1>7, <1>8, <1>9, <1>10, <1>11, <1>12, <1>13,
           <1>14, <1>15, <1>16, <1>17, <1>18, <1>19, <1>20, <1>21 DEF Next, Bot

\* The variables of the loop and of configure_game keep their types.
THEOREM DispatchTypeCorrect == Spec => []TypeOK
<1>1. Spec => []IInv
  BY InitIInv, NextIInv, PTL DEF Spec
<1> QED BY <1>1, PTL DEF IInv

----------------------------------------------------------------------------
\* One past the last entry is the first.
LEMMA WrapIsModulo ==
  ASSUME NEW n \in Entries
  PROVE  (IF n + 1 >= Games THEN 0 ELSE n + 1) = (n + 1) % Games
  BY GamesAssumption DEF Entries

\* Only configure_game's last statement moves the position.
LEMMA OnlyAdvanceMoves == [Next]_vars => Advance \/ cyclePos' = cyclePos
  BY DEF Next, Bot, GameStarts, GameEnds, Appears, LookStop, Look, ConfigSelects, ConfigFails,
         ConfigDone, Fetch, HearConnected, HearJoined, HearOther, Refuse, Accept, Launch, Stop,
         NextGame, SetType, Login, Sleep, Start, Select, Fails, vars, cycleVars

\* When the position moves on, all six settings are there (configure_game's end).
LEMMA AdvanceShows == IInv /\ Advance => EntryShown /\ cyclePos' = (cyclePos + 1) % Games
<1> SUFFICES ASSUME IInv, Advance PROVE EntryShown /\ cyclePos' = (cyclePos + 1) % Games
  OBVIOUS
<1>1. cyclePos' = (cyclePos + 1) % Games
  BY WrapIsModulo DEF IInv, TypeOK, CycleTypeOK, Advance
<1>2. \A k \in 1..6 : Steps[k] \notin {"map", "visibility"} => lobby[Steps[k]] = cyclePos
  BY SixSteps DEF IInv, Progress, Advance
<1>3. \A s \in Settings : \E k \in 1..6 : Steps[k] = s
  BY SixSteps DEF Settings, Range
<1> QED BY <1>1, <1>2, <1>3 DEF EntryShown

\* Nothing skips an entry of the cycle: neither a configuration that died and was
\* begun again, nor a command that set something by hand (configure_game).
THEOREM CycleSkipsNothing == Spec => NoEntrySkipped
<1>1. Spec => []IInv
  BY InitIInv, NextIInv, PTL DEF Spec
<1>2. IInv /\ [Next]_vars
        => [cyclePos' # cyclePos => EntryShown /\ cyclePos' = (cyclePos + 1) % Games]_cycleVars
  BY OnlyAdvanceMoves, AdvanceShows
<1> QED BY <1>1, <1>2, PTL DEF Spec, NoEntrySkipped

----------------------------------------------------------------------------
\* How often a line is taken up.

\* Lines keep the order in which they appeared; what is in the window is newer
\* than what was fetched.
Ordered ==
  /\ \A j \in DOMAIN chat : chat[j].id = said - Len(chat) + j
  /\ \A j \in DOMAIN batch : batch[j].id <= said - Len(chat)
  /\ \A j, k \in DOMAIN batch : j < k => batch[j].id < batch[k].id

\* Nothing in the window was taken up, nor what waits in the batch; its first line
\* was when it is being executed.
Untaken ==
  /\ taken \in [1..MaxLines -> 0..1]
  /\ \A i \in 1..MaxLines : i > said - Len(chat) => taken[i] = 0
  /\ \A j \in DOMAIN batch : (pc = "execute" /\ j = 1) \/ taken[batch[j].id] = 0

\* A line is taken up: it and those behind it are dropped, or it alone, or it is
\* to be executed.
Up ==
  /\ pc = "lines" /\ batch # <<>>
  /\ \/ batch' = <<>> /\ pc' = "look"
     \/ batch' = Tail(batch) /\ pc' = "lines"
     \/ batch' = batch /\ pc' = "execute"
  /\ UNCHANGED <<chat, said>>

Executed ==
  /\ pc = "execute" /\ batch # <<>>
  /\ batch' = Tail(batch) /\ pc' # "execute"
  /\ UNCHANGED <<chat, said>>

Elsewhere ==
  /\ UNCHANGED <<batch, chat, said>>
  /\ \/ pc' = pc
     \/ pc # "execute" /\ pc' # "execute" /\ (pc = "lines" => batch = <<>>)

\* As far as lines go, a step takes one up, executes it, fetches, writes one, or is elsewhere.
LEMMA LineSteps ==
  ASSUME Between, [Next]_vars
  PROVE  Up \/ Executed \/ Elsewhere \/ Fetch \/ \E line \in Lines : Appears(line)
<1>1. CASE GameStarts \/ GameEnds \/ LookStop \/ Look \/ ConfigSelects \/ ConfigFails
           \/ ConfigDone \/ Sleep \/ UNCHANGED vars
  BY <1>1 DEF GameStarts, GameEnds, LookStop, Look, ConfigSelects, ConfigFails, ConfigDone,
     Sleep, vars, chatVars, Elsewhere
<1>2. CASE HearConnected \/ HearJoined \/ HearOther \/ Refuse \/ Accept
  BY <1>2 DEF HearConnected, HearJoined, HearOther, Refuse, Accept, Line, LineDone,
     RoundDies, chatVars, Up
<1>3. CASE Launch \/ Stop \/ NextGame \/ SetType \/ Login
  BY <1>3 DEF Between, Launch, Stop, NextGame, SetType, Login, Executing, LineDone,
     chatVars, Executed
<1> QED BY <1>1, <1>2, <1>3 DEF Next, Bot

\* The batch without its first line.
LEMMA TailOfBatch ==
  ASSUME TypeOK, batch # <<>>
  PROVE  /\ DOMAIN Tail(batch) = 1..(Len(batch) - 1) /\ DOMAIN batch = 1..Len(batch)
         /\ Len(batch) \in Nat \ {0}
         /\ \A j \in 1..(Len(batch) - 1) : Tail(batch)[j] = batch[j + 1]
         /\ Head(batch) = batch[1]
BY DEF TypeOK

\* The numbers of the lines in the batch and in the window.
LEMMA IdsTyped ==
  ASSUME TypeOK
  PROVE  /\ \A j \in DOMAIN batch : batch[j].id \in 1..MaxLines
         /\ \A j \in DOMAIN chat : chat[j].id \in 1..MaxLines /\ j \in Nat \ {0}
<1>1. batch \in Seq(ChatLine) /\ chat \in Seq(ChatLine)
  BY DEF TypeOK
<1>2. \A j \in DOMAIN batch : batch[j] \in ChatLine
  BY <1>1
<1>3. \A j \in DOMAIN chat : chat[j] \in ChatLine /\ j \in Nat \ {0}
  BY <1>1
<1>4. \A l \in ChatLine : l.id \in 1..MaxLines
  BY DEF ChatLine
<1> QED BY <1>2, <1>3, <1>4

\* A batch changes when a line is taken off.
LEMMA TailIsShorter ==
  ASSUME TypeOK, batch # <<>>
  PROVE  Tail(batch) # batch
<1>1. Len(Tail(batch)) = Len(batch) - 1 /\ Len(batch) \in Nat \ {0}
  BY DEF TypeOK
<1>2. \A n \in Nat \ {0} : n - 1 # n
  OBVIOUS
<1>3. Len(Tail(batch)) # Len(batch)
  BY <1>1, <1>2, Zenon
<1>4. ASSUME Tail(batch) = batch PROVE FALSE
  BY <1>3, <1>4, Zenon
<1> QED BY <1>4

\* Lines stay in order, and the window ahead of the batch.
LEMMA OrderedKept ==
  ASSUME TypeOK, Ordered, Between, [Next]_vars
  PROVE  Ordered'
<1>1. CASE Elsewhere
  BY <1>1 DEF Elsewhere, Ordered
<1>2. CASE Up \/ Executed
  <2>1. CASE batch' = Tail(batch) /\ UNCHANGED <<chat, said>> /\ batch # <<>>
    BY <2>1, TailOfBatch DEF Ordered
  <2>2. CASE batch' = <<>> /\ UNCHANGED <<chat, said>>
    BY <2>2 DEF Ordered
  <2> QED BY <1>2, <2>1, <2>2 DEF Up, Executed, Ordered
<1>3. CASE Fetch
  <2>1. batch' = chat /\ chat' = <<>> /\ said' = said /\ chat \in Seq(ChatLine) /\ said \in Nat
    BY <1>3 DEF Fetch, TypeOK
  <2>2. DOMAIN chat = 1..Len(chat) /\ Len(chat) \in Nat /\ Len(chat') = 0 /\ DOMAIN chat' = {}
    BY <2>1
  <2> QED BY <2>1, <2>2 DEF Ordered
<1>4. ASSUME NEW line \in Lines, Appears(line) PROVE Ordered'
  <2> DEFINE new == [who |-> line.who, word |-> line.word, id |-> said + 1]
  <2>1. chat' = Append(chat, new) /\ said' = said + 1 /\ batch' = batch
        /\ chat \in Seq(ChatLine) /\ said \in Nat
    BY <1>4 DEF Appears, TypeOK
  <2>2. /\ Len(chat') = Len(chat) + 1 /\ DOMAIN chat' = 1..(Len(chat) + 1)
        /\ DOMAIN chat = 1..Len(chat) /\ Len(chat) \in Nat
        /\ \A j \in 1..Len(chat) : chat'[j] = chat[j]
        /\ chat'[Len(chat) + 1] = new
    BY <2>1
  <2> QED BY <2>1, <2>2 DEF Ordered
<1> QED BY <1>1, <1>2, <1>3, <1>4, LineSteps

\* No line that is still to come was taken up.
LEMMA UntakenKept ==
  ASSUME TypeOK, Ordered, Untaken, Between, [MCNext]_<<vars, taken, owed>>
  PROVE  Untaken'
<1>0. TypeOK /\ Len(chat) \in Nat /\ said \in 0..MaxLines /\ MaxLines \in Nat
  BY DispatchAssumption DEF TypeOK
<1>1. [Next]_vars
  BY DEF MCNext
<1>2. CASE ~TakesUp
  <2>0. taken' = taken
    BY <1>2 DEF MCNext, TakesUp
  <2>1. CASE Elsewhere
    BY <2>0, <2>1 DEF Elsewhere, Untaken
  <2>2. CASE Executed
    BY <2>0, <2>2, TailOfBatch DEF Executed, Untaken
  <2>3. ~Up
    <3>1. ASSUME Up PROVE <<pc', batch'>> # <<pc, batch>>
      <4>1. CASE batch' = Tail(batch)
        BY <3>1, <4>1, TailIsShorter DEF Up
      <4> QED BY <3>1, <4>1 DEF Up
    <3> QED BY <1>2, <3>1 DEF Up, TakesUp
  <2>4. CASE Fetch
    <3>1. batch' = chat /\ chat' = <<>> /\ said' = said /\ pc' = "lines"
      BY <2>4 DEF Fetch
    <3>2. \A j \in DOMAIN chat : chat[j].id \in 1..MaxLines /\ chat[j].id > said - Len(chat)
      BY <1>0, IdsTyped DEF Ordered
    <3>3. Len(chat') = 0
      BY <3>1
    <3> QED BY <1>0, <2>0, <3>1, <3>2, <3>3 DEF Untaken
  <2>5. ASSUME NEW line \in Lines, Appears(line) PROVE Untaken'
    <3>1. Len(chat') = Len(chat) + 1 /\ said' = said + 1 /\ batch' = batch /\ pc' = pc
      BY <2>5 DEF Appears, TypeOK
    <3>2. said' - Len(chat') = said - Len(chat)
      BY <1>0, <3>1
    <3> QED BY <2>0, <3>1, <3>2 DEF Untaken
  <2> QED BY <1>1, <2>1, <2>2, <2>3, <2>4, <2>5, LineSteps
<1>3. CASE TakesUp
  <2>1. Up
    BY <1>1, <1>3, LineSteps DEF TakesUp, Executed, Elsewhere, Fetch, Appears
  <2>2. batch # <<>> /\ Head(batch).id \in 1..MaxLines /\ taken[Head(batch).id] = 0
    <3>1. batch # <<>> /\ pc = "lines"
      BY <2>1 DEF Up
    <3>2. Head(batch) = batch[1] /\ 1 \in DOMAIN batch
      BY <1>0, <3>1, TailOfBatch
    <3> QED BY <1>0, <3>1, <3>2, IdsTyped DEF Untaken
  <2>3. taken' = [taken EXCEPT ![Head(batch).id] = 1]
    BY <1>3, <2>2 DEF MCNext, TakesUp, vars, Untaken
  <2>4. taken' \in [1..MaxLines -> 0..1]
    BY <2>2, <2>3 DEF Untaken
  <2>5. \A i \in 1..MaxLines : i > said' - Len(chat') => taken'[i] = 0
    <3>1. Head(batch).id <= said - Len(chat)
      BY <2>2, TailOfBatch DEF Ordered
    <3> QED BY <1>0, <2>1, <2>2, <2>3, <3>1 DEF Up, Untaken
  <2>6. \A j \in DOMAIN batch : j > 1 => taken'[batch[j].id] = 0
    <3>1. \A j \in DOMAIN batch : batch[j].id \in 1..MaxLines /\ (j > 1 => batch[j].id # Head(batch).id)
      <4>1. Head(batch) = batch[1] /\ DOMAIN batch = 1..Len(batch) /\ Len(batch) \in Nat \ {0}
        BY <1>0, <2>2, TailOfBatch
      <4>2. \A j \in DOMAIN batch : j > 1 => batch[1].id < batch[j].id
        BY <4>1 DEF Ordered
      <4> QED BY <1>0, <4>1, <4>2, IdsTyped
    <3> QED BY <2>1, <2>2, <2>3, <3>1 DEF Up, Untaken
  <2> QED BY <2>1, <2>2, <2>4, <2>5, <2>6, TailOfBatch DEF Up, Untaken
<1> QED BY <1>2, <1>3

\* NoLineTwice: for any chat, and whatever dies while it is handled.
THEOREM LinesAreTakenOnce == MCSpec => []NoLineTwice
<1> DEFINE Inv == IInv /\ Ordered /\ Untaken
<1>1. MCInit => Inv
  <2>1. MCInit => IInv
    BY InitIInv DEF MCInit
  <2>2. MCInit => Ordered /\ Untaken
    BY DEF MCInit, Init, Ordered, Untaken
  <2> QED BY <2>1, <2>2
<1>2. Inv /\ [MCNext]_<<vars, taken, owed>> => Inv'
  <2>1. [MCNext]_<<vars, taken, owed>> => [Next]_vars
    BY DEF MCNext
  <2> QED BY <2>1, NextIInv, OrderedKept, UntakenKept DEF IInv
<1>3. Inv => NoLineTwice
  BY DEF Untaken, NoLineTwice
<1> QED BY <1>1, <1>2, <1>3, PTL DEF MCSpec
=============================================================================
