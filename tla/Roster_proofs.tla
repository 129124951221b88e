---------------------------- MODULE Roster_proofs ----------------------------
(***************************************************************************)
(* The roster for any players, however often they come and go, whatever    *)
(* is ordered and whatever fails: the records' types, when they follow the *)
(* list last read, and whom a kick hits.                                   *)
(***************************************************************************)
EXTENDS Roster, FiniteSetTheorems, SequenceTheorems, TLAPS

----------------------------------------------------------------------------
\* A non-empty set of indices has a greatest one: of the intervals from an index
\* to n, one has none of the others in it.
LEMMA GreatestIndex ==
  ASSUME NEW n \in Nat, NEW I \in SUBSET (1..n), I # {}
  PROVE  Max(I) \in I
<1> DEFINE T == {i..n : i \in I}
           R == StrictSubsetOrdering(1..n)
<1>1. T \subseteq SUBSET (1..n) /\ T # {}
  <2>1. ASSUME NEW i \in I PROVE i..n \subseteq 1..n
    OBVIOUS
  <2> QED BY <2>1
<1>2. IsWellFoundedOn(R, SUBSET (1..n))
  <2>1. IsFiniteSet(1..n)
    BY FS_Interval
  <2> QED BY <2>1, FS_StrictSubsetOrderingWellFounded, FS_FiniteSubsetsOfFinite
<1>3. PICK m \in T : \A y \in T : ~(<<y, m>> \in R)
  <2> HIDE DEF T, R
  <2> QED BY <1>1, <1>2, WFMin
<1>4. PICK i \in I : m = i..n
  OBVIOUS
<1>5. ASSUME NEW j \in I, j > i PROVE FALSE
  <2>1. j..n \subseteq i..n /\ i \notin j..n /\ i \in i..n
    BY <1>5
  <2>2. <<j..n, m>> \in R
    BY <1>4, <2>1 DEF StrictSubsetOrdering
  <2> QED BY <1>3, <2>2
<1>6. \A j \in I : i >= j
  BY <1>5
<1> QED BY <1>6 DEF Max

\* RowOf finds the name where there is one.
LEMMA RowOfHits ==
  ASSUME NEW list \in Seq(Row), NEW p \in Names(list)
  PROVE  /\ RowOf(list, p) \in Nat
         /\ RowOf(list, p) + 1 \in DOMAIN list
         /\ list[RowOf(list, p) + 1].name = p
<1> DEFINE I == {i \in DOMAIN list : list[i].name = p}
<1>1. I \in SUBSET (1..Len(list)) /\ I # {} /\ Len(list) \in Nat
  BY DEF Names
<1>2. Max(I) \in I
  <2> HIDE DEF I
  <2> QED BY <1>1, GreatestIndex
<1>3. Max(I) \in 1..Len(list) /\ list[Max(I)].name = p
  BY <1>1, <1>2
<1>4. RowOf(list, p) = Max(I) - 1
  BY DEF RowOf
<1> HIDE DEF I
<1> QED BY <1>3, <1>4

\* A list without one of its elements.
LEMMA RemoveAtIs ==
  ASSUME NEW S, NEW s \in Seq(S), NEW i \in DOMAIN s
  PROVE  /\ RemoveAt(s, i) \in Seq(S)
         /\ Len(RemoveAt(s, i)) = Len(s) - 1
         /\ \A k \in 1..(Len(s) - 1) : RemoveAt(s, i)[k] = IF k < i THEN s[k] ELSE s[k + 1]
<1> DEFINE l == SubSeq(s, 1, i - 1)
           r == SubSeq(s, i + 1, Len(s))
<1>0. i \in 1..Len(s) /\ Len(s) \in Nat
  OBVIOUS
<1>1. l \in Seq(S) /\ Len(l) = i - 1 /\ \A k \in 1..(i - 1) : l[k] = s[k]
  BY <1>0
<1>2. r \in Seq(S) /\ Len(r) = Len(s) - i /\ \A k \in 1..(Len(s) - i) : r[k] = s[i + k]
  BY <1>0
<1> HIDE DEF l, r
<1>3. /\ l \o r \in Seq(S) /\ Len(l \o r) = Len(s) - 1
      /\ \A k \in 1..(Len(s) - 1) : (l \o r)[k] = IF k < i THEN s[k] ELSE s[k + 1]
  BY <1>0, <1>1, <1>2
<1> QED BY <1>3 DEF RemoveAt, l, r

\* Rows stay different when one goes ...
LEMMA RemoveAtInjective ==
  ASSUME NEW S, NEW s \in Seq(S), IsInjective(s), NEW i \in DOMAIN s
  PROVE  IsInjective(RemoveAt(s, i))
<1> DEFINE t == RemoveAt(s, i)
<1>1. /\ Len(t) = Len(s) - 1 /\ Len(s) \in Nat /\ DOMAIN t = 1..(Len(s) - 1) /\ i \in 1..Len(s)
      /\ \A k \in 1..(Len(s) - 1) : t[k] = IF k < i THEN s[k] ELSE s[k + 1]
  BY RemoveAtIs
<1>2. \A a, b \in 1..Len(s) : s[a] = s[b] => a = b
  BY DEF IsInjective
<1> HIDE DEF t
<1>3. \A a, b \in 1..(Len(s) - 1) : t[a] = t[b] => a = b
  BY <1>1, <1>2
<1> QED BY <1>1, <1>3 DEF IsInjective, t

\* A list up to some place.
LEMMA PrefixIs ==
  ASSUME NEW S, NEW s \in Seq(S), NEW i \in 1..Len(s)
  PROVE  /\ SubSeq(s, 1, i - 1) \in Seq(S) /\ Len(SubSeq(s, 1, i - 1)) = i - 1
         /\ \A k \in 1..(i - 1) : SubSeq(s, 1, i - 1)[k] = s[k]
  OBVIOUS

\* ... when the last one goes ...
LEMMA FrontIs ==
  ASSUME NEW S, NEW s \in Seq(S), s # <<>>, IsInjective(s)
  PROVE  Front(s) \in Seq(S) /\ IsInjective(Front(s))
<1> DEFINE f == Front(s)
<1>1. Len(s) \in Nat /\ Len(s) \in 1..Len(s)
  OBVIOUS
<1>2. f \in Seq(S) /\ Len(f) = Len(s) - 1 /\ \A k \in 1..(Len(s) - 1) : f[k] = s[k]
  BY <1>1, PrefixIs DEF Front
<1>3. \A a, b \in 1..Len(s) : s[a] = s[b] => a = b
  BY DEF IsInjective
<1> HIDE DEF f
<1>4. DOMAIN f = 1..(Len(s) - 1) /\ \A a, b \in 1..(Len(s) - 1) : f[a] = f[b] => a = b
  BY <1>1, <1>2, <1>3
<1> QED BY <1>2, <1>4 DEF IsInjective, f

\* ... and when a new one comes.
LEMMA AppendKeepsInjective ==
  ASSUME NEW S, NEW s \in Seq(S), IsInjective(s), NEW e \in S, ~Contains(s, e)
  PROVE  Append(s, e) \in Seq(S) /\ IsInjective(Append(s, e))
<1> DEFINE t == Append(s, e)
<1>1. /\ t \in Seq(S) /\ Len(s) \in Nat /\ DOMAIN t = 1..(Len(s) + 1) /\ t[Len(s) + 1] = e
      /\ \A k \in 1..Len(s) : t[k] = s[k] /\ t[k] # e
  BY DEF Contains
<1>2. \A a, b \in 1..Len(s) : s[a] = s[b] => a = b
  BY DEF IsInjective
<1> HIDE DEF t
<1>3. \A a, b \in 1..(Len(s) + 1) : t[a] = t[b] => a = b
  BY <1>1, <1>2
<1> QED BY <1>1, <1>3 DEF IsInjective, t

----------------------------------------------------------------------------
\* Types.

\* The types hold at first.
LEMMA InitType == Init => TypeOK
<1> SUFFICES ASSUME Init PROVE TypeOK
  OBVIOUS
<1> USE DEF Init
<1>1. left \in [Kinds -> Nat]
  BY RosterAssumption
<1>2. IsInjective(lobby) /\ lobby \in Seq(Players)
  BY DEF IsInjective
<1>3. Known \subseteq Players /\ users \in [Known -> User]
  BY DEF Known
<1>4. \A S : <<>> \in Seq(S)
  OBVIOUS
<1>5. file \in [state : {"absent", "torn", "whole"}, list : Seq(Row)]
  BY <1>4
<1>6. seenIsStamp \in BOOLEAN /\ stampIsNow \in BOOLEAN /\ served \in Nat
  OBVIOUS
<1> QED BY <1>1, <1>2, <1>3, <1>4, <1>5, <1>6 DEF TypeOK

\* The bounds stay numbers.
LEMMA SpendKeeps ==
  ASSUME TypeOK, NEW what \in {"joins", "leaves", "orders", "faults"}, Spend(what)
  PROVE  left' \in [Kinds -> Nat]
  BY DEF TypeOK, Spend, Kinds

\* The list box stays a list of different players, whatever a kick hits.
LEMMA AfterDownsType ==
  ASSUME TypeOK, NEW n \in Int, NEW l \in AfterDowns(n)
  PROVE  l \in Seq(Players) /\ IsInjective(l)
<1>1. lobby \in Seq(Players) /\ IsInjective(lobby)
  BY DEF TypeOK
<1>2. CASE l = lobby
  BY <1>1, <1>2
<1>3. CASE n \in 1..Len(lobby) /\ l = RemoveAt(lobby, n)
  BY <1>1, <1>3, RemoveAtIs, RemoveAtInjective
<1>4. CASE lobby # <<>> /\ l = Front(lobby)
  BY <1>1, <1>4, FrontIs
<1>5. n \in 1..Len(lobby) <=> (n > 0 /\ n <= Len(lobby))
  BY <1>1
<1>6. l = lobby \/ (n \in 1..Len(lobby) /\ l = RemoveAt(lobby, n)) \/ (lobby # <<>> /\ l = Front(lobby))
  BY <1>5 DEF AfterDowns
<1> QED BY <1>2, <1>3, <1>4, <1>6

\* What a list says of a user is a record.
LEMMA RecordInType ==
  ASSUME TypeOK, NEW p \in Names(json)
  PROVE  RecordIn(json, p) \in User
<1>1. json \in Seq(Row)
  BY DEF TypeOK
<1>2. RowOf(json, p) \in Nat /\ RowOf(json, p) + 1 \in DOMAIN json
  BY <1>1, RowOfHits
<1>3. json[RowOf(json, p) + 1] \in Row
  BY <1>1, <1>2
<1> QED BY <1>2, <1>3 DEF RecordIn, User, Position, Row

\* Records refreshed from a list are records, ...
LEMMA RefreshedType ==
  ASSUME TypeOK
  PROVE  Refreshed(json) \in [Known -> User]
<1>1. \A p \in Known : users[p] \in User
  BY DEF TypeOK
<1>2. \A p \in Known \cap Names(json) : RecordIn(json, p) \in User
  BY RecordInType
<1>3. \A p \in Known : [users[p] EXCEPT !.conn = FALSE] \in User
  BY <1>1 DEF User
<1> QED BY <1>2, <1>3 DEF Refreshed

\* ... and so is what a refresh that dies leaves.
LEMMA BrokenType ==
  ASSUME TypeOK, NEW p \in Teamless(json), NEW done \in Reached
  PROVE  Broken(p, done) \in [Known -> User]
<1>1. p \in Known \cap Names(json) /\ done \subseteq Known \cap Names(json)
  BY DEF Teamless, Reached
<1>2. \A q \in Known : users[q] \in User
  BY DEF TypeOK
<1>3. \A q \in Known \cap Names(json) : RecordIn(json, q) \in User
  BY RecordInType
<1>4. [RecordIn(json, p) EXCEPT !.conn = users[p].conn] \in User
  BY <1>1, <1>2, <1>3 DEF User
<1>5. ASSUME NEW q \in Known
      PROVE  (CASE q \in done -> RecordIn(json, q)
                [] q = p     -> [RecordIn(json, q) EXCEPT !.conn = users[q].conn]
                [] OTHER     -> users[q]) \in User
  BY <1>1, <1>2, <1>3, <1>4
<1> QED BY <1>5 DEF Broken

\* The first order of a queue, and the others.
LEMMA HeadIs ==
  ASSUME NEW S, NEW s \in Seq(S), s # <<>>
  PROVE  /\ Head(s) \in S /\ Tail(s) \in Seq(S)
         /\ Len(s) > 1 => Tail(s) # <<>>
<1> DEFINE t == Tail(s)
<1>1. Head(s) \in S /\ t \in Seq(S) /\ Len(t) = Len(s) - 1 /\ Len(s) \in Nat
  BY HeadTailProperties
<1> HIDE DEF t
<1>2. Len(s) > 1 => t # <<>>
  BY <1>1
<1> QED BY <1>1, <1>2 DEF t

\* The names that orders give are players.
LEMMA NextIs ==
  ASSUME [Next]_vars
  PROVE  \/ \E p \in Players : Join(p) \/ Leave(p)
         \/ \E p \in Players : OrderKick(p) \/ OrderTeam(p) \/ OrderMech(p)
         \/ Tick \/ Watcher \/ ScanFails \/ WriteFails \/ ReadTorn
         \/ NothingNew \/ ReadInfo \/ UnlinkInfo \/ ApplyInfo \/ ApplyDies
         \/ ServeTeam \/ ServeMech \/ NothingToServe \/ KickPlayer
         \/ PollChat \/ HearConnect \/ Sleep
         \/ UNCHANGED vars
<1>1. KickNames \subseteq Players /\ TeamNames \subseteq Players /\ MechNames \subseteq Players
  BY RosterAssumption
<1> QED BY <1>1 DEF Next, Bot

\* The orders being served are those the loop went in for.
Serving == (bpc = "teams" => teams # <<>>) /\ (bpc = "mechs" => mechs # <<>>)

\* The loop serves only orders that it has.
LEMMA ServingStep == TypeOK /\ Serving /\ [Next]_vars => Serving'
<1> SUFFICES ASSUME TypeOK, Serving, [Next]_vars PROVE Serving'
  OBVIOUS
<1>1. CASE ServeTeam
  <2>1. Len(teams) > 1 => Tail(teams) # <<>>
    BY <1>1, HeadIs DEF TypeOK, ServeTeam, Serving
  <2> QED BY <1>1, <2>1 DEF ServeTeam, Serving
<1>2. CASE ServeMech
  <2>1. Len(mechs) > 1 => Tail(mechs) # <<>>
    BY <1>2, HeadIs DEF TypeOK, ServeMech, Serving
  <2>2. served + 1 < Len(mechs) - 1 => Len(mechs) > 1
    BY DEF TypeOK
  <2> QED BY <1>2, <2>1, <2>2 DEF ServeMech, Serving
<1>3. CASE ApplyInfo
  BY <1>3 DEF ApplyInfo, NextListener, Serving
<1>4. CASE \E p \in Players : OrderKick(p) \/ OrderTeam(p) \/ OrderMech(p)
  BY <1>4 DEF OrderKick, OrderTeam, OrderMech, Serving
<1>5. CASE Watcher \/ ScanFails \/ WriteFails \/ Tick \/ \E p \in Players : Join(p) \/ Leave(p)
  BY <1>5 DEF Watcher, ScanName, ScanBills, ScanTeams, WriteOpens, WriteFills, Stamp, ScanFails, WriteFails,
         Tick, Join, Leave, botVars, Serving
<1>6. CASE NothingNew \/ ReadTorn \/ ReadInfo \/ UnlinkInfo \/ ApplyDies \/ NothingToServe
           \/ KickPlayer \/ PollChat \/ HearConnect \/ Sleep
  BY <1>6 DEF ApplyDies, NothingNew, ReadTorn, ReadInfo, UnlinkInfo, NothingToServe, KickPlayer, PollChat,
         HearConnect, Sleep, orderVars, Serving
<1>7. CASE UNCHANGED vars
  BY <1>7 DEF vars, botVars, Serving
<1> QED BY <1>1, <1>2, <1>3, <1>4, <1>5, <1>6, <1>7, NextIs

\* The watcher reads rows of players from the list box, ...
LEMMA ScanBillsType ==
  ASSUME TypeOK, ScanBills
  PROVE  rows' \in Seq(Row) /\ part' \in Seq(Players)
<1>1. part \in Seq(Players) /\ Len(part) \in Nat /\ DOMAIN part = 1..Len(part)
  BY DEF TypeOK
<1> DEFINE row(i) == [name |-> part[i], team |-> FALSE, bot |-> lobby[i] \in OddCBills]
           read == [i \in DOMAIN part |-> row(i)]
<1>2. \A i \in 1..Len(part) : row(i) \in Row
  BY <1>1 DEF Row
<1> HIDE DEF row
<1>3. read \in Seq(Row)
  BY <1>1, <1>2
<1>4. (rows' = read /\ part' = <<>>) \/ (rows' = <<>> /\ part' = <<>>)
  BY DEF ScanBills, Restart, row
<1> HIDE DEF read
<1>5. <<>> \in Seq(Row) /\ <<>> \in Seq(Players)
  OBVIOUS
<1> QED BY <1>1, <1>3, <1>4, <1>5

\* ... and fills in their teams.
LEMMA ScanTeamsType ==
  ASSUME TypeOK, ScanTeams
  PROVE  rows' \in Seq(Row)
<1>1. rows \in Seq(Row) /\ Len(rows) \in Nat /\ DOMAIN rows = 1..Len(rows)
  BY DEF TypeOK
<1> DEFINE row(i) == IF i <= Len(lobby)
                       THEN [rows[i] EXCEPT !.team = TRUE, !.bot = @ \/ lobby[i] \in Robots]
                       ELSE rows[i]
           read == [i \in DOMAIN rows |-> row(i)]
<1>2. ASSUME NEW i \in 1..Len(rows) PROVE row(i) \in Row
  <2>1. rows[i] \in Row
    BY <1>1
  <2>2. [rows[i] EXCEPT !.team = TRUE, !.bot = @ \/ lobby[i] \in Robots] \in Row
    BY <2>1 DEF Row
  <2> QED BY <2>1, <2>2
<1>3. rows' = read
  BY DEF ScanTeams
<1> HIDE DEF row
<1> QED BY <1>1, <1>2, <1>3

\* The watcher's scan of names gathers players.
LEMMA ScanNameType ==
  ASSUME TypeOK, ScanName
  PROVE  part' \in Seq(Players)
<1>1. part \in Seq(Players) /\ lobby \in Seq(Players) /\ Len(part) \in Nat /\ Len(lobby) \in Nat
  BY DEF TypeOK
<1>2. CASE Len(part) < Len(lobby)
  <2>1. lobby[Len(part) + 1] \in Players
    BY <1>1, <1>2
  <2> QED BY <1>1, <1>2, <2>1 DEF ScanName
<1>3. CASE ~(Len(part) < Len(lobby))
  BY <1>1, <1>3 DEF ScanName
<1> QED BY <1>2, <1>3

\* Every step of players, watcher, commands and loop keeps the types.
LEMMA TypeStep == TypeOK /\ Serving /\ [Next]_vars => TypeOK'
<1> SUFFICES ASSUME TypeOK, Serving, [Next]_vars PROVE TypeOK'
  OBVIOUS
<1> USE DEF TypeOK, Known, lobbyVars, watcherVars, orderVars, botVars
<1>1. ASSUME NEW p \in Players, Join(p) PROVE TypeOK'
  <2>1. lobby' \in Seq(Players) /\ IsInjective(lobby')
    BY <1>1, AppendKeepsInjective DEF Join
  <2> QED BY <1>1, <2>1, SpendKeeps DEF Join
<1>2. ASSUME NEW p \in Players, Leave(p) PROVE TypeOK'
  <2>1. lobby' \in Seq(Players) /\ IsInjective(lobby')
    BY <1>2, RemoveAtIs, RemoveAtInjective DEF Leave
  <2> QED BY <1>2, <2>1, SpendKeeps DEF Leave
<1>3. CASE Tick
  BY <1>3 DEF Tick
<1>4. CASE ScanName
  BY <1>4, ScanNameType DEF ScanName
<1>5. CASE ScanBills
  BY <1>5, ScanBillsType DEF ScanBills, Restart
<1>6. CASE ScanFails
  <2>1. rows' \in Seq(Row) /\ part' \in Seq(Players)
    BY <1>6 DEF ScanFails
  <2> QED BY <1>6, <2>1, SpendKeeps DEF ScanFails
<1>7. CASE WriteOpens
  <2>1. file' \in [state : {"absent", "torn", "whole"}, list : Seq(Row)]
    BY <1>7 DEF WriteOpens
  <2> QED BY <1>7, <2>1 DEF WriteOpens
<1>8. CASE WriteFills
  <2>1. file' \in [state : {"absent", "torn", "whole"}, list : Seq(Row)]
    BY <1>8 DEF WriteFills
  <2> QED BY <1>8, <2>1 DEF WriteFills
<1>9. CASE WriteFails
  <2>1. rows' \in Seq(Row) /\ part' \in Seq(Players)
    BY <1>9 DEF WriteFails, Restart
  <2> QED BY <1>9, <2>1, SpendKeeps DEF WriteFails, Restart
<1>10. CASE Stamp
  <2>1. rows' \in Seq(Row) /\ part' \in Seq(Players) /\ seenIsStamp' \in BOOLEAN
    BY <1>10 DEF Stamp, Restart
  <2> QED BY <1>10, <2>1 DEF Stamp, Restart
<1>11. CASE NothingNew
  BY <1>11 DEF NothingNew
<1>12. CASE ReadTorn
  BY <1>12, SpendKeeps DEF ReadTorn
<1>13. CASE ReadInfo
  <2>1. json' \in Seq(Row)
    BY <1>13 DEF ReadInfo
  <2> QED BY <1>13, <2>1 DEF ReadInfo
<1>14. CASE UnlinkInfo
  <2>1. file' \in [state : {"absent", "torn", "whole"}, list : Seq(Row)]
    BY <1>14 DEF UnlinkInfo
  <2> QED BY <1>14, <2>1 DEF UnlinkInfo
<1>15. CASE ApplyInfo
  <2>1. users' \in [Known -> User] /\ Known' = Known
    BY <1>15, RefreshedType DEF ApplyInfo
  <2> QED BY <1>15, <2>1 DEF ApplyInfo, NextListener
<1>16. CASE ServeTeam
  <2>1. Head(teams) \in Players /\ Tail(teams) \in Seq(Players)
    BY <1>16, HeadIs DEF ServeTeam, Serving
  <2>2. click' = NoClick \/ click' \in [what : {"kick", "team", "mech"}, who : Players, row : Position]
    BY <1>16, <2>1 DEF ServeTeam, User
  <2> QED BY <1>16, <2>1, <2>2 DEF ServeTeam
<1>17. CASE ServeMech
  <2>1. Head(mechs) \in Players /\ Tail(mechs) \in Seq(Players)
    BY <1>17, HeadIs DEF ServeMech, Serving
  <2>2. click' = NoClick \/ click' \in [what : {"kick", "team", "mech"}, who : Players, row : Position]
    <3>1. CASE Head(mechs) \in Known /\ users[Head(mechs)].pos > 0
      <4>1. users[Head(mechs)].pos - 1 \in Position
        BY <3>1 DEF User, Position
      <4>2. click' = [what |-> "mech", who |-> Head(mechs), row |-> users[Head(mechs)].pos - 1]
        BY <1>17, <3>1 DEF ServeMech
      <4> QED BY <2>1, <4>1, <4>2
    <3>2. CASE ~(Head(mechs) \in Known /\ users[Head(mechs)].pos > 0)
      BY <1>17, <3>2 DEF ServeMech
    <3> QED BY <3>1, <3>2
  <2> QED BY <1>17, <2>1, <2>2 DEF ServeMech
<1>18. CASE NothingToServe
  BY <1>18 DEF NothingToServe
<1>19. CASE KickPlayer
  <2>1. Head(kicks) \in Players /\ Tail(kicks) \in Seq(Players)
    BY <1>19, HeadIs DEF KickPlayer
  <2>2. CASE Head(kicks) \in Known
    <3>1. users[Head(kicks)] \in User /\ Downs(Head(kicks)) \in Int
      BY <2>2 DEF User, Position, Downs
    <3>2. lobby' \in Seq(Players) /\ IsInjective(lobby')
      BY <1>19, <2>2, <3>1, AfterDownsType DEF KickPlayer
    <3>3. click' \in [what : {"kick", "team", "mech"}, who : Players, row : Position]
      BY <1>19, <2>1, <2>2, <3>1 DEF KickPlayer, User
    <3>4. Known' \subseteq Players /\ users' \in [Known' -> User]
      BY <1>19, <2>2 DEF KickPlayer, Restrict
    <3> QED BY <1>19, <2>1, <3>2, <3>3, <3>4 DEF KickPlayer
  <2>3. CASE Head(kicks) \notin Known
    BY <1>19, <2>1, <2>3 DEF KickPlayer
  <2> QED BY <2>2, <2>3
<1>20. CASE PollChat
  BY <1>20 DEF PollChat
<1>21. CASE HearConnect
  <2>1. Head(batch) \in Players /\ Tail(batch) \in Seq(Players)
    BY <1>21, HeadIs DEF HearConnect
  <2>2. [NewUser EXCEPT !.conn = TRUE] \in User
    BY DEF NewUser, User, Position
  <2>3. Known' \subseteq Players /\ users' \in [Known' -> User]
    <3>1. CASE Head(batch) \in Known
      BY <1>21, <3>1 DEF HearConnect
    <3>2. CASE Head(batch) \notin Known
      <4>1. users' = [q \in Known \cup {Head(batch)} |->
                        IF q = Head(batch) THEN [NewUser EXCEPT !.conn = TRUE] ELSE users[q]]
        BY <1>21, <3>2 DEF HearConnect
      <4> QED BY <2>1, <2>2, <4>1
    <3> QED BY <3>1, <3>2
  <2>4. batch' \in Seq(Players) /\ bpc' \in {"update", "events"}
    <3> DEFINE t == Tail(batch)
    <3>1. (batch' = <<>> /\ bpc' = "update") \/ (batch' = t /\ bpc' = "events")
      BY <1>21 DEF HearConnect
    <3>2. t \in Seq(Players) /\ <<>> \in Seq(Players)
      BY <2>1
    <3> HIDE DEF t
    <3> QED BY <3>1, <3>2
  <2> QED BY <1>21, <2>3, <2>4 DEF HearConnect
<1>22. ASSUME NEW p \in Players, OrderKick(p) PROVE TypeOK'
  BY <1>22, SpendKeeps DEF OrderKick
<1>23. ASSUME NEW p \in Players, OrderTeam(p) PROVE TypeOK'
  BY <1>23, SpendKeeps DEF OrderTeam
<1>24. ASSUME NEW p \in Players, OrderMech(p) PROVE TypeOK'
  BY <1>24, SpendKeeps DEF OrderMech
<1>25. CASE Sleep
  BY <1>25 DEF Sleep
<1>26. CASE UNCHANGED vars
  BY <1>26 DEF vars
<1>27. CASE ScanTeams
  BY <1>27, ScanTeamsType DEF ScanTeams
<1>28. CASE ApplyDies
  <2>1. users' \in [Known -> User] /\ Known' = Known
    BY <1>28, BrokenType DEF ApplyDies
  <2> QED BY <1>28, <2>1 DEF ApplyDies
<1> QED BY <1>1, <1>2, <1>3, <1>4, <1>5, <1>6, <1>7, <1>8, <1>9, <1>10, <1>11, <1>12, <1>13,
           <1>14, <1>15, <1>16, <1>17, <1>18, <1>19, <1>20, <1>21, <1>22, <1>23, <1>24, <1>25,
           <1>26, <1>27, <1>28, NextIs DEF Watcher

\* Every value the model holds has its type, the list box never shows a name
\* twice, and a bot's flag is always a boolean, for any number of players,
\* joins, leaves, orders and faults.
THEOREM RosterTypeCorrect == Spec => []TypeOK
<1>1. Init => TypeOK /\ Serving
  BY InitType DEF Init, Serving
<1>2. (TypeOK /\ Serving) /\ [Next]_vars => (TypeOK /\ Serving)'
  BY TypeStep, ServingStep
<1> QED BY <1>1, <1>2, PTL DEF Spec

----------------------------------------------------------------------------
\* The records and the list.

\* While orders are served, a connected user has a row: player_info_updated is
\* only raised once the list has been applied, and the chat is read after it.
Serve   == {"teams", "mechs", "kick"}
Applied == bpc \in Serve => \A p \in Known : users[p].conn => users[p].pos >= 0

\* The bot reads the file only when it is behind the watcher's stamp.
Behind == bpc \in {"unlink", "apply"} => ~seenIsStamp

IInv == TypeOK /\ Serving /\ Behind /\ RecordsFollowList /\ Applied

\* A step that leaves records and list alone, and neither completes an update
\* nor starts serving orders.
Still ==
  /\ users' = users /\ json' = json
  /\ seenIsStamp' => seenIsStamp
  /\ bpc \in {"unlink", "apply"} => bpc' = bpc
  /\ bpc' \in {"unlink", "apply"} => bpc' = bpc
  /\ bpc' \in Serve => bpc \in Serve

\* Only six steps of the main loop are not of that kind.
LEMMA WhoTouchesRecords ==
  ASSUME [Next]_vars
  PROVE  Still \/ ReadInfo \/ UnlinkInfo \/ ApplyInfo \/ ApplyDies \/ KickPlayer \/ HearConnect
<1> USE DEF Still, Serve
<1>1. CASE \E p \in Players : Join(p) \/ Leave(p)
  BY <1>1 DEF Join, Leave, botVars
<1>2. CASE \E p \in Players : OrderKick(p) \/ OrderTeam(p) \/ OrderMech(p)
  BY <1>2 DEF OrderKick, OrderTeam, OrderMech
<1>3. CASE Watcher \/ ScanFails \/ WriteFails \/ Tick
  BY <1>3 DEF Watcher, ScanName, ScanBills, ScanTeams, WriteOpens, WriteFills, Stamp, ScanFails,
         WriteFails, Tick, botVars
<1>4. CASE NothingNew \/ ReadTorn \/ ServeTeam \/ ServeMech \/ NothingToServe \/ PollChat \/ Sleep
  BY <1>4 DEF NothingNew, ReadTorn, ServeTeam, ServeMech, NothingToServe, PollChat, Sleep
<1>5. CASE UNCHANGED vars
  BY <1>5 DEF vars, botVars
<1> QED BY <1>1, <1>2, <1>3, <1>4, <1>5, NextIs

\* An applied list names the connected ...
LEMMA ListedIs ==
  ASSUME TypeOK, ApplyInfo, NEW p \in Known', p \in Names(json)
  PROVE  users'[p] = RecordIn(json, p)
  BY DEF ApplyInfo, Refreshed, Known

\* ... and says where they are.
LEMMA RefreshedIs ==
  ASSUME TypeOK, ApplyInfo, NEW p \in Known', users'[p].conn
  PROVE  /\ p \in Names(json) /\ users'[p].pos = RowOf(json, p)
         /\ users'[p].pos \in Nat /\ json[users'[p].pos + 1].name = p
         /\ users'[p].bot = json[users'[p].pos + 1].bot
<1>1. p \in Known /\ users' = Refreshed(json) /\ json \in Seq(Row)
  BY DEF ApplyInfo, Refreshed, Known, TypeOK
<1>2. CASE p \in Names(json)
  <2>1. users'[p] = [pos |-> RowOf(json, p), conn |-> TRUE, bot |-> json[RowOf(json, p) + 1].bot]
    BY <1>2, ListedIs DEF RecordIn
  <2> QED BY <1>1, <1>2, <2>1, RowOfHits
<1>3. CASE p \notin Names(json)
  <2>1. users'[p] = [users[p] EXCEPT !.conn = FALSE] /\ users[p] \in User
    BY <1>1, <1>3 DEF Refreshed, TypeOK
  <2> QED BY <2>1 DEF User
<1> QED BY <1>2, <1>3

\* A user heard in the chat is connected and has no row yet, the others stay.
LEMMA HeardIs ==
  ASSUME TypeOK, HearConnect, NEW p \in Known'
  PROVE  (p \in Known /\ users'[p] = users[p]) \/ (users'[p].pos = -1 /\ users'[p].conn)
<1>1. CASE Head(batch) \in Known
  BY <1>1 DEF HearConnect, Known
<1>2. CASE Head(batch) \notin Known
  <2>1. users' = [q \in Known \cup {Head(batch)} |->
                    IF q = Head(batch) THEN [NewUser EXCEPT !.conn = TRUE] ELSE users[q]]
    BY <1>2 DEF HearConnect
  <2>2. [NewUser EXCEPT !.conn = TRUE].pos = -1 /\ [NewUser EXCEPT !.conn = TRUE].conn
    BY DEF NewUser
  <2> QED BY <2>1, <2>2 DEF Known
<1> QED BY <1>1, <1>2

\* A kick forgets a record or none, and changes no other.
LEMMA KickedIs ==
  ASSUME KickPlayer, NEW p \in Known'
  PROVE  p \in Known /\ (TypeOK => users'[p] = users[p])
  BY DEF KickPlayer, Known, Restrict

\* An update that dies leaves the stamp alone, and a list with a blank team.
LEMMA DyingUnsettles ==
  ASSUME TypeOK, Behind, ApplyDies
  PROVE  ~Settled'
<1>1. PICK p \in Teamless(json) : TRUE
  BY DEF ApplyDies
<1>2. json \in Seq(Row) /\ p \in Names(json)
  BY DEF TypeOK, Teamless
<1>3. RowOf(json, p) + 1 \in DOMAIN json /\ ~json[RowOf(json, p) + 1].team
  BY <1>2, RowOfHits DEF Teamless
<1>4. json' = json /\ bpc' = "poll" /\ ~seenIsStamp'
  BY DEF ApplyDies, Behind
<1> QED BY <1>3, <1>4 DEF Settled

\* The bot stays behind the stamp until a list is applied.
LEMMA BehindStep == IInv /\ [Next]_vars => Behind'
<1> SUFFICES ASSUME IInv, [Next]_vars PROVE Behind'
  OBVIOUS
<1>1. CASE Still
  BY <1>1 DEF IInv, Still, Behind
<1>2. CASE ReadInfo \/ UnlinkInfo
  BY <1>2 DEF IInv, ReadInfo, UnlinkInfo, Behind
<1>3. CASE ApplyInfo \/ ApplyDies \/ KickPlayer \/ HearConnect
  BY <1>3 DEF ApplyInfo, NextListener, ApplyDies, KickPlayer, HearConnect, Behind
<1> QED BY <1>1, <1>2, <1>3, WhoTouchesRecords

\* Whenever they are due to, the records say what the list says.
LEMMA RecordsFollowListStep == IInv /\ [Next]_vars => RecordsFollowList'
<1> SUFFICES ASSUME IInv, [Next]_vars, Settled', NEW p \in Known'
             PROVE  /\ p \in Names(json') => users'[p].conn
                    /\ users'[p].conn /\ users'[p].pos >= 0 =>
                         /\ p \in Names(json') /\ users'[p].pos = RowOf(json', p)
                         /\ users'[p].bot = json'[users'[p].pos + 1].bot
  BY DEF RecordsFollowList, Known, Names, RowOf
<1> USE DEF IInv
<1>1. CASE Still
  <2>1. Settled
    BY <1>1 DEF Still, Settled, Serve
  <2> QED BY <1>1, <2>1 DEF Still, RecordsFollowList, Known
<1>2. CASE ReadInfo \/ UnlinkInfo
  BY <1>2 DEF ReadInfo, UnlinkInfo, Settled, Behind
<1>3. CASE ApplyInfo
  <2>1. json' = json
    BY <1>3 DEF ApplyInfo
  <2>2. ASSUME p \in Names(json) PROVE users'[p].conn
    <3>1. users'[p] = RecordIn(json, p)
      BY <1>3, <2>2, ListedIs
    <3>2. RecordIn(json, p).conn
      BY DEF RecordIn
    <3> QED BY <3>1, <3>2
  <2> QED BY <1>3, <2>1, <2>2, RefreshedIs
<1>4. CASE ApplyDies
  BY <1>4, DyingUnsettles
<1>5. CASE KickPlayer
  <2>1. Settled /\ json' = json
    BY <1>5 DEF KickPlayer, Settled
  <2> QED BY <1>5, <2>1, KickedIs DEF RecordsFollowList
<1>6. CASE HearConnect
  <2>1. Settled /\ json' = json
    BY <1>6 DEF HearConnect, Settled
  <2> QED BY <1>6, <2>1, HeardIs DEF RecordsFollowList
<1> QED BY <1>1, <1>2, <1>3, <1>4, <1>5, <1>6, WhoTouchesRecords

\* While orders are served, every connected user has a row.
LEMMA AppliedStep == IInv /\ [Next]_vars => Applied'
<1> SUFFICES ASSUME IInv, [Next]_vars, bpc' \in Serve, NEW p \in Known', users'[p].conn
             PROVE  users'[p].pos >= 0
  BY DEF Applied, Known
<1> USE DEF IInv
<1>1. CASE Still
  BY <1>1 DEF Still, Applied, Known
<1>2. CASE ApplyInfo
  BY <1>2, RefreshedIs
<1>3. CASE ReadInfo \/ UnlinkInfo \/ ApplyDies \/ KickPlayer \/ HearConnect
  BY <1>3 DEF ReadInfo, UnlinkInfo, ApplyDies, KickPlayer, HearConnect, Serve
<1> QED BY <1>1, <1>2, <1>3, WhoTouchesRecords

\* The invariant holds at any time.
LEMMA Inductive == Spec => []IInv
<1>1. Init => IInv
  <2>1. Init => RecordsFollowList /\ Applied /\ Behind
    BY DEF Init, RecordsFollowList, Applied, Behind, Known
  <2> QED BY <2>1, InitType DEF IInv, Init, Serving
<1>2. IInv /\ [Next]_vars => IInv'
  BY TypeStep, ServingStep, BehindStep, RecordsFollowListStep, AppliedStep DEF IInv
<1> QED BY <1>1, <1>2, PTL DEF Spec

\* While the bot has adopted the watcher's stamp or serves orders, and outside an
\* update whenever the list last read has no blank team, the users of that list are
\* connected, and rows and bot flags of the connected are those of that list,
\* whatever updates died half way and whatever reads, writes and chat batches failed.
THEOREM RecordsFollow == Spec => []RecordsFollowList
  BY Inductive, PTL DEF IInv

\* At the same times no two users the bot takes for connected share a row: each has
\* that of the list, and one row of a list holds one name.
THEOREM RowsAreDistinct == Spec => []DistinctRows
<1>1. ASSUME IInv, Settled, NEW p \in Known, NEW q \in Known, p # q,
             users[p].conn, users[q].conn, users[p].pos >= 0
      PROVE  users[p].pos # users[q].pos
  <2>1. SUFFICES ASSUME users[p].pos = users[q].pos PROVE FALSE
    OBVIOUS
  <2>2. /\ p \in Names(json) /\ users[p].pos = RowOf(json, p)
        /\ q \in Names(json) /\ users[q].pos = RowOf(json, q) /\ json \in Seq(Row)
    BY <1>1, <2>1 DEF IInv, RecordsFollowList, TypeOK
  <2>3. json[RowOf(json, p) + 1].name = p /\ json[RowOf(json, q) + 1].name = q
    BY <2>2, RowOfHits
  <2> QED BY <1>1, <2>1, <2>2, <2>3
<1>2. IInv => DistinctRows
  BY <1>1 DEF DistinctRows
<1> QED BY <1>2, Inductive, PTL

\* When the list last read is the lobby as it is, a kick of a connected user
\* removes that user: at the kick the user has the row of the list, DOWN is sent
\* once more than that, and the name on that row is the user's alone.
THEOREM KickHits == Spec => KickHitsWhenInSync
<1>1. ASSUME IInv, NEW p \in Known, KickPlayer, p = Head(kicks), InSync, users[p].conn
      PROVE  \E i \in DOMAIN lobby : lobby[i] = p /\ lobby' = RemoveAt(lobby, i)
  <2> DEFINE i == users[p].pos + 1
  <2>1. /\ p \in Names(json) /\ users[p].pos = RowOf(json, p)
        /\ json \in Seq(Row) /\ lobby \in Seq(Players)
    BY <1>1 DEF IInv, RecordsFollowList, Settled, Applied, Serve, KickPlayer, TypeOK
  <2>2. i \in DOMAIN json /\ json[i].name = p
    BY <2>1, RowOfHits
  <2>3. i \in DOMAIN lobby /\ lobby[i] = p
    BY <1>1, <2>2 DEF InSync
  <2>4. i \in 1..Len(lobby)
    BY <2>1, <2>3
  <2>5. AfterDowns(Downs(p)) = {RemoveAt(lobby, i)}
    BY <2>1, <2>4 DEF AfterDowns, Downs
  <2>6. lobby' \in AfterDowns(Downs(p))
    BY <1>1 DEF KickPlayer
  <2> QED BY <2>3, <2>5, <2>6
<1>2. IInv /\ [Next]_vars =>
        [\A p \in Known : KickPlayer /\ p = Head(kicks) /\ InSync /\ users[p].conn
           => \E i \in DOMAIN lobby : lobby[i] = p /\ lobby' = RemoveAt(lobby, i)]_vars
  BY <1>1
<1> QED BY <1>2, Inductive, PTL DEF Spec, KickHitsWhenInSync

\* TeamsHitWhenInSync: a team assignment reaches the row of the user it names.
THEOREM TeamsHit == Spec => TeamsHitWhenInSync
<1> DEFINE p == Head(teams)
<1>1. ASSUME IInv, ServeTeam, InSync, click' # NoClick, users[click'.who].conn
      PROVE  click'.row + 1 \in DOMAIN lobby /\ lobby[click'.row + 1] = click'.who
  <2>1. p \in Known /\ users[p].pos + 1 > 0
    BY <1>1 DEF ServeTeam
  <2>2. click'.who = p /\ click'.row = users[p].pos
    BY <1>1, <2>1 DEF ServeTeam
  <2>3. users[p].pos >= 0
    BY <1>1, <2>1 DEF IInv, TypeOK, User, Position
  <2>4. p \in Names(json) /\ users[p].pos = RowOf(json, p) /\ json \in Seq(Row)
    BY <1>1, <2>1, <2>2, <2>3 DEF IInv, RecordsFollowList, Settled, ServeTeam, TypeOK
  <2>5. users[p].pos + 1 \in DOMAIN json /\ json[users[p].pos + 1].name = p
    BY <2>4, RowOfHits
  <2> QED BY <1>1, <2>2, <2>5 DEF InSync
<1>2. IInv /\ [Next]_vars =>
        [ServeTeam /\ InSync /\ click' # NoClick /\ users[click'.who].conn
           => click'.row + 1 \in DOMAIN lobby /\ lobby[click'.row + 1] = click'.who]_vars
  BY <1>1
<1> QED BY <1>2, Inductive, PTL DEF Spec, TeamsHitWhenInSync
=============================================================================
