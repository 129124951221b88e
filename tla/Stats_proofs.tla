---------------------------- MODULE Stats_proofs ----------------------------
(***************************************************************************)
(* For any set of names: the records of Stats stay well typed and          *)
(* coherent, and overall counts never shrink.                              *)
(*                                                                         *)
(* What a line does to one record is settled by three lemmas about Credit, *)
(* Debit and NewMatch; every action then changes at most two records, each *)
(* by one of these or by a step that leaves coherence alone.               *)
(***************************************************************************)
EXTENDS MCStats, FiniteSetTheorems, WellFoundedInduction, TLAPS

Record == [Counter -> Nat]

\* A new record is coherent.
LEMMA NewRecCoherent == NewRec \in Record /\ Coherent(NewRec)
BY DEF NewRec, Record, Counter, Coherent, KillsCohere, DeathsCohere, OneStreak

\* A kill keeps the killer's record coherent and takes no overall count back.
LEMMA CreditCoherent ==
  ASSUME NEW r \in Record, Coherent(r)
  PROVE  /\ Credit(r) \in Record /\ Coherent(Credit(r))
         /\ \A c \in Overall : r[c] <= Credit(r)[c]
BY DEF Record, Counter, Credit, Coherent, KillsCohere, DeathsCohere, OneStreak, Overall

\* A death does the same for the victim's.
LEMMA DebitCoherent ==
  ASSUME NEW r \in Record, Coherent(r)
  PROVE  /\ Debit(r) \in Record /\ Coherent(Debit(r))
         /\ \A c \in Overall : r[c] <= Debit(r)[c]
BY DEF Record, Counter, Debit, Coherent, KillsCohere, DeathsCohere, OneStreak, Overall

\* And so does a new match.
LEMMA NewMatchCoherent ==
  ASSUME NEW r \in Record, Coherent(r)
  PROVE  /\ NewMatch(r) \in Record /\ Coherent(NewMatch(r))
         /\ \A c \in Overall : r[c] <= NewMatch(r)[c]
BY DEF Record, Counter, NewMatch, Coherent, KillsCohere, DeathsCohere, OneStreak, Overall

----------------------------------------------------------------------------
\* The inductive invariant: coherence needs the types, nothing else.
IInv == TypeOK /\ StatsCoherent

\* It holds at first.
LEMMA InitIInv == Init => IInv
<1> SUFFICES ASSUME Init PROVE IInv
  OBVIOUS
<1>1. rec = [p \in Names |-> NewRec]
  BY DEF Init
<1>2. rec \in [Names -> Record] /\ \A p \in Names : Coherent(rec[p])
  BY <1>1, NewRecCoherent
<1>3. known \subseteq Names /\ conn \subseteq known /\ bots \subseteq known
  BY StatsAssumption DEF Init
<1>4. ingame \in BOOLEAN
  BY DEF Init
<1> QED BY <1>2, <1>3, <1>4 DEF IInv, TypeOK, StatsCoherent, Record

\* Every step keeps the invariant, and what it does to each record.
LEMMA NextIInv == IInv /\ [Next]_vars => IInv'
<1> SUFFICES ASSUME IInv, [Next]_vars PROVE IInv'
  OBVIOUS
<1> USE StatsAssumption
<1> USE DEF IInv, TypeOK, StatsCoherent
<1>rec. \A p \in Names : rec[p] \in Record /\ Coherent(rec[p])
  BY DEF Record
<1>1. ASSUME NEW p \in Names, HasConnected(p) PROVE IInv'
  <2>1. [NewRec EXCEPT !["connects"] = 1] \in Record
    BY NewRecCoherent DEF Record, Counter
  <2>2. Coherent([NewRec EXCEPT !["connects"] = 1])
    BY NewRecCoherent DEF NewRec, Counter, Coherent, KillsCohere, DeathsCohere, OneStreak
  <2> QED BY <1>1, <2>1, <2>2 DEF HasConnected, Record
<1>2. ASSUME NEW p \in Names, HasLeft(p) PROVE IInv'
  <2>1. [rec[p] EXCEPT !["connects"] = @ + 1] \in Record
    BY <1>rec DEF Record, Counter
  <2>2. Coherent([rec[p] EXCEPT !["connects"] = @ + 1])
    BY <1>rec DEF Record, Counter, Coherent, KillsCohere, DeathsCohere, OneStreak
  <2>3. rec' = [rec EXCEPT ![p] = [rec[p] EXCEPT !["connects"] = @ + 1]]
    BY <1>2 DEF HasLeft
  <2> QED BY <1>2, <2>1, <2>2, <2>3 DEF HasLeft, Record
<1>3. ASSUME NEW p \in Names, HasJoined(p) PROVE IInv'
  <2> DEFINE r == [rec[p] EXCEPT !["joins"] = @ + 1, !["joinsMatch"] = @ + 1]
  <2>1. r \in Record /\ Coherent(r)
    BY <1>rec DEF Record, Counter, Coherent, KillsCohere, DeathsCohere, OneStreak
  <2>2. rec' = [rec EXCEPT ![p] = r]
    BY <1>3, <1>rec DEF HasJoined, Record, Counter
  <2> QED BY <1>3, <2>1, <2>2 DEF HasJoined, Record
<1>4. ASSUME NEW p \in Names, CommittedSuicide(p) PROVE IInv'
  <2> DEFINE r == [rec[p] EXCEPT !["suicides"] = @ + 1, !["suicidesMatch"] = @ + 1]
  <2>1. r \in Record /\ Coherent(r)
    BY <1>rec DEF Record, Counter, Coherent, KillsCohere, DeathsCohere, OneStreak
  <2>2. rec' = [rec EXCEPT ![p] = r]
    BY <1>4, <1>rec DEF CommittedSuicide, Record, Counter
  <2> QED BY <1>4, <2>1, <2>2 DEF CommittedSuicide, Record
<1>5. ASSUME NEW k \in Names, NEW v \in Names, Destroyed(k, v) PROVE IInv'
  <2>1. rec' = [rec EXCEPT ![k] = Credit(rec[k]), ![v] = Debit(rec[v])]
    BY <1>5 DEF Destroyed
  <2>2. Credit(rec[k]) \in Record /\ Coherent(Credit(rec[k]))
    BY <1>rec, CreditCoherent
  <2>3. Debit(rec[v]) \in Record /\ Coherent(Debit(rec[v]))
    BY <1>rec, DebitCoherent
  <2> QED BY <1>5, <2>1, <2>2, <2>3 DEF Destroyed, Record
<1>6. ASSUME DestroyedOther PROVE IInv'
  BY <1>6 DEF DestroyedOther, vars
<1>7. ASSUME GameStart PROVE IInv'
  <2>1. \A p \in Names : rec'[p] = rec[p] \/ rec'[p] = NewMatch(rec[p])
    BY <1>7 DEF GameStart
  <2>2. \A p \in Names : NewMatch(rec[p]) \in Record /\ Coherent(NewMatch(rec[p]))
    BY <1>rec, NewMatchCoherent
  <2>3. rec' \in [Names -> Record]
    BY <1>7, <1>rec, <2>2 DEF GameStart
  <2> QED BY <1>7, <1>rec, <2>1, <2>2, <2>3 DEF GameStart, Record
<1>8. ASSUME GameStop PROVE IInv'
  BY <1>8 DEF GameStop
<1>9. ASSUME NEW c \in SUBSET Names, NEW b \in SUBSET Names, RosterUpdate(c, b) PROVE IInv'
  BY <1>9 DEF RosterUpdate
<1>10. ASSUME NEW p \in Names, Forget(p) PROVE IInv'
  BY <1>10, NewRecCoherent DEF Forget, Record
<1>11. ASSUME UNCHANGED vars PROVE IInv'
  BY <1>11 DEF vars
<1> QED BY <1>1, <1>2, <1>3, <1>4, <1>5, <1>6, <1>7, <1>8, <1>9, <1>10, <1>11
        DEF Next, Line

\* The types of Stats, for every set of names and every order of events
\* (Plugins/Stats.pm, User.pm).
THEOREM StatsTypeCorrect == Spec => []TypeOK
<1>1. IInv => TypeOK
  BY DEF IInv
<1> QED BY <1>1, InitIInv, NextIInv, PTL DEF Spec

\* Every record stays coherent for ever: current streaks within the match and
\* the record, records within the totals, never two streaks at once
\* (chatter, game_start and delete_user in any order).
THEOREM StatsStayCoherent == Spec => []StatsCoherent
<1>1. IInv => StatsCoherent
  BY DEF IInv
<1> QED BY <1>1, InitIInv, NextIInv, PTL DEF Spec

\* No step takes an overall count or a longest streak of a user back.
LEMMA NextNeverShrinks ==
  IInv /\ [Next]_vars =>
    [\A p \in known \cap known' : \A c \in Overall : rec[p][c] <= rec'[p][c]]_vars
<1> SUFFICES ASSUME IInv, Next, NEW p \in known \cap known', NEW c \in Overall
             PROVE  rec[p][c] <= rec'[p][c]
  OBVIOUS
<1> USE DEF IInv, TypeOK, StatsCoherent
<1>rec. \A q \in Names : rec[q] \in Record /\ Coherent(rec[q])
  BY DEF Record
<1>c. p \in Names /\ c \in Counter /\ rec[p][c] \in Nat
  BY <1>rec DEF Record, Overall, Counter
<1>1. ASSUME NEW q \in Names, HasConnected(q) PROVE rec[p][c] <= rec'[p][c]
  BY <1>1, <1>c DEF HasConnected
<1>2. ASSUME NEW q \in Names, HasLeft(q) PROVE rec[p][c] <= rec'[p][c]
  <2>1. CASE q = p
    BY <1>2, <2>1, <1>c, <1>rec DEF HasLeft, Record, Counter, Overall
  <2>2. CASE q # p
    BY <1>2, <2>2, <1>c DEF HasLeft
  <2> QED BY <2>1, <2>2
<1>3. ASSUME NEW q \in Names, HasJoined(q) PROVE rec[p][c] <= rec'[p][c]
  <2>1. CASE q = p
    BY <1>3, <2>1, <1>c, <1>rec DEF HasJoined, Record, Counter, Overall
  <2>2. CASE q # p
    BY <1>3, <2>2, <1>c DEF HasJoined
  <2> QED BY <2>1, <2>2
<1>4. ASSUME NEW q \in Names, CommittedSuicide(q) PROVE rec[p][c] <= rec'[p][c]
  <2>1. CASE q = p
    BY <1>4, <2>1, <1>c, <1>rec DEF CommittedSuicide, Record, Counter, Overall
  <2>2. CASE q # p
    BY <1>4, <2>2, <1>c DEF CommittedSuicide
  <2> QED BY <2>1, <2>2
<1>5. ASSUME NEW k \in Names, NEW v \in Names, Destroyed(k, v) PROVE rec[p][c] <= rec'[p][c]
  <2>1. rec' = [rec EXCEPT ![k] = Credit(rec[k]), ![v] = Debit(rec[v])] /\ k # v
    BY <1>5 DEF Destroyed
  <2>2. rec[k][c] <= Credit(rec[k])[c]
    BY <1>rec, CreditCoherent
  <2>3. rec[v][c] <= Debit(rec[v])[c]
    BY <1>rec, DebitCoherent
  <2>4. rec'[p] = rec[p] \/ (p = k /\ rec'[p] = Credit(rec[k])) \/ (p = v /\ rec'[p] = Debit(rec[v]))
    BY <2>1, <1>c
  <2> QED BY <2>2, <2>3, <2>4, <1>c
<1>6. ASSUME GameStart PROVE rec[p][c] <= rec'[p][c]
  <2>1. rec'[p] = rec[p] \/ rec'[p] = NewMatch(rec[p])
    BY <1>6, <1>c DEF GameStart
  <2>2. rec[p][c] <= NewMatch(rec[p])[c]
    BY <1>rec, <1>c, NewMatchCoherent
  <2> QED BY <2>1, <2>2, <1>c
<1>7. ASSUME rec' = rec PROVE rec[p][c] <= rec'[p][c]
  BY <1>7, <1>c
<1>8. ASSUME NEW q \in Names, Forget(q) PROVE rec[p][c] <= rec'[p][c]
  BY <1>8, <1>c DEF Forget
<1> QED BY <1>1, <1>2, <1>3, <1>4, <1>5, <1>6, <1>7, <1>8
        DEF Next, Line, DestroyedOther, GameStop, RosterUpdate, vars

\* The overall counts and longest streaks of a user who keeps the record only
\* grow (User.pm's *_overall and longest_* attributes).
THEOREM OverallsNeverShrink == Spec => OverallNeverShrinks
<1>1. Spec => []IInv
  BY InitIInv, NextIInv, PTL DEF Spec
<1> QED BY <1>1, NextNeverShrinks, PTL DEF Spec, OverallNeverShrinks

----------------------------------------------------------------------------
\* Streaks and the history (MCStats).

\* The run at place n of a log in which the places in A count and those in B end
\* the run; and a counter with its maximum that keep track of it since place from.
Streak(A, B, n) == Cardinality({i \in 1..n : i \in A /\ \A j \in i..n : j \notin B})
Follows(streak, longest, A, B, from, n) ==
  /\ from \in 0..n
  /\ streak = Streak(A, B, n)
  /\ \E m \in from..n : longest = Streak(A, B, m)
  /\ \A m \in from..n : Streak(A, B, m) <= longest

\* A streak is a number.
LEMMA StreakType == ASSUME NEW A, NEW B, NEW n \in Nat PROVE Streak(A, B, n) \in Nat
<1>1. IsFiniteSet(1..n)
  BY FS_Interval
<1>2. IsFiniteSet({i \in 1..n : i \in A /\ \A j \in i..n : j \notin B})
  BY <1>1, FS_Subset
<1> QED BY <1>2, FS_CardinalityType DEF Streak

\* What lies behind n has no say in the run at n.
LEMMA StreakLocal ==
  ASSUME NEW A, NEW B, NEW C, NEW D, NEW n \in Nat,
         \A i \in 1..n : (i \in A <=> i \in C) /\ (i \in B <=> i \in D)
  PROVE  Streak(A, B, n) = Streak(C, D, n)
<1>1. \A i \in 1..n : \A j \in i..n : j \in 1..n
  OBVIOUS
<1>2. {i \in 1..n : i \in A /\ \A j \in i..n : j \notin B}
      = {i \in 1..n : i \in C /\ \A j \in i..n : j \notin D}
  BY <1>1
<1> QED BY <1>2 DEF Streak

\* What the entry behind a run does to it: ends it, lengthens it, or leaves it.
LEMMA StreakStep ==
  ASSUME NEW A, NEW B, NEW n \in Nat
  PROVE  /\ n + 1 \in B => Streak(A, B, n + 1) = 0
         /\ n + 1 \notin B /\ n + 1 \in A => Streak(A, B, n + 1) = Streak(A, B, n) + 1
         /\ n + 1 \notin B /\ n + 1 \notin A => Streak(A, B, n + 1) = Streak(A, B, n)
<1> DEFINE S == {i \in 1..n : i \in A /\ \A j \in i..n : j \notin B}
           T == {i \in 1..(n + 1) : i \in A /\ \A j \in i..(n + 1) : j \notin B}
<1>1. IsFiniteSet(S)
  <2>1. IsFiniteSet(1..n)
    BY FS_Interval
  <2> QED BY <2>1, FS_Subset
<1>2. CASE n + 1 \in B
  <2>1. \A i \in 1..(n + 1) : n + 1 \in i..(n + 1)
    OBVIOUS
  <2>2. T = {}
    BY <1>2, <2>1
  <2> QED BY <1>2, <2>2, FS_EmptySet DEF Streak
<1>3. ASSUME n + 1 \notin B PROVE T = IF n + 1 \in A THEN S \cup {n + 1} ELSE S
  <2>1. \A i \in 1..n : (\A j \in i..(n + 1) : j \notin B) <=> (\A j \in i..n : j \notin B)
    <3>1. \A i \in 1..n : \A j \in i..(n + 1) : j \in i..n \/ j = n + 1
      OBVIOUS
    <3>2. \A i \in 1..n : \A j \in i..n : j \in i..(n + 1)
      OBVIOUS
    <3> QED BY <1>3, <3>1, <3>2
  <2>2. \A j \in (n + 1)..(n + 1) : j \notin B
    BY <1>3
  <2>3. 1..(n + 1) = (1..n) \cup {n + 1}
    OBVIOUS
  <2>4. \A i : i \in T <=> (i \in S \/ (i = n + 1 /\ n + 1 \in A))
    BY <2>1, <2>2, <2>3
  <2> QED BY <2>4
<1>4. CASE n + 1 \notin B /\ n + 1 \in A
  <2>1. T = S \cup {n + 1} /\ n + 1 \notin S
    BY <1>3, <1>4
  <2>2. Cardinality(T) = Cardinality(S) + 1
    BY <1>1, <2>1, FS_AddElement
  <2> QED BY <1>4, <2>2 DEF Streak
<1>5. CASE n + 1 \notin B /\ n + 1 \notin A
  BY <1>3, <1>5 DEF Streak
<1> QED BY <1>2, <1>4, <1>5

\* A counter and its maximum at the next place: where the run ends, where it grows,
\* where nothing happens, and where both start anew.
LEMMA FollowsStep ==
  ASSUME NEW A, NEW B, NEW C, NEW D, NEW n \in Nat, NEW s, NEW l, NEW from,
         Follows(s, l, A, B, from, n),
         \A i \in 1..n : (i \in A <=> i \in C) /\ (i \in B <=> i \in D)
  PROVE  /\ n + 1 \in D => Follows(0, l, C, D, from, n + 1) /\ Follows(0, 0, C, D, n + 1, n + 1)
         /\ n + 1 \notin D /\ n + 1 \in C
              => Follows(s + 1, IF s + 1 > l THEN s + 1 ELSE l, C, D, from, n + 1)
         /\ n + 1 \notin D /\ n + 1 \notin C => Follows(s, l, C, D, from, n + 1)
<1> DEFINE R(m) == Streak(A, B, m)
           Q(m) == Streak(C, D, m)
<1>1. \A m \in 0..(n + 1) : R(m) \in Nat /\ Q(m) \in Nat
  BY StreakType
<1>2. \A m \in 0..n : Q(m) = R(m)
  <2>1. ASSUME NEW m \in 0..n PROVE Q(m) = R(m)
    <3>1. \A i \in 1..m : i \in 1..n
      OBVIOUS
    <3> QED BY <3>1, StreakLocal
  <2> QED BY <2>1
<1>3. /\ n + 1 \in D => Q(n + 1) = 0
      /\ n + 1 \notin D /\ n + 1 \in C => Q(n + 1) = Q(n) + 1
      /\ n + 1 \notin D /\ n + 1 \notin C => Q(n + 1) = Q(n)
  BY StreakStep
<1>4. /\ from \in 0..n /\ s = R(n)
      /\ \E m \in from..n : l = R(m)
      /\ \A m \in from..n : R(m) <= l
  BY DEF Follows
<1> HIDE DEF R, Q
<1>5. Q(n) = s /\ s \in Nat /\ l \in Nat /\ s <= l
  <2>1. n \in from..n /\ n \in 0..(n + 1) /\ n \in 0..n
    BY <1>4
  <2>2. PICK m \in from..n : l = R(m)
    BY <1>4
  <2>3. m \in 0..(n + 1)
    BY <1>4
  <2> QED BY <1>1, <1>2, <1>4, <2>1, <2>2, <2>3
<1>6. \E m \in from..(n + 1) : l = Q(m)
  <2>1. PICK m \in from..n : l = R(m)
    BY <1>4
  <2>2. m \in 0..n /\ m \in from..(n + 1)
    BY <1>4
  <2> QED BY <1>2, <2>1, <2>2
<1>7. \A m \in from..(n + 1) : Q(m) <= l \/ m = n + 1
  <2>1. \A m \in from..(n + 1) : m = n + 1 \/ (m \in from..n /\ m \in 0..n)
    BY <1>4
  <2> QED BY <1>2, <1>4, <2>1
<1>8. from \in 0..(n + 1) /\ n + 1 \in from..(n + 1)
  BY <1>4
<1>9. ASSUME n + 1 \in D PROVE Follows(0, l, C, D, from, n + 1) /\ Follows(0, 0, C, D, n + 1, n + 1)
  <2>1. Q(n + 1) = 0
    BY <1>3, <1>9
  <2>2. \A m \in from..(n + 1) : Q(m) <= l
    BY <1>5, <1>7, <2>1
  <2>3. (n + 1)..(n + 1) = {n + 1} /\ n + 1 \in 0..(n + 1)
    OBVIOUS
  <2> QED BY <1>6, <1>8, <2>1, <2>2, <2>3 DEF Follows, Q
<1>10. ASSUME n + 1 \notin D, n + 1 \in C
       PROVE  Follows(s + 1, IF s + 1 > l THEN s + 1 ELSE l, C, D, from, n + 1)
  <2> DEFINE k == IF s + 1 > l THEN s + 1 ELSE l
  <2>1. Q(n + 1) = s + 1
    BY <1>3, <1>5, <1>10
  <2>2. \A m \in from..(n + 1) : Q(m) <= k
    <3>1. \A m \in from..(n + 1) : m \in 0..(n + 1)
      BY <1>8
    <3> QED BY <1>1, <1>5, <1>7, <2>1, <3>1
  <2>3. \E m \in from..(n + 1) : k = Q(m)
    BY <1>6, <1>8, <2>1
  <2> QED BY <1>8, <2>1, <2>2, <2>3 DEF Follows, Q
<1>11. ASSUME n + 1 \notin D, n + 1 \notin C PROVE Follows(s, l, C, D, from, n + 1)
  <2>1. Q(n + 1) = s
    BY <1>3, <1>5, <1>11
  <2>2. \A m \in from..(n + 1) : Q(m) <= l
    BY <1>5, <1>7, <2>1
  <2> QED BY <1>6, <1>8, <2>1, <2>2 DEF Follows, Q
<1> QED BY <1>9, <1>10, <1>11

\* What the log may hold, and the places in it that matter to one name.
Entry == [what : {"kill"}, by : Names, of : Names] \cup [what : {"start"}, conn : SUBSET Names]
         \cup [what : {"forget"}, who : Names, rec : [{"kills", "deaths"} -> Nat]]
Kills(p)     == {i \in DOMAIN log : IsKill(log[i], p)}
Deaths(p)    == {i \in DOMAIN log : IsDeath(log[i], p)}
KillEnds(p)  == {i \in DOMAIN log : IsDeath(log[i], p) \/ Anew(p, log[i])}
DeathEnds(p) == {i \in DOMAIN log : IsKill(log[i], p) \/ Anew(p, log[i])}

\* Streaks and records of p keep track of the log, and a name without a record has
\* none to lose when it gets one.
History(r, p) ==
  /\ Follows(r["killStreak"], r["longestKill"], Kills(p), KillEnds(p), Forgotten(p), Len(log))
  /\ Follows(r["deathStreak"], r["longestDeath"], Deaths(p), DeathEnds(p), Forgotten(p), Len(log))
HInv == /\ log \in Seq(Entry)
        /\ \A p \in Names : History(rec[p], p)
        /\ \A p \in Names \ known : rec[p] = NewRec

\* A maximum that is known to be one is the one Max chooses.
LEMMA MaxIs ==
  ASSUME NEW S \in SUBSET Nat, NEW m \in S, \A y \in S : y <= m
  PROVE  Max(S) = m
<1>1. m \in S /\ \A y \in S : m >= y
  OBVIOUS
<1>2. Max(S) \in S /\ \A y \in S : Max(S) >= y
  BY <1>1 DEF Max
<1>3. Max(S) >= m /\ m >= Max(S) /\ Max(S) \in Nat /\ m \in Nat
  BY <1>1, <1>2
<1> QED BY <1>3

\* The log one entry longer.
LEMMA Appended ==
  ASSUME log \in Seq(Entry), NEW e, log' = Append(log, e), NEW p,
         Forgotten(p) \in 0..Len(log)
  PROVE  LET n == Len(log) IN
         /\ n \in Nat /\ Len(log') = n + 1
         /\ \A i \in 1..n : /\ (i \in Kills(p) <=> i \in Kills(p)')
                            /\ (i \in Deaths(p) <=> i \in Deaths(p)')
                            /\ (i \in KillEnds(p) <=> i \in KillEnds(p)')
                            /\ (i \in DeathEnds(p) <=> i \in DeathEnds(p)')
         /\ n + 1 \in Kills(p)' <=> IsKill(e, p)
         /\ n + 1 \in Deaths(p)' <=> IsDeath(e, p)
         /\ n + 1 \in KillEnds(p)' <=> IsDeath(e, p) \/ Anew(p, e)
         /\ n + 1 \in DeathEnds(p)' <=> IsKill(e, p) \/ Anew(p, e)
         /\ Forgotten(p)' = IF e.what = "forget" /\ e.who = p THEN n + 1 ELSE Forgotten(p)
<1> DEFINE n == Len(log)
           F == {i \in 1..n : log[i].what = "forget" /\ log[i].who = p}
           G == {i \in 1..(n + 1) : log'[i].what = "forget" /\ log'[i].who = p}
<1>1. /\ n \in Nat /\ Len(log') = n + 1 /\ DOMAIN log' = 1..(n + 1) /\ DOMAIN log = 1..n
      /\ \A i \in 1..n : log'[i] = log[i]
      /\ log'[n + 1] = e
  OBVIOUS
<1>2. \A i \in 1..n : i \in 1..(n + 1)
  BY <1>1
<1>3. n + 1 \in 1..(n + 1)
  BY <1>1
<1> HIDE DEF n
<1>4. \A i \in 1..n : /\ (i \in Kills(p) <=> i \in Kills(p)')
                     /\ (i \in Deaths(p) <=> i \in Deaths(p)')
                     /\ (i \in KillEnds(p) <=> i \in KillEnds(p)')
                     /\ (i \in DeathEnds(p) <=> i \in DeathEnds(p)')
  BY <1>1, <1>2 DEF Kills, Deaths, KillEnds, DeathEnds, IsKill, IsDeath, Anew
<1>5. /\ n + 1 \in Kills(p)' <=> IsKill(e, p)
      /\ n + 1 \in Deaths(p)' <=> IsDeath(e, p)
      /\ n + 1 \in KillEnds(p)' <=> IsDeath(e, p) \/ Anew(p, e)
      /\ n + 1 \in DeathEnds(p)' <=> IsKill(e, p) \/ Anew(p, e)
  BY <1>1, <1>3 DEF Kills, Deaths, KillEnds, DeathEnds, IsKill, IsDeath, Anew
<1>6. Forgotten(p) = Max({0} \cup F) /\ Forgotten(p)' = Max({0} \cup G)
  BY <1>1 DEF Forgotten, n
<1>7. ASSUME e.what = "forget" /\ e.who = p PROVE Forgotten(p)' = n + 1
  <2>1. n + 1 \in {0} \cup G /\ {0} \cup G \subseteq Nat /\ \A y \in {0} \cup G : y <= n + 1
    BY <1>1, <1>3, <1>7
  <2>2. Max({0} \cup G) = n + 1
    BY <2>1, MaxIs
  <2> QED BY <1>6, <2>2
<1>8. ASSUME ~(e.what = "forget" /\ e.who = p) PROVE Forgotten(p)' = Forgotten(p)
  <2>1. \A i \in 1..(n + 1) : i \in 1..n \/ i = n + 1
    BY <1>1
  <2>2. G = F
    BY <1>1, <1>2, <1>8, <2>1
  <2> QED BY <1>6, <2>2
<1> QED BY <1>1, <1>4, <1>5, <1>7, <1>8 DEF n

\* What an entry does to the streaks of p, and so what it must do to the counters.
LEMMA EntryKeeps ==
  ASSUME log \in Seq(Entry), NEW e, log' = Append(log, e), NEW p, NEW r, History(r, p), NEW q,
         \/ /\ IsKill(e, p) /\ ~IsDeath(e, p) /\ ~Anew(p, e) /\ e.what # "forget"
            /\ q["killStreak"] = r["killStreak"] + 1
            /\ q["longestKill"] = IF q["killStreak"] > r["longestKill"] THEN q["killStreak"]
                                                                      ELSE r["longestKill"]
            /\ q["deathStreak"] = 0 /\ q["longestDeath"] = r["longestDeath"]
         \/ /\ IsDeath(e, p) /\ ~IsKill(e, p) /\ ~Anew(p, e) /\ e.what # "forget"
            /\ q["deathStreak"] = r["deathStreak"] + 1
            /\ q["longestDeath"] = IF q["deathStreak"] > r["longestDeath"] THEN q["deathStreak"]
                                                                         ELSE r["longestDeath"]
            /\ q["killStreak"] = 0 /\ q["longestKill"] = r["longestKill"]
         \/ /\ Anew(p, e) /\ e.what # "forget"
            /\ q["killStreak"] = 0 /\ q["deathStreak"] = 0
            /\ q["longestKill"] = r["longestKill"] /\ q["longestDeath"] = r["longestDeath"]
         \/ /\ Anew(p, e) /\ e.what = "forget" /\ e.who = p
            /\ \A c \in {"killStreak", "deathStreak", "longestKill", "longestDeath"} : q[c] = 0
         \/ /\ ~IsKill(e, p) /\ ~IsDeath(e, p) /\ ~Anew(p, e) /\ ~(e.what = "forget" /\ e.who = p)
            /\ \A c \in {"killStreak", "deathStreak", "longestKill", "longestDeath"} : q[c] = r[c]
  PROVE  /\ Follows(q["killStreak"], q["longestKill"], Kills(p), KillEnds(p), Forgotten(p), Len(log))'
         /\ Follows(q["deathStreak"], q["longestDeath"], Deaths(p), DeathEnds(p), Forgotten(p), Len(log))'
<1> DEFINE n == Len(log)
           f == Forgotten(p)
<1>1. f \in 0..n
  BY DEF History, Follows
<1>2. /\ n \in Nat /\ Len(log') = n + 1
      /\ \A i \in 1..n : /\ (i \in Kills(p) <=> i \in Kills(p)')
                         /\ (i \in Deaths(p) <=> i \in Deaths(p)')
                         /\ (i \in KillEnds(p) <=> i \in KillEnds(p)')
                         /\ (i \in DeathEnds(p) <=> i \in DeathEnds(p)')
      /\ n + 1 \in Kills(p)' <=> IsKill(e, p)
      /\ n + 1 \in Deaths(p)' <=> IsDeath(e, p)
      /\ n + 1 \in KillEnds(p)' <=> IsDeath(e, p) \/ Anew(p, e)
      /\ n + 1 \in DeathEnds(p)' <=> IsKill(e, p) \/ Anew(p, e)
      /\ Forgotten(p)' = IF e.what = "forget" /\ e.who = p THEN n + 1 ELSE f
  BY <1>1, Appended
<1>3. /\ n + 1 \in KillEnds(p)' =>
           /\ Follows(0, r["longestKill"], Kills(p)', KillEnds(p)', f, n + 1)
           /\ Follows(0, 0, Kills(p)', KillEnds(p)', n + 1, n + 1)
      /\ n + 1 \notin KillEnds(p)' /\ n + 1 \in Kills(p)' =>
           Follows(r["killStreak"] + 1,
                   IF r["killStreak"] + 1 > r["longestKill"] THEN r["killStreak"] + 1
                                                             ELSE r["longestKill"],
                   Kills(p)', KillEnds(p)', f, n + 1)
      /\ n + 1 \notin KillEnds(p)' /\ n + 1 \notin Kills(p)' =>
           Follows(r["killStreak"], r["longestKill"], Kills(p)', KillEnds(p)', f, n + 1)
  BY <1>2, FollowsStep DEF History
<1>4. /\ n + 1 \in DeathEnds(p)' =>
           /\ Follows(0, r["longestDeath"], Deaths(p)', DeathEnds(p)', f, n + 1)
           /\ Follows(0, 0, Deaths(p)', DeathEnds(p)', n + 1, n + 1)
      /\ n + 1 \notin DeathEnds(p)' /\ n + 1 \in Deaths(p)' =>
           Follows(r["deathStreak"] + 1,
                   IF r["deathStreak"] + 1 > r["longestDeath"] THEN r["deathStreak"] + 1
                                                               ELSE r["longestDeath"],
                   Deaths(p)', DeathEnds(p)', f, n + 1)
      /\ n + 1 \notin DeathEnds(p)' /\ n + 1 \notin Deaths(p)' =>
           Follows(r["deathStreak"], r["longestDeath"], Deaths(p)', DeathEnds(p)', f, n + 1)
  BY <1>2, FollowsStep DEF History
<1>5. /\ Follows(q["killStreak"], q["longestKill"], Kills(p)', KillEnds(p)', Forgotten(p)', n + 1)
      /\ Follows(q["deathStreak"], q["longestDeath"], Deaths(p)', DeathEnds(p)', Forgotten(p)', n + 1)
  <2> HIDE DEF n, f
  <2> QED BY <1>2, <1>3, <1>4
<1> QED BY <1>2, <1>5 DEF Follows

\* Steps that write nothing in the log leave the four counters as they are.
LEMMA SilentKeeps ==
  ASSUME log' = log, NEW p \in Names, History(rec[p], p),
         \A c \in {"killStreak", "deathStreak", "longestKill", "longestDeath"} : rec'[p][c] = rec[p][c]
  PROVE  History(rec[p], p)'
<1>1. /\ Kills(p)' = Kills(p) /\ KillEnds(p)' = KillEnds(p)
      /\ Deaths(p)' = Deaths(p) /\ DeathEnds(p)' = DeathEnds(p)
  BY DEF Kills, KillEnds, Deaths, DeathEnds, IsKill, IsDeath, Anew
<1>2. Forgotten(p)' = Forgotten(p) /\ Len(log)' = Len(log)
  BY DEF Forgotten
<1>3. /\ rec'[p]["killStreak"] = rec[p]["killStreak"]
      /\ rec'[p]["longestKill"] = rec[p]["longestKill"]
      /\ rec'[p]["deathStreak"] = rec[p]["deathStreak"]
      /\ rec'[p]["longestDeath"] = rec[p]["longestDeath"]
  OBVIOUS
<1> QED BY <1>1, <1>2, <1>3 DEF History, Follows

\* What Credit and Debit do to the four.
LEMMA CreditCounts ==
  ASSUME NEW r \in Record
  PROVE  LET streak == r["killStreak"] + 1 IN
         /\ Credit(r)["killStreak"] = streak
         /\ Credit(r)["longestKill"] = IF streak > r["longestKill"] THEN streak ELSE r["longestKill"]
         /\ Credit(r)["deathStreak"] = 0 /\ Credit(r)["longestDeath"] = r["longestDeath"]
BY DEF Credit, Record, Counter

\* The same for a death.
LEMMA DebitCounts ==
  ASSUME NEW r \in Record
  PROVE  LET streak == r["deathStreak"] + 1 IN
         /\ Debit(r)["deathStreak"] = streak
         /\ Debit(r)["longestDeath"] = IF streak > r["longestDeath"] THEN streak ELSE r["longestDeath"]
         /\ Debit(r)["killStreak"] = 0 /\ Debit(r)["longestKill"] = r["longestKill"]
BY DEF Debit, Record, Counter

\* Each step keeps every record's history, as it counts what it logs.
LEMMA LoggedKeeps ==
  ASSUME TypeOK, HInv, [MCNext]_mcvars
  PROVE  \A p \in Names : History(rec[p], p)'
<1> SUFFICES ASSUME NEW p \in Names PROVE History(rec[p], p)'
  OBVIOUS
<1> DEFINE Four == {"killStreak", "deathStreak", "longestKill", "longestDeath"}
<1>1. /\ log \in Seq(Entry) /\ History(rec[p], p)
      /\ rec \in [Names -> Record]
  BY DEF HInv, TypeOK, Record
<1>2. CASE UNCHANGED log /\ \A c \in Four : rec'[p][c] = rec[p][c]
  BY <1>1, <1>2, SilentKeeps
<1>3. ASSUME NEW k \in Names, NEW v \in Names, Destroyed(k, v),
             Logged([what |-> "kill", by |-> k, of |-> v])
      PROVE  History(rec[p], p)'
  <2> DEFINE e == [what |-> "kill", by |-> k, of |-> v]
  <2>1. log' = Append(log, e) /\ k # v /\ rec' = [rec EXCEPT ![k] = Credit(@), ![v] = Debit(@)]
    BY <1>3 DEF Logged, Destroyed
  <2>2. CASE p = k
    <3>1. rec'[p] = Credit(rec[p])
      BY <1>1, <2>1, <2>2
    <3>2. IsKill(e, p) /\ ~IsDeath(e, p) /\ ~Anew(p, e) /\ e.what # "forget"
      BY <2>1, <2>2 DEF IsKill, IsDeath, Anew
    <3>3. /\ rec'[p]["killStreak"] = rec[p]["killStreak"] + 1
          /\ rec'[p]["longestKill"] = IF rec'[p]["killStreak"] > rec[p]["longestKill"]
                                      THEN rec'[p]["killStreak"] ELSE rec[p]["longestKill"]
          /\ rec'[p]["deathStreak"] = 0 /\ rec'[p]["longestDeath"] = rec[p]["longestDeath"]
      BY <1>1, <3>1, CreditCounts
    <3> HIDE DEF e
    <3> QED BY <1>1, <2>1, <3>2, <3>3, EntryKeeps DEF History
  <2>3. CASE p = v
    <3>1. rec'[p] = Debit(rec[p])
      BY <1>1, <2>1, <2>3
    <3>2. IsDeath(e, p) /\ ~IsKill(e, p) /\ ~Anew(p, e) /\ e.what # "forget"
      BY <2>1, <2>3 DEF IsKill, IsDeath, Anew
    <3>3. /\ rec'[p]["deathStreak"] = rec[p]["deathStreak"] + 1
          /\ rec'[p]["longestDeath"] = IF rec'[p]["deathStreak"] > rec[p]["longestDeath"]
                                       THEN rec'[p]["deathStreak"] ELSE rec[p]["longestDeath"]
          /\ rec'[p]["killStreak"] = 0 /\ rec'[p]["longestKill"] = rec[p]["longestKill"]
      BY <1>1, <3>1, DebitCounts
    <3> HIDE DEF e
    <3> QED BY <1>1, <2>1, <3>2, <3>3, EntryKeeps DEF History
  <2>4. CASE p # k /\ p # v
    <3>1. rec'[p] = rec[p]
      BY <1>1, <2>1, <2>4
    <3>2. ~IsKill(e, p) /\ ~IsDeath(e, p) /\ ~Anew(p, e) /\ ~(e.what = "forget" /\ e.who = p)
      BY <2>4 DEF IsKill, IsDeath, Anew
    <3> HIDE DEF e
    <3> QED BY <1>1, <2>1, <3>1, <3>2, EntryKeeps DEF History
  <2> QED BY <2>2, <2>3, <2>4
<1>4. ASSUME GameStart, Logged([what |-> "start", conn |-> conn]) PROVE History(rec[p], p)'
  <2> DEFINE e == [what |-> "start", conn |-> conn]
  <2>1. log' = Append(log, e) /\ rec'[p] = IF p \in conn THEN NewMatch(rec[p]) ELSE rec[p]
    BY <1>4 DEF Logged, GameStart
  <2>2. e.what = "start" /\ e.conn = conn
    OBVIOUS
  <2> HIDE DEF e
  <2>3. CASE p \in conn
    <3>1. /\ rec'[p]["killStreak"] = 0 /\ rec'[p]["deathStreak"] = 0
          /\ rec'[p]["longestKill"] = rec[p]["longestKill"]
          /\ rec'[p]["longestDeath"] = rec[p]["longestDeath"]
      BY <1>1, <2>1, <2>3 DEF NewMatch, Record, Counter
    <3>2. Anew(p, e) /\ e.what # "forget"
      BY <2>2, <2>3 DEF Anew
    <3> QED BY <1>1, <2>1, <3>1, <3>2, EntryKeeps DEF History
  <2>4. CASE p \notin conn
    <3>1. rec'[p] = rec[p]
      BY <2>1, <2>4
    <3>2. ~IsKill(e, p) /\ ~IsDeath(e, p) /\ ~Anew(p, e) /\ ~(e.what = "forget" /\ e.who = p)
      BY <2>2, <2>4 DEF IsKill, IsDeath, Anew
    <3> QED BY <1>1, <2>1, <3>1, <3>2, EntryKeeps DEF History
  <2> QED BY <2>3, <2>4
<1>5. ASSUME NEW g \in Names, Forget(g), Logged([what |-> "forget", who |-> g, rec |-> Score(rec[g])])
      PROVE  History(rec[p], p)'
  <2> DEFINE e == [what |-> "forget", who |-> g, rec |-> Score(rec[g])]
  <2>1. log' = Append(log, e) /\ rec' = [rec EXCEPT ![g] = NewRec]
    BY <1>5 DEF Logged, Forget
  <2>2. e.what = "forget" /\ e.who = g
    OBVIOUS
  <2> HIDE DEF e
  <2>3. CASE p = g
    <3>1. \A c \in Four : rec'[p][c] = 0
      BY <1>1, <2>1, <2>3 DEF NewRec, Counter
    <3>2. Anew(p, e) /\ e.what = "forget" /\ e.who = p
      BY <2>2, <2>3 DEF Anew
    <3> QED BY <1>1, <2>1, <3>1, <3>2, EntryKeeps DEF History
  <2>4. CASE p # g
    <3>1. rec'[p] = rec[p]
      BY <1>1, <2>1, <2>4
    <3>2. ~IsKill(e, p) /\ ~IsDeath(e, p) /\ ~Anew(p, e) /\ ~(e.what = "forget" /\ e.who = p)
      BY <2>2, <2>4 DEF IsKill, IsDeath, Anew
    <3> QED BY <1>1, <2>1, <3>1, <3>2, EntryKeeps DEF History
  <2> QED BY <2>3, <2>4
<1>6. ASSUME NEW g \in Names, Line(g), UNCHANGED log PROVE \A c \in Four : rec'[p][c] = rec[p][c]
  <2>1. CASE HasConnected(g)
    <3>1. rec' = [rec EXCEPT ![g] = [NewRec EXCEPT !["connects"] = 1]] /\ rec[g] = NewRec
      BY <2>1 DEF HasConnected, HInv
    <3> QED BY <1>1, <3>1 DEF NewRec, Counter
  <2>2. CASE HasLeft(g)
    BY <1>1, <2>2 DEF HasLeft, Record, Counter
  <2>3. CASE HasJoined(g)
    BY <1>1, <2>3 DEF HasJoined, Record, Counter
  <2>4. CASE CommittedSuicide(g)
    BY <1>1, <2>4 DEF CommittedSuicide, Record, Counter
  <2> QED BY <1>6, <2>1, <2>2, <2>3, <2>4 DEF Line
<1>7. ASSUME UNCHANGED <<rec, log>> PROVE History(rec[p], p)'
  BY <1>1, <1>7, SilentKeeps
<1>8. CASE MCNext
  BY <1>2, <1>3, <1>4, <1>5, <1>6, <1>7, <1>8
     DEF MCNext, DestroyedOther, GameStop, RosterUpdate, vars
<1>9. CASE UNCHANGED mcvars
  BY <1>7, <1>9 DEF mcvars, vars
<1> QED BY <1>8, <1>9

\* At first there is no history to follow.
LEMMA HistoryInit == MCInit => HInv
<1> SUFFICES ASSUME MCInit PROVE HInv
  OBVIOUS
<1>1. log = <<>> /\ log \in Seq(Entry) /\ Len(log) = 0 /\ rec = [p \in Names |-> NewRec]
  BY DEF MCInit, Init
<1>2. ASSUME NEW p \in Names PROVE History(rec[p], p)
  <2>1. Forgotten(p) = 0
    <3>1. {i \in 1..Len(log) : log[i].what = "forget" /\ log[i].who = p} = {}
      BY <1>1
    <3>2. Max({0}) = 0
      BY MaxIs
    <3>3. {0} \cup {} = {0}
      OBVIOUS
    <3> QED BY <3>1, <3>2, <3>3 DEF Forgotten
  <2>2. \A A, B : Streak(A, B, 0) = 0
    <3>1. \A A, B : {i \in 1..0 : i \in A /\ \A j \in i..0 : j \notin B} = {}
      OBVIOUS
    <3> QED BY <3>1, FS_EmptySet DEF Streak
  <2>3. \A A, B : Follows(0, 0, A, B, 0, 0)
    <3>1. 0..0 = {0}
      OBVIOUS
    <3> QED BY <2>2, <3>1 DEF Follows
  <2>4. /\ rec[p]["killStreak"] = 0 /\ rec[p]["longestKill"] = 0
        /\ rec[p]["deathStreak"] = 0 /\ rec[p]["longestDeath"] = 0
    BY <1>1 DEF NewRec, Counter
  <2> QED BY <1>1, <2>1, <2>3, <2>4 DEF History
<1> QED BY <1>1, <1>2 DEF HInv

\* The history invariant is inductive.
LEMMA HistoryKept == TypeOK /\ HInv /\ [MCNext]_mcvars => HInv'
<1> SUFFICES ASSUME TypeOK, HInv, [MCNext]_mcvars PROVE HInv'
  OBVIOUS
<1>1. \A p \in Names : History(rec[p], p)'
  BY LoggedKeeps
<1>2. log' \in Seq(Entry)
  <2>1. \A e \in Entry : Logged(e) => log' \in Seq(Entry)
    BY DEF HInv, Logged
  <2>2. \A k, v \in Names : [what |-> "kill", by |-> k, of |-> v] \in Entry
    BY DEF Entry
  <2>3. [what |-> "start", conn |-> conn] \in Entry
    BY DEF Entry, TypeOK
  <2>4. \A g \in Names : [what |-> "forget", who |-> g, rec |-> Score(rec[g])] \in Entry
    <3>1. \A g \in Names : Score(rec[g]) \in [{"kills", "deaths"} -> Nat]
      BY DEF Score, TypeOK, Counter
    <3> QED BY <3>1 DEF Entry
  <2> QED BY <2>1, <2>2, <2>3, <2>4 DEF MCNext, mcvars, HInv
<1>3. \A p \in Names \ known' : rec'[p] = NewRec
  <2>1. rec \in [Names -> Record] /\ known \subseteq Names /\ \A p \in Names \ known : rec[p] = NewRec
    BY DEF TypeOK, Record, HInv
  <2>2. CASE UNCHANGED vars
    BY <2>1, <2>2 DEF vars
  <2>3. ASSUME NEW g \in Names, Line(g) \/ Forget(g) PROVE <1>3!:
    BY <2>1, <2>3 DEF Line, HasConnected, HasLeft, HasJoined, CommittedSuicide, Forget
  <2>4. ASSUME NEW k \in Names, NEW v \in Names, Destroyed(k, v) PROVE <1>3!:
    BY <2>1, <2>4 DEF Destroyed
  <2>5. CASE GameStart
    <3>1. conn \subseteq known
      BY DEF TypeOK
    <3> QED BY <2>1, <2>5, <3>1 DEF GameStart
  <2>6. ASSUME UNCHANGED <<known, rec>> PROVE <1>3!:
    BY <2>1, <2>6
  <2> QED BY <2>2, <2>3, <2>4, <2>5, <2>6
          DEF MCNext, mcvars, vars, DestroyedOther, GameStop, RosterUpdate
<1> QED BY <1>1, <1>2, <1>3 DEF HInv

\* What the history invariant says is what StreaksMatchHistory says.
LEMMA HistoryShows == HInv => StreaksMatchHistory
<1> SUFFICES ASSUME HInv, NEW p \in Names
             PROVE  /\ rec[p]["killStreak"]   = KillRun(p, Len(log))
                    /\ rec[p]["deathStreak"]  = DeathRun(p, Len(log))
                    /\ rec[p]["longestKill"]  = Max({KillRun(p, n) : n \in Forgotten(p)..Len(log)})
                    /\ rec[p]["longestDeath"] = Max({DeathRun(p, n) : n \in Forgotten(p)..Len(log)})
  BY DEF StreaksMatchHistory
<1>1. Len(log) \in Nat /\ DOMAIN log = 1..Len(log)
  BY DEF HInv
<1>2. History(rec[p], p)
  BY DEF HInv
<1>3. Forgotten(p) \in 0..Len(log)
  BY <1>2 DEF History, Follows
<1>4. ASSUME NEW n \in 0..Len(log)
      PROVE  /\ KillRun(p, n) = Streak(Kills(p), KillEnds(p), n)
             /\ DeathRun(p, n) = Streak(Deaths(p), DeathEnds(p), n)
  <2>1. \A i \in 1..n : i \in DOMAIN log /\ \A j \in i..n : j \in DOMAIN log
    BY <1>1
  <2>2. {i \in 1..n : IsKill(log[i], p) /\ \A j \in i..n : ~IsDeath(log[j], p) /\ ~Anew(p, log[j])}
        = {i \in 1..n : i \in Kills(p) /\ \A j \in i..n : j \notin KillEnds(p)}
    BY <2>1 DEF Kills, KillEnds
  <2>3. {i \in 1..n : IsDeath(log[i], p) /\ \A j \in i..n : ~IsKill(log[j], p) /\ ~Anew(p, log[j])}
        = {i \in 1..n : i \in Deaths(p) /\ \A j \in i..n : j \notin DeathEnds(p)}
    BY <2>1 DEF Deaths, DeathEnds
  <2> QED BY <2>2, <2>3 DEF KillRun, DeathRun, Streak
<1>5. \A n \in Forgotten(p)..Len(log) : n \in 0..Len(log) /\ n \in Nat
  BY <1>1, <1>3
<1>6. Len(log) \in 0..Len(log)
  BY <1>1
<1>7. rec[p]["killStreak"] = KillRun(p, Len(log)) /\ rec[p]["deathStreak"] = DeathRun(p, Len(log))
  BY <1>2, <1>4, <1>6 DEF History, Follows
<1>8. rec[p]["longestKill"] = Max({KillRun(p, n) : n \in Forgotten(p)..Len(log)})
  <2> DEFINE S == {KillRun(p, n) : n \in Forgotten(p)..Len(log)}
  <2>1. \A n \in Forgotten(p)..Len(log) : KillRun(p, n) = Streak(Kills(p), KillEnds(p), n)
    BY <1>4, <1>5
  <2>2. \A n \in Forgotten(p)..Len(log) : KillRun(p, n) \in Nat
    BY <1>5, <2>1, StreakType
  <2>3. rec[p]["longestKill"] \in S /\ \A y \in S : y <= rec[p]["longestKill"]
    BY <1>2, <2>1 DEF History, Follows
  <2>4. S \in SUBSET Nat
    BY <2>2
  <2> HIDE DEF S
  <2>5. Max(S) = rec[p]["longestKill"]
    BY <2>3, <2>4, MaxIs
  <2> QED BY <2>5 DEF S
<1>9. rec[p]["longestDeath"] = Max({DeathRun(p, n) : n \in Forgotten(p)..Len(log)})
  <2> DEFINE S == {DeathRun(p, n) : n \in Forgotten(p)..Len(log)}
  <2>1. \A n \in Forgotten(p)..Len(log) : DeathRun(p, n) = Streak(Deaths(p), DeathEnds(p), n)
    BY <1>4, <1>5
  <2>2. \A n \in Forgotten(p)..Len(log) : DeathRun(p, n) \in Nat
    BY <1>5, <2>1, StreakType
  <2>3. rec[p]["longestDeath"] \in S /\ \A y \in S : y <= rec[p]["longestDeath"]
    BY <1>2, <2>1 DEF History, Follows
  <2>4. S \in SUBSET Nat
    BY <2>2
  <2> HIDE DEF S
  <2>5. Max(S) = rec[p]["longestDeath"]
    BY <2>3, <2>4, MaxIs
  <2> QED BY <2>5 DEF S
<1> QED BY <1>7, <1>8, <1>9

\* A step of Stats with its history is a step of Stats.
LEMMA MCIsStats == IInv /\ [MCNext]_mcvars => [Next]_vars
<1> SUFFICES ASSUME IInv, [MCNext]_mcvars PROVE [Next]_vars
  OBVIOUS
<1>1. \A p \in known : /\ p \in Names /\ conn \cup {p} \in SUBSET Names /\ conn \ {p} \in SUBSET Names
                      /\ bots \cup {p} \in SUBSET Names /\ bots \in SUBSET Names
  BY DEF IInv, TypeOK
<1>2. \A p \in known :
        (RosterUpdate(conn \cup {p}, bots) \/ RosterUpdate(conn \ {p}, bots \cup {p}))
          => \E c, b \in SUBSET Names : RosterUpdate(c, b)
  BY <1>1
<1> QED BY <1>2 DEF MCNext, Next, mcvars, vars

\* The streaks of every user, and the longest ever, are those of the history since
\* the record was made, for any names and a history of any length: what chatter and
\* game_start count line by line is the run of kills, or deaths, that nothing ended.
THEOREM StreaksAreHistory == MCSpec => []StreaksMatchHistory
<1>1. MCInit => IInv /\ HInv
  BY InitIInv, HistoryInit DEF MCInit
<1>2. IInv /\ HInv /\ [MCNext]_mcvars => (IInv /\ HInv)'
  BY MCIsStats, NextIInv, HistoryKept DEF IInv
<1> QED BY <1>1, <1>2, HistoryShows, PTL DEF MCSpec

----------------------------------------------------------------------------
\* Sums over finite sets.  There is no induction theorem to cite here, so each
\* fact is proved of a least set for which it fails.

\* Among subsets of a finite set, some one is minimal.
LEMMA LeastSubset ==
  ASSUME NEW S, IsFiniteSet(S), NEW B \in SUBSET (SUBSET S), B # {}
  PROVE  \E m \in B : \A t \in B : t \subseteq m => t = m
<1>1. IsWellFoundedOn(StrictSubsetOrdering(S), SUBSET S)
  BY FS_StrictSubsetOrderingWellFounded, FS_FiniteSubsetsOfFinite
<1>2. PICK m \in B : \A t \in B : <<t, m>> \notin StrictSubsetOrdering(S)
  BY <1>1, WFMin
<1>3. ASSUME NEW t \in B, t \subseteq m, t # m PROVE FALSE
  BY <1>2, <1>3 DEF StrictSubsetOrdering
<1> QED BY <1>3

\* The function by which a sum over S is computed, one chosen element at a time.
Pick(s) == CHOOSE x \in s : TRUE
Sums(h, g, S) == h = [s \in SUBSET S |-> IF s = {} THEN 0 ELSE g[Pick(s)] + h[s \ {Pick(s)}]]

\* Pick takes an element.
LEMMA PickIs == ASSUME NEW s, s # {} PROVE Pick(s) \in s
BY DEF Pick

\* There is at most one such function ...
LEMMA SumsUnique ==
  ASSUME NEW g, NEW S, NEW T, IsFiniteSet(S), NEW h, NEW k, Sums(h, g, S), Sums(k, g, T)
  PROVE  \A s \in SUBSET (S \cap T) : h[s] = k[s]
<1> DEFINE B == {s \in SUBSET (S \cap T) : h[s] # k[s]}
<1> SUFFICES ASSUME B # {} PROVE FALSE
  OBVIOUS
<1>1. IsFiniteSet(S \cap T)
  BY FS_Subset
<1>2. PICK m \in B : \A t \in B : t \subseteq m => t = m
  <2> HIDE DEF B
  <2>1. B \in SUBSET SUBSET (S \cap T)
    BY DEF B
  <2> QED BY <1>1, <2>1, LeastSubset
<1>3. m \in SUBSET S /\ m \in SUBSET T
  OBVIOUS
<1>4. /\ h[m] = IF m = {} THEN 0 ELSE g[Pick(m)] + h[m \ {Pick(m)}]
      /\ k[m] = IF m = {} THEN 0 ELSE g[Pick(m)] + k[m \ {Pick(m)}]
  BY <1>3 DEF Sums
<1>5. m # {} /\ h[m \ {Pick(m)}] # k[m \ {Pick(m)}]
  BY <1>4
<1>6. m \ {Pick(m)} \in B
  BY <1>3, <1>5
<1>7. Pick(m) \in m
  BY <1>5, PickIs
<1> QED BY <1>2, <1>6, <1>7

\* ... and there is one, as long as the set is finite.
LEMMA SumsExist ==
  ASSUME NEW g, NEW S, IsFiniteSet(S)
  PROVE  \E h : Sums(h, g, S)
<1> DEFINE B == {s \in SUBSET S : ~\E h : Sums(h, g, s)}
<1> SUFFICES ASSUME B # {} PROVE FALSE
  OBVIOUS
<1>1. PICK m \in B : \A t \in B : t \subseteq m => t = m
  <2> HIDE DEF B
  <2>1. B \in SUBSET SUBSET S
    BY DEF B
  <2> QED BY <2>1, LeastSubset
<1> DEFINE H(t) == CHOOSE h : Sums(h, g, t)
           val(t) == IF t = {} THEN 0 ELSE g[Pick(t)] + H(t \ {Pick(t)})[t \ {Pick(t)}]
           k == [t \in SUBSET m |-> val(t)]
<1>2. ASSUME NEW t \in SUBSET m, t # m PROVE Sums(H(t), g, t) /\ IsFiniteSet(t)
  <2>1. t \in SUBSET S /\ t \notin B
    BY <1>1, <1>2
  <2>2. \E h : Sums(h, g, t)
    BY <2>1
  <2> QED BY <2>1, <2>2, FS_Subset
<1> HIDE DEF H
<1>3. ASSUME NEW t \in SUBSET m, t # m PROVE H(t)[t] = val(t)
  <2>1. H(t)[t] = IF t = {} THEN 0 ELSE g[Pick(t)] + H(t)[t \ {Pick(t)}]
    BY <1>2, <1>3 DEF Sums
  <2>2. ASSUME t # {} PROVE H(t)[t \ {Pick(t)}] = H(t \ {Pick(t)})[t \ {Pick(t)}]
    <3> DEFINE r == t \ {Pick(t)}
    <3>1. r \in SUBSET m /\ r # m /\ r \in SUBSET (t \cap r)
      BY <2>2, PickIs
    <3>2. Sums(H(t), g, t) /\ Sums(H(r), g, r) /\ IsFiniteSet(t)
      BY <1>2, <1>3, <3>1
    <3> HIDE DEF r
    <3>3. H(t)[r] = H(r)[r]
      BY <3>1, <3>2, SumsUnique
    <3> QED BY <3>3 DEF r
  <2> QED BY <2>1, <2>2
<1>4. ASSUME NEW t \in SUBSET m, t # {} PROVE H(t \ {Pick(t)})[t \ {Pick(t)}] = k[t \ {Pick(t)}]
  <2>1. t \ {Pick(t)} \in SUBSET m /\ t \ {Pick(t)} # m
    BY <1>4, PickIs
  <2> HIDE DEF val
  <2> QED BY <1>3, <2>1
<1>5. k = [t \in SUBSET m |-> IF t = {} THEN 0 ELSE g[Pick(t)] + k[t \ {Pick(t)}]]
  <2>1. \A t \in SUBSET m : val(t) = IF t = {} THEN 0 ELSE g[Pick(t)] + k[t \ {Pick(t)}]
    <3> HIDE DEF k
    <3> QED BY <1>4
  <2> HIDE DEF val
  <2> QED BY <2>1
<1>6. Sums(k, g, m)
  <2> HIDE DEF k
  <2> QED BY <1>5 DEF Sums
<1> QED BY <1>6

\* SumFunctionOnSet computes by it ...
LEMMA SumIs ==
  ASSUME NEW g, NEW S, IsFiniteSet(S)
  PROVE  \E h : Sums(h, g, S) /\ SumFunctionOnSet(g, S) = h[S]
<1> DEFINE h == CHOOSE f : Sums(f, g, S)
<1>1. SumFunctionOnSet(g, S) = h[S]
  BY DEF SumFunctionOnSet, FoldFunctionOnSet, MapThenFoldSet, Sums, Pick
<1>2. Sums(h, g, S)
  BY SumsExist
<1> QED BY <1>1, <1>2

\* ... so a sum is that of one element and the rest.
LEMMA SumChosen ==
  ASSUME NEW g, NEW S, IsFiniteSet(S)
  PROVE  SumFunctionOnSet(g, S)
         = IF S = {} THEN 0 ELSE g[Pick(S)] + SumFunctionOnSet(g, S \ {Pick(S)})
<1> DEFINE T == S \ {Pick(S)}
<1>1. IsFiniteSet(T) /\ T \in SUBSET (S \cap T) /\ T \in SUBSET S
  BY FS_Subset
<1> HIDE DEF T
<1>2. PICK h : Sums(h, g, S) /\ SumFunctionOnSet(g, S) = h[S]
  BY SumIs
<1>3. PICK k : Sums(k, g, T) /\ SumFunctionOnSet(g, T) = k[T]
  BY <1>1, SumIs
<1>4. h[T] = k[T]
  BY <1>1, <1>2, <1>3, SumsUnique
<1>5. h[S] = IF S = {} THEN 0 ELSE g[Pick(S)] + h[T]
  BY <1>2 DEF Sums, T
<1> QED BY <1>2, <1>3, <1>4, <1>5 DEF T

\* Sums of natural numbers are natural numbers.
LEMMA SumNat ==
  ASSUME NEW S, IsFiniteSet(S), NEW g, \A x \in S : g[x] \in Nat
  PROVE  \A s \in SUBSET S : SumFunctionOnSet(g, s) \in Nat
<1> DEFINE B == {s \in SUBSET S : SumFunctionOnSet(g, s) \notin Nat}
<1> SUFFICES ASSUME B # {} PROVE FALSE
  OBVIOUS
<1>1. PICK m \in B : \A t \in B : t \subseteq m => t = m
  <2> HIDE DEF B
  <2>1. B \in SUBSET SUBSET S
    BY DEF B
  <2> QED BY <2>1, LeastSubset
<1> DEFINE r == m \ {Pick(m)}
<1>2. SumFunctionOnSet(g, m) = IF m = {} THEN 0 ELSE g[Pick(m)] + SumFunctionOnSet(g, r)
  BY SumChosen, FS_Subset
<1>3. m # {} => Pick(m) \in m
  BY PickIs
<1>4. m # {} => r \in SUBSET S /\ r \notin B
  BY <1>1, <1>3
<1>5. m # {} => g[Pick(m)] \in Nat /\ SumFunctionOnSet(g, r) \in Nat
  BY <1>3, <1>4
<1> HIDE DEF r
<1> QED BY <1>2, <1>5

\* A sum is any one of its numbers and the sum of the others.
LEMMA SumWithout ==
  ASSUME NEW S, IsFiniteSet(S), NEW g, \A x \in S : g[x] \in Nat
  PROVE  \A s \in SUBSET S : \A e \in s :
           SumFunctionOnSet(g, s) = g[e] + SumFunctionOnSet(g, s \ {e})
<1> DEFINE Sum(s) == SumFunctionOnSet(g, s)
           B == {s \in SUBSET S : \E e \in s : Sum(s) # g[e] + Sum(s \ {e})}
<1> SUFFICES ASSUME B # {} PROVE FALSE
  OBVIOUS
<1>1. PICK m \in B : \A t \in B : t \subseteq m => t = m
  <2> HIDE DEF B
  <2>1. B \in SUBSET SUBSET S
    BY DEF B
  <2> QED BY <2>1, LeastSubset
<1>2. PICK e \in m : Sum(m) # g[e] + Sum(m \ {e})
  OBVIOUS
<1> DEFINE x == Pick(m)
<1>3. x \in m /\ Sum(m) = g[x] + Sum(m \ {x})
  <2>1. IsFiniteSet(m) /\ m # {}
    BY <1>2, FS_Subset
  <2> QED BY <2>1, PickIs, SumChosen
<1> HIDE DEF x, Sum
<1>4. x # e
  BY <1>2, <1>3
<1>5. m \ {x} \in SUBSET S /\ m \ {x} \notin B /\ m \ {e} \in SUBSET S /\ m \ {e} \notin B
  BY <1>1, <1>2, <1>3
<1>6. /\ Sum(m \ {x}) = g[e] + Sum((m \ {x}) \ {e})
      /\ Sum(m \ {e}) = g[x] + Sum((m \ {e}) \ {x})
  BY <1>2, <1>3, <1>4, <1>5
<1>7. (m \ {x}) \ {e} = (m \ {e}) \ {x}
  OBVIOUS
<1>8. g[x] \in Nat /\ g[e] \in Nat /\ Sum((m \ {e}) \ {x}) \in Nat
  <2>1. (m \ {e}) \ {x} \in SUBSET S
    OBVIOUS
  <2> QED BY <1>2, <1>3, <2>1, SumNat DEF Sum
<1> QED BY <1>2, <1>3, <1>6, <1>7, <1>8

\* Functions that agree on a set have the same sum over it.
LEMMA SumSame ==
  ASSUME NEW S, IsFiniteSet(S), NEW g, NEW h, \A x \in S : g[x] = h[x]
  PROVE  SumFunctionOnSet(g, S) = SumFunctionOnSet(h, S)
<1> DEFINE B == {s \in SUBSET S : SumFunctionOnSet(g, s) # SumFunctionOnSet(h, s)}
<1> SUFFICES ASSUME B # {} PROVE FALSE
  OBVIOUS
<1>1. PICK m \in B : \A t \in B : t \subseteq m => t = m
  <2> HIDE DEF B
  <2>1. B \in SUBSET SUBSET S
    BY DEF B
  <2> QED BY <2>1, LeastSubset
<1> DEFINE r == m \ {Pick(m)}
<1>2. /\ SumFunctionOnSet(g, m) = IF m = {} THEN 0 ELSE g[Pick(m)] + SumFunctionOnSet(g, r)
      /\ SumFunctionOnSet(h, m) = IF m = {} THEN 0 ELSE h[Pick(m)] + SumFunctionOnSet(h, r)
  BY SumChosen, FS_Subset
<1>3. m # {} => Pick(m) \in m
  BY PickIs
<1>4. m # {} => r \in SUBSET S /\ r \notin B
  BY <1>1, <1>3
<1>5. m # {} => g[Pick(m)] = h[Pick(m)] /\ SumFunctionOnSet(g, r) = SumFunctionOnSet(h, r)
  BY <1>3, <1>4
<1> QED BY <1>2, <1>5

\* A sum of which one number changes.
LEMMA SumChange ==
  ASSUME NEW S, IsFiniteSet(S), NEW g \in [S -> Nat], NEW h \in [S -> Nat], NEW e \in S,
         \A x \in S \ {e} : h[x] = g[x]
  PROVE  /\ SumFunction(g) \in Nat /\ SumFunction(h) \in Nat
         /\ SumFunction(h) + g[e] = SumFunction(g) + h[e]
<1>1. SumFunction(g) = SumFunctionOnSet(g, S) /\ SumFunction(h) = SumFunctionOnSet(h, S)
  BY DEF SumFunction
<1>2. SumFunctionOnSet(g, S) \in Nat /\ SumFunctionOnSet(h, S) \in Nat
  BY SumNat
<1>3. /\ SumFunctionOnSet(g, S) = g[e] + SumFunctionOnSet(g, S \ {e})
      /\ SumFunctionOnSet(h, S) = h[e] + SumFunctionOnSet(h, S \ {e})
  BY SumWithout
<1>4. IsFiniteSet(S \ {e}) /\ S \ {e} \in SUBSET S
  BY FS_Subset
<1>5. SumFunctionOnSet(g, S \ {e}) = SumFunctionOnSet(h, S \ {e})
  BY <1>4, SumSame
<1>6. SumFunctionOnSet(g, S \ {e}) \in Nat /\ g[e] \in Nat /\ h[e] \in Nat
  BY <1>4, SumNat
<1> QED BY <1>1, <1>2, <1>3, <1>5, <1>6

\* A sum with one number more.
LEMMA SumLonger ==
  ASSUME NEW n \in Nat, NEW g \in [1..n -> Nat], NEW h \in [1..(n + 1) -> Nat],
         \A i \in 1..n : h[i] = g[i]
  PROVE  /\ SumFunction(g) \in Nat
         /\ SumFunction(h) = SumFunction(g) + h[n + 1]
<1>1. SumFunction(g) = SumFunctionOnSet(g, 1..n) /\ SumFunction(h) = SumFunctionOnSet(h, 1..(n + 1))
  BY DEF SumFunction
<1>2. IsFiniteSet(1..n) /\ IsFiniteSet(1..(n + 1))
  BY FS_Interval
<1>3. n + 1 \in 1..(n + 1) /\ (1..(n + 1)) \ {n + 1} = 1..n
  OBVIOUS
<1>4. SumFunctionOnSet(h, 1..(n + 1)) = h[n + 1] + SumFunctionOnSet(h, (1..(n + 1)) \ {n + 1})
  BY <1>2, <1>3, SumWithout
<1>5. SumFunctionOnSet(h, 1..n) = SumFunctionOnSet(g, 1..n)
  BY <1>2, SumSame
<1>6. SumFunctionOnSet(g, 1..n) \in Nat /\ h[n + 1] \in Nat
  BY <1>2, <1>3, SumNat
<1>7. SumFunctionOnSet(h, 1..(n + 1)) = h[n + 1] + SumFunctionOnSet(g, 1..n)
  BY <1>3, <1>4, <1>5, Zenon
<1> QED BY <1>1, <1>6, <1>7

----------------------------------------------------------------------------
\* Kills and deaths in all (MCStats).

Scored == {"kills", "deaths"}

\* What an entry takes out of the records for good.
Taken(e, c) == IF e.what = "forget" THEN e.rec[c] ELSE 0

\* One more entry in the log adds what it took to the sum of what was lost.
LEMMA LostStep ==
  ASSUME log \in Seq(Entry), NEW e \in Entry, log' = Append(log, e), NEW c \in Scored
  PROVE  /\ SumFunction(Lost(c)) \in Nat /\ Taken(e, c) \in Nat
         /\ SumFunction(Lost(c))' = SumFunction(Lost(c)) + Taken(e, c)
<1> DEFINE n == Len(log)
           g == Lost(c)
           h == [i \in DOMAIN log' |-> Taken(log'[i], c)]
<1>1. /\ n \in Nat /\ DOMAIN log = 1..n /\ DOMAIN log' = 1..(n + 1)
      /\ \A i \in 1..n : log'[i] = log[i] /\ log[i] \in Entry
      /\ log'[n + 1] = e
  OBVIOUS
<1>2. \A x \in Entry : Taken(x, c) \in Nat
  BY DEF Entry, Taken, Scored
<1>3. SumFunction(Lost(c))' = SumFunction(h)
  BY DEF Lost, Taken, SumFunction, SumFunctionOnSet, FoldFunctionOnSet, MapThenFoldSet
<1> HIDE DEF n
<1>4. g = [i \in 1..n |-> Taken(log[i], c)] /\ h = [i \in 1..(n + 1) |-> Taken(log'[i], c)]
  BY <1>1 DEF Lost, Taken
<1> HIDE DEF g, h
<1>5. n + 1 \in 1..(n + 1) /\ \A i \in 1..(n + 1) : i \in 1..n \/ i = n + 1
  BY <1>1
<1>6. /\ g \in [1..n -> Nat] /\ h \in [1..(n + 1) -> Nat]
      /\ \A i \in 1..n : h[i] = g[i]
      /\ h[n + 1] = Taken(e, c)
  BY <1>1, <1>2, <1>4, <1>5
<1>7. SumFunction(g) \in Nat /\ SumFunction(h) = SumFunction(g) + h[n + 1]
  BY <1>1, <1>6, SumLonger
<1> QED BY <1>2, <1>3, <1>6, <1>7 DEF g

\* A step that changes one user's record changes the sum by that user's difference.
LEMMA HeldStep ==
  ASSUME TypeOK, TypeOK', NEW c \in Scored, NEW e \in Names,
         \A p \in Names \ {e} : rec'[p][c] = rec[p][c]
  PROVE  /\ SumFunction(Held(c)) \in Nat /\ SumFunction(Held(c))' \in Nat
         /\ rec[e][c] \in Nat /\ rec'[e][c] \in Nat
         /\ SumFunction(Held(c))' + rec[e][c] = SumFunction(Held(c)) + rec'[e][c]
<1> DEFINE h == [p \in Names |-> rec'[p][c]]
<1>1. SumFunction(Held(c))' = SumFunction(h)
  BY DEF Held, SumFunction, SumFunctionOnSet, FoldFunctionOnSet, MapThenFoldSet
<1>2. /\ Held(c) \in [Names -> Nat] /\ h \in [Names -> Nat]
      /\ Held(c)[e] = rec[e][c] /\ h[e] = rec'[e][c]
      /\ \A x \in Names \ {e} : h[x] = Held(c)[x]
  BY DEF TypeOK, Held, Counter, Scored
<1> HIDE DEF h
<1> QED BY <1>1, <1>2, SumChange, MCStatsAssumption

\* One user's count is one more, nothing is taken: one more in all.
LEMMA Counted ==
  ASSUME TypeOK, TypeOK', HInv, NEW e \in Entry, e.what # "forget", log' = Append(log, e),
         NEW c \in Scored, NEW p \in Names, rec'[p][c] = rec[p][c] + 1,
         \A q \in Names \ {p} : rec'[q][c] = rec[q][c]
  PROVE  Total(c) \in Nat /\ Total(c)' = Total(c) + 1
<1>1. /\ SumFunction(Held(c)) \in Nat /\ SumFunction(Held(c))' \in Nat
      /\ rec[p][c] \in Nat /\ rec'[p][c] \in Nat
      /\ SumFunction(Held(c))' + rec[p][c] = SumFunction(Held(c)) + rec'[p][c]
  BY HeldStep
<1>2. /\ SumFunction(Lost(c)) \in Nat /\ Taken(e, c) = 0
      /\ SumFunction(Lost(c))' = SumFunction(Lost(c)) + Taken(e, c)
  BY LostStep DEF HInv, Taken
<1>3. SumFunction(Held(c))' = SumFunction(Held(c)) + 1
  BY <1>1
<1>4. SumFunction(Lost(c))' = SumFunction(Lost(c))
  BY <1>2
<1>5. Total(c)' = SumFunction(Held(c))' + SumFunction(Lost(c))'
  BY DEF Total
<1>6. Total(c) = SumFunction(Held(c)) + SumFunction(Lost(c))
  BY DEF Total
<1> QED BY <1>1, <1>2, <1>3, <1>4, <1>5, <1>6

\* Neither kills nor deaths change in a step that only notes the start of a match.
LEMMA NothingCounted ==
  ASSUME TypeOK, TypeOK', HInv, log' = log \/ \E e \in Entry : e.what # "forget" /\ log' = Append(log, e),
         NEW c \in Scored, \A q \in Names : rec'[q][c] = rec[q][c]
  PROVE  Total(c)' = Total(c)
<1>1. Held(c)' = Held(c)
  BY DEF Held
<1>2. SumFunction(Lost(c))' = SumFunction(Lost(c))
  <2>1. CASE log' = log
    <3>1. Lost(c)' = Lost(c)
      BY <2>1 DEF Lost
    <3> QED BY <3>1
  <2>2. ASSUME NEW e \in Entry, e.what # "forget", log' = Append(log, e)
        PROVE  SumFunction(Lost(c))' = SumFunction(Lost(c))
    <3>1. /\ SumFunction(Lost(c)) \in Nat /\ Taken(e, c) = 0
          /\ SumFunction(Lost(c))' = SumFunction(Lost(c)) + Taken(e, c)
      BY <2>2, LostStep DEF HInv, Taken
    <3> QED BY <3>1
  <2> QED BY <2>1, <2>2
<1> QED BY <1>1, <1>2 DEF Total

\* A record that is deleted leaves its score to the log.
LEMMA ScoreLeft ==
  ASSUME TypeOK, TypeOK', HInv, NEW p \in Names, Forget(p),
         Logged([what |-> "forget", who |-> p, rec |-> Score(rec[p])]), NEW c \in Scored
  PROVE  Total(c)' = Total(c)
<1> DEFINE e == [what |-> "forget", who |-> p, rec |-> Score(rec[p])]
<1>1. Score(rec[p]) \in [{"kills", "deaths"} -> Nat]
  BY DEF Score, TypeOK, Counter
<1>2. e \in Entry /\ log' = Append(log, e) /\ Taken(e, c) = rec[p][c]
  BY <1>1 DEF Entry, Logged, Taken, Score, Scored
<1>3. rec'[p][c] = 0 /\ \A q \in Names \ {p} : rec'[q][c] = rec[q][c]
  BY DEF Forget, TypeOK, NewRec, Counter, Scored
<1> HIDE DEF e
<1>4. /\ SumFunction(Held(c)) \in Nat /\ SumFunction(Held(c))' \in Nat
      /\ rec[p][c] \in Nat /\ rec'[p][c] \in Nat
      /\ SumFunction(Held(c))' + rec[p][c] = SumFunction(Held(c)) + rec'[p][c]
  BY <1>3, HeldStep
<1>5. /\ SumFunction(Lost(c)) \in Nat
      /\ SumFunction(Lost(c))' = SumFunction(Lost(c)) + rec[p][c]
  BY <1>2, LostStep DEF HInv
<1> QED BY <1>3, <1>4, <1>5 DEF Total

\* A kill is one kill and one death more; no other step changes what there is of
\* either in all.
LEMMA KillsMatchDeaths ==
  ASSUME TypeOK, TypeOK', HInv, [MCNext]_mcvars, KillsAreDeaths
  PROVE  KillsAreDeaths'
<1>1. ASSUME NEW k \in Names, NEW v \in Names, Destroyed(k, v),
             Logged([what |-> "kill", by |-> k, of |-> v])
      PROVE  KillsAreDeaths'
  <2> DEFINE e == [what |-> "kill", by |-> k, of |-> v]
  <2>1. e \in Entry /\ e.what # "forget" /\ log' = Append(log, e)
    BY <1>1 DEF Entry, Logged
  <2>2. /\ rec[k] \in Record /\ rec[v] \in Record
        /\ rec' = [rec EXCEPT ![k] = Credit(rec[k]), ![v] = Debit(rec[v])] /\ k # v
    BY <1>1 DEF Destroyed, TypeOK, Record
  <2>3. /\ Credit(rec[k])["kills"] = rec[k]["kills"] + 1
        /\ Credit(rec[k])["deaths"] = rec[k]["deaths"]
        /\ Debit(rec[v])["kills"] = rec[v]["kills"]
        /\ Debit(rec[v])["deaths"] = rec[v]["deaths"] + 1
    BY <2>2 DEF Credit, Debit, Record, Counter
  <2>4. /\ rec'[k] = Credit(rec[k]) /\ rec'[v] = Debit(rec[v])
        /\ \A q \in Names \ {k, v} : rec'[q] = rec[q]
    BY <2>2 DEF TypeOK
  <2>5. /\ rec'[k]["kills"] = rec[k]["kills"] + 1
        /\ \A q \in Names \ {k} : rec'[q]["kills"] = rec[q]["kills"]
        /\ rec'[v]["deaths"] = rec[v]["deaths"] + 1
        /\ \A q \in Names \ {v} : rec'[q]["deaths"] = rec[q]["deaths"]
    BY <2>3, <2>4
  <2> HIDE DEF e
  <2>6. "kills" \in Scored /\ "deaths" \in Scored
    BY DEF Scored
  <2>7. Total("kills")' = Total("kills") + 1
    BY <2>1, <2>5, <2>6, Counted
  <2>8. Total("deaths")' = Total("deaths") + 1
    BY <2>1, <2>5, <2>6, Counted
  <2> QED BY <2>7, <2>8 DEF KillsAreDeaths
<1>2. ASSUME log' = log \/ \E e \in Entry : e.what # "forget" /\ log' = Append(log, e),
             \A q \in Names : \A c \in Scored : rec'[q][c] = rec[q][c]
      PROVE  KillsAreDeaths'
  <2>1. \A c \in Scored : Total(c)' = Total(c)
    BY <1>2, NothingCounted
  <2>2. Total("kills")' = Total("kills") /\ Total("deaths")' = Total("deaths")
    BY <2>1 DEF Scored
  <2> QED BY <2>2 DEF KillsAreDeaths
<1>3. ASSUME NEW p \in Names, Forget(p),
             Logged([what |-> "forget", who |-> p, rec |-> Score(rec[p])])
      PROVE  KillsAreDeaths'
  <2>1. "kills" \in Scored /\ "deaths" \in Scored
    BY DEF Scored
  <2>2. Total("kills")' = Total("kills") /\ Total("deaths")' = Total("deaths")
    BY <1>3, <2>1, ScoreLeft
  <2> QED BY <2>2 DEF KillsAreDeaths
<1>4. CASE GameStart /\ Logged([what |-> "start", conn |-> conn])
  <2>1. \E e \in Entry : e.what # "forget" /\ log' = Append(log, e)
    BY <1>4 DEF Entry, Logged, TypeOK
  <2>2. \A q \in Names : rec'[q] = rec[q] \/ rec'[q] = NewMatch(rec[q])
    BY <1>4 DEF GameStart
  <2>3. \A q \in Names : \A c \in Scored : rec'[q][c] = rec[q][c]
    BY <2>2 DEF NewMatch, TypeOK, Counter, Scored
  <2> QED BY <1>2, <2>1, <2>3
<1>5. ASSUME NEW p \in Names, Line(p), UNCHANGED log PROVE KillsAreDeaths'
  <2>1. \A q \in Names : \A c \in Scored : rec'[q][c] = rec[q][c]
    <3>1. CASE HasConnected(p)
      <4>1. rec' = [rec EXCEPT ![p] = [NewRec EXCEPT !["connects"] = 1]] /\ rec[p] = NewRec
        BY <3>1 DEF HasConnected, HInv
      <4> QED BY <4>1 DEF NewRec, Counter, TypeOK, Scored
    <3>2. CASE HasLeft(p)
      BY <3>2 DEF HasLeft, TypeOK, Counter, Scored
    <3>3. CASE HasJoined(p)
      BY <3>3 DEF HasJoined, TypeOK, Counter, Scored
    <3>4. CASE CommittedSuicide(p)
      BY <3>4 DEF CommittedSuicide, TypeOK, Counter, Scored
    <3> QED BY <1>5, <3>1, <3>2, <3>3, <3>4 DEF Line
  <2> QED BY <1>2, <1>5, <2>1
<1>6. ASSUME UNCHANGED <<rec, log>> PROVE KillsAreDeaths'
  BY <1>2, <1>6
<1>7. CASE MCNext
  BY <1>1, <1>3, <1>4, <1>5, <1>6, <1>7
     DEF MCNext, DestroyedOther, GameStop, RosterUpdate, vars
<1> QED BY <1>6, <1>7 DEF mcvars, vars

\* No kill and no death at the start.
LEMMA NoneAtFirst == MCInit => KillsAreDeaths
<1> SUFFICES ASSUME MCInit PROVE KillsAreDeaths
  OBVIOUS
<1>1. Held("kills") = Held("deaths")
  BY DEF MCInit, Init, Held, NewRec, Counter
<1>2. Lost("kills") = Lost("deaths")
  BY DEF MCInit, Lost
<1> QED BY <1>1, <1>2 DEF KillsAreDeaths, Total

\* For any finite set of names and a history of any length: what is counted as kills
\* in all records, those that were deleted included, is what is counted as deaths
\* (chatter's line about a kill, delete_user).
THEOREM EveryKillIsADeath == MCSpec => []KillsAreDeaths
<1>1. MCInit => IInv /\ HInv /\ KillsAreDeaths
  BY InitIInv, HistoryInit, NoneAtFirst DEF MCInit
<1>2. IInv /\ HInv /\ KillsAreDeaths /\ [MCNext]_mcvars => (IInv /\ HInv /\ KillsAreDeaths)'
  BY MCIsStats, NextIInv, HistoryKept, KillsMatchDeaths DEF IInv
<1> QED BY <1>1, <1>2, PTL DEF MCSpec
=============================================================================
