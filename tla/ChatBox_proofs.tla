--------------------------- MODULE ChatBox_proofs ----------------------------
(***************************************************************************)
(* The chat for any texts, separators and length, and however many ENTERs  *)
(* come late or go astray: nothing of a text is lost by the cutting, and   *)
(* the server says what it is given once and in order.                     *)
(***************************************************************************)
EXTENDS MCChatBox, FiniteSetTheorems, SequenceTheorems, TLAPS

\* Concatenation is associative, with the set of characters named so that the
\* provers can instantiate it.
LEMMA Associates ==
  ASSUME NEW s \in Seq(STRING), NEW t \in Seq(STRING), NEW u \in Seq(STRING)
  PROVE  (s \o t) \o u = s \o (t \o u)
BY ConcatAssociative

----------------------------------------------------------------------------
\* A non-empty set of places has a last one: of the intervals from a place to n,
\* one has none of the others in it.
LEMMA LastPlace ==
  ASSUME NEW n \in Nat, NEW I \in SUBSET (0..n), I # {}
  PROVE  Max(I) \in I
<1> DEFINE T == {i..n : i \in I}
           R == StrictSubsetOrdering(0..n)
<1>1. T \subseteq SUBSET (0..n) /\ T # {}
  <2>1. ASSUME NEW i \in I PROVE i..n \subseteq 0..n
    OBVIOUS
  <2> QED BY <2>1
<1>2. IsWellFoundedOn(R, SUBSET (0..n))
  <2>1. IsFiniteSet(0..n)
    BY FS_Interval
  <2> QED BY <2>1, FS_StrictSubsetOrderingWellFounded, FS_FiniteSubsetsOfFinite
<1>3. PICK m \in T : \A y \in T : ~(<<y, m>> \in R)
  <2> HIDE DEF T, R
  <2> QED BY <1>1, <1>2, WFMin
<1>4. PICK i \in I : m = i..n
  OBVIOUS
<1>5. ASSUME NEW j \in I, j > i PROVE FALSE
  <2>1. j..n \subseteq i..n /\ i \notin j..n /\ i \in i..n
    BY <1>5
  <2>2. <<j..n, m>> \in R
    BY <1>4, <2>1 DEF StrictSubsetOrdering
  <2> QED BY <1>3, <2>2
<1>6. \A j \in I : i >= j
  BY <1>5
<1> QED BY <1>6 DEF Max

\* rindex is -1, or a place at or before the length where the separator is.
LEMMA rindexType ==
  ASSUME NEW t \in Seq(STRING), NEW s \in Seq(STRING)
  PROVE  /\ rindex(t, s, Length) \in -1..Length
         /\ rindex(t, s, Length) # -1 => Occurs(s, t, rindex(t, s, Length))
         /\ (\E i \in 0..Length : Occurs(s, t, i)) => rindex(t, s, Length) # -1
<1> DEFINE I == {i \in 0..Length : Occurs(s, t, i)}
<1>0. Length \in Nat
  BY ChatBoxAssumption
<1>1. CASE I = {}
  BY <1>0, <1>1 DEF rindex
<1>2. CASE I # {}
  <2>1. I \in SUBSET (0..Length)
    OBVIOUS
  <2>2. Max(I) \in I
    <3> HIDE DEF I
    <3> QED BY <1>0, <1>2, <2>1, LastPlace
  <2>3. rindex(t, s, Length) = Max(I)
    BY <1>2 DEF rindex
  <2>4. Max(I) \in 0..Length /\ Occurs(s, t, Max(I))
    BY <2>2
  <2> HIDE DEF I
  <2> QED BY <1>0, <2>3, <2>4
<1> QED BY <1>1, <1>2

\* Pieces and rests are texts.
LEMMA CutType ==
  ASSUME NEW t \in Seq(STRING), NEW s \in Seq(STRING), s # <<>>
  PROVE  Piece(t, s) \in Seq(STRING) /\ Rest(t, s) \in Seq(STRING)
<1>1. rindex(t, s, Length) \in Int /\ rindex(t, s, Length) >= -1
  BY rindexType, ChatBoxAssumption
<1>2. rindex(t, s, Length) <= Len(t)
  <2>1. CASE rindex(t, s, Length) = -1
    BY <2>1
  <2>2. CASE rindex(t, s, Length) # -1
    BY <1>1, <2>2, rindexType DEF Occurs
  <2> QED BY <2>1, <2>2
<1>3. \A i \in DOMAIN t : t[i] \in STRING
  OBVIOUS
<1>4. Piece(t, s) \in Seq(STRING)
  <2> DEFINE n == IF rindex(t, s, Length) = -1 THEN Len(t) - 1 ELSE rindex(t, s, Length)
  <2>1. n \in Int /\ 1..n \subseteq DOMAIN t
    BY <1>1, <1>2
  <2>2. Piece(t, s) = SubSeq(t, 1, n)
    BY DEF Piece
  <2> HIDE DEF n
  <2> QED BY <1>3, <2>1, <2>2, SubSeqProperties
<1>5. Rest(t, s) \in Seq(STRING)
  <2> DEFINE m == rindex(t, s, Length) + Len(s) + 1
  <2>1. m \in Int /\ m..Len(t) \subseteq DOMAIN t /\ Len(t) \in Int
    BY <1>1
  <2>2. Rest(t, s) = SubSeq(t, m, Len(t))
    BY DEF Rest
  <2> HIDE DEF m
  <2> QED BY <1>3, <2>1, <2>2, SubSeqProperties
<1> QED BY <1>4, <1>5

\* Where there is a place to cut, nothing is lost by it.
LEMMA CutKeeps ==
  ASSUME NEW t \in Seq(STRING), NEW s \in Seq(STRING), s # <<>>,
         rindex(t, s, Length) # -1
  PROVE  t = (Piece(t, s) \o s) \o Rest(t, s)
<1> DEFINE r == rindex(t, s, Length)
<1>1. /\ r \in Nat
      /\ Occurs(s, t, r)
      /\ Piece(t, s) = SubSeq(t, 1, r)
      /\ Rest(t, s) = SubSeq(t, r + Len(s) + 1, Len(t))
  BY rindexType, ChatBoxAssumption DEF Piece, Rest
<1> HIDE DEF r
<1>2. /\ r + Len(s) <= Len(t)
      /\ SubSeq(t, r + 1, r + Len(s)) = s
      /\ Len(s) \in Nat /\ Len(t) \in Nat
  BY <1>1 DEF Occurs
<1>3. SubSeq(t, 1, r) \o SubSeq(t, r + 1, r + Len(s)) = SubSeq(t, 1, r + Len(s))
  <2>1. 1 \in 1..(Len(t) + 1) /\ r \in (1 - 1)..Len(t) /\ r + Len(s) \in r..Len(t)
    BY <1>1, <1>2
  <2> QED BY <2>1, ConcatAdjacentSubSeq
<1>4. SubSeq(t, 1, r + Len(s)) \o SubSeq(t, (r + Len(s)) + 1, Len(t)) = SubSeq(t, 1, Len(t))
  <2>1. 1 \in 1..(Len(t) + 1) /\ r + Len(s) \in (1 - 1)..Len(t) /\ Len(t) \in (r + Len(s))..Len(t)
    BY <1>1, <1>2
  <2> QED BY <2>1, ConcatAdjacentSubSeq
<1> QED BY <1>1, <1>2, <1>3, <1>4, SubSeqFull

\* A text that can be cut anywhere can be cut after some of it was taken off.
LEMMA StillBreakable ==
  ASSUME NEW d \in Seq(STRING), NEW t \in Seq(STRING), NEW s \in Seq(STRING),
         s # <<>>, Len(t) >= Length, Breakable(d \o t, s)
  PROVE  rindex(t, s, Length) # -1
<1>1. /\ Len(d) \in Nat /\ Len(t) \in Nat /\ Len(s) \in Nat \ {0} /\ Length \in Nat
      /\ Len(d \o t) = Len(d) + Len(t)
  BY ChatBoxAssumption, ConcatProperties
<1>2. PICK i \in Len(d)..(Len(d) + Length) : Occurs(s, d \o t, i)
  <2>1. Len(d) \in 0..(Len(d \o t) - Length)
    BY <1>1
  <2> QED BY <2>1 DEF Breakable
<1> DEFINE j == i - Len(d)
<1>3. j \in 0..Length /\ j + Len(s) <= Len(t)
  BY <1>1, <1>2 DEF Occurs
<1>4. SubSeq(d \o t, i + 1, i + Len(s)) = SubSeq(t, (i + 1) - Len(d), (i + Len(s)) - Len(d))
  <2>1. /\ i + 1 \in (Len(d) + 1)..(Len(d) + Len(t))
        /\ i + Len(s) \in (Len(d) + 1)..(Len(d) + Len(t))
    BY <1>1, <1>3
  <2> QED BY <2>1, SubSeqOfConcat2
<1>5. (i + 1) - Len(d) = j + 1 /\ (i + Len(s)) - Len(d) = j + Len(s)
  BY <1>1
<1>6. SubSeq(t, j + 1, j + Len(s)) = s
  BY <1>2, <1>4, <1>5 DEF Occurs
<1> HIDE DEF j
<1>7. Occurs(s, t, j)
  BY <1>3, <1>6 DEF Occurs
<1> QED BY <1>3, <1>7, rindexType

----------------------------------------------------------------------------
Strings == Seq(STRING)

HistoryTypeOK == /\ orig \in Seq(STRING) /\ done \in Seq(STRING)
                 /\ sent \in Seq(Strings) /\ said \in Seq(Strings)

\* Between two pieces the box reads as empty: _send_value waited for it.
Quiet == pc \in {"idle", "loop"} => False(box)

Typed == TypeOK /\ HistoryTypeOK

IInv == Typed /\ Quiet /\ Conserved /\ OnceInOrder

\* A separator is a text, and not an empty one.
LEMMA Separators ==
  ASSUME NEW s \in Seps PROVE s \in Seq(STRING) /\ s # <<>>
BY ChatBoxAssumption

\* The invariant holds before anything is said.
LEMMA Initial == MCInit => IInv
<1> SUFFICES ASSUME MCInit PROVE IInv
  OBVIOUS
<1>1. Typed /\ Quiet
  BY ChatBoxAssumption DEF MCInit, Init, Typed, TypeOK, HistoryTypeOK, Quiet, False
<1>2. Conserved
  BY DEF MCInit, Init, Conserved
<1>3. OnceInOrder
  BY DEF MCInit, Init, OnceInOrder, Waiting
<1> QED BY <1>1, <1>2, <1>3 DEF IInv

\* The steps of the bot, the server and other windows keep the types.
LEMMA TypingOfCode ==
  ASSUME TypeOK, [Next]_vars PROVE TypeOK'
<1>1. Seps \subseteq Seq(STRING) /\ Texts \subseteq Seq(STRING) /\ <<>> \in Seq(STRING)
  BY ChatBoxAssumption
<1>2. ASSUME NEW t \in Texts, NEW s \in Seps, SetValue(t, s) PROVE TypeOK'
  BY <1>1, <1>2 DEF SetValue, TypeOK
<1>3. ASSUME SendRest \/ Done \/ Pressed PROVE TypeOK'
  BY <1>1, <1>3 DEF SendRest, Done, Pressed, TypeOK
<1>4. ASSUME Enter PROVE TypeOK'
  BY <1>1, <1>4, ChatBoxAssumption DEF Enter, TypeOK
<1>5. ASSUME Press \/ PressLost PROVE TypeOK'
  BY <1>5, ChatBoxAssumption DEF Press, PressLost, TypeOK
<1>6. ASSUME SendPiece PROVE TypeOK'
  <2>1. box' \in Seq(STRING) /\ text' \in Seq(STRING)
    BY <1>6, CutType, Separators DEF SendPiece, TypeOK
  <2> QED BY <1>6, <2>1 DEF SendPiece, TypeOK
<1>7. ASSUME UNCHANGED vars PROVE TypeOK'
  BY <1>7 DEF vars, TypeOK
<1> QED BY <1>2, <1>3, <1>4, <1>5, <1>6, <1>7 DEF Next, Bot

\* A list of pieces with one more is a list of pieces.
LEMMA Remembers ==
  ASSUME NEW pieces \in Seq(Strings), NEW p \in Strings
  PROVE  Remember(pieces, p) \in Seq(Strings)
BY AppendProperties DEF Remember

\* What waits in the box is a list of texts.
LEMMA WaitingType ==
  ASSUME TypeOK PROVE Waiting \in Seq(Strings) /\ box \in Strings
<1>1. box \in Strings
  BY DEF TypeOK, Strings
<1> QED BY <1>1 DEF Waiting

\* And so do the histories, whatever is cut, entered or said.
LEMMA TypingOfHistory ==
  ASSUME Typed, MCNext, TypeOK' PROVE HistoryTypeOK'
<1>1. /\ Waiting \in Seq(Strings) /\ box \in Strings
      /\ box' \in Strings /\ text' \in Seq(STRING)
  BY WaitingType DEF Typed, TypeOK, Strings
<1>2. CASE Begins \/ Returns
  <2>1. orig' = text' /\ done' = <<>> /\ sent' = Waiting /\ said' = <<>>
    BY <1>2 DEF MCNext
  <2>2. <<>> \in Seq(STRING) /\ <<>> \in Seq(Strings)
    OBVIOUS
  <2> QED BY <1>1, <2>1, <2>2 DEF HistoryTypeOK
<1>3. CASE ~(Begins \/ Returns)
  <2>1. orig' \in Seq(STRING)
    BY <1>3 DEF MCNext, Typed, HistoryTypeOK
  <2>2. done' \in Seq(STRING)
    <3>1. done \o box' \o sep \in Seq(STRING) /\ done \in Seq(STRING)
      <4>1. done \in Seq(STRING) /\ box' \in Seq(STRING) /\ sep \in Seq(STRING)
        BY Separators DEF Typed, HistoryTypeOK, TypeOK
      <4> QED BY <4>1, ConcatProperties
    <3> QED BY <1>3, <3>1 DEF MCNext
  <2>3. sent' \in Seq(Strings) /\ said' \in Seq(Strings)
    BY <1>1, <1>3, Remembers DEF MCNext, Typed, HistoryTypeOK
  <2> QED BY <2>1, <2>2, <2>3 DEF HistoryTypeOK
<1> QED BY <1>2, <1>3

\* A step that leaves _send_value leaves an empty box or a "0".
LEMMA QuietStep ==
  ASSUME Typed, Quiet, Next PROVE Quiet'
<1>1. CASE \E t \in Texts, s \in Seps : SetValue(t, s)
  BY <1>1 DEF SetValue, Quiet, False
<1>2. CASE SendRest \/ SendPiece \/ Done
  BY <1>2 DEF SendRest, SendPiece, Done, Quiet, False
<1>3. CASE Press \/ PressLost \/ Pressed \/ Enter
  BY <1>3 DEF Press, PressLost, Pressed, Enter, Quiet, False
<1> QED BY <1>1, <1>2, <1>3 DEF Next, Bot

----------------------------------------------------------------------------
\* What is taken off by a round of the loop is what is put on the list.
LEMMA ConservedStep ==
  ASSUME Typed, Conserved, MCNext PROVE Conserved'
<1>0. /\ text \in Seq(STRING) /\ sep \in Seq(STRING) /\ sep # <<>>
      /\ orig \in Seq(STRING) /\ done \in Seq(STRING)
  BY Separators DEF Typed, TypeOK, HistoryTypeOK
<1>1. CASE SendPiece
  <2>0. ~Begins /\ ~Returns /\ Cuts
    BY <1>1 DEF SendPiece, Begins, Returns, Cuts
  <2>1. SUFFICES ASSUME Breakable(orig, sep) PROVE orig = done' \o text'
    BY <1>1, <2>0 DEF MCNext, SendPiece, Conserved
  <2>2. orig = done \o text
    BY <2>1 DEF Conserved
  <2>3. Len(text) >= Length /\ box' = Piece(text, sep) /\ text' = Rest(text, sep)
    BY <1>1 DEF SendPiece
  <2>4. rindex(text, sep, Length) # -1
    BY <1>0, <2>1, <2>2, <2>3, StillBreakable
  <2>5. text = (box' \o sep) \o text'
    BY <1>0, <2>3, <2>4, CutKeeps
  <2>6. box' \in Seq(STRING) /\ text' \in Seq(STRING)
    BY <1>0, <2>3, CutType
  <2>7. Len(done) < Len(orig)
    <3>1. Len(orig) = Len(done) + Len(text) /\ Length \in Nat \ {0}
      BY <1>0, <2>2, ConcatProperties, ChatBoxAssumption
    <3> QED BY <1>0, <2>3, <3>1
  <2>8. done' = (done \o box') \o sep
    BY <2>0, <2>7 DEF MCNext
  <2>9. box' \o sep \in Seq(STRING)
    BY <1>0, <2>6, ConcatProperties
  <2>10. (done \o box') \o sep = done \o (box' \o sep)
    BY <1>0, <2>6, ConcatAssociative
  <2>11. done \in Seq(STRING)
    BY <1>0
  <2>12. (done \o (box' \o sep)) \o text' = done \o ((box' \o sep) \o text')
    BY <2>6, <2>9, <2>11, Associates
  <2> QED BY <2>2, <2>5, <2>8, <2>10, <2>12
<1>2. CASE Begins \/ Returns
  <2>1. orig' = text' /\ done' = <<>>
    BY <1>2 DEF MCNext
  <2>2. text' \in Seq(STRING)
    BY TypingOfCode DEF MCNext, Typed, TypeOK
  <2> QED BY <2>1, <2>2, ConcatEmptySeq DEF Conserved
<1>3. CASE ~SendPiece /\ ~(Begins \/ Returns)
  <2>1. text' = text /\ sep' = sep /\ ~Cuts
    <3>1. \A t \in Texts, s \in Seps : ~SetValue(t, s)
      BY <1>3 DEF SetValue, Begins
    <3>2. CASE SendRest \/ Done
      BY <1>3, <3>2 DEF SendRest, Done, Returns, Cuts
    <3>3. CASE Pressed
      BY <1>3, <3>3 DEF Pressed, Returns, Cuts
    <3>4. CASE Press \/ PressLost \/ Enter
      BY <3>4 DEF Press, PressLost, Enter, Cuts
    <3> QED BY <1>3, <3>1, <3>2, <3>3, <3>4 DEF MCNext, Next, Bot
  <2>2. orig' = orig /\ done' = done
    BY <1>3, <2>1 DEF MCNext
  <2> QED BY <2>1, <2>2 DEF Conserved, Breakable, Occurs
<1> QED BY <1>1, <1>2, <1>3

----------------------------------------------------------------------------
\* Nothing is put in a box that still holds a piece, so none is said out of turn.
LEMMA OnceInOrderStep ==
  ASSUME Typed, Quiet, OnceInOrder, MCNext, TypeOK' PROVE OnceInOrder'
<1>0. /\ box \in Strings /\ box' \in Strings
      /\ sent \in Seq(Strings) /\ said \in Seq(Strings)
      /\ Waiting \in Seq(Strings) /\ Waiting' \in Seq(Strings)
  <2>1. (Waiting \in Seq(Strings) /\ box \in Strings)'
    BY WaitingType, PTL
  <2> QED BY <2>1, WaitingType DEF Typed, HistoryTypeOK
<1>1. CASE Begins \/ Returns
  <2>1. box' = box
    BY <1>1 DEF MCNext, Next, Bot, SetValue, SendRest, SendPiece, Done, Press, PressLost,
                Pressed, Enter, Begins, Returns
  <2>2. sent' = Waiting' /\ said' = <<>>
    BY <1>1, <2>1 DEF MCNext, Waiting
  <2> QED BY <1>0, <2>2, ConcatEmptySeq DEF OnceInOrder
<1>2. CASE Sets
  <2>0. ~Begins /\ ~Returns /\ ~Says /\ said' = said /\ sent' = Remember(sent, box')
    <3>1. ~Begins /\ ~Returns /\ ~Says
      BY <1>2 DEF Sets, Begins, Returns, Says
    <3> QED BY <1>2, <3>1 DEF MCNext
  <2>1. SUFFICES ASSUME Len(sent') < MaxPieces, ~Contains(sent', <<"0">>)
                 PROVE  said' \o Waiting' = sent'
    BY DEF OnceInOrder
  <2>2. Len(sent) < MaxPieces /\ sent' = Append(sent, box')
    BY <2>0, <2>1 DEF Remember
  <2>3. ~Contains(sent, <<"0">>)
    <3>1. /\ Len(sent') = Len(sent) + 1 /\ Len(sent) \in Nat
          /\ \A i \in 1..Len(sent) : sent'[i] = sent[i]
      BY <1>0, <2>2, AppendProperties
    <3> QED BY <2>1, <3>1 DEF Contains
  <2>4. said \o Waiting = sent
    BY <2>2, <2>3 DEF OnceInOrder
  <2>5. box = <<>>
    <3>1. SUFFICES ASSUME box = <<"0">> PROVE FALSE
      BY <1>2 DEF Quiet, Sets, False
    <3>2. Waiting = <<box>> /\ Len(said) \in Nat
      BY <1>0, <3>1 DEF Waiting
    <3>3. sent[Len(said) + 1] = <<"0">> /\ Len(said) + 1 \in 1..Len(sent)
      BY <1>0, <2>4, <3>1, <3>2, ConcatProperties
    <3> QED BY <2>3, <3>3 DEF Contains
  <2>6. said = sent
    BY <1>0, <2>4, <2>5, ConcatEmptySeq DEF Waiting
  <2>7. Waiting' = <<box'>>
    BY <1>2 DEF Sets, Waiting
  <2> QED BY <1>0, <2>0, <2>2, <2>6, <2>7, AppendIsConcat
<1>3. CASE Says
  <2>0. ~Begins /\ ~Returns /\ ~Sets /\ sent' = sent /\ said' = Remember(said, box)
    <3>1. ~Begins /\ ~Returns /\ ~Sets
      BY <1>3 DEF Sets, Begins, Returns, Says
    <3> QED BY <1>3, <3>1 DEF MCNext
  <2>1. SUFFICES ASSUME Len(sent) < MaxPieces, ~Contains(sent, <<"0">>)
                 PROVE  said' \o Waiting' = sent
    BY <2>0 DEF OnceInOrder
  <2>2. said \o Waiting = sent /\ Waiting = <<box>> /\ Waiting' = <<>>
    BY <1>3, <2>1 DEF OnceInOrder, Says, Waiting
  <2>3. Len(sent) = Len(said) + 1
    BY <1>0, <2>2, ConcatProperties
  <2>4. said' = Append(said, box)
    BY <1>0, <2>0, <2>1, <2>3, MCChatBoxAssumption DEF Remember
  <2> QED BY <1>0, <2>2, <2>4, AppendIsConcat, AppendProperties, ConcatEmptySeq
<1>4. CASE ~(Begins \/ Returns) /\ ~Sets /\ ~Says
  <2>1. sent' = sent /\ said' = said
    BY <1>4 DEF MCNext
  <2>2. CASE box' = box
    BY <2>1, <2>2 DEF OnceInOrder, Waiting
  <2>3. CASE box' # box
    <3>1. SendRest \/ SendPiece \/ Enter
      BY <2>3 DEF MCNext, Next, Bot, SetValue, Done, Press, PressLost, Pressed
    <3>2. (SendRest \/ SendPiece) /\ box' = <<>>
      BY <1>4, <2>3, <3>1 DEF Sets, Says, SendRest, SendPiece, Enter
    <3>3. box = <<"0">>
      BY <2>3, <3>2 DEF Quiet, False, SendRest, SendPiece
    <3>4. Len(said) \in Nat /\ Waiting = <<box>>
      BY <1>0, <3>3 DEF Waiting
    <3>5. ASSUME said \o Waiting = sent PROVE Contains(sent, <<"0">>)
      <4>1. sent[Len(said) + 1] = <<"0">> /\ Len(said) + 1 \in 1..Len(sent)
        BY <1>0, <3>3, <3>4, <3>5, ConcatProperties
      <4> QED BY <4>1 DEF Contains
    <3> QED BY <2>1, <3>5 DEF OnceInOrder
  <2> QED BY <2>2, <2>3
<1> QED BY <1>1, <1>2, <1>3, <1>4

\* Every step keeps all of the invariant.
LEMMA Inductive == IInv /\ [MCNext]_<<vars, history>> => IInv'
<1> SUFFICES ASSUME IInv, [MCNext]_<<vars, history>> PROVE IInv'
  OBVIOUS
<1>1. CASE MCNext
  <2>1. TypeOK'
    BY <1>1, TypingOfCode DEF IInv, Typed, MCNext
  <2>2. Typed' /\ Quiet' /\ Conserved' /\ OnceInOrder'
    BY <1>1, <2>1, TypingOfHistory, QuietStep, ConservedStep, OnceInOrderStep
       DEF IInv, Typed, MCNext
  <2> QED BY <2>2 DEF IInv
<1>2. CASE UNCHANGED <<vars, history>>
  BY <1>2 DEF vars, history, IInv, Typed, TypeOK, HistoryTypeOK, Quiet, Conserved,
              Breakable, Occurs, OnceInOrder, Waiting
<1> QED BY <1>1, <1>2

\* The invariant holds however texts, ENTERs and lost ENTERs follow each other.
THEOREM Invariance == MCSpec => []IInv
BY Initial, Inductive, PTL DEF MCSpec

----------------------------------------------------------------------------
\* TypeOK of ChatBox.
THEOREM TypeCorrect == Spec => []TypeOK
<1>1. Init => TypeOK
  BY ChatBoxAssumption DEF Init, TypeOK
<1>2. TypeOK /\ [Next]_vars => TypeOK'
  BY TypingOfCode
<1> QED BY <1>1, <1>2, PTL DEF Spec

\* Conserved, for texts of every length: whatever is cut, nothing is lost.
THEOREM TextIsConserved == MCSpec => []Conserved
BY Invariance, PTL DEF IInv

\* OnceInOrder, for however many ENTERs: no piece is said twice, skipped or passed.
THEOREM PiecesOnceInOrder == MCSpec => []OnceInOrder
BY Invariance, PTL DEF IInv
=============================================================================
