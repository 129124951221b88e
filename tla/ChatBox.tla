------------------------------- MODULE ChatBox -------------------------------
(***************************************************************************)
(* GUI/Controls/ChatBox.pm: a text for the chat is cut into pieces at a    *)
(* separator, and each piece is put in the server's edit box and entered.  *)
(*                                                                         *)
(* A text is a sequence of characters.  ENTER goes through the input queue *)
(* of Windows: the server takes it later, and the bot, which presses until *)
(* it reads an empty box, may have pressed more often than was needed.     *)
(***************************************************************************)
EXTENDS Integers, Sequences, FiniteSetsExt

CONSTANTS Texts,    \* what the commands say
          Seps,     \* where they let it be cut: " " unless they name another
          Length,   \* 90
          MaxKeys,  \* bound on the ENTERs in the queue
          MaxLost   \* bound on the ENTERs that another window gets

ASSUME ChatBoxAssumption ==
  /\ Texts \subseteq Seq(STRING)
  /\ Seps \subseteq Seq(STRING) \ {<<>>}
  /\ Length \in Nat \ {0} /\ \A s \in Seps : Len(s) <= Length
  /\ MaxKeys \in Nat \ {0} /\ MaxLost \in Nat

VARIABLES
  pc,         \* of set_value: "idle", its "loop", in _send_value for a piece
              \* ("press") or for the last one ("last")
  text, sep,  \* $text, $char
  box,        \* what the edit box holds (external)
  keys,       \* ENTERs in the input queue (external)
  lost        \* how much of MaxLost is used up

vars == <<pc, text, sep, box, keys, lost>>

----------------------------------------------------------------------------
\* Perl: a string is false when it is empty or "0".
False(t) == t = <<>> \/ t = <<"0">>

Occurs(s, t, i) == i + Len(s) <= Len(t) /\ SubSeq(t, i + 1, i + Len(s)) = s

\* Mutant: looks one place too little to the right.
rindex_Short(t, s, n) ==
  LET places == {i \in 0..(n - 1) : Occurs(s, t, i)}
  IN IF places = {} THEN -1 ELSE Max(places)

\* The last place, counted from 0, at or before n where s begins in t.
rindex(t, s, n) ==
  LET places == {i \in 0..n : Occurs(s, t, i)}
  IN IF places = {} THEN -1 ELSE Max(places)

\* substr( $t, 0, $i ), which for -1 is all but the last character ...
Piece(t, s) ==
  LET i == rindex(t, s, Length)
  IN SubSeq(t, 1, IF i = -1 THEN Len(t) - 1 ELSE i)

\* Mutant: one character more than the separator is taken off.
Rest_TakesMore(t, s) == SubSeq(t, rindex(t, s, Length) + Len(s) + 2, Len(t))

\* ... and what is left when $i + length($char) characters are taken off.
Rest(t, s) == SubSeq(t, rindex(t, s, Length) + Len(s) + 1, Len(t))

----------------------------------------------------------------------------
\* Mutant: no default for a separator that was not given.
SetValue_NoDefault(t, s) ==
  /\ pc = "idle"
  /\ pc' = "loop" /\ text' = t /\ sep' = <<>>
  /\ UNCHANGED <<box, keys, lost>>

\* A command says something.
SetValue(t, s) ==
  /\ pc = "idle"
  /\ pc' = "loop" /\ text' = t /\ sep' = s
  /\ UNCHANGED <<box, keys, lost>>

\* What is short enough goes as it is, and ends the loop.
SendRest ==
  /\ pc = "loop" /\ ~False(text) /\ Len(text) < Length
  /\ box' = text /\ pc' = "last"
  /\ UNCHANGED <<text, sep, keys, lost>>

SendPiece ==
  /\ pc = "loop" /\ ~False(text) /\ Len(text) >= Length
  /\ box' = Piece(text, sep) /\ text' = Rest(text, sep)
  /\ pc' = "press"
  /\ UNCHANGED <<sep, keys, lost>>

Done ==
  /\ pc = "loop" /\ False(text)
  /\ pc' = "idle" /\ text' = <<>>
  /\ UNCHANGED <<sep, box, keys, lost>>

\* _send_value presses ENTER for as long as the box reads as true.
Press ==
  /\ pc \in {"press", "last"} /\ ~False(box)
  /\ keys < MaxKeys /\ keys' = keys + 1
  /\ UNCHANGED <<pc, text, sep, box, lost>>

\* Another window came to the front between SetFocus and SendKeys.
PressLost ==
  /\ pc \in {"press", "last"} /\ ~False(box)
  /\ lost < MaxLost /\ lost' = lost + 1
  /\ UNCHANGED <<pc, text, sep, box, keys>>

\* Mutant: goes on without waiting for the box to be empty.
Pressed_AtOnce ==
  /\ pc \in {"press", "last"}
  /\ IF pc = "last" THEN pc' = "idle" /\ text' = <<>>
                    ELSE pc' = "loop" /\ UNCHANGED text
  /\ UNCHANGED <<sep, box, keys, lost>>

Pressed ==
  /\ pc \in {"press", "last"} /\ False(box)
  /\ IF pc = "last" THEN pc' = "idle" /\ text' = <<>>
                    ELSE pc' = "loop" /\ UNCHANGED text
  /\ UNCHANGED <<sep, box, keys, lost>>

\* The server takes an ENTER: it says what the box holds, if anything.
Enter ==
  /\ keys > 0 /\ keys' = keys - 1
  /\ box' = <<>>
  /\ UNCHANGED <<pc, text, sep, lost>>

----------------------------------------------------------------------------
Bot == SendRest \/ SendPiece \/ Done \/ Press \/ Pressed

Init ==
  /\ pc = "idle" /\ text = <<>> /\ sep \in Seps
  /\ box = <<>> /\ keys = 0 /\ lost = 0

Next == \/ \E t \in Texts, s \in Seps : SetValue(t, s)
        \/ Bot \/ PressLost \/ Enter

Spec == Init /\ [][Next]_vars

\* The bot goes on, and the server works its input off.
Fairness == WF_vars(Bot) /\ WF_vars(Enter)

TypeOK ==
  /\ pc \in {"idle", "loop", "press", "last"}
  /\ text \in Seq(STRING) /\ sep \in Seps
  /\ box \in Seq(STRING)
  /\ keys \in 0..MaxKeys /\ lost \in 0..MaxLost
=============================================================================
