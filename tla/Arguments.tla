------------------------------ MODULE Arguments ------------------------------
(***************************************************************************)
(* The loop of parse_command (Commands.pm) that splits what follows the    *)
(* name of a command into arguments: text in quotes is one argument, other *)
(* arguments end at a space, and what no rule takes is one as it stands.   *)
(*                                                                         *)
(* A text is a sequence of characters; none of them is a backslash, which  *)
(* would escape a quote.                                                   *)
(***************************************************************************)
EXTENDS Integers, Sequences

CONSTANTS Chars,   \* the characters of the chat
          Texts    \* what may follow the name of a command

ASSUME ArgumentsAssumption == Texts \subseteq Seq(Chars)

VARIABLES
  typed,   \* $args
  argsa,   \* $argsa: what is still to be split
  args     \* @args

vars == <<typed, argsa, args>>

Quotes == {"'", "\""}

\* Perl: a string is false when it is empty or "0".
False(t) == t = <<>> \/ t = <<"0">>

Blank(t, first, last) == \A i \in first..last : t[i] = " "

\* Mutant: a quoted argument starts at the front or not at all.
Delimited_AtFront(t, q, b, e) ==
  /\ b = 1 /\ b < e /\ e <= Len(t) /\ t[b] = q /\ t[e] = q
  /\ \A i \in (b + 1)..(e - 1) : t[i] # q

\* extract_delimited of Text::Balanced: after any space, t[b..e] is the text between two
\* quotes, the second the first one that follows.
Delimited(t, q, b, e) ==
  /\ 1 <= b /\ b < e /\ e <= Len(t) /\ t[b] = q /\ t[e] = q
  /\ Blank(t, 1, b - 1)
  /\ \A i \in (b + 1)..(e - 1) : t[i] # q

\* s/([^ ]+) //: t[b..e] is the first word, and a space follows it.
FirstWord(t, b, e) ==
  /\ 1 <= b /\ b <= e /\ e < Len(t) /\ t[e + 1] = " "
  /\ Blank(t, 1, b - 1)
  /\ \A i \in b..e : t[i] # " "

Places == 1..Len(argsa)
HasQuoted == \E q \in Quotes : \E b, e \in Places : Delimited(argsa, q, b, e)
HasWord   == \E b, e \in Places : FirstWord(argsa, b, e)

----------------------------------------------------------------------------
\* Mutant: the quotes are taken off $args itself.
TakeQuoted_NoCopy ==
  /\ ~False(argsa)
  /\ \E q \in Quotes : \E b, e \in Places :
       /\ Delimited(argsa, q, b, e)
       /\ args'  = Append(args, SubSeq(argsa, b + 1, e - 1))
       /\ argsa' = SubSeq(argsa, e + 1, Len(argsa))
       /\ typed' = argsa'

\* The quotes, and the space before them, are taken off with the text.
TakeQuoted ==
  /\ ~False(argsa)
  /\ \E q \in Quotes : \E b, e \in Places :
       /\ Delimited(argsa, q, b, e)
       /\ args'  = Append(args, SubSeq(argsa, b + 1, e - 1))
       /\ argsa' = SubSeq(argsa, e + 1, Len(argsa))
  /\ UNCHANGED typed

\* Mutant: whatever stands behind the word is taken off, were it two spaces or not.
TakeWord_TakesMore ==
  /\ ~False(argsa) /\ ~HasQuoted
  /\ \E b, e \in Places :
       /\ FirstWord(argsa, b, e)
       /\ args'  = Append(args, SubSeq(argsa, b, e))
       /\ argsa' = SubSeq(argsa, e + 3, Len(argsa))
  /\ UNCHANGED typed

\* The word and the space behind it; a space before it stays.
TakeWord ==
  /\ ~False(argsa) /\ ~HasQuoted
  /\ \E b, e \in Places :
       /\ FirstWord(argsa, b, e)
       /\ args'  = Append(args, SubSeq(argsa, b, e))
       /\ argsa' = SubSeq(argsa, 1, b - 1) \o SubSeq(argsa, e + 2, Len(argsa))
  /\ UNCHANGED typed

\* Mutant: only a word is taken as it stands, so that blanks stay for ever.
TakeRest_WordOnly ==
  /\ ~False(argsa) /\ ~HasQuoted /\ ~HasWord
  /\ \A i \in Places : argsa[i] # " "
  /\ args' = Append(args, argsa) /\ argsa' = <<>>
  /\ UNCHANGED typed

TakeRest ==
  /\ ~False(argsa) /\ ~HasQuoted /\ ~HasWord
  /\ args' = Append(args, argsa) /\ argsa' = <<>>
  /\ UNCHANGED typed

----------------------------------------------------------------------------
Init == typed \in Texts /\ argsa = typed /\ args = <<>>

Next == TakeQuoted \/ TakeWord \/ TakeRest

Spec == Init /\ [][Next]_vars

\* The loop is one thread's: it goes on while it can.
FairSpec == Spec /\ WF_vars(Next)

TypeOK == /\ typed \in Texts
          /\ argsa \in Seq(Chars) /\ args \in Seq(Seq(Chars))

\* Every line of chat that starts like a command goes through the loop, whatever
\* quotes and blanks are in it: each round takes at least one character ...
Shrinks == [][Len(argsa') < Len(argsa)]_vars

\* ... and the loop ends, so that no line holds up the bot (while ( $argsa )).
Ends == <>[]False(argsa)
=============================================================================
