----------------------------- MODULE MCArguments -----------------------------
(***************************************************************************)
(* Arguments with all short texts, and with the texts a player types who   *)
(* means a given list of arguments.                                        *)
(***************************************************************************)
EXTENDS Arguments, SequencesExt

CONSTANTS MaxText,   \* bound on the length of an arbitrary text
          MaxArgs,   \* bound on the arguments a player means
          Bare,      \* what a player types as it is ...
          Inside     \* ... and what in quotes

\* A bare argument has no space in it and no quote in front, a quoted one no further
\* quote of its kind.
ASSUME MCArgumentsAssumption ==
  /\ MaxArgs \in Nat
  /\ Quotes \cup {" "} \subseteq Chars
  /\ \A w \in Bare : /\ w \in Seq(Chars) /\ w # <<>> /\ w[1] \notin Quotes
                     /\ \A i \in DOMAIN w : w[i] # " "
  /\ \A x \in Inside : x \in Seq(Chars) /\ \A i \in DOMAIN x : x[i] # "'"

Alphabet == {"a", "0", " "} \cup Quotes
MCBare   == {<<"a">>, <<"0">>, <<"a", "'">>}
MCInside == {<<>>, <<"0">>, <<"a", " ", "a">>, <<"\"", " ">>}

\* An argument as typed: bare, or in quotes.
Arg    == [quoted : {FALSE}, text : Bare] \cup [quoted : {TRUE}, text : Inside]
Lists  == UNION {[1..n -> Arg] : n \in 1..MaxArgs}

AsTyped(a) == IF a.quoted THEN <<"'">> \o a.text \o <<"'">> ELSE a.text
Joined(l)  == Tail(FlattenSeq([i \in DOMAIN l |-> <<" ">> \o AsTyped(l[i])]))

\* How the bot reads a list: each argument as it was meant, but for the last one.
\* If that is bare, it keeps the space behind a quoted one before it, and a "0" with
\* none before it is dropped.
Understood(l) ==
  LET meant == [i \in DOMAIN l |-> l[i].text]
      last  == l[Len(l)]
      after == \E i \in DOMAIN l : l[i].quoted
  IN IF last.quoted THEN meant
     ELSE IF after THEN Append(Front(meant), <<" ">> \o last.text)
     ELSE IF last.text = <<"0">> THEN Front(meant)
     ELSE meant
Readings == {[typed |-> Joined(l), args |-> Understood(l)] : l \in Lists}

MCTexts == BoundedSeq(Alphabet, MaxText) \cup {r.typed : r \in Readings}

----------------------------------------------------------------------------
\* What a player means is what the command is given, however bare and quoted
\* arguments follow each other, but for the two last arguments that Understood
\* names (parse_command, lines 45 to 63).
ReadAsMeant ==
  False(argsa) => \A r \in Readings : r.typed = typed => args = r.args

\* A text without its quotes and spaces.
Letters(t) ==
  LET kept[i \in 0..Len(t)] ==
        IF i = 0 THEN <<>>
        ELSE IF t[i] \in Quotes \cup {" "} THEN kept[i - 1]
        ELSE Append(kept[i - 1], t[i])
  IN kept[Len(t)]

\* In any text, well quoted or not, the arguments so far and the rest hold what was
\* typed, in its order: the rules take off nothing but quotes and spaces.
LettersKept == Letters(FlattenSeq(args)) \o Letters(argsa) = Letters(typed)
=============================================================================
