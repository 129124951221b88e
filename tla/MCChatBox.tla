------------------------------ MODULE MCChatBox ------------------------------
(***************************************************************************)
(* ChatBox with a history: the text of the last call, how much of it was   *)
(* cut off, the pieces put in the box and those the server said.           *)
(***************************************************************************)
EXTENDS ChatBox, SequencesExt

CONSTANT MaxPieces   \* how many pieces the history remembers

ASSUME MCChatBoxAssumption == MaxPieces \in Nat

VARIABLES orig, done, sent, said

history == <<orig, done, sent, said>>

MCSeps  == {<<" ">>, <<",", " ">>}
MCTexts == UNION {[1..n -> {"a", "0", " ", ","}] : n \in 0..5}

Remember(pieces, p) == IF Len(pieces) < MaxPieces THEN Append(pieces, p) ELSE pieces

\* What is in the box and was not said yet.
Waiting == IF box = <<>> THEN <<>> ELSE <<box>>

Begins == pc = "idle" /\ pc' = "loop"
Returns == pc # "idle" /\ pc' = "idle"
Cuts   == pc = "loop" /\ pc' = "press"
Sets   == pc = "loop" /\ pc' \in {"press", "last"} /\ box' # <<>>
Says   == pc' = pc /\ box # <<>> /\ box' = <<>>

MCInit == /\ Init
          /\ orig = <<>> /\ done = <<>> /\ sent = <<>> /\ said = <<>>
MCNext ==
  /\ Next
  /\ IF Begins \/ Returns
       THEN orig' = text' /\ done' = <<>> /\ sent' = Waiting /\ said' = <<>>
       ELSE /\ orig' = orig
            /\ done' = IF Cuts /\ Len(done) < Len(orig) THEN done \o box' \o sep ELSE done
            /\ sent' = IF Sets THEN Remember(sent, box') ELSE sent
            /\ said' = IF Says THEN Remember(said, box) ELSE said

MCSpec == MCInit /\ [][MCNext]_<<vars, history>>
MCFairSpec == MCSpec /\ Fairness

----------------------------------------------------------------------------
\* Every stretch of the text that is too long to be said has a place to cut it.
Breakable(t, s) ==
  \A p \in 0..(Len(t) - Length) : \E i \in p..(p + Length) : Occurs(s, t, i)

\* Of a text that can be cut, the pieces said, the separators between them and
\* what is left to say are the text, character by character (rindex and the two
\* substr of set_value, over all rounds of the loop).
Conserved == Breakable(orig, sep) => orig = done \o text

\* The server says each piece put in the box once, in order, whatever ENTERs came
\* late or went astray: the next piece never meets an old one in the box.  A piece
\* "0" reads as an empty box, and is the exception (_send_value).
OnceInOrder ==
  Len(sent) < MaxPieces /\ ~Contains(sent, <<"0">>) => said \o Waiting = sent

\* set_value returns, for every text that can be cut and, with a separator of more
\* than one character, for every text: something is taken off in each round.
Ends == Breakable(orig, sep) \/ Len(sep) > 1 ~> pc = "idle"
=============================================================================
